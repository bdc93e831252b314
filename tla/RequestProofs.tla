---------------------------- MODULE RequestProofs ----------------------------
(***************************************************************************)
(* A request proved for every value of the constants, in two parts.        *)
(*                                                                         *)
(* CompilePath, for any number of threads, requests and changes: the       *)
(* variables keep their types, every answer has what was acknowledged      *)
(* before it was asked for, and its semantic evidence is of its own graph, *)
(* or the receipt says what is missing.  The second cannot be shown of one *)
(* request at a time: an answer may have been compiled by another request, *)
(* long ago, and is found by its key only.  The invariant therefore        *)
(* relates every request that has a key to every other that has a graph    *)
(* under the same key, and to every entry stored under it.                 *)
(* Foreign graphs have an invariant of their own, because less of them is  *)
(* signed than is read.                                                    *)
(*                                                                         *)
(* Retrieval, for any graph and request: a packet is sound, a reverse      *)
(* lookup spends its budget on direct answers first, and a larger budget   *)
(* extends a path packet.  First come facts about what the searches are    *)
(* built from (sizes, sort keys, recursions on numbers), then each step of *)
(* a search as what it does to any packet, then the invariants.            *)
(***************************************************************************)
EXTENDS CompilePath, Retrieval, FiniteSetTheorems, FunctionTheorems, WellFoundedInduction, TLAPS

\* A thread that asks nothing has its type.
LEMMA IdleTyped == Idle \in Local /\ Idle.at = "idle"
  BY DEF Idle, Local, NoRequest, RequestType, NoGraph, Graphs, NoView, Views, NoIndex, Indexes,
         Acknowledgements, Signatures

\* The initial state has its types.
LEMMA InitTyped == Init => TypeOK
  <1> SUFFICES ASSUME Init PROVE TypeOK OBVIOUS
  <1>1. query \in [Queries -> Local]
    BY IdleTyped DEF Init
  <1>2. graph \in Graphs /\ manifest \in [version : Nat, updated_at : Nat]
    BY DEF Init, NoGraph, Graphs
  <1>3. index \in Indexes /\ memo \in Indexes
    BY DEF Init, NoIndex, Indexes
  <1>4. notes \in Nat /\ foreign \in Graphs
    BY DEF Init, NoGraph, Graphs
  <1> QED BY <1>1, <1>2, <1>3, <1>4 DEF Init, TypeOK

\* What the world does keeps the types.
LEMMA WorldTyped == TypeOK /\ World => TypeOK'
  <1> SUFFICES ASSUME TypeOK, World PROVE TypeOK' OBVIOUS
  <1> USE DEF TypeOK, Graphs, Indexes
  <1>1. CASE HookSavesGraph
    BY <1>1 DEF HookSavesGraph, Saved, Saves
  <1>2. CASE HookSavesManifest
    BY <1>2 DEF HookSavesManifest, ManifestSaved
  <1>3. CASE HookDies
    BY <1>3 DEF HookDies
  <1>4. CASE RebuildIndex
    BY <1>4 DEF RebuildIndex, Written
  <1>5. CASE Remember
    BY <1>5 DEF Remember
  <1>6. CASE ForeignSaves
    BY <1>6 DEF ForeignSaves, Saves
  <1> QED BY <1>1, <1>2, <1>3, <1>4, <1>5, <1>6 DEF World

\* A request whose new local state is typed leaves all of them typed.
LEMMA BecomeTyped ==
  ASSUME TypeOK, NEW q \in Queries, NEW new \in Local, Become(q, new)
  PROVE  query' \in [Queries -> Local]
  BY DEF TypeOK, Become

\* The preparation of a request keeps the types.
LEMMA PrepareTyped ==
  ASSUME TypeOK, NEW q \in Queries, Prepare(q) PROVE TypeOK'
  <1> query[q] \in Local /\ query[q] = query[q]
    BY DEF TypeOK
  <1>1. CASE Ask(q)
    <2>1. PICK req \in Requests :
            Become(q, [Idle EXCEPT !.at = IF req.refresh THEN "refresh" ELSE "sign",
                                   !.req = req, !.begun = Acknowledged,
                                   !.measured = IF req.refresh THEN 0 ELSE manifest.updated_at])
      BY <1>1 DEF Ask
    <2>2. req \in RequestType /\ Acknowledged \in Acknowledgements
          /\ manifest.updated_at \in Nat
      BY RequestAssumption DEF TypeOK, Acknowledged, Acknowledgements, Indexes
    <2>3. [Idle EXCEPT !.at = IF req.refresh THEN "refresh" ELSE "sign",
                       !.req = req, !.begun = Acknowledged,
                       !.measured = IF req.refresh THEN 0 ELSE manifest.updated_at] \in Local
      BY <2>2, IdleTyped DEF Local
    <2>4. query' \in [Queries -> Local]
      BY <2>1, <2>3, BecomeTyped
    <2> QED BY <1>1, <2>4 DEF Ask, TypeOK, state
  <1>2. CASE RefreshNothing(q)
    BY <1>2 DEF RefreshNothing, Goto, Unchanged, state, TypeOK, Local
  <1>3. CASE RefreshGraph(q)
    <2>1. graph' \in Graphs
      BY <1>3 DEF RefreshGraph, Saved, Saves, TypeOK, Graphs
    <2>2. [query[q] EXCEPT !.at = "refreshed", !.graph = graph', !.resident = TRUE] \in Local
      BY <2>1 DEF Local
    <2>3. query' \in [Queries -> Local]
      BY <1>3, <2>2, BecomeTyped DEF RefreshGraph
    <2> QED BY <1>3, <2>1, <2>3 DEF RefreshGraph, TypeOK
  <1>4. CASE RefreshManifest(q)
    BY <1>4 DEF RefreshManifest, ManifestSaved, Goto, TypeOK, Local, Graphs
  <1>5. CASE Inspect(q)
    <2>1. [query[q] EXCEPT !.at = "sign", !.measured = manifest.updated_at] \in Local
      BY DEF Local, TypeOK
    <2> QED BY <1>5, <2>1, BecomeTyped DEF Inspect, Unchanged, state, TypeOK
  <1>6. CASE Sign(q)
    <2>1. SourceState \in Signatures
      BY DEF SourceState, Signatures, TypeOK, Indexes, Graphs
    <2>2. [query[q] EXCEPT !.at = "lookup", !.sources = SourceState] \in Local
      BY <2>1 DEF Local
    <2> QED BY <1>6, <2>2, BecomeTyped DEF Sign, Unchanged, state, TypeOK
  <1> QED BY <1>1, <1>2, <1>3, <1>4, <1>5, <1>6 DEF Prepare

\* The look-up keeps the types.
LEMMA CachedTyped ==
  ASSUME TypeOK, NEW q \in Queries, Cached(q) PROVE TypeOK'
  <1>1. query[q] \in Local
    BY DEF TypeOK
  <1>2. \A used \in Graphs : Planned(q, used) \in Local
    BY <1>1 DEF Planned, Local, Views, Graphs
  <1>3. CASE UseResident(q)
    <2>1. Planned(q, query[q].graph) \in Local
      BY <1>1, <1>2 DEF Local
    <2> QED BY <1>3, <2>1, BecomeTyped DEF UseResident, Unchanged, state, TypeOK
  <1>4. CASE Bypass(q)
    BY <1>4, <1>1 DEF Bypass, Goto, Unchanged, state, TypeOK, Local
  <1>5. CASE Hit(q)
    <2>1. PICK e \in Valid(q) : Become(q, Answered(q, e.view))
      BY <1>5 DEF Hit
    <2>2. e.view \in Views
      BY DEF Valid, Entries, TypeOK, Entry
    <2>3. Answered(q, e.view) \in Local
      BY <1>1, <2>2, IdleTyped DEF Answered, Local, Req
    <2> QED BY <1>5, <2>1, <2>3, BecomeTyped DEF Hit, Unchanged, state, TypeOK
  <1>6. CASE Miss(q)
    BY <1>6, <1>1 DEF Miss, Goto, TypeOK, Local
  <1>7. CASE Load(q)
    <2>1. Planned(q, graph) \in Local
      BY <1>2 DEF TypeOK
    <2> QED BY <1>7, <2>1, BecomeTyped DEF Load, Unchanged, state, TypeOK
  <1> QED BY <1>3, <1>4, <1>5, <1>6, <1>7 DEF Cached

\* A warning, and the use of an index, keep a request's type.
LEMMA WarnedTyped ==
  ASSUME TypeOK, NEW q \in Queries, NEW source \in {"semantic", "auxiliary", "foreign"}
  PROVE  Warned(q, source) \in Local
  <1>1. query[q] \in Local
    BY DEF TypeOK
  <1>2. query[q].view \in Views
    BY <1>1 DEF Local
  <1>3. [query[q].view EXCEPT !.warned = @ \union {source}] \in Views
    BY <1>2 DEF Views
  <1>4. Warned(q, source) = [query[q] EXCEPT !.view = [query[q].view EXCEPT !.warned = @ \union {source}]]
    BY <1>1, <1>2 DEF Warned, Local, Views
  <1> QED BY <1>1, <1>3, <1>4 DEF Local

\* Nodes that were scored, by a current index or without one.
LEMMA ScoredTyped ==
  ASSUME TypeOK, NEW q \in Queries, NEW used \in Indexes
  PROVE  Scored(q, used) \in Local
  <1> DEFINE new == IF used.backend = Offline /\ Active # Offline THEN Warned(q, "semantic") ELSE query[q]
  <1>1. new \in Local
    BY WarnedTyped DEF TypeOK
  <1>2. [new EXCEPT !.at = "auxiliary", !.view.index = used] \in Local
    <2> HIDE DEF new
    <2> QED BY <1>1 DEF Local, Views
  <1> QED BY <1>2 DEF Scored

\* The semantic step keeps the types.
LEMMA SemanticTyped ==
  ASSUME TypeOK, NEW q \in Queries, Semantic(q) PROVE TypeOK'
  <1>1. query[q] \in Local /\ index \in Indexes /\ memo \in Indexes
    BY DEF TypeOK
  <1>2. Warned(q, "semantic") \in Local
    BY WarnedTyped
  <1>3. [Warned(q, "semantic") EXCEPT !.at = "auxiliary"] \in Local
    BY <1>2 DEF Local
  <1>4. CASE UseIndex(q)
    BY <1>4, <1>1 DEF UseIndex, Goto, Unchanged, state, TypeOK, Local
  <1>5. CASE ColdBackend(q)
    BY <1>5, <1>3, BecomeTyped DEF ColdBackend, Unchanged, state, TypeOK
  <1>6. CASE NoCurrentIndex(q)
    BY <1>6, <1>3, BecomeTyped DEF NoCurrentIndex, Unchanged, state, TypeOK
  <1>7. CASE BuildIndex(q)
    <2>1. query[q].graph.version \in Nat
      BY <1>1 DEF Local, Graphs
    <2>2. index' \in Indexes
      BY <1>7, <1>1, <2>1 DEF BuildIndex, Written, Indexes
    <2>3. [query[q] EXCEPT !.at = "remember_index", !.view.index = index'] \in Local
      BY <1>1, <2>2 DEF Local, Views
    <2>4. query' \in [Queries -> Local]
      BY <1>7, <2>3, BecomeTyped DEF BuildIndex
    <2> QED BY <1>7, <2>2, <2>4 DEF BuildIndex, TypeOK
  <1>8. CASE LoadFromMemo(q)
    BY <1>8, <1>1, ScoredTyped, BecomeTyped DEF LoadFromMemo, Unchanged, state, TypeOK
  <1>9. CASE ReadIndex(q)
    <2>1. [query[q] EXCEPT !.at = "remember_index", !.view.index = index] \in Local
      BY <1>1 DEF Local, Views
    <2> QED BY <1>9, <2>1, BecomeTyped DEF ReadIndex, Unchanged, state, TypeOK
  <1>10. CASE RememberIndex(q)
    <2>1. query[q].view.index \in Indexes
      BY <1>1 DEF Local, Views
    <2>2. query' \in [Queries -> Local]
      BY <1>10, <2>1, ScoredTyped, BecomeTyped DEF RememberIndex
    <2>3. memo' \in Indexes
      BY <1>10, <1>1, <2>1 DEF RememberIndex, Indexes
    <2> QED BY <1>10, <2>2, <2>3 DEF RememberIndex, TypeOK
  <1>11. CASE SemanticFails(q)
    <2>1. NoIndex \in Indexes
      BY DEF NoIndex, Indexes
    <2>2. [Warned(q, "semantic") EXCEPT !.at = "auxiliary", !.view.index = NoIndex] \in Local
      BY <1>2, <2>1 DEF Local, Views
    <2> QED BY <1>11, <2>2, BecomeTyped DEF SemanticFails, Unchanged, state, TypeOK
  <1> QED BY <1>4, <1>5, <1>6, <1>7, <1>8, <1>9, <1>10, <1>11 DEF Semantic

\* The end of a request keeps the types.
LEMMA FinishTyped ==
  ASSUME TypeOK, NEW q \in Queries, Finish(q) PROVE TypeOK'
  <1>1. query[q] \in Local
    BY DEF TypeOK
  <1>2. Answered(q, query[q].view) \in Local
    BY <1>1, IdleTyped DEF Answered, Local, Req
  <1>3. CASE ReadSources(q)
    <2>1. [query[q] EXCEPT !.at = Federating(q), !.view.notes = notes] \in Local
      BY <1>1 DEF Federating, Local, Views, TypeOK
    <2> QED BY <1>3, <2>1, BecomeTyped DEF ReadSources, Unchanged, state, TypeOK
  <1>4. CASE SourceFails(q)
    <2>1. [Warned(q, "auxiliary") EXCEPT !.at = Federating(q)] \in Local
      BY WarnedTyped DEF Federating, Local
    <2> QED BY <1>4, <2>1, BecomeTyped DEF SourceFails, Unchanged, state, TypeOK
  <1>9. CASE Federate(q)
    <2>1. [query[q] EXCEPT !.at = "compile", !.view.foreign = foreign.version] \in Local
      BY <1>1 DEF Local, Views, TypeOK, Graphs
    <2> QED BY <1>9, <2>1, BecomeTyped DEF Federate, Unchanged, state, TypeOK
  <1>10. CASE FederationFails(q)
    <2>1. [Warned(q, "foreign") EXCEPT !.at = "compile"] \in Local
      BY WarnedTyped DEF Local
    <2> QED BY <1>10, <2>1, BecomeTyped DEF FederationFails, Unchanged, state, TypeOK
  <1>5. CASE AnswerOnly(q)
    BY <1>5, <1>2, BecomeTyped DEF AnswerOnly, Unchanged, state, TypeOK
  <1>6. CASE Store(q)
    <2>1. [key |-> CacheKey(q), base |-> graph.base, view |-> query[q].view] \in Entry
      BY <1>1 DEF CacheKey, Req, Entry, Key, Local, TypeOK, Graphs
    <2>2. query' \in [Queries -> Local]
      BY <1>6, <1>2, BecomeTyped DEF Store
    <2> QED BY <1>6, <2>1, <2>2 DEF Store, TypeOK
  <1>7. CASE Return(q)
    BY <1>7, IdleTyped, BecomeTyped DEF Return, Unchanged, state, TypeOK
  <1>8. CASE Fail(q)
    <2>1. query' \in [Queries -> Local]
      BY <1>8, IdleTyped, BecomeTyped DEF Fail
    <2> QED BY <1>8, <2>1 DEF Fail, TypeOK
  <1> QED BY <1>3, <1>4, <1>5, <1>6, <1>7, <1>8, <1>9, <1>10 DEF Finish

\* The variables keep their types.
THEOREM TypeCorrect == Spec => []TypeOK
  <1>1. TypeOK /\ [Next]_vars => TypeOK'
    <2> SUFFICES ASSUME TypeOK, [Next]_vars PROVE TypeOK' OBVIOUS
    <2>1. CASE UNCHANGED vars
      BY <2>1 DEF vars, state, TypeOK
    <2>2. CASE Next
      BY <2>2, WorldTyped, PrepareTyped, CachedTyped, SemanticTyped, FinishTyped DEF Next
    <2> QED BY <2>1, <2>2
  <1> QED BY <1>1, InitTyped, PTL DEF Spec

-----------------------------------------------------------------------------
\* Stages at which a request has a graph; at which it has a key; at which the
\* signature in the key is taken.
Holding == {"check_index", "load_index", "remember_index", "auxiliary", "federate", "compile"}
Keyed   == {"sign", "lookup", "load"} \union Holding
Signed  == {"lookup", "load"} \union Holding

HasGraph(l) == l.at \in Holding \/ (l.resident /\ l.at \in {"sign", "lookup"})

NotesSeen(sources, view) == sources.notes <= view.notes \/ "auxiliary" \in view.warned

\* What holds of one request, q with local state l.
Fine(q, l) ==
  /\ l.at # "idle" => l.begun.graph <= manifest.version /\ l.begun.notes <= notes
  /\ l.at \in Keyed => l.measured <= manifest.updated_at
  /\ l.at \in Signed => l.begun.notes <= l.sources.notes /\ l.sources.notes <= notes
  /\ l.at \in Holding => l.view.graph = l.graph.version
  /\ l.at \in {"federate", "compile"} /\ Consults(l.req) => NotesSeen(l.sources, l.view)
  /\ l.at = "refresh" => ~l.resident
  /\ l.at = "refreshed" => writer = q /\ l.graph = graph
  /\ ~raced /\ l.at = "inspect" /\ l.resident => manifest.version <= l.graph.version
  /\ ~raced /\ HasGraph(l) /\ l.measured = manifest.updated_at =>
       manifest.version <= l.graph.version
  /\ l.at = "answered" =>
       /\ ~raced => l.begun.graph <= l.view.graph
       /\ Consults(l.req) => NotesSeen(l.begun, l.view)

\* What holds of an entry of the cache.
Kept(e) ==
  /\ e.key.measured <= manifest.updated_at
  /\ ~raced /\ e.key.measured = manifest.updated_at => manifest.version <= e.view.graph
  /\ Consults(e.key.req) => NotesSeen(e.key.sources, e.view)

\* A graph or an entry under the key of a request has what the request must see.
Covers(k, l) ==
  ~raced /\ k.at \in Keyed /\ HasGraph(l) /\ k.measured = l.measured =>
    k.begun.graph <= l.graph.version
Serves(k, e) ==
  ~raced /\ k.at \in Keyed /\ k.measured = e.key.measured => k.begun.graph <= e.view.graph

IInv ==
  /\ manifest.version <= graph.version
  /\ \A q \in Queries : Fine(q, query[q])
  /\ \A e \in kv : Kept(e)
  /\ \A p, q \in Queries : Covers(query[p], query[q])
  /\ \A q \in Queries, e \in kv : Serves(query[q], e)

\* The invariant says what is claimed of the answers, foreign graphs aside.
LEMMA InvariantImplies ==
  ASSUME IInv, NEW q \in Queries, query[q].at = "answered"
  PROVE  /\ ~raced => query[q].begun.graph <= query[q].view.graph
         /\ Consults(query[q].req) => NotesSeen(query[q].begun, query[q].view)
  BY DEF IInv, Fine

\* Nothing was asked yet.
LEMMA InvariantInit == Init => IInv
  <1> SUFFICES ASSUME Init PROVE IInv OBVIOUS
  <1>1. \A q \in Queries : query[q].at = "idle"
    BY IdleTyped DEF Init
  <1>2. \A q \in Queries : Fine(q, query[q])
    BY <1>1 DEF Fine, Keyed, Signed, Holding, HasGraph
  <1>3. \A p, q \in Queries : Covers(query[p], query[q])
    BY <1>1 DEF Covers, Keyed, Holding
  <1>4. kv = {} /\ manifest.version <= graph.version
    BY DEF Init, NoGraph
  <1> QED BY <1>2, <1>3, <1>4 DEF IInv

\* A step that changes one request only, and takes nothing new into the cache.
LEMMA LocalStep ==
  ASSUME TypeOK, IInv, NEW q \in Queries, NEW new \in Local, Become(q, new),
         kv' \subseteq kv, UNCHANGED <<graph, manifest, notes, raced>>,
         writer' = writer \/ writer = q, Fine(q, query[q])',
         \A p \in Queries \ {q} : Covers(new, query[p]) /\ Covers(query[p], new),
         Covers(new, new), \A e \in kv : Serves(new, e)
  PROVE  IInv'
  <1>1. query'[q] = new /\ \A p \in Queries \ {q} : query'[p] = query[p]
    BY DEF Become, TypeOK
  <1>2. ASSUME NEW p \in Queries PROVE Fine(p, query[p])'
    <2>1. CASE p = q
      BY <2>1
    <2>2. CASE p # q
      <3>1. Fine(p, query[p])
        BY DEF IInv
      <3>2. query'[p] = query[p]
        BY <1>1, <2>2
      <3>3. query[p].at = "refreshed" => writer' = p
        BY <3>1, <2>2 DEF Fine
      <3> QED BY <3>1, <3>2, <3>3 DEF Fine, HasGraph, NotesSeen
    <2> QED BY <2>1, <2>2
  <1>3. \A p, r \in Queries : Covers(query[p], query[r])'
    <2> SUFFICES ASSUME NEW p \in Queries, NEW r \in Queries PROVE Covers(query[p], query[r])'
      OBVIOUS
    <2>1. Covers(query'[p], query'[r])
      BY <1>1 DEF IInv
    <2> QED BY <2>1 DEF Covers, HasGraph
  <1>4. \A p \in Queries, e \in kv' : Serves(query[p], e)'
    <2> SUFFICES ASSUME NEW p \in Queries, NEW e \in kv' PROVE Serves(query[p], e)'
      OBVIOUS
    <2>1. Serves(query'[p], e)
      BY <1>1 DEF IInv
    <2> QED BY <2>1 DEF Serves
  <1>5. \A e \in kv' : Kept(e)'
    BY DEF IInv, Kept
  <1>6. (manifest.version <= graph.version)'
    BY DEF IInv
  <1> QED BY <1>2, <1>3, <1>4, <1>5, <1>6 DEF IInv

\* A request that leaves the stages at which it has a key.
LEMMA DoneStep ==
  ASSUME TypeOK, IInv, NEW q \in Queries, NEW new \in Local, Become(q, new),
         kv' \subseteq kv, UNCHANGED <<graph, manifest, notes, raced>>,
         writer' = writer \/ writer = q, new.at \notin Keyed, Fine(q, query[q])'
  PROVE  IInv'
  <1>1. ~HasGraph(new)
    BY DEF HasGraph, Keyed
  <1>2. \A p \in Queries : Covers(new, query[p]) /\ Covers(query[p], new)
    BY <1>1 DEF Covers
  <1>3. Covers(new, new) /\ \A e \in kv : Serves(new, e)
    BY DEF Covers, Serves
  <1> QED BY <1>2, <1>3, LocalStep

\* A request that keeps its key and its graph.
LEMMA QuietStep ==
  ASSUME TypeOK, IInv, NEW q \in Queries, NEW new \in Local, Become(q, new),
         kv' \subseteq kv, UNCHANGED <<graph, manifest, writer, notes, raced>>,
         new.begun = query[q].begun, new.measured = query[q].measured,
         new.graph = query[q].graph,
         new.at \in Keyed => query[q].at \in Keyed, HasGraph(new) => HasGraph(query[q]),
         Fine(q, query[q])'
  PROVE  IInv'
  <1>1. \A p \in Queries : Covers(new, query[p]) /\ Covers(query[p], new)
    BY DEF Covers, IInv
  <1>2. Covers(new, new)
    <2>1. Covers(query[q], query[q])
      BY DEF IInv
    <2> QED BY <2>1 DEF Covers
  <1>3. \A e \in kv : Serves(new, e)
    BY DEF Serves, IInv
  <1> QED BY <1>1, <1>2, <1>3, LocalStep

\* A request that takes its key keeps the invariant: what is under that key by now is of
\* the manifest it has just looked at.
LEMMA KeyStep ==
  ASSUME TypeOK, IInv, NEW q \in Queries, NEW new \in Local, Become(q, new),
         UNCHANGED <<kv, graph, manifest, writer, notes, raced>>,
         new.at = "sign", new.measured = manifest.updated_at,
         new.begun.graph <= manifest.version, new.begun.notes <= notes,
         ~raced /\ new.resident => manifest.version <= new.graph.version
  PROVE  IInv'
  <1>1. Fine(q, query[q])'
    <2>1. query'[q] = new
      BY DEF Become, TypeOK
    <2> QED BY <2>1 DEF Fine, HasGraph, Keyed, Signed, Holding, TypeOK
  <1>2. ASSUME NEW p \in Queries PROVE Covers(new, query[p]) /\ Covers(query[p], new)
    <2>1. Fine(p, query[p])
      BY DEF IInv
    <2>2. query[p] \in Local /\ manifest.version \in Nat /\ manifest.updated_at \in Nat
      BY DEF TypeOK
    <2>3. Covers(new, query[p])
      <3> SUFFICES ASSUME ~raced, HasGraph(query[p]), query[p].measured = manifest.updated_at
                   PROVE  new.begun.graph <= query[p].graph.version
        BY DEF Covers
      <3>1. manifest.version <= query[p].graph.version
        BY <2>1 DEF Fine
      <3> QED BY <3>1, <2>2 DEF Local, Acknowledgements, Signatures, Graphs
    <2>4. Covers(query[p], new)
      <3> SUFFICES ASSUME ~raced, query[p].at \in Keyed, HasGraph(new)
                   PROVE  query[p].begun.graph <= new.graph.version
        BY DEF Covers
      <3>1. new.resident
        BY DEF HasGraph, Holding
      <3>2. query[p].begun.graph <= manifest.version
        BY <2>1 DEF Fine, Keyed, Holding
      <3> QED BY <3>1, <3>2, <2>2 DEF Local, Acknowledgements, Signatures, Graphs
    <2> QED BY <2>3, <2>4
  <1>3. Covers(new, new)
    <2>1. HasGraph(new) => new.resident
      BY DEF HasGraph, Holding
    <2> QED BY <2>1 DEF Covers, Local, Acknowledgements, Signatures, Graphs, TypeOK
  <1>4. ASSUME NEW e \in kv PROVE Serves(new, e)
    <2>1. Kept(e) /\ e.view.graph \in Nat /\ manifest.version \in Nat
      BY DEF IInv, TypeOK, Entry, Views
    <2> QED BY <2>1 DEF Kept, Serves, Local, Acknowledgements, Signatures
  <1> QED BY <1>1, <1>2, <1>3, <1>4, LocalStep

\* What the world does keeps the invariant; a manifest saved in a second of its own is
\* under a key that nobody has yet.
LEMMA WorldStep == TypeOK /\ IInv /\ World => IInv'
  <1> SUFFICES ASSUME TypeOK, IInv, World PROVE IInv' OBVIOUS
  <1>1. UNCHANGED <<query, kv>>
    BY DEF World, HookSavesGraph, HookSavesManifest, HookDies, RebuildIndex, Remember, ForeignSaves
  <1>2. raced => raced'
    BY DEF World, HookSavesGraph, HookSavesManifest, HookDies, RebuildIndex, Remember, ForeignSaves, ManifestSaved
  <1>3. \A p, q \in Queries : Covers(query[p], query[q])'
    BY <1>1, <1>2 DEF IInv, Covers, HasGraph
  <1>4. \A q \in Queries, e \in kv : Serves(query[q], e)'
    BY <1>1, <1>2 DEF IInv, Serves
  <1>5. /\ graph \in Graphs /\ manifest \in [version : Nat, updated_at : Nat] /\ notes \in Nat
        /\ manifest.version <= graph.version
        /\ \A q \in Queries : Fine(q, query[q]) /\ query[q] \in Local
        /\ \A e \in kv : Kept(e) /\ e \in Entry
    BY DEF IInv, TypeOK
  <1>6. CASE HookSavesGraph
    <2>1. /\ writer = Nobody /\ graph'.version = graph.version + 1
          /\ UNCHANGED <<manifest, notes, raced>>
      BY <1>6 DEF HookSavesGraph, Saved, Saves
    <2>2. \A q \in Queries : Fine(q, query[q])'
      BY <1>1, <1>5, <2>1, ActorAssumption DEF Fine, HasGraph, NotesSeen
    <2>3. \A e \in kv' : Kept(e)'
      BY <1>1, <1>5, <2>1 DEF Kept, NotesSeen
    <2>4. (manifest.version <= graph.version)'
      BY <1>5, <2>1 DEF Graphs
    <2> QED BY <1>1, <1>3, <1>4, <2>2, <2>3, <2>4 DEF IInv
  <1>7. CASE HookSavesManifest
    <2>1. /\ writer = Hook /\ UNCHANGED <<graph, notes>>
          /\ manifest'.version = graph.version
          /\ manifest'.updated_at \in {manifest.updated_at, manifest.updated_at + 1}
          /\ raced' = (raced \/ manifest'.updated_at = manifest.updated_at \/ Overtaken)
      BY <1>7 DEF HookSavesManifest, ManifestSaved
    <2>2. ASSUME NEW q \in Queries PROVE Fine(q, query[q])'
      <3>1. Fine(q, query[q]) /\ query[q] \in Local
        BY <1>5
      <3>2. query[q].at # "refreshed"
        BY <3>1, <2>1, ActorAssumption DEF Fine
      <3>3. ~raced' => ~raced /\ manifest'.updated_at = manifest.updated_at + 1
                       /\ ~(query[q].at = "inspect" /\ query[q].resident)
        BY <2>1 DEF Overtaken
      <3>4. HasGraph(query[q]) => query[q].at \in Keyed
        BY DEF HasGraph, Keyed
      <3>5. ~raced' /\ HasGraph(query[q]) => query[q].measured # manifest'.updated_at
        BY <1>5, <3>1, <3>3, <3>4 DEF Fine, Local
      <3> QED BY <1>1, <1>5, <2>1, <3>1, <3>2, <3>3, <3>5
              DEF Fine, HasGraph, NotesSeen, Local, Acknowledgements, Signatures, Graphs
    <2>3. ASSUME NEW e \in kv PROVE Kept(e)'
      <3>1. ~raced' => manifest'.updated_at = manifest.updated_at + 1
        BY <2>1
      <3>2. Kept(e) /\ e.key.measured \in Nat
        BY <1>5 DEF Entry, Key
      <3>3. e.key.measured <= manifest'.updated_at
            /\ (~raced' => e.key.measured # manifest'.updated_at)
        BY <1>5, <2>1, <3>1, <3>2 DEF Kept
      <3> QED BY <3>2, <3>3 DEF Kept, NotesSeen
    <2>4. (manifest.version <= graph.version)'
      BY <1>5, <2>1 DEF Graphs
    <2> QED BY <1>1, <1>3, <1>4, <2>2, <2>3, <2>4 DEF IInv
  <1>8. CASE HookDies
    <2>1. writer = Hook /\ UNCHANGED <<graph, manifest, notes, raced>>
      BY <1>8 DEF HookDies
    <2>2. \A q \in Queries : Fine(q, query[q])'
      BY <1>1, <1>5, <2>1, ActorAssumption DEF Fine, HasGraph, NotesSeen
    <2> QED BY <1>1, <1>3, <1>4, <1>5, <2>1, <2>2 DEF IInv, Kept, NotesSeen
  <1>9. CASE RebuildIndex
    <2>1. UNCHANGED <<graph, manifest, writer, notes, raced>>
      BY <1>9 DEF RebuildIndex
    <2>2. \A q \in Queries : Fine(q, query[q])'
      BY <1>1, <1>5, <2>1 DEF Fine, HasGraph, NotesSeen
    <2> QED BY <1>1, <1>3, <1>4, <1>5, <2>1, <2>2 DEF IInv, Kept, NotesSeen
  <1>10. CASE Remember
    <2>1. notes' = notes + 1 /\ UNCHANGED <<graph, manifest, writer, raced>>
      BY <1>10 DEF Remember
    <2>2. \A q \in Queries : Fine(q, query[q])'
      BY <1>1, <1>5, <2>1 DEF Fine, HasGraph, NotesSeen, Local, Acknowledgements, Signatures
    <2> QED BY <1>1, <1>3, <1>4, <1>5, <2>1, <2>2 DEF IInv, Kept, NotesSeen
  <1>11. CASE ForeignSaves
    <2>1. UNCHANGED <<graph, manifest, writer, notes, raced>>
      BY <1>11 DEF ForeignSaves
    <2>2. \A q \in Queries : Fine(q, query[q])'
      BY <1>1, <1>5, <2>1 DEF Fine, HasGraph, NotesSeen
    <2> QED BY <1>1, <1>3, <1>4, <1>5, <2>1, <2>2 DEF IInv, Kept, NotesSeen
  <1> QED BY <1>6, <1>7, <1>8, <1>9, <1>10, <1>11 DEF World

\* A request keeps the invariant on its way to its key.
LEMMA PrepareStep ==
  ASSUME TypeOK, TypeOK', IInv, NEW q \in Queries, Prepare(q) PROVE IInv'
  <1>1. /\ query[q] \in Local /\ graph \in Graphs /\ notes \in Nat
        /\ manifest \in [version : Nat, updated_at : Nat]
        /\ manifest.version <= graph.version
        /\ \A p \in Queries : Fine(p, query[p]) /\ query[p] \in Local
        /\ \A e \in kv : Kept(e) /\ e \in Entry
    BY DEF IInv, TypeOK
  <1>2. query'[q] \in Local
    BY DEF TypeOK
  <1>3. CASE Ask(q)
    <2>1. PICK req \in Requests :
            Become(q, [Idle EXCEPT !.at = IF req.refresh THEN "refresh" ELSE "sign",
                                   !.req = req, !.begun = Acknowledged,
                                   !.measured = IF req.refresh THEN 0 ELSE manifest.updated_at])
      BY <1>3 DEF Ask
    <2> DEFINE new == [Idle EXCEPT !.at = IF req.refresh THEN "refresh" ELSE "sign",
                                   !.req = req, !.begun = Acknowledged,
                                   !.measured = IF req.refresh THEN 0 ELSE manifest.updated_at]
    <2>2. query'[q] = new
      BY <2>1 DEF Become, TypeOK
    <2>3. /\ new.begun.graph = manifest.version /\ new.begun.notes = notes /\ ~new.resident
          /\ new.at = (IF req.refresh THEN "refresh" ELSE "sign")
          /\ new.measured = (IF req.refresh THEN 0 ELSE manifest.updated_at)
      BY DEF Idle, Acknowledged
    <2>4. UNCHANGED <<kv, graph, manifest, writer, notes, raced>> /\ new \in Local
      BY <1>2, <1>3, <2>2 DEF Ask, state
    <2>5. CASE req.refresh
      <3>1. new.at = "refresh"
        BY <2>3, <2>5
      <3> HIDE DEF new
      <3>2. new.at \notin Keyed /\ Fine(q, query[q])'
        BY <1>1, <2>2, <2>3, <2>4, <3>1 DEF Keyed, Holding, Fine, HasGraph, Signed
      <3> QED BY <2>1, <2>4, <3>2, DoneStep DEF new
    <2>6. CASE ~req.refresh
      <3>1. new.at = "sign" /\ new.measured = manifest.updated_at
        BY <2>3, <2>6
      <3>2. new.begun.graph <= manifest.version /\ new.begun.notes <= notes
        BY <1>1, <2>3
      <3> QED BY <2>1, <2>3, <2>4, <3>1, <3>2, KeyStep
    <2> QED BY <2>5, <2>6
  <1>4. CASE RefreshNothing(q)
    <2> DEFINE new == [query[q] EXCEPT !.at = "inspect"]
    <2>1. Become(q, new) /\ UNCHANGED <<kv, graph, manifest, writer, notes, raced>>
      BY <1>4 DEF RefreshNothing, Goto, Become, Unchanged, state
    <2>2. new \in Local /\ new.at = "inspect" /\ new.begun = query[q].begun
          /\ new.resident = query[q].resident
      BY <1>1 DEF Local
    <2>3. query[q].at = "refresh" /\ query'[q] = new
      BY <1>4, <2>1 DEF RefreshNothing, At, Become, TypeOK
    <2> HIDE DEF new
    <2>4. new.at \notin Keyed /\ Fine(q, query[q])'
      BY <1>1, <2>1, <2>2, <2>3 DEF Keyed, Holding, Fine, HasGraph, Signed
    <2> QED BY <2>1, <2>2, <2>4, DoneStep
  <1>5. CASE RefreshGraph(q)
    <2> DEFINE new == [query[q] EXCEPT !.at = "refreshed", !.graph = graph', !.resident = TRUE]
    <2>1. /\ query' = [query EXCEPT ![q] = new] /\ writer = Nobody /\ writer' = q
          /\ graph'.version = graph.version + 1
          /\ UNCHANGED <<kv, manifest, notes, raced>>
          /\ query[q].at = "refresh"
      BY <1>5 DEF RefreshGraph, Saved, Saves, Become, At
    <2>2. new.at = "refreshed" /\ new.begun = query[q].begun /\ new.graph = graph'
      BY <1>1 DEF Local
    <2> HIDE DEF new
    <2>3. query'[q] = new /\ \A p \in Queries \ {q} : query'[p] = query[p]
      BY <2>1 DEF TypeOK
    <2>4. Fine(q, query[q])'
      BY <1>1, <2>1, <2>2, <2>3 DEF Fine, Keyed, Holding, HasGraph, Signed
    <2>5. ASSUME NEW p \in Queries \ {q} PROVE Fine(p, query[p])'
      <3>1. query[p].at # "refreshed"
        BY <1>1, <2>1, ActorAssumption DEF Fine
      <3> QED BY <1>1, <2>1, <2>3, <3>1 DEF Fine, HasGraph, NotesSeen
    <2>6. query'[q].at \notin Keyed /\ ~HasGraph(query'[q])
      BY <2>2, <2>3 DEF Keyed, Holding, HasGraph
    <2>7. \A p, r \in Queries : Covers(query[p], query[r])'
      BY <2>1, <2>3, <2>6 DEF IInv, Covers, HasGraph
    <2>8. \A p \in Queries, e \in kv : Serves(query[p], e)'
      BY <2>1, <2>3, <2>6 DEF IInv, Serves
    <2>9. \A e \in kv : Kept(e)'
      BY <1>1, <2>1 DEF Kept, NotesSeen
    <2>10. (manifest.version <= graph.version)'
      BY <1>1, <2>1 DEF Graphs
    <2> QED BY <2>1, <2>4, <2>5, <2>7, <2>8, <2>9, <2>10 DEF IInv
  <1>6. CASE RefreshManifest(q)
    <2> DEFINE new == [query[q] EXCEPT !.at = "inspect"]
    <2>1. /\ query' = [query EXCEPT ![q] = new] /\ UNCHANGED <<kv, graph, notes>>
          /\ manifest'.version = graph.version
          /\ manifest'.updated_at \in {manifest.updated_at, manifest.updated_at + 1}
          /\ raced' = (raced \/ manifest'.updated_at = manifest.updated_at \/ Overtaken)
          /\ query[q].at = "refreshed"
      BY <1>6 DEF RefreshManifest, ManifestSaved, Goto, At
    <2>2. new.at = "inspect" /\ new.begun = query[q].begun /\ new.graph = query[q].graph
      BY <1>1 DEF Local
    <2> HIDE DEF new
    <2>3. query'[q] = new /\ \A p \in Queries \ {q} : query'[p] = query[p]
      BY <2>1 DEF TypeOK
    <2>4. query[q].graph = graph /\ writer = q
      BY <1>1, <2>1 DEF Fine
    <2>5. Fine(q, query[q])'
      BY <1>1, <2>1, <2>2, <2>3, <2>4 DEF Fine, Keyed, Holding, HasGraph, Signed, Local, Acknowledgements, Signatures, Graphs
    <2>6. ASSUME NEW p \in Queries \ {q} PROVE Fine(p, query[p])'
      <3>1. Fine(p, query[p]) /\ query[p] \in Local /\ query'[p] = query[p]
        BY <1>1, <2>3
      <3>2. query[p].at # "refreshed"
        BY <3>1, <2>4 DEF Fine
      <3>3. ~raced' => ~raced /\ manifest'.updated_at = manifest.updated_at + 1
                       /\ ~(query[p].at = "inspect" /\ query[p].resident)
        BY <2>1 DEF Overtaken
      <3>4. HasGraph(query[p]) => query[p].at \in Keyed
        BY DEF HasGraph, Keyed
      <3>5. ~raced' /\ HasGraph(query[p]) => query[p].measured # manifest'.updated_at
        BY <1>1, <3>1, <3>3, <3>4 DEF Fine, Local
      <3> QED BY <1>1, <2>1, <3>1, <3>2, <3>3, <3>5 DEF Fine, HasGraph, NotesSeen, Local, Acknowledgements, Signatures, Graphs
    <2>7. query'[q].at \notin Keyed /\ ~HasGraph(query'[q])
      BY <2>2, <2>3 DEF Keyed, Holding, HasGraph
    <2>8. \A p, r \in Queries : Covers(query[p], query[r])'
      BY <2>1, <2>3, <2>7, ZenonT(40) DEF IInv, Covers, HasGraph
    <2>9. \A p \in Queries, e \in kv : Serves(query[p], e)'
      BY <2>1, <2>3, <2>7 DEF IInv, Serves
    <2>10. ASSUME NEW e \in kv PROVE Kept(e)'
      <3>1. ~raced' => manifest'.updated_at = manifest.updated_at + 1
        BY <2>1
      <3>2. Kept(e) /\ e.key.measured \in Nat
        BY <1>1 DEF Entry, Key
      <3>3. e.key.measured <= manifest'.updated_at
            /\ (~raced' => e.key.measured # manifest'.updated_at)
        BY <1>1, <2>1, <3>1, <3>2 DEF Kept
      <3> QED BY <3>2, <3>3 DEF Kept, NotesSeen
    <2>11. (manifest.version <= graph.version)'
      BY <1>1, <2>1 DEF Graphs
    <2> QED BY <2>1, <2>5, <2>6, <2>8, <2>9, <2>10, <2>11 DEF IInv
  <1>7. CASE Inspect(q)
    <2> DEFINE new == [query[q] EXCEPT !.at = "sign", !.measured = manifest.updated_at]
    <2>1. Become(q, new) /\ UNCHANGED <<kv, graph, manifest, writer, notes, raced>>
      BY <1>7 DEF Inspect, Unchanged, state
    <2>2. /\ new \in Local /\ new.at = "sign" /\ new.measured = manifest.updated_at
          /\ new.begun = query[q].begun /\ new.graph = query[q].graph
          /\ new.resident = query[q].resident
      BY <1>1 DEF Local
    <2>3. query[q].at = "inspect"
      BY <1>7 DEF Inspect, At
    <2> HIDE DEF new
    <2> QED BY <1>1, <2>1, <2>2, <2>3, KeyStep DEF Fine
  <1>8. CASE Sign(q)
    <2> DEFINE new == [query[q] EXCEPT !.at = "lookup", !.sources = SourceState]
    <2>1. Become(q, new) /\ UNCHANGED <<kv, graph, manifest, writer, notes, raced>>
      BY <1>8 DEF Sign, Unchanged, state
    <2>2. SourceState \in Signatures /\ SourceState.notes = notes
      BY DEF SourceState, Signatures, TypeOK, Indexes, Graphs
    <2>3. /\ new \in Local /\ new.at = "lookup" /\ new.measured = query[q].measured
          /\ new.begun = query[q].begun /\ new.graph = query[q].graph
          /\ new.resident = query[q].resident /\ new.sources = SourceState
      BY <1>1, <2>2 DEF Local
    <2>4. query[q].at = "sign" /\ query'[q] = new
      BY <1>8, <2>1 DEF Sign, At, Become, TypeOK
    <2> HIDE DEF new
    <2>5. /\ new.at \in Keyed => query[q].at \in Keyed
          /\ HasGraph(new) => HasGraph(query[q])
      BY <2>3, <2>4 DEF Keyed, Holding, HasGraph
    <2>6. Fine(q, query[q])'
      BY <1>1, <2>1, <2>2, <2>3, <2>4, <2>5 DEF Fine, Keyed, Signed, Holding, HasGraph
    <2> QED BY <2>1, <2>3, <2>5, <2>6, QuietStep
  <1> QED BY <1>3, <1>4, <1>5, <1>6, <1>7, <1>8 DEF Prepare

\* What Planned changes.
LEMMA PlannedFields ==
  ASSUME TypeOK, NEW q \in Queries, NEW used \in Graphs
  PROVE  /\ Planned(q, used) \in Local /\ Planned(q, used).at \in {"check_index", "auxiliary", "compile"}
         /\ Planned(q, used).at = "compile" => ~Consults(query[q].req)
         /\ Planned(q, used).req = query[q].req /\ Planned(q, used).begun = query[q].begun
         /\ Planned(q, used).measured = query[q].measured
         /\ Planned(q, used).sources = query[q].sources
         /\ Planned(q, used).graph = used /\ Planned(q, used).view.graph = used.version
         /\ Planned(q, used).resident = query[q].resident
  <1>1. query[q] \in Local
    BY DEF TypeOK
  <1>2. Embeds(query[q].req) => Consults(query[q].req)
    BY DEF Embeds
  <1> HIDE DEF Embeds, Consults
  <1> QED BY <1>1, <1>2 DEF Planned, Req, Local, Views, Graphs

\* What Answered says.
LEMMA AnsweredFields ==
  ASSUME TypeOK, NEW q \in Queries, NEW view \in Views
  PROVE  /\ Answered(q, view) \in Local /\ Answered(q, view).at = "answered"
         /\ Answered(q, view).req = query[q].req /\ Answered(q, view).begun = query[q].begun
         /\ Answered(q, view).view = view
  <1>1. query[q] \in Local
    BY DEF TypeOK
  <1> QED BY <1>1, IdleTyped DEF Answered, Req, Local

\* A request keeps the invariant from its key to its graph, or to the answer found
\* under its key.
LEMMA CachedStep ==
  ASSUME TypeOK, TypeOK', IInv, NEW q \in Queries, Cached(q) PROVE IInv'
  <1>1. /\ query[q] \in Local /\ graph \in Graphs /\ notes \in Nat
        /\ manifest \in [version : Nat, updated_at : Nat]
        /\ manifest.version <= graph.version
        /\ \A p \in Queries : Fine(p, query[p]) /\ query[p] \in Local
        /\ \A e \in kv : Kept(e) /\ e \in Entry
    BY DEF IInv, TypeOK
  <1>2. CASE UseResident(q)
    <2> DEFINE new == Planned(q, query[q].graph)
    <2>1. Become(q, new) /\ UNCHANGED <<kv, graph, manifest, writer, notes, raced>>
      BY <1>2 DEF UseResident, Unchanged, state
    <2>2. /\ new \in Local /\ new.at \in {"check_index", "auxiliary", "compile"}
          /\ new.at = "compile" => ~Consults(query[q].req)
          /\ new.req = query[q].req /\ new.begun = query[q].begun
          /\ new.measured = query[q].measured /\ new.sources = query[q].sources
          /\ new.graph = query[q].graph /\ new.view.graph = query[q].graph.version
      BY <1>1, PlannedFields DEF Local
    <2>3. query[q].at = "lookup" /\ query[q].resident /\ query'[q] = new
      BY <1>2, <2>1 DEF UseResident, At, Become, TypeOK
    <2> HIDE DEF new
    <2>4. HasGraph(query[q]) /\ query[q].at \in Keyed
      BY <2>3 DEF HasGraph, Keyed
    <2>5. Fine(q, query[q])'
      BY <1>1, <2>1, <2>2, <2>3, <2>4 DEF Fine, Keyed, Signed, Holding
    <2> QED BY <2>1, <2>2, <2>4, <2>5, QuietStep
  <1>3. CASE Bypass(q) \/ Miss(q)
    <2> DEFINE new == [query[q] EXCEPT !.at = "load"]
    <2>1. /\ Become(q, new) /\ kv' \subseteq kv
          /\ UNCHANGED <<graph, manifest, writer, notes, raced>>
      BY <1>3 DEF Bypass, Miss, Goto, Become, Unchanged, state
    <2>2. /\ new \in Local /\ new.at = "load" /\ new.req = query[q].req
          /\ new.begun = query[q].begun /\ new.measured = query[q].measured
          /\ new.sources = query[q].sources /\ new.graph = query[q].graph
      BY <1>1 DEF Local
    <2>3. query[q].at = "lookup" /\ query'[q] = new
      BY <1>3, <2>1 DEF Bypass, Miss, At, Become, TypeOK
    <2> HIDE DEF new
    <2>4. query[q].at \in Keyed /\ ~HasGraph(new)
      BY <2>2, <2>3 DEF HasGraph, Keyed, Holding
    <2>5. Fine(q, query[q])'
      BY <1>1, <2>1, <2>2, <2>3, <2>4 DEF Fine, Keyed, Signed, Holding, HasGraph
    <2> QED BY <2>1, <2>2, <2>4, <2>5, QuietStep
  <1>4. CASE Hit(q)
    <2>1. PICK e \in Valid(q) : Become(q, Answered(q, e.view))
      BY <1>4 DEF Hit
    <2>2. UNCHANGED <<kv, graph, manifest, writer, notes, raced>>
      BY <1>4 DEF Hit, Unchanged, state
    <2>3. /\ e \in kv /\ e.view \in Views /\ e.key.measured = query[q].measured
          /\ e.key.req = query[q].req /\ e.key.sources = query[q].sources
      BY <1>1, <2>1 DEF Valid, Entries, CacheKey, Req, Entry
    <2> DEFINE new == Answered(q, e.view)
    <2>4. /\ new \in Local /\ new.at = "answered" /\ new.req = query[q].req
          /\ new.begun = query[q].begun /\ new.view = e.view
      BY <2>3, AnsweredFields
    <2>5. query[q].at = "lookup" /\ query'[q] = new
      BY <1>4, <2>1 DEF Hit, At, Become, TypeOK
    <2> HIDE DEF new
    <2>6. ~raced => query[q].begun.graph <= e.view.graph
      BY <2>3, <2>5 DEF IInv, Serves, Keyed
    <2>7. Consults(query[q].req) => NotesSeen(query[q].begun, e.view)
      <3>1. query[q].begun.notes <= query[q].sources.notes
        BY <1>1, <2>5 DEF Fine, Signed
      <3>2. Consults(query[q].req) => NotesSeen(query[q].sources, e.view)
        BY <1>1, <2>3 DEF Kept
      <3> QED BY <1>1, <2>3, <3>1, <3>2 DEF NotesSeen, Local, Acknowledgements, Signatures, Views
    <2>8. new.at \notin Keyed /\ Fine(q, query[q])'
      BY <1>1, <2>2, <2>4, <2>5, <2>6, <2>7 DEF Fine, Keyed, Signed, Holding, HasGraph, NotesSeen
    <2> QED BY <2>1, <2>2, <2>4, <2>8, DoneStep DEF new
  <1>5. CASE Load(q)
    <2> DEFINE new == Planned(q, graph)
    <2>1. Become(q, new) /\ UNCHANGED <<kv, graph, manifest, writer, notes, raced>>
      BY <1>5 DEF Load, Unchanged, state
    <2>2. /\ new \in Local /\ new.at \in {"check_index", "auxiliary", "compile"}
          /\ new.at = "compile" => ~Consults(query[q].req)
          /\ new.req = query[q].req /\ new.begun = query[q].begun
          /\ new.measured = query[q].measured /\ new.sources = query[q].sources
          /\ new.graph = graph /\ new.view.graph = graph.version
      BY <1>1, PlannedFields
    <2>3. query[q].at = "load" /\ query[q].at \in Keyed /\ query'[q] = new
      BY <1>5, <2>1 DEF Load, At, Become, TypeOK, Keyed
    <2> HIDE DEF new
    <2>4. Fine(q, query[q])'
      BY <1>1, <2>1, <2>2, <2>3 DEF Fine, Keyed, Signed, Holding
    <2>5. ASSUME NEW p \in Queries PROVE query[p].at \in Keyed => query[p].begun.graph <= graph.version
      <3>1. query[p].at \in Keyed => query[p].begun.graph <= manifest.version
        BY <1>1 DEF Fine, Keyed, Holding
      <3> QED BY <1>1, <3>1 DEF Local, Acknowledgements, Signatures, Graphs
    <2>6. \A p \in Queries : Covers(new, query[p]) /\ Covers(query[p], new)
      BY <2>2, <2>3, <2>5 DEF Covers, IInv
    <2>7. Covers(new, new) /\ \A e \in kv : Serves(new, e)
      BY <2>2, <2>3, <2>5 DEF Covers, Serves, IInv
    <2> QED BY <2>1, <2>2, <2>4, <2>6, <2>7, LocalStep
  <1> QED BY <1>2, <1>3, <1>4, <1>5 DEF Cached

\* What a warning changes.
LEMMA WarnedFields ==
  ASSUME TypeOK, NEW q \in Queries, NEW source \in {"semantic", "auxiliary", "foreign"}
  PROVE  /\ Warned(q, source) \in Local /\ Warned(q, source).at = query[q].at
         /\ Warned(q, source).req = query[q].req /\ Warned(q, source).begun = query[q].begun
         /\ Warned(q, source).measured = query[q].measured
         /\ Warned(q, source).sources = query[q].sources
         /\ Warned(q, source).graph = query[q].graph
         /\ Warned(q, source).view.graph = query[q].view.graph
         /\ Warned(q, source).view.notes = query[q].view.notes
         /\ Warned(q, source).view.index = query[q].view.index
         /\ Warned(q, source).view.foreign = query[q].view.foreign
         /\ Warned(q, source).view.warned = query[q].view.warned \union {source}
  <1>1. query[q] \in Local
    BY DEF TypeOK
  <1> QED BY <1>1, WarnedTyped DEF Warned, Local, Views

\* A request that has a graph and goes on within the stages before the last.
LEMMA HoldingStep ==
  ASSUME TypeOK, IInv, NEW q \in Queries, NEW new \in Local, Become(q, new),
         UNCHANGED <<kv, graph, manifest, writer, notes, raced>>,
         query[q].at \in Holding, new.at \in Holding \ {"federate", "compile"},
         new.begun = query[q].begun, new.measured = query[q].measured,
         new.sources = query[q].sources, new.graph = query[q].graph,
         new.view.graph = query[q].view.graph
  PROVE  IInv'
  <1>1. Fine(q, query[q]) /\ query'[q] = new
    BY DEF IInv, Become, TypeOK
  <1>2. HasGraph(query[q]) /\ query[q].at \in Keyed /\ query[q].at \in Signed
    BY DEF HasGraph, Keyed, Signed
  <1>3. Fine(q, query[q])'
    BY <1>1, <1>2 DEF Fine, Keyed, Signed, Holding
  <1> QED BY <1>2, <1>3, QuietStep

\* What the semantic step changes: the vectors, and what is warned of.
LEMMA SemanticFields ==
  ASSUME TypeOK, TypeOK', NEW q \in Queries, Semantic(q)
  PROVE  /\ query'[q].at \in {"load_index", "remember_index", "auxiliary"}
         /\ query'[q].begun = query[q].begun /\ query'[q].measured = query[q].measured
         /\ query'[q].sources = query[q].sources /\ query'[q].graph = query[q].graph
         /\ query'[q].view.graph = query[q].view.graph
  <1>0. query[q] \in Local /\ query'[q] \in Local
    BY DEF TypeOK
  <1>1. CASE UseIndex(q)
    BY <1>0, <1>1 DEF UseIndex, Goto, Local, Holding, TypeOK
  <1>2. CASE ColdBackend(q) \/ NoCurrentIndex(q)
    <2>1. query'[q] = [Warned(q, "semantic") EXCEPT !.at = "auxiliary"]
      BY <1>2 DEF ColdBackend, NoCurrentIndex, Become, TypeOK
    <2> QED BY <2>1, WarnedFields DEF Local, Holding
  <1>3. CASE BuildIndex(q)
    <2>1. query'[q] = [query[q] EXCEPT !.at = "remember_index", !.view.index = index']
      BY <1>3 DEF BuildIndex, Become, TypeOK
    <2> QED BY <1>0, <2>1 DEF Local, Views, Holding
  <1>4. CASE ReadIndex(q)
    <2>1. query'[q] = [query[q] EXCEPT !.at = "remember_index", !.view.index = index]
      BY <1>4 DEF ReadIndex, Become, TypeOK
    <2> QED BY <1>0, <2>1 DEF Local, Views, Holding
  <1>5. CASE LoadFromMemo(q) \/ RememberIndex(q)
    <2>1. PICK used : query'[q] = Scored(q, used)
      BY <1>5 DEF LoadFromMemo, RememberIndex, Become, TypeOK
    <2>2. CASE used.backend = Offline /\ Active # Offline
      <3>1. query'[q] = [Warned(q, "semantic") EXCEPT !.at = "auxiliary", !.view.index = used]
        BY <2>1, <2>2 DEF Scored
      <3> QED BY <3>1, WarnedFields DEF Local, Views, Holding
    <2>3. CASE ~(used.backend = Offline /\ Active # Offline)
      <3>1. query'[q] = [query[q] EXCEPT !.at = "auxiliary", !.view.index = used]
        BY <2>1, <2>3 DEF Scored
      <3> QED BY <1>0, <3>1 DEF Local, Views, Holding
    <2> QED BY <2>2, <2>3
  <1>6. CASE SemanticFails(q)
    <2>1. query'[q] = [Warned(q, "semantic") EXCEPT !.at = "auxiliary", !.view.index = NoIndex]
      BY <1>6 DEF SemanticFails, Become, TypeOK
    <2> QED BY <2>1, WarnedFields DEF Local, Views, Holding
  <1> QED BY <1>1, <1>2, <1>3, <1>4, <1>5, <1>6 DEF Semantic

\* The semantic index has no part in the invariant.
LEMMA SemanticStep ==
  ASSUME TypeOK, TypeOK', IInv, NEW q \in Queries, Semantic(q) PROVE IInv'
  <1>1. query[q] \in Local /\ query'[q] \in Local
    BY DEF TypeOK
  <1>2. /\ query[q].at \in Holding /\ query' = [query EXCEPT ![q] = query'[q]]
        /\ UNCHANGED <<kv, graph, manifest, writer, notes, raced>>
    BY DEF Semantic, UseIndex, ColdBackend, NoCurrentIndex, BuildIndex, LoadFromMemo, ReadIndex,
           RememberIndex, SemanticFails, At, Goto, Become, Unchanged, state, Holding, TypeOK
  <1>3. query'[q].at \in Holding \ {"federate", "compile"}
    BY SemanticFields DEF Holding
  <1> QED BY <1>1, <1>2, <1>3, SemanticFields, HoldingStep DEF Become

\* What is stored is what was found under the key, and covers every request that by
\* now has the same key.
LEMMA FinishStep ==
  ASSUME TypeOK, TypeOK', IInv, NEW q \in Queries, Finish(q) PROVE IInv'
  <1>1. /\ query[q] \in Local /\ graph \in Graphs /\ notes \in Nat
        /\ manifest \in [version : Nat, updated_at : Nat]
        /\ Fine(q, query[q]) /\ query[q].view \in Views
    BY DEF IInv, TypeOK, Local
  <1> DEFINE answer == Answered(q, query[q].view)
  <1>2. /\ answer \in Local /\ answer.at = "answered" /\ answer.req = query[q].req
        /\ answer.begun = query[q].begun /\ answer.view = query[q].view
    BY <1>1, AnsweredFields
  <1> HIDE DEF answer
  <1>3. query[q].at = "compile" =>
          /\ ~raced => query[q].begun.graph <= query[q].view.graph
          /\ Consults(query[q].req) => NotesSeen(query[q].begun, query[q].view)
    <2> SUFFICES ASSUME query[q].at = "compile"
                 PROVE  /\ ~raced => query[q].begun.graph <= query[q].view.graph
                        /\ Consults(query[q].req) => NotesSeen(query[q].begun, query[q].view)
      OBVIOUS
    <2>1. HasGraph(query[q]) /\ query[q].at \in Keyed /\ query[q].at \in Signed
          /\ query[q].at \in Holding
      BY DEF HasGraph, Keyed, Signed, Holding
    <2>2. ~raced => query[q].begun.graph <= query[q].graph.version
      BY <2>1 DEF IInv, Covers
    <2>3. query[q].view.graph = query[q].graph.version
      BY <1>1, <2>1 DEF Fine
    <2>4. query[q].begun.notes <= query[q].sources.notes
      BY <1>1, <2>1 DEF Fine
    <2>5. Consults(query[q].req) => NotesSeen(query[q].sources, query[q].view)
      BY <1>1 DEF Fine
    <2> QED BY <1>1, <2>2, <2>3, <2>4, <2>5 DEF NotesSeen, Local, Acknowledgements, Signatures, Views
  <1>4. CASE ReadSources(q) \/ SourceFails(q)
    <2>1. /\ query[q].at = "auxiliary" /\ query' = [query EXCEPT ![q] = query'[q]]
          /\ UNCHANGED <<kv, graph, manifest, writer, notes, raced>>
      BY <1>4 DEF ReadSources, SourceFails, At, Become, Unchanged, state, TypeOK
    <2>2. /\ query'[q].at \in {"federate", "compile"} /\ query'[q].req = query[q].req
          /\ query'[q].begun = query[q].begun /\ query'[q].measured = query[q].measured
          /\ query'[q].sources = query[q].sources /\ query'[q].graph = query[q].graph
          /\ query'[q].view.graph = query[q].view.graph
          /\ query'[q].view.notes = notes \/ "auxiliary" \in query'[q].view.warned
      <3>1. CASE ReadSources(q)
        <4>1. query'[q] = [query[q] EXCEPT !.at = Federating(q), !.view.notes = notes]
          BY <3>1 DEF ReadSources, Become, TypeOK
        <4> QED BY <1>1, <4>1 DEF Federating, Local, Views
      <3>2. CASE SourceFails(q)
        <4>1. query'[q] = [Warned(q, "auxiliary") EXCEPT !.at = Federating(q)]
          BY <3>2 DEF SourceFails, Become, TypeOK
        <4> QED BY <4>1, WarnedFields DEF Federating, Local
      <3> QED BY <1>4, <3>1, <3>2
    <2>3. HasGraph(query[q]) /\ query[q].at \in Keyed /\ query[q].at \in Signed
          /\ query[q].at \in Holding
      BY <2>1 DEF HasGraph, Keyed, Signed, Holding
    <2>4. query'[q] \in Local
      BY DEF TypeOK
    <2>5. Fine(q, query[q])'
      BY <1>1, <2>1, <2>2, <2>3 DEF Fine, Keyed, Signed, Holding, NotesSeen
    <2> QED BY <2>1, <2>2, <2>3, <2>4, <2>5, QuietStep DEF Become
  <1>5. CASE AnswerOnly(q)
    <2>1. Become(q, answer) /\ UNCHANGED <<kv, graph, manifest, writer, notes, raced>>
          /\ query[q].at = "compile"
      BY <1>5 DEF AnswerOnly, At, Unchanged, state, answer
    <2>2. query'[q] = answer /\ answer.at \notin Keyed
      BY <1>2, <2>1 DEF Become, TypeOK, Keyed, Holding
    <2>3. Fine(q, query[q])'
      BY <1>1, <1>2, <1>3, <2>1, <2>2 DEF Fine, Keyed, Signed, Holding, HasGraph, NotesSeen
    <2> QED BY <1>2, <2>1, <2>2, <2>3, DoneStep
  <1>6. CASE Return(q) \/ Fail(q)
    <2>1. /\ Become(q, Idle) /\ UNCHANGED <<kv, graph, manifest, notes, raced>>
          /\ writer' = writer \/ writer = q
      BY <1>6 DEF Return, Fail, Unchanged, state
    <2>2. query'[q] = Idle /\ Idle.at = "idle" /\ Idle \in Local
      BY <2>1, IdleTyped DEF Become, TypeOK, Idle
    <2>3. Idle.at \notin Keyed /\ Fine(q, query[q])'
      BY <2>2 DEF Fine, Keyed, Signed, Holding, HasGraph
    <2> QED BY <2>1, <2>2, <2>3, DoneStep
  <1>7. CASE Store(q)
    <2> DEFINE entry == [key |-> CacheKey(q), base |-> graph.base, view |-> query[q].view]
    <2>1. /\ Become(q, answer) /\ UNCHANGED <<graph, manifest, writer, notes, raced>>
          /\ kv' \subseteq kv \union {entry} /\ query[q].at = "compile"
      BY <1>7 DEF Store, At, answer
    <2>2. /\ entry.key.req = query[q].req /\ entry.key.measured = query[q].measured
          /\ entry.key.sources = query[q].sources /\ entry.view = query[q].view
      BY DEF CacheKey, Req
    <2> HIDE DEF entry
    <2>3. /\ query'[q] = answer /\ answer.at \notin Keyed /\ ~HasGraph(answer)
          /\ \A p \in Queries \ {q} : query'[p] = query[p]
      BY <1>2, <2>1 DEF Become, TypeOK, Keyed, Holding, HasGraph
    <2>4. HasGraph(query[q]) /\ query[q].at \in Keyed /\ query[q].at \in Holding
      BY <2>1 DEF HasGraph, Keyed, Holding
    <2>5. query[q].view.graph = query[q].graph.version
      BY <1>1, <2>4 DEF Fine
    <2>6. Kept(entry)
      <3>1. Consults(query[q].req) => NotesSeen(query[q].sources, query[q].view)
        BY <1>1, <2>1 DEF Fine
      <3> QED BY <1>1, <2>2, <2>4, <2>5, <3>1 DEF Kept, Fine
    <2>7. \A e \in kv' : Kept(e)'
      BY <2>1, <2>6 DEF IInv, Kept, NotesSeen
    <2>8. Fine(q, query[q])'
      BY <1>1, <1>2, <1>3, <2>1, <2>3 DEF Fine, Keyed, Signed, Holding, HasGraph, NotesSeen
    <2>9. ASSUME NEW p \in Queries PROVE Fine(p, query[p])'
      <3>1. CASE p = q
        BY <2>8, <3>1
      <3>2. CASE p # q
        <4>1. Fine(p, query[p]) /\ query'[p] = query[p]
          BY <2>3, <3>2 DEF IInv
        <4> QED BY <2>1, <4>1 DEF Fine, HasGraph, NotesSeen
      <3> QED BY <3>1, <3>2
    <2>10. \A p, r \in Queries : Covers(query[p], query[r])'
      BY <2>1, <2>3 DEF IInv, Covers, HasGraph
    <2>11. ASSUME NEW p \in Queries, NEW e \in kv' PROVE Serves(query[p], e)'
      <3>1. CASE p = q
        BY <2>3, <3>1 DEF Serves
      <3>2. CASE p # q /\ e \in kv
        BY <2>1, <2>3, <3>2 DEF IInv, Serves
      <3>3. CASE p # q /\ e = entry
        <4>1. Covers(query[p], query[q])
          BY DEF IInv
        <4> QED BY <2>1, <2>2, <2>3, <2>4, <2>5, <3>3, <4>1 DEF Covers, Serves
      <3> QED BY <2>1, <3>1, <3>2, <3>3
    <2>12. (manifest.version <= graph.version)'
      BY <2>1 DEF IInv
    <2> QED BY <2>7, <2>9, <2>10, <2>11, <2>12 DEF IInv
  <1>8. CASE Federate(q) \/ FederationFails(q)
    <2>1. /\ query[q].at = "federate" /\ query' = [query EXCEPT ![q] = query'[q]]
          /\ UNCHANGED <<kv, graph, manifest, writer, notes, raced>>
      BY <1>8 DEF Federate, FederationFails, At, Become, Unchanged, state, TypeOK
    <2>2. /\ query'[q].at = "compile" /\ query'[q].req = query[q].req
          /\ query'[q].begun = query[q].begun /\ query'[q].measured = query[q].measured
          /\ query'[q].sources = query[q].sources /\ query'[q].graph = query[q].graph
          /\ query'[q].view.graph = query[q].view.graph /\ query'[q].view.notes = query[q].view.notes
          /\ query[q].view.warned \subseteq query'[q].view.warned
      <3>1. CASE Federate(q)
        <4>1. query'[q] = [query[q] EXCEPT !.at = "compile", !.view.foreign = foreign.version]
          BY <3>1 DEF Federate, Become, TypeOK
        <4> QED BY <1>1, <4>1 DEF Local, Views
      <3>2. CASE FederationFails(q)
        <4>1. query'[q] = [Warned(q, "foreign") EXCEPT !.at = "compile"]
          BY <3>2 DEF FederationFails, Become, TypeOK
        <4> QED BY <4>1, WarnedFields DEF Local
      <3> QED BY <1>8, <3>1, <3>2
    <2>3. HasGraph(query[q]) /\ query[q].at \in Keyed /\ query[q].at \in Signed
          /\ query[q].at \in Holding
      BY <2>1 DEF HasGraph, Keyed, Signed, Holding
    <2>4. query'[q] \in Local
      BY DEF TypeOK
    <2>5. Fine(q, query[q])'
      BY <1>1, <2>1, <2>2, <2>3 DEF Fine, Keyed, Signed, Holding, NotesSeen
    <2> QED BY <2>1, <2>2, <2>3, <2>4, <2>5, QuietStep DEF Become
  <1> QED BY <1>4, <1>5, <1>6, <1>7, <1>8 DEF Finish

\* Of a foreign graph: the stat in a key only ever moves with its base file, and what is
\* read has the sidecar too, so it is at least what the stat stands for.
ForeignSeen(stamp, view) == stamp <= view.foreign \/ "foreign" \in view.warned

\* What holds of one request with local state l, as far as foreign graphs go.
FineForeign(l) ==
  /\ l.at # "idle" => /\ l.begun.foreign.base <= foreign.base
                      /\ l.begun.foreign.version <= foreign.version
  /\ l.at \in Signed => l.begun.foreign.base <= l.sources.foreign /\ l.sources.foreign <= foreign.base
  /\ l.at = "compile" /\ Federates(l.req) =>
       /\ ForeignSeen(l.sources.foreign, l.view)
       /\ ForeignSeen(l.begun.foreign.version, l.view)
  /\ l.at = "answered" /\ Federates(l.req) => ForeignSeen(ForeignDue(l), l.view)

KeptForeign(e) == Federates(e.key.req) => ForeignSeen(e.key.sources.foreign, e.view)

ForeignInv ==
  /\ foreign.base <= foreign.version
  /\ \A q \in Queries : FineForeign(query[q])
  /\ \A e \in kv : KeptForeign(e)

\* No foreign graph was read yet.
LEMMA ForeignInit == Init => ForeignInv
  <1> SUFFICES ASSUME Init PROVE ForeignInv OBVIOUS
  <1>1. \A q \in Queries : query[q].at = "idle"
    BY IdleTyped DEF Init
  <1>2. \A q \in Queries : FineForeign(query[q])
    BY <1>1 DEF FineForeign, Signed, Holding
  <1>3. kv = {} /\ foreign.base <= foreign.version
    BY DEF Init, NoGraph
  <1> QED BY <1>2, <1>3 DEF ForeignInv

\* What the world does: a foreign graph is saved, by a record or by a new base.
LEMMA WorldKeepsForeign == TypeOK /\ ForeignInv /\ World => ForeignInv'
  <1> SUFFICES ASSUME TypeOK, ForeignInv, World PROVE ForeignInv' OBVIOUS
  <1>1. UNCHANGED <<query, kv>>
    BY DEF World, HookSavesGraph, HookSavesManifest, HookDies, RebuildIndex, Remember, ForeignSaves
  <1>2. /\ foreign.base \in Nat /\ foreign.version \in Nat /\ foreign.base <= foreign.version
        /\ foreign' = foreign \/ (foreign'.version = foreign.version + 1
                                   /\ foreign'.base \in {foreign.base, foreign.version + 1})
    BY DEF World, HookSavesGraph, HookSavesManifest, HookDies, RebuildIndex, Remember, ForeignSaves,
           Saves, TypeOK, Graphs, ForeignInv
  <1>3. /\ foreign'.base \in Nat /\ foreign'.version \in Nat /\ foreign'.base <= foreign'.version
        /\ foreign.base <= foreign'.base /\ foreign.version <= foreign'.version
    BY <1>2
  <1>4. ASSUME NEW q \in Queries PROVE FineForeign(query[q])'
    <2>1. query[q] \in Local /\ FineForeign(query[q])
      BY DEF TypeOK, ForeignInv
    <2>2. /\ query[q].begun.foreign.base \in Nat /\ query[q].begun.foreign.version \in Nat
          /\ query[q].sources.foreign \in Nat
      BY <2>1 DEF Local, Acknowledgements, Signatures, Graphs
    <2>3. /\ query[q].at # "idle" => /\ query[q].begun.foreign.base <= foreign'.base
                                     /\ query[q].begun.foreign.version <= foreign'.version
          /\ query[q].at \in Signed => query[q].sources.foreign <= foreign'.base
      BY <1>2, <1>3, <2>1, <2>2 DEF FineForeign
    <2> QED BY <1>1, <2>1, <2>3 DEF FineForeign, ForeignSeen, ForeignDue
  <1>5. \A e \in kv' : KeptForeign(e)'
    BY <1>1 DEF ForeignInv, KeptForeign, ForeignSeen
  <1> QED BY <1>3, <1>4, <1>5 DEF ForeignInv

\* A step of a request leaves foreign graphs alone, and the other requests.
LEMMA LocalKeepsForeign ==
  ASSUME TypeOK, ForeignInv, NEW q \in Queries, query' = [query EXCEPT ![q] = query'[q]],
         foreign' = foreign, FineForeign(query[q])', \A e \in kv' \ kv : KeptForeign(e)
  PROVE  ForeignInv'
  <1>1. ASSUME NEW p \in Queries PROVE FineForeign(query[p])'
    <2>1. CASE p = q
      BY <2>1
    <2>2. CASE p # q
      <3>1. query'[p] = query[p] /\ FineForeign(query[p])
        BY <2>2 DEF TypeOK, ForeignInv
      <3> QED BY <3>1 DEF FineForeign, ForeignSeen, ForeignDue
    <2> QED BY <2>1, <2>2
  <1>2. \A e \in kv' : KeptForeign(e)'
    BY DEF ForeignInv, KeptForeign, ForeignSeen
  <1> QED BY <1>1, <1>2 DEF ForeignInv

\* A step up to the sources that are other graphs takes the signature or keeps it.
LEMMA EarlyKeepsForeign ==
  ASSUME TypeOK, TypeOK', ForeignInv, NEW q \in Queries,
         query' = [query EXCEPT ![q] = query'[q]], UNCHANGED foreign, kv' \subseteq kv,
         query[q].at # "idle", query'[q].begun = query[q].begun,
         query'[q].at # "answered", query'[q].at = "compile" => ~Federates(query'[q].req),
         query'[q].at \in Signed => \/ query[q].at \in Signed /\ query'[q].sources = query[q].sources
                                    \/ query'[q].sources = SourceState
  PROVE  ForeignInv'
  <1>1. FineForeign(query[q]) /\ foreign.base \in Nat
    BY DEF ForeignInv, TypeOK, Graphs
  <1>2. query'[q].at \in Signed => /\ query'[q].begun.foreign.base <= query'[q].sources.foreign
                                   /\ query'[q].sources.foreign <= foreign.base
    BY <1>1 DEF FineForeign, SourceState
  <1>3. FineForeign(query[q])'
    BY <1>1, <1>2 DEF FineForeign
  <1> QED BY <1>3, LocalKeepsForeign

\* A request on its way to its key.
LEMMA PrepareKeepsForeign ==
  ASSUME TypeOK, TypeOK', ForeignInv, NEW q \in Queries, Prepare(q) PROVE ForeignInv'
  <1>1. /\ query[q] \in Local /\ query'[q] \in Local /\ foreign \in Graphs
        /\ foreign.base <= foreign.version
    BY DEF TypeOK, ForeignInv
  <1>2. UNCHANGED <<kv, foreign>> /\ query' = [query EXCEPT ![q] = query'[q]]
    BY DEF Prepare, Ask, RefreshNothing, RefreshGraph, RefreshManifest, Inspect, Sign, Goto, Become,
           Unchanged, state, TypeOK
  <1>3. CASE Ask(q)
    <2>1. PICK req \in Requests :
            Become(q, [Idle EXCEPT !.at = IF req.refresh THEN "refresh" ELSE "sign",
                                   !.req = req, !.begun = Acknowledged,
                                   !.measured = IF req.refresh THEN 0 ELSE manifest.updated_at])
      BY <1>3 DEF Ask
    <2> DEFINE new == [Idle EXCEPT !.at = IF req.refresh THEN "refresh" ELSE "sign",
                                   !.req = req, !.begun = Acknowledged,
                                   !.measured = IF req.refresh THEN 0 ELSE manifest.updated_at]
    <2>2. query'[q] = new
      BY <2>1 DEF Become, TypeOK
    <2>3. new.at \in {"refresh", "sign"} /\ new.begun.foreign = foreign
      BY DEF Acknowledged, Idle
    <2> HIDE DEF new
    <2>4. FineForeign(query[q])'
      BY <1>1, <1>2, <2>2, <2>3 DEF FineForeign, Signed, Holding, Graphs
    <2> QED BY <1>2, <2>4, LocalKeepsForeign
  <1>4. CASE Sign(q)
    <2>1. query'[q] = [query[q] EXCEPT !.at = "lookup", !.sources = SourceState] /\ query[q].at = "sign"
      BY <1>4 DEF Sign, Become, At, TypeOK
    <2>2. query'[q].at = "lookup" /\ query'[q].begun = query[q].begun /\ query'[q].sources = SourceState
      BY <1>1, <2>1 DEF Local
    <2> QED BY <1>2, <2>1, <2>2, EarlyKeepsForeign
  <1>5. CASE RefreshNothing(q) \/ RefreshGraph(q) \/ RefreshManifest(q) \/ Inspect(q)
    <2>1. /\ query'[q].at \in {"refreshed", "inspect", "sign"} /\ query[q].at # "idle"
          /\ query'[q].begun = query[q].begun
      <3>1. CASE RefreshNothing(q) \/ RefreshManifest(q)
        <4>1. query'[q] = [query[q] EXCEPT !.at = "inspect"] /\ query[q].at # "idle"
          BY <3>1 DEF RefreshNothing, RefreshManifest, At, Goto, TypeOK
        <4> QED BY <1>1, <4>1 DEF Local
      <3>2. CASE RefreshGraph(q)
        <4>1. query'[q] = [query[q] EXCEPT !.at = "refreshed", !.graph = graph', !.resident = TRUE]
              /\ query[q].at # "idle"
          BY <3>2 DEF RefreshGraph, At, Become, TypeOK
        <4> QED BY <1>1, <4>1 DEF Local
      <3>3. CASE Inspect(q)
        <4>1. query'[q] = [query[q] EXCEPT !.at = "sign", !.measured = manifest.updated_at]
              /\ query[q].at # "idle"
          BY <3>3 DEF Inspect, At, Become, TypeOK
        <4> QED BY <1>1, <4>1 DEF Local
      <3> QED BY <1>5, <3>1, <3>2, <3>3
    <2> QED BY <1>2, <2>1, EarlyKeepsForeign DEF Signed, Holding
  <1> QED BY <1>3, <1>4, <1>5 DEF Prepare

\* A request from its key to its graph; an answer that is found under the key has what
\* the key's signature stands for.
LEMMA CachedKeepsForeign ==
  ASSUME TypeOK, TypeOK', ForeignInv, NEW q \in Queries, Cached(q) PROVE ForeignInv'
  <1>1. /\ query[q] \in Local /\ query'[q] \in Local /\ foreign \in Graphs
        /\ FineForeign(query[q]) /\ graph \in Graphs /\ kv \subseteq Entry
    BY DEF TypeOK, ForeignInv
  <1>2. /\ UNCHANGED foreign /\ kv' \subseteq kv /\ query' = [query EXCEPT ![q] = query'[q]]
        /\ query[q].at \in {"lookup", "load"}
    BY DEF Cached, UseResident, Bypass, Hit, Miss, Load, Goto, Become, At, Unchanged, state, TypeOK
  <1>3. query[q].at # "idle" /\ query[q].at \in Signed
    BY <1>2 DEF Signed
  <1>4. CASE UseResident(q) \/ Load(q)
    <2>1. PICK used \in Graphs : query'[q] = Planned(q, used)
      BY <1>1, <1>4 DEF UseResident, Load, Become, Local, TypeOK
    <2>2. /\ query'[q].at \in {"check_index", "auxiliary", "compile"} /\ query'[q].req = query[q].req
          /\ query'[q].begun = query[q].begun /\ query'[q].sources = query[q].sources
          /\ query'[q].at = "compile" => ~Consults(query[q].req)
      BY <2>1, PlannedFields
    <2>3. query'[q].at = "compile" => ~Federates(query'[q].req)
      BY <2>2 DEF Federates
    <2> QED BY <1>2, <1>3, <2>2, <2>3, EarlyKeepsForeign
  <1>5. CASE Bypass(q) \/ Miss(q)
    <2>1. query'[q] = [query[q] EXCEPT !.at = "load"]
      BY <1>5 DEF Bypass, Miss, Goto, TypeOK
    <2>2. query'[q].at = "load" /\ query'[q].begun = query[q].begun /\ query'[q].sources = query[q].sources
      BY <1>1, <2>1 DEF Local
    <2> QED BY <1>2, <1>3, <2>2, EarlyKeepsForeign
  <1>6. CASE Hit(q)
    <2>1. PICK e \in Valid(q) : Become(q, Answered(q, e.view))
      BY <1>6 DEF Hit
    <2>2. /\ e \in kv /\ e.view \in Views /\ e.key.req = query[q].req
          /\ e.key.sources = query[q].sources /\ ~query[q].req.snippets
      BY <1>1, <1>6, <2>1 DEF Valid, Entries, CacheKey, Req, Entry, Hit
    <2>3. /\ query'[q] = Answered(q, e.view) /\ query'[q].at = "answered"
          /\ query'[q].req = query[q].req /\ query'[q].begun = query[q].begun /\ query'[q].view = e.view
      BY <2>1, <2>2, AnsweredFields DEF Become, TypeOK
    <2>4. Federates(query[q].req) => ForeignSeen(query[q].sources.foreign, e.view)
      BY <2>2 DEF ForeignInv, KeptForeign
    <2>5. /\ query[q].begun.foreign.base <= query[q].sources.foreign
          /\ query[q].begun.foreign.base \in Nat /\ query[q].sources.foreign \in Nat
          /\ e.view.foreign \in Nat
      BY <1>1, <1>3, <2>2 DEF FineForeign, Local, Acknowledgements, Signatures, Graphs, Views
    <2>6. Federates(query[q].req) => ForeignSeen(query[q].begun.foreign.base, e.view)
      BY <2>4, <2>5 DEF ForeignSeen
    <2>7. ForeignDue(query'[q]) = query[q].begun.foreign.base
      BY <2>2, <2>3 DEF ForeignDue
    <2>8. FineForeign(query[q])'
      <3>1. Federates(query'[q].req) => ForeignSeen(ForeignDue(query'[q]), query'[q].view)
        BY <2>3, <2>6, <2>7
      <3> QED BY <1>1, <1>2, <1>3, <2>3, <3>1 DEF FineForeign, Signed, Holding
    <2> QED BY <1>2, <2>8, LocalKeepsForeign
  <1> QED BY <1>4, <1>5, <1>6 DEF Cached

\* Vectors have no part in it.
LEMMA SemanticKeepsForeign ==
  ASSUME TypeOK, TypeOK', ForeignInv, NEW q \in Queries, Semantic(q) PROVE ForeignInv'
  <1>1. /\ query[q].at \in Signed /\ query[q].at # "idle" /\ query' = [query EXCEPT ![q] = query'[q]]
        /\ UNCHANGED <<kv, foreign>>
    BY DEF Semantic, UseIndex, ColdBackend, NoCurrentIndex, BuildIndex, LoadFromMemo, ReadIndex,
           RememberIndex, SemanticFails, At, Goto, Become, Unchanged, state, Signed, Holding, TypeOK
  <1>2. /\ query'[q].at \in {"load_index", "remember_index", "auxiliary"}
        /\ query'[q].begun = query[q].begun /\ query'[q].sources = query[q].sources
    BY SemanticFields
  <1> QED BY <1>1, <1>2, EarlyKeepsForeign

\* What is read of a foreign graph has its sidecar's records too; what is stored is as
\* good as the signature in its key.
LEMMA FinishKeepsForeign ==
  ASSUME TypeOK, TypeOK', ForeignInv, NEW q \in Queries, Finish(q) PROVE ForeignInv'
  <1>1. /\ query[q] \in Local /\ query'[q] \in Local /\ foreign \in Graphs
        /\ FineForeign(query[q]) /\ query[q].view \in Views /\ foreign.base <= foreign.version
    BY DEF TypeOK, ForeignInv, Local
  <1>2. UNCHANGED foreign /\ query' = [query EXCEPT ![q] = query'[q]]
    BY DEF Finish, ReadSources, SourceFails, Federate, FederationFails, AnswerOnly, Store, Return, Fail,
           Become, Unchanged, state, TypeOK
  <1>3. CASE ReadSources(q) \/ SourceFails(q)
    <2>1. /\ query'[q].at = Federating(q) /\ query'[q].begun = query[q].begun
          /\ query'[q].sources = query[q].sources /\ query'[q].req = query[q].req
          /\ query[q].at = "auxiliary" /\ kv' = kv
      <3>1. CASE ReadSources(q)
        <4>1. query'[q] = [query[q] EXCEPT !.at = Federating(q), !.view.notes = notes]
          BY <3>1 DEF ReadSources, Become, TypeOK
        <4> QED BY <1>1, <3>1, <4>1 DEF ReadSources, At, Unchanged, state, Local
      <3>2. CASE SourceFails(q)
        <4>1. query'[q] = [Warned(q, "auxiliary") EXCEPT !.at = Federating(q)]
          BY <3>2 DEF SourceFails, Become, TypeOK
        <4> QED BY <3>2, <4>1, WarnedFields DEF SourceFails, At, Unchanged, state, Local
      <3> QED BY <1>3, <3>1, <3>2
    <2>2. query'[q].at \in {"federate", "compile"} /\ (query'[q].at = "compile" => ~Federates(query'[q].req))
      BY <2>1 DEF Federating, Req
    <2>3. query[q].at \in Signed
      BY <2>1 DEF Signed, Holding
    <2> QED BY <1>2, <2>1, <2>2, <2>3, EarlyKeepsForeign
  <1>4. CASE Federate(q) \/ FederationFails(q)
    <2>1. /\ query'[q].at = "compile" /\ query'[q].begun = query[q].begun
          /\ query'[q].sources = query[q].sources /\ query[q].at = "federate" /\ kv' = kv
          /\ query'[q].view.foreign = foreign.version \/ "foreign" \in query'[q].view.warned
      <3>1. CASE Federate(q)
        <4>1. query'[q] = [query[q] EXCEPT !.at = "compile", !.view.foreign = foreign.version]
          BY <3>1 DEF Federate, Become, TypeOK
        <4> QED BY <1>1, <3>1, <4>1 DEF Federate, At, Unchanged, state, Local, Views
      <3>2. CASE FederationFails(q)
        <4>1. query'[q] = [Warned(q, "foreign") EXCEPT !.at = "compile"]
          BY <3>2 DEF FederationFails, Become, TypeOK
        <4> QED BY <3>2, <4>1, WarnedFields DEF FederationFails, At, Unchanged, state, Local
      <3> QED BY <1>4, <3>1, <3>2
    <2>2. /\ query[q].begun.foreign.version <= foreign.version /\ query[q].sources.foreign <= foreign.base
          /\ query[q].sources.foreign \in Nat /\ foreign.base \in Nat /\ foreign.version \in Nat
      BY <1>1, <2>1 DEF FineForeign, Signed, Holding, Local, Signatures, Graphs
    <2>3. /\ ForeignSeen(query'[q].sources.foreign, query'[q].view)
          /\ ForeignSeen(query'[q].begun.foreign.version, query'[q].view)
      BY <1>1, <2>1, <2>2 DEF ForeignSeen
    <2>4. FineForeign(query[q])'
      BY <1>1, <1>2, <2>1, <2>3 DEF FineForeign, ForeignSeen, Signed, Holding
    <2> QED BY <1>2, <2>1, <2>4, LocalKeepsForeign
  <1>5. CASE AnswerOnly(q) \/ Store(q)
    <2>1. /\ query'[q] = Answered(q, query[q].view) /\ query[q].at = "compile"
          /\ kv' \subseteq kv \union {[key |-> CacheKey(q), base |-> graph.base, view |-> query[q].view]}
      BY <1>5 DEF AnswerOnly, Store, Become, At, Unchanged, state, TypeOK
    <2>2. /\ query'[q].at = "answered" /\ query'[q].req = query[q].req
          /\ query'[q].begun = query[q].begun /\ query'[q].view = query[q].view
      BY <1>1, <2>1, AnsweredFields
    <2>3. Federates(query[q].req) => /\ ForeignSeen(query[q].sources.foreign, query[q].view)
                                     /\ ForeignSeen(query[q].begun.foreign.version, query[q].view)
      BY <1>1, <2>1 DEF FineForeign
    <2>4. /\ query[q].begun.foreign.base <= query[q].sources.foreign
          /\ query[q].begun.foreign.base \in Nat /\ query[q].sources.foreign \in Nat
          /\ query[q].view.foreign \in Nat
      BY <1>1, <2>1 DEF FineForeign, Signed, Holding, Local, Acknowledgements, Signatures, Graphs, Views
    <2>5. Federates(query[q].req) => ForeignSeen(query[q].begun.foreign.base, query[q].view)
      BY <2>3, <2>4 DEF ForeignSeen
    <2>6. Federates(query'[q].req) => ForeignSeen(ForeignDue(query'[q]), query'[q].view)
      BY <2>2, <2>3, <2>5 DEF ForeignDue
    <2>7. FineForeign(query[q])'
      BY <1>1, <1>2, <2>1, <2>2, <2>6 DEF FineForeign, Signed, Holding
    <2>8. \A e \in kv' \ kv : KeptForeign(e)
      BY <2>1, <2>3 DEF KeptForeign, CacheKey, Req
    <2> QED BY <1>2, <2>7, <2>8, LocalKeepsForeign
  <1>6. CASE Return(q) \/ Fail(q)
    <2>1. query'[q] = Idle /\ kv' = kv
      BY <1>6 DEF Return, Fail, Become, Unchanged, state, TypeOK
    <2>2. FineForeign(query[q])'
      BY <2>1, IdleTyped DEF FineForeign, Signed, Holding
    <2> QED BY <1>2, <2>1, <2>2, LocalKeepsForeign
  <1> QED BY <1>3, <1>4, <1>5, <1>6 DEF Finish

\* No answer, cached or compiled, is behind what had been acknowledged when it was
\* asked for, whatever the number of requests, of refreshes and of entries; of a foreign
\* graph, what a cached answer owes is what its base file had (source_state_signature).
THEOREM AnswersSeeAcksHolds == Spec => []AnswersSeeAcks
  <1>1. TypeOK /\ TypeOK' /\ IInv /\ [Next]_vars => IInv'
    <2> SUFFICES ASSUME TypeOK, TypeOK', IInv, [Next]_vars PROVE IInv' OBVIOUS
    <2>1. CASE UNCHANGED vars
      BY <2>1 DEF vars, state, IInv, Fine, Kept, Covers, Serves, HasGraph, NotesSeen
    <2>2. CASE Next
      BY <2>2, WorldStep, PrepareStep, CachedStep, SemanticStep, FinishStep DEF Next
    <2> QED BY <2>1, <2>2
  <1>2. TypeOK /\ TypeOK' /\ ForeignInv /\ [Next]_vars => ForeignInv'
    <2> SUFFICES ASSUME TypeOK, TypeOK', ForeignInv, [Next]_vars PROVE ForeignInv' OBVIOUS
    <2>1. CASE UNCHANGED vars
      BY <2>1 DEF vars, state, ForeignInv, FineForeign, KeptForeign, ForeignSeen, ForeignDue
    <2>2. CASE Next
      BY <2>2, WorldKeepsForeign, PrepareKeepsForeign, CachedKeepsForeign, SemanticKeepsForeign,
         FinishKeepsForeign DEF Next
    <2> QED BY <2>1, <2>2
  <1>3. TypeOK /\ IInv /\ ForeignInv => AnswersSeeAcks
    BY InvariantImplies DEF AnswersSeeAcks, ForeignInv, FineForeign, ForeignSeen, NotesSeen, At, Req
  <1>4. Init /\ [][Next]_vars /\ []TypeOK => []IInv
    BY <1>1, InvariantInit, PTL
  <1>5. Init /\ [][Next]_vars /\ []TypeOK => []ForeignInv
    BY <1>2, ForeignInit, PTL
  <1> QED BY <1>3, <1>4, <1>5, TypeCorrect, PTL DEF Spec
-----------------------------------------------------------------------------
\* The semantic index.  Nothing is locked: what a request has found out about
\* semantic.json stays true because nobody replaced the file since (`crossed` says who
\* did), and an entry of the cache is as good as the signature in its key.

\* The vectors in a view are of the graph that the view is of; the view has an index
\* no older than `stat` and of the active backend, or a warning.
OfOneGraph(view) == view.index # NoIndex => view.index.of = view.graph
EvidenceSeen(stat, view) ==
  "semantic" \in view.warned \/ (stat <= view.index.stat /\ view.index.backend = Active)

Scorable == {"remember_index", "auxiliary", "federate", "compile", "answered"}

\* What holds of one request with local state l, as far as semantic.json goes.
FineIndex(l) ==
  /\ l.at # "idle" => l.begun.index <= index.stat
  /\ l.at \in Signed => l.begun.index <= l.sources.index /\ l.sources.index <= index.stat
  /\ l.at \in Holding => l.view.graph = l.graph.version
  /\ l.at \notin Scorable => l.view.index = NoIndex
  /\ ~crossed =>
       /\ l.at = "load_index" => IsCurrent(l.graph)
       /\ l.at = "remember_index" => l.view.index = index /\ index.of = l.graph.version
       /\ l.at \in {"auxiliary", "federate", "compile", "answered"} => OfOneGraph(l.view)
       /\ l.at \in {"auxiliary", "federate", "compile"} /\ Embeds(l.req) =>
            EvidenceSeen(l.sources.index, l.view)
       /\ l.at = "answered" /\ Embeds(l.req) => EvidenceSeen(l.begun.index, l.view)

\* What holds of an entry of the cache, and of the index in memory.
KeptIndex(e) ==
  ~crossed => /\ OfOneGraph(e.view)
              /\ Embeds(e.key.req) => EvidenceSeen(e.key.sources.index, e.view)
MemoFine ==
  ~crossed => \/ memo = NoIndex
              \/ memo.stat <= index.stat /\ (memo.stat = index.stat => memo = index)

IndexInv ==
  /\ index.stat > 0 /\ MemoFine
  /\ \A q \in Queries : FineIndex(query[q])
  /\ \A e \in kv : KeptIndex(e)
\* The index stays, or is replaced by a later one, which the history records.
IndexMoves ==
  \/ UNCHANGED <<index, crossed>>
  \/ index'.stat = index.stat + 1 /\ crossed' = (crossed \/ BetweenLooks)

\* That semantic.json was replaced between two looks is not forgotten.
LEMMA CrossedStays == IndexMoves /\ ~crossed' => ~crossed
  BY DEF IndexMoves

\* What the invariant of the index is for.
LEMMA IndexInvImplies == TypeOK /\ IndexInv => IndexIsOfTheGraph /\ SemanticLossIsReported
  <1> SUFFICES ASSUME TypeOK, IndexInv, ~crossed, NEW q \in Queries, query[q].at = "answered"
               PROVE  /\ OfOneGraph(query[q].view)
                      /\ Embeds(query[q].req) => EvidenceSeen(query[q].begun.index, query[q].view)
    BY DEF IndexIsOfTheGraph, SemanticLossIsReported, OfOneGraph, EvidenceSeen, At, Req, TypeOK,
           Local, Views, Indexes
  <1> QED BY DEF IndexInv, FineIndex

\* Nothing was indexed yet.
LEMMA IndexInvInit == Init => IndexInv
  <1> SUFFICES ASSUME Init PROVE IndexInv OBVIOUS
  <1>1. \A q \in Queries : query[q].at = "idle" /\ query[q].view.index = NoIndex
    BY IdleTyped DEF Init, Idle, NoView
  <1>2. \A q \in Queries : FineIndex(query[q])
    BY <1>1 DEF FineIndex, Signed, Holding, Scorable
  <1>3. index.stat > 0 /\ memo = NoIndex /\ kv = {}
    BY DEF Init
  <1> QED BY <1>2, <1>3 DEF IndexInv, MemoFine

\* What another does leaves a request in order, and the index in memory.
LEMMA OthersKeepIndex ==
  ASSUME TypeOK, TypeOK', IndexMoves, NEW p \in Queries, FineIndex(query[p]), query'[p] = query[p]
  PROVE  FineIndex(query[p])'
  <1>1. /\ index.stat \in Nat /\ index'.stat \in Nat /\ index.stat <= index'.stat
        /\ query[p] \in Local
    BY DEF TypeOK, IndexMoves, Indexes
  <1>2. /\ query[p].at # "idle" => query[p].begun.index <= index'.stat
        /\ query[p].at \in Signed => query[p].sources.index <= index'.stat
    BY <1>1 DEF FineIndex, Local, Acknowledgements, Signatures
  <1>3. ~crossed' => ~crossed
    BY DEF IndexMoves
  <1>4. ~crossed' /\ query[p].at \in {"load_index", "remember_index"} => index' = index
    BY DEF IndexMoves, BetweenLooks
  <1>5. ~crossed' /\ query[p].at = "load_index" => IsCurrent(query[p].graph)'
    BY <1>3, <1>4 DEF FineIndex, IsCurrent
  <1> QED BY <1>2, <1>3, <1>4, <1>5 DEF FineIndex, OfOneGraph, EvidenceSeen

\* The memo of the process holds what was current when it was filled.
LEMMA MemoKept ==
  ASSUME TypeOK, TypeOK', IndexMoves, IndexInv, memo' = memo
  PROVE  MemoFine' /\ index'.stat > 0
  <1>1. index.stat \in Nat /\ index'.stat \in Nat /\ memo.stat \in Nat /\ index.stat > 0
    BY DEF TypeOK, Indexes, IndexInv
  <1>2. CASE UNCHANGED <<index, crossed>>
    BY <1>1, <1>2 DEF IndexInv, MemoFine
  <1>3. CASE index'.stat = index.stat + 1 /\ crossed' = (crossed \/ BetweenLooks)
    <2>1. ~crossed' => memo = NoIndex \/ memo.stat <= index.stat
      BY <1>3 DEF IndexInv, MemoFine
    <2>2. index'.stat > 0 /\ (memo.stat <= index.stat => memo.stat <= index'.stat /\ memo.stat # index'.stat)
      BY <1>1, <1>3
    <2> QED BY <2>1, <2>2 DEF MemoFine
  <1> QED BY <1>2, <1>3 DEF IndexMoves

\* A step that changes one request only, and takes nothing new into the caches.
LEMMA LocalKeepsIndex ==
  ASSUME TypeOK, TypeOK', IndexInv, IndexMoves, NEW q \in Queries, NEW new \in Local, Become(q, new),
         kv' \subseteq kv, memo' = memo, FineIndex(query[q])'
  PROVE  IndexInv'
  <1>1. \A p \in Queries \ {q} : query'[p] = query[p]
    BY DEF Become, TypeOK
  <1>2. \A p \in Queries : FineIndex(query[p])'
    BY <1>1, OthersKeepIndex DEF IndexInv
  <1>3. \A e \in kv' : KeptIndex(e)'
    BY CrossedStays DEF IndexInv, KeptIndex, OfOneGraph, EvidenceSeen
  <1> QED BY <1>2, <1>3, MemoKept DEF IndexInv

\* What the world does, by an index that was read before it.
LEMMA WorldKeepsIndex == TypeOK /\ TypeOK' /\ IndexInv /\ World => IndexInv'
  <1> SUFFICES ASSUME TypeOK, TypeOK', IndexInv, World PROVE IndexInv' OBVIOUS
  <1>1. UNCHANGED <<query, kv, memo>>
    BY DEF World, HookSavesGraph, HookSavesManifest, HookDies, RebuildIndex, Remember, ForeignSaves
  <1>2. IndexMoves
    BY DEF World, HookSavesGraph, HookSavesManifest, HookDies, RebuildIndex, Remember, ForeignSaves, Written,
           IndexMoves
  <1>3. \A p \in Queries : FineIndex(query[p])'
    BY <1>1, <1>2, OthersKeepIndex DEF IndexInv
  <1>4. \A e \in kv' : KeptIndex(e)'
    BY <1>1, <1>2, CrossedStays DEF IndexInv, KeptIndex, OfOneGraph, EvidenceSeen
  <1> QED BY <1>1, <1>2, <1>3, <1>4, MemoKept DEF IndexInv

\* A request on its way to its key: it takes note of the index that is there.
LEMMA PrepareKeepsIndex ==
  ASSUME TypeOK, TypeOK', IndexInv, NEW q \in Queries, Prepare(q) PROVE IndexInv'
  <1>1. /\ query[q] \in Local /\ query'[q] \in Local /\ index.stat \in Nat
        /\ FineIndex(query[q])
    BY DEF TypeOK, IndexInv, Indexes
  <1>2. /\ UNCHANGED <<kv, memo, index, crossed>>
        /\ query' = [query EXCEPT ![q] = query'[q]]
    BY DEF Prepare, Ask, RefreshNothing, RefreshGraph, RefreshManifest, Inspect, Sign, Goto, Become,
           Unchanged, state, TypeOK
  <1>3. CASE Ask(q)
    <2>1. PICK req \in Requests :
            Become(q, [Idle EXCEPT !.at = IF req.refresh THEN "refresh" ELSE "sign",
                                   !.req = req, !.begun = Acknowledged,
                                   !.measured = IF req.refresh THEN 0 ELSE manifest.updated_at])
      BY <1>3 DEF Ask
    <2> DEFINE new == [Idle EXCEPT !.at = IF req.refresh THEN "refresh" ELSE "sign",
                                   !.req = req, !.begun = Acknowledged,
                                   !.measured = IF req.refresh THEN 0 ELSE manifest.updated_at]
    <2>2. query'[q] = new
      BY <2>1 DEF Become, TypeOK
    <2>3. new.at \in {"refresh", "sign"} /\ new.begun.index = index.stat /\ new.view.index = NoIndex
      BY IdleTyped DEF Local, Acknowledged, Idle, NoView
    <2> HIDE DEF new
    <2>4. FineIndex(query[q])'
      BY <1>1, <1>2, <2>2, <2>3 DEF FineIndex, Signed, Holding, Scorable
    <2> QED BY <1>1, <1>2, <2>4, LocalKeepsIndex DEF Become, IndexMoves
  <1>4. CASE Sign(q)
    <2>1. query'[q] = [query[q] EXCEPT !.at = "lookup", !.sources = SourceState]
      BY <1>4 DEF Sign, Become, TypeOK
    <2>2. /\ query[q].at = "sign" /\ query'[q].at = "lookup"
          /\ query'[q].begun = query[q].begun /\ query'[q].view = query[q].view
          /\ query'[q].sources.index = index.stat
      BY <1>1, <1>4, <2>1 DEF Sign, At, Local, SourceState
    <2>3. FineIndex(query[q])'
      BY <1>1, <1>2, <2>2 DEF FineIndex, Signed, Holding, Scorable
    <2> QED BY <1>1, <1>2, <2>3, LocalKeepsIndex DEF Become, IndexMoves
  <1>5. CASE RefreshNothing(q) \/ RefreshGraph(q) \/ RefreshManifest(q) \/ Inspect(q)
    <2>1. query'[q].at \in {"refreshed", "inspect", "sign"}
          /\ query'[q].begun = query[q].begun /\ query'[q].view = query[q].view
          /\ query[q].at \in {"refresh", "refreshed", "inspect"}
      <3>1. CASE RefreshNothing(q) \/ RefreshManifest(q)
        <4>1. query'[q] = [query[q] EXCEPT !.at = "inspect"]
          BY <3>1 DEF RefreshNothing, RefreshManifest, Goto, TypeOK
        <4> QED BY <1>1, <3>1, <4>1 DEF RefreshNothing, RefreshManifest, At, Local
      <3>2. CASE RefreshGraph(q)
        <4>1. query'[q] = [query[q] EXCEPT !.at = "refreshed", !.graph = graph', !.resident = TRUE]
          BY <3>2 DEF RefreshGraph, Become, TypeOK
        <4> QED BY <1>1, <3>2, <4>1 DEF RefreshGraph, At, Local
      <3>3. CASE Inspect(q)
        <4>1. query'[q] = [query[q] EXCEPT !.at = "sign", !.measured = manifest.updated_at]
          BY <3>3 DEF Inspect, Become, TypeOK
        <4> QED BY <1>1, <3>3, <4>1 DEF Inspect, At, Local
      <3> QED BY <1>5, <3>1, <3>2, <3>3
    <2>2. FineIndex(query[q])'
      BY <1>1, <1>2, <2>1 DEF FineIndex, Signed, Holding, Scorable
    <2> QED BY <1>1, <1>2, <2>2, LocalKeepsIndex DEF Become, IndexMoves
  <1> QED BY <1>3, <1>4, <1>5 DEF Prepare

\* The look-up: an entry under the key of a request has seen the index of that key.
LEMMA CachedKeepsIndex ==
  ASSUME TypeOK, TypeOK', IndexInv, NEW q \in Queries, Cached(q) PROVE IndexInv'
  <1>1. /\ query[q] \in Local /\ query'[q] \in Local /\ index.stat \in Nat
        /\ graph \in Graphs /\ FineIndex(query[q])
    BY DEF TypeOK, IndexInv, Indexes
  <1>2. /\ UNCHANGED <<memo, index, crossed>> /\ kv' \subseteq kv
        /\ query' = [query EXCEPT ![q] = query'[q]]
        /\ query[q].at \in {"lookup", "load"}
    BY DEF Cached, UseResident, Bypass, Hit, Miss, Load, Goto, Become, At, Unchanged, state, TypeOK
  <1>3. FineIndex(query[q])'
    <2>1. CASE UseResident(q) \/ Load(q)
      <3>1. PICK used \in Graphs : query'[q] = Planned(q, used)
        BY <1>1, <2>1 DEF UseResident, Load, Become, TypeOK, Local
      <3>2. /\ query'[q].at \in {"check_index", "auxiliary", "compile"}
            /\ query'[q].at # "check_index" => ~Embeds(query[q].req)
            /\ query'[q].req = query[q].req /\ query'[q].begun = query[q].begun
            /\ query'[q].sources = query[q].sources /\ query'[q].graph = used
            /\ query'[q].view.graph = used.version /\ query'[q].view.index = query[q].view.index
        <4> HIDE DEF Embeds, Consults
        <4> QED BY <1>1, <3>1 DEF Planned, Req, Local, Views, Graphs
      <3>3. query[q].view.index = NoIndex
        BY <1>1, <1>2 DEF FineIndex, Scorable
      <3> QED BY <1>1, <1>2, <3>2, <3>3 DEF FineIndex, Signed, Holding, Scorable, OfOneGraph
    <2>2. CASE Bypass(q) \/ Miss(q)
      <3>1. query'[q] = [query[q] EXCEPT !.at = "load"]
        BY <2>2 DEF Bypass, Miss, Goto, Unchanged, state, TypeOK
      <3>2. query'[q].at = "load" /\ query'[q].begun = query[q].begun
            /\ query'[q].sources = query[q].sources /\ query'[q].view = query[q].view
        BY <1>1, <3>1 DEF Local
      <3> QED BY <1>1, <1>2, <3>2 DEF FineIndex, Signed, Holding, Scorable
    <2>3. CASE Hit(q)
      <3>1. PICK e \in Valid(q) : query'[q] = Answered(q, e.view)
        BY <2>3 DEF Hit, Become, TypeOK
      <3>2. /\ e \in kv /\ e.view \in Views /\ e.key.req = query[q].req
            /\ e.key.sources = query[q].sources
        BY <3>1 DEF Valid, Entries, CacheKey, Req, TypeOK, Entry
      <3>3. /\ query'[q].at = "answered" /\ query'[q].req = query[q].req
            /\ query'[q].begun = query[q].begun /\ query'[q].view = e.view
        BY <3>1, <3>2, AnsweredFields
      <3>4. KeptIndex(e)
        BY <3>2 DEF IndexInv
      <3>5. query[q].begun.index <= query[q].sources.index
        BY <1>1, <1>2 DEF FineIndex, Signed
      <3>6. ~crossed /\ Embeds(query[q].req) => EvidenceSeen(query[q].begun.index, e.view)
        <4>1. e.view.index.stat \in Nat
          BY <3>2 DEF Views, Indexes
        <4>2. ~crossed /\ Embeds(query[q].req) => EvidenceSeen(query[q].sources.index, e.view)
          BY <3>2, <3>4 DEF KeptIndex
        <4> QED BY <1>1, <3>5, <4>1, <4>2 DEF EvidenceSeen, Local, Acknowledgements, Signatures
      <3> QED BY <1>1, <1>2, <3>3, <3>4, <3>6 DEF FineIndex, Signed, Holding, Scorable, KeptIndex
    <2> QED BY <2>1, <2>2, <2>3 DEF Cached
  <1> QED BY <1>1, <1>2, <1>3, LocalKeepsIndex DEF Become, IndexMoves

\* The semantic step: what is read is the index that was found to be of the graph.
LEMMA SemanticKeepsIndex ==
  ASSUME TypeOK, TypeOK', IndexInv, NEW q \in Queries, Semantic(q) PROVE IndexInv'
  <1>1. /\ query[q] \in Local /\ query'[q] \in Local /\ index \in Indexes /\ memo \in Indexes
        /\ FineIndex(query[q]) /\ index.stat > 0 /\ query[q].view \in Views
    BY DEF TypeOK, IndexInv, Local
  <1>2. /\ query' = [query EXCEPT ![q] = query'[q]] /\ UNCHANGED kv
        /\ query[q].at \in {"check_index", "load_index", "remember_index"}
        /\ query[q].at \in Holding /\ query[q].at \in Signed
        /\ query[q].begun.index <= index.stat
        /\ query[q].begun.index <= query[q].sources.index /\ query[q].sources.index <= index.stat
        /\ query[q].view.graph = query[q].graph.version
    <2>1. query' = [query EXCEPT ![q] = query'[q]] /\ UNCHANGED kv
          /\ query[q].at \in {"check_index", "load_index", "remember_index"}
      BY DEF Semantic, UseIndex, ColdBackend, NoCurrentIndex, BuildIndex, LoadFromMemo, ReadIndex,
             RememberIndex, SemanticFails, At, Goto, Become, Unchanged, state, TypeOK
    <2> QED BY <1>1, <2>1 DEF FineIndex, Holding, Signed
  <1>3. CASE UseIndex(q)
    <2>1. /\ query'[q].at = "load_index" /\ query'[q].begun = query[q].begun
          /\ query'[q].sources = query[q].sources /\ query'[q].graph = query[q].graph
          /\ query'[q].view = query[q].view /\ query[q].at = "check_index"
          /\ IsCurrent(query[q].graph) /\ UNCHANGED <<index, crossed, memo>>
      BY <1>1, <1>3 DEF UseIndex, Goto, At, Unchanged, state, TypeOK, Local
    <2>2. FineIndex(query[q])'
      BY <1>1, <1>2, <2>1 DEF FineIndex, Scorable, Holding, Signed, IsCurrent
    <2> QED BY <1>1, <1>2, <2>1, <2>2, LocalKeepsIndex DEF Become, IndexMoves
  <1>4. CASE ColdBackend(q) \/ NoCurrentIndex(q)
    <2>1. query'[q] = [Warned(q, "semantic") EXCEPT !.at = "auxiliary"]
          /\ query[q].at = "check_index" /\ UNCHANGED <<index, crossed, memo>>
      BY <1>4 DEF ColdBackend, NoCurrentIndex, Become, At, Unchanged, state, TypeOK
    <2>2. /\ query'[q].at = "auxiliary" /\ query'[q].begun = query[q].begun
          /\ query'[q].sources = query[q].sources /\ query'[q].graph = query[q].graph
          /\ query'[q].view.graph = query[q].view.graph /\ "semantic" \in query'[q].view.warned
      BY <2>1, WarnedFields DEF Local
    <2>3. query'[q].view.index = NoIndex
      <3>1. query[q].view.index = NoIndex
        BY <1>1, <2>1 DEF FineIndex, Scorable
      <3>2. Warned(q, "semantic").view.index = query[q].view.index
        BY <1>1 DEF Warned, Local, Views
      <3> QED BY <2>1, <3>1, <3>2, WarnedFields DEF Local
    <2>4. FineIndex(query[q])'
      BY <1>1, <1>2, <2>1, <2>2, <2>3 DEF FineIndex, Scorable, Holding, Signed, OfOneGraph, EvidenceSeen
    <2> QED BY <1>1, <1>2, <2>1, <2>4, LocalKeepsIndex DEF Become, IndexMoves
  <1>5. CASE BuildIndex(q)
    <2>1. /\ query'[q] = [query[q] EXCEPT !.at = "remember_index", !.view.index = index']
          /\ index'.stat = index.stat + 1 /\ index'.of = query[q].graph.version /\ memo' = memo
          /\ crossed' = (crossed \/ BetweenLooks)
      BY <1>5 DEF BuildIndex, Become, Written, TypeOK
    <2>2. /\ query'[q].at = "remember_index" /\ query'[q].begun = query[q].begun
          /\ query'[q].sources = query[q].sources /\ query'[q].graph = query[q].graph
          /\ query'[q].view.graph = query[q].view.graph /\ query'[q].view.index = index'
      BY <1>1, <2>1 DEF Local, Views
    <2>3. query[q].begun.index <= index'.stat /\ query[q].sources.index <= index'.stat
      BY <1>1, <1>2, <2>1 DEF Local, Acknowledgements, Signatures, Indexes
    <2>4. FineIndex(query[q])'
      BY <1>2, <2>1, <2>2, <2>3 DEF FineIndex, Scorable, Holding, Signed
    <2> QED BY <1>1, <1>2, <2>1, <2>4, LocalKeepsIndex DEF Become, IndexMoves
  <1>6. CASE ReadIndex(q)
    <2>1. query'[q] = [query[q] EXCEPT !.at = "remember_index", !.view.index = index]
          /\ query[q].at = "load_index" /\ UNCHANGED <<index, crossed, memo>>
      BY <1>6 DEF ReadIndex, Become, At, Unchanged, state, TypeOK
    <2>2. /\ query'[q].at = "remember_index" /\ query'[q].begun = query[q].begun
          /\ query'[q].sources = query[q].sources /\ query'[q].graph = query[q].graph
          /\ query'[q].view.graph = query[q].view.graph /\ query'[q].view.index = index
      BY <1>1, <2>1 DEF Local, Views
    <2>3. ~crossed => index.of = query[q].graph.version
      BY <1>1, <2>1 DEF FineIndex, IsCurrent
    <2>4. FineIndex(query[q])'
      BY <1>2, <2>1, <2>2, <2>3 DEF FineIndex, Scorable, Holding, Signed
    <2> QED BY <1>1, <1>2, <2>1, <2>4, LocalKeepsIndex DEF Become, IndexMoves
  <1>7. ASSUME NEW used \in Indexes, query'[q] = Scored(q, used), UNCHANGED <<index, crossed>>,
               ~crossed => used = index /\ index.of = query[q].graph.version
        PROVE  FineIndex(query[q])'
    <2>1. /\ query'[q].at = "auxiliary" /\ query'[q].req = query[q].req
          /\ query'[q].begun = query[q].begun
          /\ query'[q].sources = query[q].sources /\ query'[q].graph = query[q].graph
          /\ query'[q].view.graph = query[q].view.graph /\ query'[q].view.index = used
          /\ used.backend = Active \/ "semantic" \in query'[q].view.warned
      <3>1. CASE used.backend = Offline /\ Active # Offline
        <4>1. query'[q] = [Warned(q, "semantic") EXCEPT !.at = "auxiliary", !.view.index = used]
          BY <1>7, <3>1 DEF Scored
        <4> QED BY <4>1, WarnedFields DEF Local, Views
      <3>2. CASE ~(used.backend = Offline /\ Active # Offline)
        <4>1. query'[q] = [query[q] EXCEPT !.at = "auxiliary", !.view.index = used]
          BY <1>7, <3>2 DEF Scored
        <4>2. used.backend = Active
          BY <3>2 DEF Indexes
        <4> QED BY <1>1, <4>1, <4>2 DEF Local, Views
      <3> QED BY <3>1, <3>2
    <2>2. ~crossed => OfOneGraph(query'[q].view) /\ EvidenceSeen(query[q].sources.index, query'[q].view)
      BY <1>2, <1>7, <2>1 DEF OfOneGraph, EvidenceSeen
    <2> QED BY <1>2, <1>7, <2>1, <2>2 DEF FineIndex, Scorable, Holding, Signed, OfOneGraph, EvidenceSeen
  <1>8. CASE LoadFromMemo(q)
    <2>1. /\ query'[q] = Scored(q, memo) /\ UNCHANGED <<index, crossed, memo>>
          /\ query[q].at = "load_index" /\ memo # NoIndex /\ memo.stat = index.stat
      BY <1>8 DEF LoadFromMemo, Become, At, Unchanged, state, TypeOK
    <2>2. ~crossed => memo = index /\ index.of = query[q].graph.version
      BY <1>1, <2>1 DEF FineIndex, IsCurrent, IndexInv, MemoFine
    <2>3. FineIndex(query[q])'
      BY <1>1, <1>7, <2>1, <2>2
    <2> QED BY <1>1, <1>2, <2>1, <2>3, LocalKeepsIndex DEF Become, IndexMoves
  <1>9. CASE RememberIndex(q)
    <2>1. /\ query'[q] = Scored(q, query[q].view.index) /\ UNCHANGED <<index, crossed>>
          /\ query[q].at = "remember_index"
          /\ memo' = [query[q].view.index EXCEPT !.stat = index.stat]
      BY <1>9 DEF RememberIndex, Become, At, TypeOK
    <2>2. ~crossed => query[q].view.index = index /\ index.of = query[q].graph.version
      BY <1>1, <2>1 DEF FineIndex
    <2>3. FineIndex(query[q])'
      BY <1>1, <1>7, <2>1, <2>2 DEF Views
    <2>4. MemoFine'
      <3>1. [index EXCEPT !.stat = index.stat] = index
        BY <1>1 DEF Indexes
      <3>2. ~crossed => memo' = index
        BY <2>1, <2>2, <3>1
      <3> QED BY <1>1, <2>1, <3>2 DEF MemoFine, Indexes
    <2>5. \A p \in Queries : FineIndex(query[p])'
      <3>1. IndexMoves /\ \A p \in Queries \ {q} : query'[p] = query[p]
        BY <1>2, <2>1 DEF IndexMoves, TypeOK
      <3> QED BY <2>3, <3>1, OthersKeepIndex DEF IndexInv
    <2>6. \A e \in kv' : KeptIndex(e)'
      BY <1>2, <2>1 DEF IndexInv, KeptIndex, OfOneGraph, EvidenceSeen
    <2> QED BY <1>1, <2>1, <2>4, <2>5, <2>6 DEF IndexInv
  <1>10. CASE SemanticFails(q)
    <2>1. query'[q] = [Warned(q, "semantic") EXCEPT !.at = "auxiliary", !.view.index = NoIndex]
          /\ UNCHANGED <<index, crossed, memo>>
      BY <1>10 DEF SemanticFails, Become, Unchanged, state, TypeOK
    <2>2. /\ query'[q].at = "auxiliary" /\ query'[q].begun = query[q].begun
          /\ query'[q].sources = query[q].sources /\ query'[q].graph = query[q].graph
          /\ query'[q].view.graph = query[q].view.graph /\ "semantic" \in query'[q].view.warned
          /\ query'[q].view.index = NoIndex
      BY <2>1, WarnedFields DEF Local, Views
    <2>3. FineIndex(query[q])'
      BY <1>1, <1>2, <2>1, <2>2 DEF FineIndex, Scorable, Holding, Signed, OfOneGraph, EvidenceSeen
    <2> QED BY <1>1, <1>2, <2>1, <2>3, LocalKeepsIndex DEF Become, IndexMoves
  <1> QED BY <1>3, <1>4, <1>5, <1>6, <1>8, <1>9, <1>10 DEF Semantic

\* An answer, and an entry, is what the request has compiled.
LEMMA FinishKeepsIndex ==
  ASSUME TypeOK, TypeOK', IndexInv, NEW q \in Queries, Finish(q) PROVE IndexInv'
  <1>1. /\ query[q] \in Local /\ query'[q] \in Local /\ index \in Indexes
        /\ FineIndex(query[q]) /\ query[q].view \in Views
    BY DEF TypeOK, IndexInv, Local
  <1>2. query' = [query EXCEPT ![q] = query'[q]] /\ UNCHANGED <<index, crossed, memo>>
    BY DEF Finish, ReadSources, SourceFails, Federate, FederationFails, AnswerOnly, Store, Return, Fail,
           Become, Unchanged, state, TypeOK
  <1>3. CASE ReadSources(q) \/ SourceFails(q) \/ Federate(q) \/ FederationFails(q)
    <2>1. /\ query'[q].at \in {"federate", "compile"} /\ query'[q].req = query[q].req
          /\ query[q].at \in {"auxiliary", "federate"}
          /\ query'[q].begun = query[q].begun /\ query'[q].sources = query[q].sources
          /\ query'[q].graph = query[q].graph /\ query'[q].view.graph = query[q].view.graph
          /\ query'[q].view.index = query[q].view.index
          /\ query[q].view.warned \subseteq query'[q].view.warned
      <3>1. CASE ReadSources(q)
        <4>1. query'[q] = [query[q] EXCEPT !.at = Federating(q), !.view.notes = notes]
          BY <3>1 DEF ReadSources, Become, TypeOK
        <4> QED BY <1>1, <3>1, <4>1 DEF ReadSources, Federating, At, Local, Views
      <3>2. CASE SourceFails(q)
        <4>1. query'[q] = [Warned(q, "auxiliary") EXCEPT !.at = Federating(q)]
          BY <3>2 DEF SourceFails, Become, TypeOK
        <4> QED BY <3>2, <4>1, WarnedFields DEF SourceFails, Federating, At, Local
      <3>3. CASE Federate(q)
        <4>1. query'[q] = [query[q] EXCEPT !.at = "compile", !.view.foreign = foreign.version]
          BY <3>3 DEF Federate, Become, TypeOK
        <4> QED BY <1>1, <3>3, <4>1 DEF Federate, At, Local, Views
      <3>4. CASE FederationFails(q)
        <4>1. query'[q] = [Warned(q, "foreign") EXCEPT !.at = "compile"]
          BY <3>4 DEF FederationFails, Become, TypeOK
        <4> QED BY <3>4, <4>1, WarnedFields DEF FederationFails, At, Local
      <3> QED BY <1>3, <3>1, <3>2, <3>3, <3>4
    <2>2. FineIndex(query[q])'
      BY <1>1, <1>2, <2>1 DEF FineIndex, Scorable, Holding, Signed, OfOneGraph, EvidenceSeen
    <2>3. kv' = kv
      BY <1>3 DEF ReadSources, SourceFails, Federate, FederationFails, Unchanged, state
    <2> QED BY <1>1, <1>2, <2>2, <2>3, LocalKeepsIndex DEF Become, IndexMoves
  <1> DEFINE answer == Answered(q, query[q].view)
  <1>4. ASSUME query[q].at = "compile", query'[q] = answer PROVE FineIndex(query[q])'
    <2>1. /\ answer.at = "answered" /\ answer.req = query[q].req /\ answer.begun = query[q].begun
          /\ answer.view = query[q].view
      BY <1>1, AnsweredFields
    <2> HIDE DEF answer
    <2>2. /\ query[q].begun.index <= index.stat /\ query[q].begun.index <= query[q].sources.index
          /\ ~crossed => OfOneGraph(query[q].view)
          /\ ~crossed /\ Embeds(query[q].req) => EvidenceSeen(query[q].sources.index, query[q].view)
      BY <1>1, <1>4 DEF FineIndex, Signed, Holding
    <2>3. ~crossed /\ Embeds(query[q].req) => EvidenceSeen(query[q].begun.index, query[q].view)
      BY <1>1, <2>2 DEF EvidenceSeen, Local, Acknowledgements, Signatures, Views, Indexes
    <2> QED BY <1>2, <1>4, <2>1, <2>2, <2>3 DEF FineIndex, Scorable, Holding, Signed, OfOneGraph, EvidenceSeen
  <1>5. CASE AnswerOnly(q)
    <2>1. query[q].at = "compile" /\ query'[q] = answer /\ kv' = kv
      BY <1>5 DEF AnswerOnly, At, Become, Unchanged, state, TypeOK
    <2>2. FineIndex(query[q])'
      BY <1>4, <2>1
    <2> QED BY <1>1, <1>2, <2>1, <2>2, LocalKeepsIndex DEF Become, IndexMoves
  <1>6. CASE Return(q) \/ Fail(q)
    <2>1. query'[q] = Idle /\ kv' = kv
      BY <1>6 DEF Return, Fail, Become, Unchanged, state, TypeOK
    <2>2. Idle.at = "idle" /\ Idle.view.index = NoIndex
      BY DEF Idle, NoView
    <2>3. FineIndex(query[q])'
      BY <2>1, <2>2 DEF FineIndex, Scorable, Holding, Signed
    <2> QED BY <1>1, <1>2, <2>1, <2>3, LocalKeepsIndex DEF Become, IndexMoves
  <1>7. CASE Store(q)
    <2> DEFINE entry == [key |-> CacheKey(q), base |-> graph.base, view |-> query[q].view]
    <2>1. /\ query[q].at = "compile" /\ query'[q] = answer /\ kv' \subseteq kv \union {entry}
      BY <1>7 DEF Store, At, Become, TypeOK
    <2>2. /\ entry.key.req = query[q].req /\ entry.key.sources = query[q].sources
          /\ entry.view = query[q].view
      BY DEF CacheKey, Req
    <2> HIDE DEF entry
    <2>3. KeptIndex(entry)
      BY <1>1, <2>1, <2>2 DEF FineIndex, KeptIndex
    <2>4. \A e \in kv' : KeptIndex(e)'
      BY <1>2, <2>1, <2>3 DEF IndexInv, KeptIndex, OfOneGraph, EvidenceSeen
    <2>5. \A p \in Queries : FineIndex(query[p])'
      <3>1. IndexMoves /\ \A p \in Queries \ {q} : query'[p] = query[p]
        BY <1>2 DEF IndexMoves, TypeOK
      <3>2. FineIndex(query[q])'
        BY <1>4, <2>1
      <3> QED BY <3>1, <3>2, OthersKeepIndex DEF IndexInv
    <2> QED BY <1>2, <2>4, <2>5 DEF IndexInv, MemoFine
  <1> QED BY <1>3, <1>5, <1>6, <1>7 DEF Finish

\* What the two claims about the semantic index rest on, for any number of requests,
\* rebuilds and cached answers.
THEOREM IndexInvariant == Spec => []IndexInv
  <1>1. TypeOK /\ TypeOK' /\ IndexInv /\ [Next]_vars => IndexInv'
    <2> SUFFICES ASSUME TypeOK, TypeOK', IndexInv, [Next]_vars PROVE IndexInv' OBVIOUS
    <2>1. CASE UNCHANGED vars
      BY <2>1 DEF vars, state, IndexInv, FineIndex, KeptIndex, MemoFine, OfOneGraph, EvidenceSeen, IsCurrent
    <2>2. CASE Next
      BY <2>2, WorldKeepsIndex, PrepareKeepsIndex, CachedKeepsIndex, SemanticKeepsIndex,
         FinishKeepsIndex DEF Next
    <2> QED BY <2>1, <2>2
  <1>2. Init /\ [][Next]_vars /\ []TypeOK => []IndexInv
    BY <1>1, IndexInvInit, PTL
  <1> QED BY <1>2, TypeCorrect, PTL DEF Spec

\* Vectors never come from an index of another graph than the one an answer is about
\* (SemanticIndex.state_for_graph), unless the file was replaced between two looks.
THEOREM IndexIsOfTheGraphHolds == Spec => []IndexIsOfTheGraph
  BY IndexInvariant, TypeCorrect, IndexInvImplies, PTL

\* Semantic evidence that is missing, older than the request or downgraded is in the
\* receipt, also when the answer was compiled for an earlier request.
THEOREM SemanticLossIsReportedHolds == Spec => []SemanticLossIsReported
  BY IndexInvariant, TypeCorrect, IndexInvImplies, PTL

-----------------------------------------------------------------------------
(* Numbers and finite sets *)

\* A set of numbers that is not empty has a least one.
LEMMA LeastNumber ==
  ASSUME NEW S, S \subseteq Nat, S # {}
  PROVE  \E least \in S : \A n \in S : least <= n
<1> DEFINE Less == OpToRel(<, Nat)
<1>1. PICK least \in S : \A n \in S : ~ (<<n, least>> \in Less)
  <2> HIDE DEF Less
  <2>1. IsWellFoundedOn(Less, Nat)
    BY NatLessThanWellFounded DEF Less
  <2> QED BY <2>1, WFMin
<1>2. ASSUME NEW n \in S PROVE least <= n
  <2>1. n \in Nat /\ least \in Nat
    OBVIOUS
  <2>2. ~ (n < least)
    BY <1>1, <2>1 DEF OpToRel
  <2> QED BY <2>1, <2>2
<1> QED BY <1>2

\* A set that has 0 and the successors of its numbers has them all: induction for a
\* set, from the well-foundedness of <.
LEMMA SetInduction ==
  ASSUME NEW S, 0 \in S, \A n \in Nat : n \in S => n + 1 \in S
  PROVE  Nat \subseteq S
<1> SUFFICES ASSUME Nat \ S # {} PROVE FALSE
  OBVIOUS
<1>1. PICK least \in Nat \ S : \A n \in Nat \ S : least <= n
  <2>1. Nat \ S \subseteq Nat
    OBVIOUS
  <2> QED BY <2>1, LeastNumber
<1>2. least - 1 \in Nat /\ least = (least - 1) + 1 /\ ~ (least <= least - 1)
  OBVIOUS
<1> QED BY <1>1, <1>2

\* What the elements of a finite set are mapped to is finite, and no more.
LEMMA Mapped ==
  ASSUME NEW S, IsFiniteSet(S), NEW f
  PROVE  /\ IsFiniteSet({f[x] : x \in S}) /\ IsFiniteSet(S)
         /\ Cardinality({f[x] : x \in S}) \in Nat /\ Cardinality(S) \in Nat
         /\ Cardinality({f[x] : x \in S}) <= Cardinality(S)
         /\ (\A x, y \in S : f[x] = f[y] => x = y) => Cardinality({f[x] : x \in S}) = Cardinality(S)
<1> DEFINE T == {f[x] : x \in S}
           h == [x \in S |-> f[x]]
<1>1. h \in Surjection(S, T)
  BY DEF Surjection
<1>2. IsFiniteSet(T) /\ Cardinality(T) <= Cardinality(S)
      /\ (Cardinality(T) = Cardinality(S) <=> h \in Injection(S, T))
  <2> HIDE DEF h, T
  <2> QED BY <1>1, FS_Surjection
<1>3. (\A x, y \in S : f[x] = f[y] => x = y) => h \in Injection(S, T)
  BY DEF Injection, IsInjective
<1> HIDE DEF h
<1>4. Cardinality(T) \in Nat /\ Cardinality(S) \in Nat
  BY <1>2, FS_CardinalityType
<1> QED BY <1>2, <1>3, <1>4

\* Sizes.
LEMMA Sizes ==
  ASSUME NEW S, IsFiniteSet(S), NEW T, T \subseteq S
  PROVE  /\ IsFiniteSet(T) /\ Cardinality(T) \in Nat /\ Cardinality(S) \in Nat
         /\ Cardinality(T) <= Cardinality(S)
         /\ T # S => Cardinality(T) < Cardinality(S)
         /\ IsFiniteSet(S \ T) /\ Cardinality(S \ T) = Cardinality(S) - Cardinality(T)
<1>1. IsFiniteSet(T) /\ Cardinality(T) <= Cardinality(S) /\ (Cardinality(S) = Cardinality(T) => S = T)
  BY FS_Subset
<1>2. Cardinality(T) \in Nat /\ Cardinality(S) \in Nat
  BY <1>1, FS_CardinalityType
<1>3. IsFiniteSet(S \ T) /\ Cardinality(S \ T) = Cardinality(S) - Cardinality(S \cap T)
  BY FS_Difference
<1>4. S \cap T = T
  OBVIOUS
<1>5. T # S => Cardinality(T) # Cardinality(S)
  BY <1>1
<1>6. Cardinality(S \ T) = Cardinality(S) - Cardinality(T)
  BY <1>3, <1>4
<1>7. T # S => Cardinality(T) < Cardinality(S)
  <2> HIDE <1>3, <1>4, <1>6
  <2> QED BY <1>1, <1>2, <1>5
<1> QED BY <1>1, <1>2, <1>3, <1>6, <1>7

\* The size of a union, of sets that may overlap.
LEMMA SizeOfUnion ==
  ASSUME NEW S, IsFiniteSet(S), NEW T, IsFiniteSet(T)
  PROVE  /\ IsFiniteSet(S \union T) /\ Cardinality(S \union T) \in Nat
         /\ Cardinality(S) \in Nat /\ Cardinality(T) \in Nat
         /\ Cardinality(S \union T) <= Cardinality(S) + Cardinality(T)
         /\ S \cap T = {} => Cardinality(S \union T) = Cardinality(S) + Cardinality(T)
<1>1. IsFiniteSet(S \union T)
      /\ Cardinality(S \union T) = Cardinality(S) + Cardinality(T) - Cardinality(S \cap T)
  BY FS_Union
<1>2. IsFiniteSet(S \cap T)
  BY FS_Intersection
<1>3. Cardinality(S) \in Nat /\ Cardinality(T) \in Nat /\ Cardinality(S \cap T) \in Nat
  BY <1>2, FS_CardinalityType
<1>4. S \cap T = {} => Cardinality(S \cap T) = 0
  BY FS_EmptySet
<1>5. /\ Cardinality(S \union T) \in Nat
      /\ Cardinality(S \union T) <= Cardinality(S) + Cardinality(T)
  BY <1>1, <1>3, FS_CardinalityType
<1>6. S \cap T = {} => Cardinality(S \union T) = Cardinality(S) + Cardinality(T)
  BY <1>1, <1>3, <1>4
<1> QED BY <1>1, <1>3, <1>5, <1>6

-----------------------------------------------------------------------------
(* Orders *)

\* A key by which a set can be sorted.
Sorts(S, key) ==
  /\ IsFiniteSet(S)
  /\ \E n \in Nat : \A x \in S : key[x] \in [1 .. n -> Int]
  /\ \A x, y \in S : key[x] = key[y] => x = y

\* Tuples of one length are in a strict order.
LEMMA BelowIsAnOrder ==
  ASSUME NEW n \in Nat, NEW k \in [1 .. n -> Int], NEW l \in [1 .. n -> Int], NEW m \in [1 .. n -> Int]
  PROVE  /\ ~ Below(k, k)
         /\ Below(k, l) /\ Below(l, m) => Below(k, m)
         /\ k = l \/ Below(k, l) \/ Below(l, k)
<1>1. ~ Below(k, k)
  BY DEF Below
<1>2. ASSUME Below(k, l), Below(l, m) PROVE Below(k, m)
  <2>1. PICK i \in 1 .. n : k[i] < l[i] /\ \A j \in 1 .. (i - 1) : k[j] = l[j]
    BY <1>2 DEF Below
  <2>2. PICK h \in 1 .. n : l[h] < m[h] /\ \A j \in 1 .. (h - 1) : l[j] = m[j]
    BY <1>2 DEF Below
  <2>3. CASE i <= h
    <3>1. k[i] < m[i]
      <4>1. CASE i = h
        BY <2>1, <2>2, <4>1
      <4>2. CASE i < h
        <5>1. i \in 1 .. (h - 1)
          BY <4>2
        <5> QED BY <2>1, <2>2, <5>1
      <4> QED BY <2>3, <4>1, <4>2
    <3>2. ASSUME NEW j \in 1 .. (i - 1) PROVE k[j] = m[j]
      <4>1. j \in 1 .. (h - 1)
        BY <2>3
      <4> QED BY <2>1, <2>2, <4>1
    <3> QED BY <3>1, <3>2 DEF Below
  <2>4. CASE h < i
    <3>1. k[h] < m[h]
      <4>1. h \in 1 .. (i - 1)
        BY <2>4
      <4> QED BY <2>1, <2>2, <4>1
    <3>2. ASSUME NEW j \in 1 .. (h - 1) PROVE k[j] = m[j]
      <4>1. j \in 1 .. (i - 1)
        BY <2>4
      <4> QED BY <2>1, <2>2, <4>1
    <3> QED BY <3>1, <3>2 DEF Below
  <2> QED BY <2>3, <2>4
<1>3. ASSUME k # l PROVE Below(k, l) \/ Below(l, k)
  <2> DEFINE D == {i \in 1 .. n : k[i] # l[i]}
  <2>1. D # {} /\ D \subseteq Nat
    <3>1. ASSUME D = {} PROVE k = l
      <4>1. \A i \in 1 .. n : k[i] = l[i]
        BY <3>1
      <4> HIDE DEF D
      <4> QED BY <4>1
    <3>2. D \subseteq Nat
      OBVIOUS
    <3> HIDE DEF D
    <3> QED BY <1>3, <3>1, <3>2
  <2>2. PICK least \in D : \A i \in D : least <= i
    <3> HIDE DEF D
    <3> QED BY <2>1, LeastNumber
  <2>3. ASSUME NEW j \in 1 .. (least - 1) PROVE k[j] = l[j]
    <3>1. j \in 1 .. n /\ ~ (least <= j)
      OBVIOUS
    <3> QED BY <2>2, <3>1
  <2>4. k[least] < l[least] \/ l[least] < k[least]
    OBVIOUS
  <2> QED BY <2>3, <2>4 DEF Below
<1> QED BY <1>1, <1>2, <1>3

\* Ranks grow along the order, from 0, and no two elements have the same.
LEMMA RankGrows ==
  ASSUME NEW S, NEW key, Sorts(S, key), NEW x \in S, NEW y \in S
  PROVE  /\ Rank(S, key, x) \in 0 .. (Cardinality(S) - 1)
         /\ x # y => Rank(S, key, x) # Rank(S, key, y)
         /\ Below(key[x], key[y]) => Rank(S, key, x) < Rank(S, key, y)
<1> DEFINE Lower(z) == {w \in S : Below(key[w], key[z])}
<1>1. PICK n \in Nat : \A z \in S : key[z] \in [1 .. n -> Int]
  BY DEF Sorts
<1>2. IsFiniteSet(S)
  BY DEF Sorts
<1>3. ASSUME NEW z \in S
      PROVE  Lower(z) \subseteq S /\ z \notin Lower(z) /\ IsFiniteSet(Lower(z))
             /\ Cardinality(Lower(z)) \in 0 .. (Cardinality(S) - 1)
  <2>1. Lower(z) \subseteq S /\ z \notin Lower(z)
    BY <1>1, BelowIsAnOrder
  <2> HIDE DEF Lower
  <2>2. /\ IsFiniteSet(Lower(z)) /\ Cardinality(Lower(z)) \in Nat /\ Cardinality(S) \in Nat
        /\ Cardinality(Lower(z)) < Cardinality(S)
    BY <1>2, <2>1, Sizes
  <2> QED BY <2>1, <2>2
<1>4. ASSUME NEW v \in S, NEW w \in S, Below(key[v], key[w])
      PROVE  Cardinality(Lower(v)) < Cardinality(Lower(w))
  <2>1. Lower(v) \subseteq Lower(w) /\ v \in Lower(w) /\ v \notin Lower(v)
    <3>1. ASSUME NEW u \in S, Below(key[u], key[v]) PROVE Below(key[u], key[w])
      BY <1>1, <1>4, <3>1, BelowIsAnOrder
    <3> QED BY <1>3, <1>4, <3>1
  <2>2. IsFiniteSet(Lower(w))
    BY <1>3
  <2> HIDE DEF Lower
  <2> QED BY <2>1, <2>2, Sizes
<1>5. ASSUME x # y PROVE Cardinality(Lower(x)) # Cardinality(Lower(y))
  <2>1. key[x] # key[y]
    BY <1>5 DEF Sorts
  <2>2. Below(key[x], key[y]) \/ Below(key[y], key[x])
    BY <1>1, <2>1, BelowIsAnOrder
  <2>3. Cardinality(Lower(x)) \in Nat /\ Cardinality(Lower(y)) \in Nat
    BY <1>3
  <2> QED BY <1>4, <2>2, <2>3
<1> QED BY <1>3, <1>4, <1>5 DEF Rank

\* Every rank below the size of the set is taken.
LEMMA RanksAreTaken ==
  ASSUME NEW S, NEW key, Sorts(S, key), NEW r \in 0 .. (Cardinality(S) - 1)
  PROVE  \E x \in S : Rank(S, key, x) = r
<1> DEFINE rank == [x \in S |-> Rank(S, key, x)]
           all  == 0 .. (Cardinality(S) - 1)
<1>1. IsFiniteSet(S) /\ Cardinality(S) \in Nat
  BY FS_CardinalityType DEF Sorts
<1>2. IsFiniteSet(all) /\ Cardinality(all) = Cardinality(S)
  BY <1>1, FS_Interval
<1>3. rank \in Injection(S, all)
  <2>1. \A x, y \in S : rank[x] \in all /\ (x # y => rank[x] # rank[y])
    BY RankGrows
  <2> HIDE DEF all
  <2> QED BY <2>1 DEF Injection, IsInjective
<1>4. rank \in Surjection(S, all)
  <2> HIDE DEF rank, all
  <2> QED BY <1>2, <1>3, FS_Injection
<1> QED BY <1>4 DEF Surjection

\* A set in the order of a key is a sequence of its elements, all of them.
LEMMA InOrderIs ==
  ASSUME NEW S, NEW key, Sorts(S, key)
  PROVE  /\ InOrder(S, key) \in Seq(S) /\ ToSet(InOrder(S, key)) = S
         /\ Cardinality(S) \in Nat /\ Len(InOrder(S, key)) = Cardinality(S)
<1> DEFINE n    == Cardinality(S)
           list == InOrder(S, key)
           at(i) == CHOOSE x \in S : Rank(S, key, x) = i - 1
<1>1. n \in Nat
  BY FS_CardinalityType DEF Sorts
<1>2. ASSUME NEW i \in 1 .. n PROVE at(i) \in S /\ Rank(S, key, at(i)) = i - 1
  <2>1. i - 1 \in 0 .. (n - 1)
    BY <1>1
  <2>2. \E x \in S : Rank(S, key, x) = i - 1
    BY <2>1, RanksAreTaken
  <2> QED BY <2>2
<1>3. list = [i \in 1 .. n |-> at(i)]
  <2>1. ASSUME NEW i \in 1 .. n
        PROVE (CHOOSE x \in S : [y \in S |-> Rank(S, key, y)][x] = i - 1) = at(i)
    <3>1. \A x \in S : [y \in S |-> Rank(S, key, y)][x] = i - 1 <=> Rank(S, key, x) = i - 1
      OBVIOUS
    <3> QED BY <3>1
  <2> QED BY <2>1 DEF InOrder
<1>4. ASSUME NEW x \in S PROVE \E i \in 1 .. n : at(i) = x
  <2>1. Rank(S, key, x) \in 0 .. (n - 1)
    BY RankGrows
  <2> DEFINE i == Rank(S, key, x) + 1
  <2>2. i \in 1 .. n /\ i - 1 = Rank(S, key, x)
    BY <1>1, <2>1
  <2>3. at(i) \in S /\ Rank(S, key, at(i)) = Rank(S, key, x)
    <3> HIDE DEF i
    <3> QED BY <1>2, <2>2
  <2>4. at(i) = x
    <3> HIDE DEF at
    <3> QED BY <2>3, RankGrows
  <2> QED BY <2>2, <2>4
<1> HIDE DEF at
<1>5. list \in [1 .. n -> S]
  BY <1>2, <1>3
<1>6. list \in Seq(S) /\ Len(list) = n /\ DOMAIN list = 1 .. n
  <2> HIDE DEF list
  <2> QED BY <1>1, <1>5
<1>7. {list[i] : i \in DOMAIN list} = S
  <2> HIDE DEF n
  <2> QED BY <1>2, <1>3, <1>4
<1> QED BY <1>1, <1>6, <1>7 DEF ToSet

\* The first k of a set are k of its elements, or all; fewer are among more.
LEMMA FirstOfIs ==
  ASSUME NEW S, NEW key, Sorts(S, key), NEW k \in Int
  PROVE  /\ FirstOf(S, k, key) \subseteq S
         /\ IsFiniteSet(FirstOf(S, k, key)) /\ IsFiniteSet(S)
         /\ Cardinality(S) \in Nat
         /\ k <= 0 => FirstOf(S, k, key) = {}
         /\ 0 <= k => Cardinality(FirstOf(S, k, key)) = IF k < Cardinality(S) THEN k ELSE Cardinality(S)
         /\ 1 <= k /\ S # {} => FirstOf(S, k, key) # {}
         /\ \A l \in Int : k <= l => FirstOf(S, k, key) \subseteq FirstOf(S, l, key)
<1> DEFINE first == FirstOf(S, k, key)
           rank  == [x \in S |-> Rank(S, key, x)]
           n     == Cardinality(S)
           least == IF k < n THEN k ELSE n
<1>1. IsFiniteSet(S) /\ n \in Nat
  BY FS_CardinalityType DEF Sorts
<1>2. \A x \in S : rank[x] \in 0 .. (n - 1) /\ rank[x] = Rank(S, key, x)
  BY RankGrows
<1>3. first \subseteq S /\ first = {x \in S : rank[x] < k}
  BY DEF FirstOf
<1>4. IsFiniteSet(first)
  BY <1>1, <1>3, FS_Subset
<1>5. ASSUME k <= 0 PROVE first = {}
  <2> HIDE DEF first, rank, n
  <2>1. \A x \in S : ~ (rank[x] < k)
    BY <1>1, <1>2, <1>5
  <2> QED BY <1>3, <2>1
<1>6. ASSUME 0 <= k PROVE Cardinality(first) = least
  <2>1. {rank[x] : x \in first} = 0 .. (least - 1)
    <3>1. ASSUME NEW x \in first PROVE rank[x] \in 0 .. (least - 1)
      <4> HIDE DEF first, rank, n
      <4> QED BY <1>1, <1>2, <1>3
    <3>2. ASSUME NEW r \in 0 .. (least - 1) PROVE \E x \in first : rank[x] = r
      <4>1. r \in 0 .. (n - 1) /\ r < k
        <5> HIDE DEF n
        <5> QED BY <1>1, <1>6
      <4>2. \E x \in S : rank[x] = r
        BY <4>1, RanksAreTaken
      <4> HIDE DEF first, rank, n
      <4> QED BY <1>3, <4>1, <4>2
    <3> HIDE DEF first, rank, least
    <3> QED BY <3>1, <3>2
  <2>2. \A x, y \in first : rank[x] = rank[y] => x = y
    BY <1>2, <1>3, RankGrows
  <2>3. least \in Nat
    <3> HIDE DEF n
    <3> QED BY <1>1, <1>6
  <2>4. Cardinality(0 .. (least - 1)) = least
    <3> HIDE DEF least
    <3>1. 0 \in Int /\ least - 1 \in Int
      BY <2>3
    <3> QED BY <2>3, <3>1, FS_Interval
  <2>5. Cardinality({rank[x] : x \in first}) = Cardinality(first)
    <3> HIDE DEF first, rank
    <3> QED BY <1>4, <2>2, Mapped
  <2> HIDE DEF least, first, rank
  <2> QED BY <2>1, <2>4, <2>5
<1>7. ASSUME 1 <= k, S # {} PROVE first # {}
  <2>1. n # 0
    BY <1>1, <1>7, FS_EmptySet
  <2>2. Cardinality(first) # 0
    <3> HIDE DEF n, first
    <3> QED BY <1>1, <1>6, <1>7, <2>1
  <2> HIDE DEF first
  <2> QED BY <1>4, <2>2, FS_EmptySet
<1>8. ASSUME NEW l \in Int, k <= l PROVE first \subseteq FirstOf(S, l, key)
  <2>1. FirstOf(S, l, key) = {x \in S : rank[x] < l}
    BY DEF FirstOf
  <2>2. \A x \in S : rank[x] < k => rank[x] < l
    <3> HIDE DEF rank, n
    <3> QED BY <1>1, <1>2, <1>8
  <2> HIDE DEF rank
  <2> QED BY <1>3, <2>1, <2>2
<1> QED BY <1>1, <1>3, <1>4, <1>5, <1>6, <1>7, <1>8

\* The head of a list, of at most k.
LEMMA AtMostIs ==
  ASSUME NEW T, NEW list \in Seq(T), NEW k \in Nat
  PROVE  /\ AtMost(list, k) \in Seq(T)
         /\ Len(AtMost(list, k)) \in Nat /\ Len(AtMost(list, k)) <= k /\ Len(AtMost(list, k)) <= Len(list)
         /\ ToSet(AtMost(list, k)) \subseteq ToSet(list)
         /\ \A i \in DOMAIN AtMost(list, k) : i \in DOMAIN list /\ AtMost(list, k)[i] = list[i]
         /\ DOMAIN AtMost(list, k) = 1 .. (IF Len(list) < k THEN Len(list) ELSE k)
<1> DEFINE n == IF Len(list) < k THEN Len(list) ELSE k
           head == AtMost(list, k)
<1>1. n \in Nat /\ n <= Len(list) /\ n <= k /\ Len(list) \in Nat
  OBVIOUS
<1>2. head = [i \in 1 .. n |-> list[i]]
  BY <1>1 DEF AtMost
<1>3. \A i \in 1 .. n : i \in DOMAIN list /\ list[i] \in T
  BY <1>1
<1> HIDE DEF n
<1>4. head \in [1 .. n -> T] /\ DOMAIN head = 1 .. n
  BY <1>2, <1>3
<1>5. \A i \in DOMAIN head : i \in DOMAIN list /\ head[i] = list[i]
  BY <1>2, <1>3
<1> HIDE DEF head
<1>6. head \in Seq(T) /\ Len(head) = n
  BY <1>1, <1>4
<1>7. ToSet(head) \subseteq ToSet(list)
  BY <1>5 DEF ToSet
<1> QED BY <1>1, <1>4, <1>5, <1>6, <1>7 DEF n, head

\* What of a list is in a set.
LEMMA AmongIs ==
  ASSUME NEW T, NEW list \in Seq(T), NEW S
  PROVE  /\ Among(list, S) \in Seq(T)
         /\ ToSet(Among(list, S)) = ToSet(list) \cap S
<1> DEFINE places == {i \in DOMAIN list : list[i] \in S}
           key == [i \in DOMAIN list |-> <<i>>]
           at  == InOrder(places, key)
<1>1. DOMAIN list = 1 .. Len(list) /\ Len(list) \in Nat
  OBVIOUS
<1>2. Sorts(places, key)
  <2>1. IsFiniteSet(places)
    <3>1. IsFiniteSet(1 .. Len(list))
      BY <1>1, FS_Interval
    <3> QED BY <1>1, <3>1, FS_Subset
  <2>2. \A i \in places : key[i] \in [1 .. 1 -> Int]
    OBVIOUS
  <2>3. \A i, j \in places : key[i] = key[j] => i = j
    OBVIOUS
  <2> HIDE DEF places, key
  <2> QED BY <2>1, <2>2, <2>3 DEF Sorts
<1>3. at \in Seq(places) /\ ToSet(at) = places
  <2> HIDE DEF places, key
  <2> QED BY <1>2, InOrderIs
<1>4. Among(list, S) = [j \in DOMAIN at |-> list[at[j]]]
  BY DEF Among
<1>5. \A j \in DOMAIN at : at[j] \in places
  <2> HIDE DEF at, places
  <2> QED BY <1>3
<1>6. DOMAIN at = 1 .. Len(at) /\ Len(at) \in Nat
  <2> HIDE DEF at, places
  <2> QED BY <1>3
<1> HIDE DEF at, key
<1>7. \A i \in places : i \in DOMAIN list /\ list[i] \in T /\ list[i] \in S
  OBVIOUS
<1>8. Among(list, S) \in Seq(T)
  <2> HIDE DEF places
  <2>1. \A j \in 1 .. Len(at) : list[at[j]] \in T
    BY <1>5, <1>6, <1>7
  <2> QED BY <1>4, <1>6, <2>1
<1>9. ToSet(Among(list, S)) = {list[i] : i \in places}
  <2> HIDE DEF places
  <2>1. places = {at[j] : j \in DOMAIN at}
    BY <1>3 DEF ToSet
  <2> QED BY <1>4, <1>5, <2>1 DEF ToSet
<1>10. {list[i] : i \in places} = ToSet(list) \cap S
  BY DEF ToSet
<1> QED BY <1>8, <1>9, <1>10

\* A finite set of numbers that is not empty has a greatest.
LEMMA GreatestIs ==
  ASSUME NEW S, IsFiniteSet(S), S # {}, S \subseteq Int
  PROVE  Max(S) \in S /\ \A n \in S : n <= Max(S)
<1> DEFINE key == [n \in S |-> <<n>>]
           last == Cardinality(S) - 1
<1>1. Sorts(S, key)
  <2>1. \A n \in S : key[n] \in [1 .. 1 -> Int]
    OBVIOUS
  <2>2. \A m, n \in S : key[m] = key[n] => m = n
    OBVIOUS
  <2> HIDE DEF key
  <2> QED BY <2>1, <2>2 DEF Sorts
<1>2. Cardinality(S) \in Nat /\ Cardinality(S) # 0
  BY FS_CardinalityType, FS_EmptySet
<1>3. PICK greatest \in S : Rank(S, key, greatest) = last
  <2>1. last \in 0 .. (Cardinality(S) - 1)
    BY <1>2
  <2> HIDE DEF key, last
  <2> QED BY <1>1, <2>1, RanksAreTaken
<1>4. ASSUME NEW n \in S PROVE n <= greatest
  <2> SUFFICES ASSUME greatest < n PROVE FALSE
    OBVIOUS
  <2>1. Below(key[greatest], key[n])
    BY DEF Below
  <2>2. Rank(S, key, greatest) < Rank(S, key, n) /\ Rank(S, key, n) \in 0 .. last
    <3> HIDE DEF key
    <3> QED BY <1>1, <2>1, RankGrows
  <2> HIDE DEF key
  <2> QED BY <1>2, <1>3, <2>2
<1>5. \A n \in S : greatest >= n
  BY <1>4
<1>6. Max(S) \in S /\ \A n \in S : Max(S) >= n
  BY <1>5 DEF Max
<1> QED BY <1>6

-----------------------------------------------------------------------------
(* Recursion *)

\* A function with a first value and one step for each index.
Unfolds(g, first, F, n) == g[0] = first /\ \A i \in 1 .. n : g[i] = F[<<i, g[i - 1]>>]

\* There is such a function, with its values where the steps stay.
LEMMA Recursion ==
  ASSUME NEW S, NEW first \in S, NEW n \in Nat, NEW F \in [(1 .. n) \X S -> S]
  PROVE  \E g \in [0 .. n -> S] : Unfolds(g, first, F, n)
<1> DEFINE Has == {m \in Nat : m <= n => \E h \in [0 .. m -> S] : Unfolds(h, first, F, m)}
<1>1. 0 \in Has
  <2>1. [i \in 0 .. 0 |-> first] \in [0 .. 0 -> S] /\ Unfolds([i \in 0 .. 0 |-> first], first, F, 0)
    BY DEF Unfolds
  <2> QED BY <2>1
<1>2. ASSUME NEW m \in Nat, m \in Has PROVE m + 1 \in Has
  <2> SUFFICES ASSUME m + 1 <= n PROVE \E h \in [0 .. m + 1 -> S] : Unfolds(h, first, F, m + 1)
    OBVIOUS
  <2>1. PICK h \in [0 .. m -> S] : Unfolds(h, first, F, m)
    BY <1>2
  <2> DEFINE last   == F[<<m + 1, h[m]>>]
             longer == [i \in 0 .. m + 1 |-> IF i = m + 1 THEN last ELSE h[i]]
  <2>2. last \in S
    <3>1. h[m] \in S /\ m + 1 \in 1 .. n
      BY <2>1
    <3> QED BY <3>1
  <2>3. longer \in [0 .. m + 1 -> S] /\ longer[0] = first
    <3> HIDE DEF last
    <3> QED BY <2>1, <2>2 DEF Unfolds
  <2>4. ASSUME NEW i \in 1 .. m + 1 PROVE longer[i] = F[<<i, longer[i - 1]>>]
    <3>1. CASE i = m + 1
      BY <3>1, SMTT(30)
    <3>2. CASE i # m + 1
      <4>1. i \in 1 .. m /\ i - 1 \in 0 .. m /\ i - 1 # m + 1 /\ i \in 0 .. m + 1 /\ i - 1 \in 0 .. m + 1
        BY <3>2
      <4> HIDE DEF last
      <4> QED BY <2>1, <3>2, <4>1 DEF Unfolds
    <3> QED BY <3>1, <3>2
  <2> HIDE DEF longer
  <2> QED BY <2>3, <2>4 DEF Unfolds
<1> HIDE DEF Has
<1>3. Nat \subseteq Has
  BY <1>1, <1>2, SetInduction
<1> QED BY <1>3 DEF Has

\* The sum of integers is one.
LEMMA TotalIs ==
  ASSUME NEW es, IsFiniteSet(es), es \subseteq Nat \ {0}, NEW worth, \A e \in es : worth[e] \in Int
  PROVE  Total(es, worth) \in Int
<1> DEFINE n == Max(es \union {0})
           Is(g) == g = [i \in 0 .. n |-> IF i = 0 THEN 0
                                          ELSE g[i - 1] + (IF i \in es THEN worth[i] ELSE 0)]
           sum == CHOOSE g : Is(g)
           F == [p \in (1 .. n) \X Int |-> p[2] + (IF p[1] \in es THEN worth[p[1]] ELSE 0)]
<1>1. n \in Nat
  <2>1. IsFiniteSet(es \union {0}) /\ es \union {0} # {} /\ es \union {0} \subseteq Int
    BY FS_AddElement
  <2>2. n \in es \union {0}
    BY <2>1, GreatestIs
  <2> HIDE DEF n
  <2> QED BY <2>2
<1> HIDE DEF n
<1>2. F \in [(1 .. n) \X Int -> Int]
  OBVIOUS
<1>3. PICK g \in [0 .. n -> Int] : Unfolds(g, 0, F, n)
  <2> HIDE DEF F
  <2>1. 0 \in Int
    OBVIOUS
  <2> QED BY <1>1, <1>2, <2>1, Recursion
<1>4. Is(g)
  <2>1. ASSUME NEW i \in 0 .. n
        PROVE g[i] = IF i = 0 THEN 0 ELSE g[i - 1] + (IF i \in es THEN worth[i] ELSE 0)
    <3>1. CASE i = 0
      BY <1>3, <3>1 DEF Unfolds
    <3>2. CASE i # 0
      <4>1. i \in 1 .. n /\ i - 1 \in 0 .. n /\ g[i - 1] \in Int
        BY <1>1, <3>2
      <4>2. g[i] = F[<<i, g[i - 1]>>] /\ <<i, g[i - 1]>> \in (1 .. n) \X Int
        <5> HIDE DEF F
        <5> QED BY <1>3, <4>1 DEF Unfolds
      <4> QED BY <3>2, <4>2
    <3> QED BY <3>1, <3>2
  <2> QED BY <2>1
<1>5. Is(sum)
  <2> HIDE DEF Is
  <2> QED BY <1>4
<1>6. Total(es, worth) = sum[n]
  BY DEF Total, n
<1> HIDE DEF sum
<1> DEFINE Good == {i \in Nat : i <= n => sum[i] \in Int}
<1>7. 0 \in Good
  BY <1>1, <1>5
<1>8. ASSUME NEW i \in Nat, i \in Good PROVE i + 1 \in Good
  <2> SUFFICES ASSUME i + 1 <= n PROVE sum[i + 1] \in Int
    OBVIOUS
  <2>1. sum[i] \in Int /\ i + 1 \in 0 .. n /\ i + 1 # 0 /\ (i + 1) - 1 = i
    BY <1>1, <1>8
  <2>2. sum[i + 1] = sum[i] + (IF i + 1 \in es THEN worth[i + 1] ELSE 0)
    BY <1>5, <2>1
  <2> QED BY <2>1, <2>2
<1>9. n \in Good
  <2> HIDE DEF Good
  <2>1. Nat \subseteq Good
    BY <1>7, <1>8, SetInduction
  <2> QED BY <1>1, <2>1
<1> QED BY <1>1, <1>6, <1>9

-----------------------------------------------------------------------------
(* The graph *)

\* Any set of nodes is finite, and can be sorted by a key that ends in their rank.
LEMMA NodeSets ==
  ASSUME NEW S, S \subseteq Nodes
  PROVE  IsFiniteSet(S) /\ Cardinality(S) \in Nat
BY FS_Subset, FS_CardinalityType, GraphAssumption

\* Sets of edges are finite.
LEMMA EdgeSets ==
  ASSUME NEW S, S \subseteq Edges
  PROVE  IsFiniteSet(S) /\ Cardinality(S) \in Nat
BY FS_Subset, FS_CardinalityType, GraphAssumption

\* Nodes can be sorted by numbers, the equal ones by their rank.
LEMMA NodeKeys ==
  ASSUME NEW S, S \subseteq Nodes
  PROVE  /\ \A worth : (\A n \in S : worth[n] \in Int) => Sorts(S, [n \in S |-> <<worth[n], NodeRank[n]>>])
         /\ Sorts(S, ByNode)
<1>1. IsFiniteSet(S) /\ \A n \in S : NodeRank[n] \in Nat
  BY NodeSets, GraphAssumption
<1>2. \A m, n \in S : NodeRank[m] = NodeRank[n] => m = n
  BY GraphAssumption
<1>3. ASSUME NEW worth, \A n \in S : worth[n] \in Int
      PROVE  Sorts(S, [n \in S |-> <<worth[n], NodeRank[n]>>])
  <2> DEFINE key == [n \in S |-> <<worth[n], NodeRank[n]>>]
  <2>1. \A n \in S : key[n] \in [1 .. 2 -> Int]
    BY <1>1, <1>3
  <2>2. \A m, n \in S : key[m] = key[n] => m = n
    BY <1>2
  <2>3. Sorts(S, key)
    <3> HIDE DEF key
    <3> QED BY <1>1, <2>1, <2>2 DEF Sorts
  <2> QED BY <2>3
<1>4. Sorts(S, ByNode)
  <2>1. \A n \in S : ByNode[n] \in [1 .. 1 -> Int]
    BY <1>1 DEF ByNode
  <2>2. \A m, n \in S : ByNode[m] = ByNode[n] => m = n
    BY <1>2 DEF ByNode
  <2> QED BY <1>1, <2>1, <2>2 DEF Sorts
<1> QED BY <1>3, <1>4

\* What a full packet gives up first can be sorted.
LEMMA WorthKeys ==
  ASSUME NEW S, S \subseteq Nodes
  PROVE  Sorts(S, ByWorth)
<1>1. IsFiniteSet(S) /\ \A n \in S : NodeRank[n] \in Nat /\ Worth(n) \in Int
  BY NodeSets, GraphAssumption DEF Worth
<1>2. \A n \in S : ByWorth[n] \in [1 .. 2 -> Int]
  BY <1>1 DEF ByWorth
<1>3. \A m, n \in S : ByWorth[m] = ByWorth[n] => m = n
  BY GraphAssumption DEF ByWorth
<1> QED BY <1>1, <1>2, <1>3 DEF Sorts

\* The value of an edge, a sum of edges.
LEMMA EdgeValues ==
  ASSUME NEW e \in Edges
  PROVE  /\ Source[e] \in Nodes /\ Target[e] \in Nodes /\ Conf[e] \in 1 .. 10 /\ e \in Nat \ {0}
         /\ Value(e) \in Nat
         /\ \A n : Other(e, n) \in Nodes
<1>1. /\ Source[e] \in Nodes /\ Target[e] \in Nodes /\ Conf[e] \in 1 .. 10 /\ e \in Nat \ {0}
      /\ Type[e] \in Relations
  BY GraphAssumption
<1>2. Strength[Type[e]] \in Nat
  BY <1>1 DEF Strength, Relations
<1>3. Value(e) \in Nat
  <2>1. Strength[Type[e]] * Conf[e] \in Nat
    BY <1>1, <1>2
  <2>2. \A x \in Nat : x \div 10 \in Nat
    OBVIOUS
  <2> QED BY <2>1, <2>2 DEF Value
<1> QED BY <1>1, <1>3 DEF Other

\* A place in a list is a number.
LEMMA Positions ==
  ASSUME NEW s, DOMAIN s \subseteq Int, NEW x
  PROVE  Position(x, s) \in Int
<1>2. x \in ToSet(s) => \E i \in DOMAIN s : s[i] = x
  BY DEF ToSet
<1> QED BY <1>2 DEF Position

\* So is the rank of a relation for a class.
LEMMA RelationRanks ==
  ASSUME NEW class \in Classes, NEW e \in Edges
  PROVE  RelationRank[class][e] \in Int
<1>1. Type[e] \in Relations
  BY GraphAssumption
<1>2. NameRank[Type[e]] \in Int
  BY <1>1 DEF NameRank, Relations
<1>3. class \in {"direct_lookup", "reverse_lookup", "multi_hop_path", "blast_radius", "subsystem_summary"}
  BY DEF Classes, Preferred
<1>4. DOMAIN Preferred[class] \subseteq Int /\ DOMAIN PreferredFamilies[class] \subseteq Int
  BY <1>3 DEF Preferred, PreferredFamilies
<1>5. /\ Position(Type[e], Preferred[class]) \in Int
      /\ Position(Family[Type[e]], PreferredFamilies[class]) \in Int
  BY <1>4, Positions
<1> QED BY <1>2, <1>5 DEF RelationRank

\* Degrees are within the tables.
LEMMA Degrees ==
  ASSUME NEW g, g.edges \subseteq Edges, NEW n
  PROVE  /\ Degree(g, n) \in 0 .. (2 * Cardinality(Edges))
         /\ Damping[Degree(g, n)] \in Nat /\ Drain[Degree(g, n)] \in Nat
<1> DEFINE out == {e \in InForce(g) : Source[e] = n}
           in  == {e \in InForce(g) : Target[e] = n}
<1>1. out \subseteq Edges /\ in \subseteq Edges /\ IsFiniteSet(Edges)
  BY GraphAssumption DEF InForce
<1>2. /\ Cardinality(out) \in Nat /\ Cardinality(in) \in Nat /\ Cardinality(Edges) \in Nat
      /\ Cardinality(out) <= Cardinality(Edges) /\ Cardinality(in) <= Cardinality(Edges)
  <2> HIDE DEF out, in
  <2> QED BY <1>1, Sizes
<1>3. Degree(g, n) \in 0 .. (2 * Cardinality(Edges))
  <2>1. Degree(g, n) = Cardinality(out) + Cardinality(in)
    BY DEF Degree
  <2> HIDE DEF out, in
  <2> QED BY <1>2, <2>1
<1> QED BY <1>3, GraphAssumption

-----------------------------------------------------------------------------
(* Letting nodes in *)

\* A key by which any set of nodes can be sorted.
SortsNodes(key) == \A S \in SUBSET Nodes : Sorts(S, key)

\* What is let in, and what that takes.
AdmittedIs(result, n, nodes, max, protected) ==
  /\ result \subseteq nodes \union {n}
  /\ protected \cap nodes \subseteq result
  /\ Cardinality(result) <= Bigger(max, Cardinality(nodes))
  /\ n \in result \/ nodes \subseteq protected
  /\ nodes \subseteq protected => result \subseteq protected \union {n}

\* Letting one node in does what AdmittedIs says.
LEMMA AdmittedFacts ==
  ASSUME NEW nodes, nodes \subseteq Nodes, NEW n \in Nodes, NEW max \in Int, NEW protected,
         NEW worth, SortsNodes(worth)
  PROVE  AdmittedIs(Admitted(nodes, n, max, protected, worth), n, nodes, max, protected)
<1> DEFINE result == Admitted(nodes, n, max, protected, worth)
           going  == FirstOf(nodes \ protected, 1, worth)
<1>1. IsFiniteSet(nodes) /\ Cardinality(nodes) \in Nat
  BY NodeSets
<1>2. CASE n \in nodes \/ (Cardinality(nodes) >= max /\ nodes \subseteq protected)
  <2>1. result = nodes
    BY <1>2 DEF Admitted
  <2> QED BY <1>1, <1>2, <2>1 DEF AdmittedIs, Bigger
<1>3. CASE n \notin nodes /\ Cardinality(nodes) < max
  <2>1. result = nodes \union {n}
    BY <1>1, <1>3 DEF Admitted
  <2>2. Cardinality(nodes \union {n}) = Cardinality(nodes) + 1
    BY <1>1, <1>3, FS_AddElement
  <2>3. Cardinality(result) <= Bigger(max, Cardinality(nodes))
    BY <1>1, <1>3, <2>1, <2>2 DEF Bigger
  <2> QED BY <2>1, <2>3 DEF AdmittedIs
<1>4. CASE n \notin nodes /\ ~ (Cardinality(nodes) < max) /\ ~ (nodes \subseteq protected)
  <2>1. result = (nodes \ going) \union {n}
    BY <1>1, <1>4 DEF Admitted
  <2>2. going \subseteq nodes \ protected /\ Cardinality(going) = 1 /\ IsFiniteSet(going)
    <3>1. Sorts(nodes \ protected, worth)
      BY DEF SortsNodes
    <3>2. nodes \ protected # {} /\ IsFiniteSet(nodes \ protected)
      BY <1>1, <1>4, Sizes
    <3>3. Cardinality(nodes \ protected) # 0
      BY <3>2, FS_EmptySet
    <3> QED BY <3>1, <3>3, FirstOfIs
  <2> HIDE DEF going
  <2>3. IsFiniteSet(nodes \ going) /\ Cardinality(nodes \ going) = Cardinality(nodes) - 1
    <3>1. going \subseteq nodes
      BY <2>2
    <3> QED BY <1>1, <2>2, <3>1, Sizes
  <2>4. Cardinality((nodes \ going) \union {n}) = Cardinality(nodes \ going) + 1
    <3>1. n \notin nodes \ going
      BY <1>4
    <3> QED BY <2>3, <3>1, FS_AddElement
  <2>5. Cardinality(result) <= Bigger(max, Cardinality(nodes))
    <3> HIDE DEF result
    <3> QED BY <1>1, <2>1, <2>3, <2>4 DEF Bigger
  <2> QED BY <1>4, <2>1, <2>2, <2>5 DEF AdmittedIs
<1>5. n \in nodes \/ Cardinality(nodes) < max \/ Cardinality(nodes) >= max
  BY <1>1
<1> QED BY <1>2, <1>3, <1>4, <1>5

\* Of a list that is let in: who is protected stays, the size is kept to the limit
\* or to what it was, and a protected list is in, or nothing else is.
AdmitAllIs(result, list, nodes, max, protected) ==
  /\ result \subseteq nodes \union ToSet(list)
  /\ protected \cap nodes \subseteq result
  /\ Cardinality(result) <= Bigger(max, Cardinality(nodes))
  /\ ToSet(list) \subseteq protected => ToSet(list) \subseteq result \/ result \subseteq protected

\* Letting a list of nodes in does what AdmitAllIs says.
LEMMA AdmitAllFacts ==
  ASSUME NEW nodes, nodes \subseteq Nodes, NEW list \in Seq(Nodes), NEW max \in Int, NEW protected,
         NEW worth, SortsNodes(worth)
  PROVE  AdmitAllIs(AdmitAll(list, nodes, max, protected, worth), list, nodes, max, protected)
<1> DEFINE n == Len(list)
           Is(g) == g = [i \in 0 .. n |-> IF i = 0 THEN nodes
                                          ELSE Admitted(g[i - 1], list[i], max, protected, worth)]
           held == CHOOSE g : Is(g)
           F == [p \in (1 .. n) \X SUBSET Nodes |-> Admitted(p[2], list[p[1]], max, protected, worth)]
<1>1. n \in Nat /\ DOMAIN list = 1 .. n /\ \A i \in 1 .. n : list[i] \in Nodes
  OBVIOUS
<1> HIDE DEF n
<1>2. F \in [(1 .. n) \X SUBSET Nodes -> SUBSET Nodes]
  <2>1. ASSUME NEW i \in 1 .. n, NEW S \in SUBSET Nodes
        PROVE  Admitted(S, list[i], max, protected, worth) \in SUBSET Nodes
    BY <1>1, AdmittedFacts DEF AdmittedIs
  <2> QED BY <2>1
<1>3. PICK g \in [0 .. n -> SUBSET Nodes] : Unfolds(g, nodes, F, n)
  <2> HIDE DEF F
  <2>1. nodes \in SUBSET Nodes
    OBVIOUS
  <2> QED BY <1>1, <1>2, <2>1, Recursion
<1>4. Is(g)
  <2>1. ASSUME NEW i \in 0 .. n
        PROVE g[i] = IF i = 0 THEN nodes ELSE Admitted(g[i - 1], list[i], max, protected, worth)
    <3>1. CASE i = 0
      BY <1>3, <3>1 DEF Unfolds
    <3>2. CASE i # 0
      <4>1. i \in 1 .. n /\ i - 1 \in 0 .. n /\ g[i - 1] \in SUBSET Nodes
        BY <1>1, <3>2
      <4>2. g[i] = F[<<i, g[i - 1]>>] /\ <<i, g[i - 1]>> \in (1 .. n) \X SUBSET Nodes
        <5> HIDE DEF F
        <5> QED BY <1>3, <4>1 DEF Unfolds
      <4> QED BY <3>2, <4>2
    <3> QED BY <3>1, <3>2
  <2> QED BY <2>1
<1>5. Is(held)
  <2> HIDE DEF Is
  <2> QED BY <1>4
<1>6. AdmitAll(list, nodes, max, protected, worth) = held[n]
  BY DEF AdmitAll, n
<1> HIDE DEF held
<1> DEFINE passed(i) == {list[j] : j \in 1 .. i}
           Holds(i) == /\ held[i] \subseteq nodes \union passed(i)
                       /\ held[i] \subseteq Nodes
                       /\ protected \cap nodes \subseteq held[i]
                       /\ Cardinality(held[i]) <= Bigger(max, Cardinality(nodes))
                       /\ ToSet(list) \subseteq protected => passed(i) \subseteq held[i] \/ held[i] \subseteq protected
           Good == {i \in Nat : i <= n => Holds(i)}
<1>7. Cardinality(nodes) \in Nat
  BY NodeSets
<1>8. 0 \in Good
  <2>1. held[0] = nodes /\ passed(0) = {}
    BY <1>1, <1>5
  <2>2. Holds(0)
    BY <1>7, <2>1 DEF Bigger
  <2> QED BY <2>2
<1>9. ASSUME NEW i \in Nat, i \in Good PROVE i + 1 \in Good
  <2> SUFFICES ASSUME i + 1 <= n PROVE Holds(i + 1)
    OBVIOUS
  <2> DEFINE was == held[i]
             now == held[i + 1]
             m   == list[i + 1]
  <2>1. Holds(i) /\ i + 1 \in 1 .. n /\ (i + 1) - 1 = i
    BY <1>1, <1>9
  <2>2. now = Admitted(was, m, max, protected, worth)
    <3>1. i + 1 \in 0 .. n /\ i + 1 # 0
      BY <2>1
    <3> QED BY <1>5, <2>1, <3>1
  <2>3. m \in Nodes /\ m \in ToSet(list)
    BY <1>1, <2>1 DEF ToSet
  <2>4. passed(i + 1) = passed(i) \union {m}
    <3>1. 1 .. (i + 1) = 1 .. i \union {i + 1}
      OBVIOUS
    <3> QED BY <3>1
  <2>5. AdmittedIs(now, m, was, max, protected)
    <3> HIDE DEF was, m, now, passed
    <3>1. was \subseteq Nodes
      BY <2>1 DEF was
    <3> QED BY <2>2, <2>3, <3>1, AdmittedFacts
  <2>6. Cardinality(was) \in Nat /\ Cardinality(now) \in Nat
    <3> HIDE DEF passed
    <3>1. was \subseteq Nodes
      BY <2>1
    <3>2. now \subseteq Nodes
      BY <2>3, <2>5, <3>1 DEF AdmittedIs
    <3> QED BY <3>1, <3>2, NodeSets
  <2>7. Cardinality(now) <= Bigger(max, Cardinality(nodes))
    <3> HIDE DEF passed
    <3>1. Cardinality(was) <= Bigger(max, Cardinality(nodes)) /\ Cardinality(now) <= Bigger(max, Cardinality(was))
      BY <2>1, <2>5 DEF AdmittedIs
    <3> QED BY <1>7, <2>6, <3>1 DEF Bigger
  <2>8. /\ now \subseteq nodes \union passed(i + 1) /\ now \subseteq Nodes
        /\ protected \cap nodes \subseteq now
    <3> HIDE DEF passed
    <3>1. /\ was \subseteq nodes \union passed(i) /\ was \subseteq Nodes
          /\ protected \cap nodes \subseteq was
      BY <2>1
    <3> QED BY <2>3, <2>4, <2>5, <3>1 DEF AdmittedIs
  <2>9. ASSUME ToSet(list) \subseteq protected
        PROVE  passed(i + 1) \subseteq now \/ now \subseteq protected
    <3>1. passed(i) \subseteq protected
      <4>1. passed(i) \subseteq ToSet(list)
        BY <1>1, <2>1 DEF ToSet
      <4> QED BY <2>9, <4>1
    <3> HIDE DEF passed
    <3>2. passed(i) \subseteq was \/ was \subseteq protected
      BY <2>1, <2>9
    <3> QED BY <2>3, <2>4, <2>5, <2>9, <3>1, <3>2 DEF AdmittedIs
  <2> HIDE DEF passed
  <2> QED BY <2>7, <2>8, <2>9
<1>10. Holds(n)
  <2> HIDE DEF Holds
  <2>1. Nat \subseteq Good
    <3> HIDE DEF Good
    <3> QED BY <1>8, <1>9, SetInduction
  <2> QED BY <1>1, <2>1
<1>11. passed(n) = ToSet(list)
  BY <1>1 DEF ToSet
<1> HIDE DEF passed
<1> QED BY <1>6, <1>10, <1>11 DEF AdmitAllIs

-----------------------------------------------------------------------------
(* Expansion *)

\* The ends of edges, and of the edges inside a set of nodes.
LEMMA EndsIn ==
  ASSUME NEW es, NEW ns
  PROVE  /\ Ends(es) \subseteq ns <=> \A e \in es : Source[e] \in ns /\ Target[e] \in ns
         /\ Ends(Within(es, ns)) \subseteq ns /\ Within(es, ns) \subseteq es
         /\ \A e \in es : Source[e] \in Ends(es) /\ Target[e] \in Ends(es)
BY DEF Ends, Within

\* A round's states, and a way to expand.
Reaches(g) == [nodes : SUBSET Nodes, frontier : SUBSET Nodes, seen : SUBSET InForce(g),
               edges : SUBSET InForce(g), open : BOOLEAN]
IsHow(how) == how.scope \subseteq Nodes /\ how.max \in Int
IsGraph(g) == g.edges \subseteq Edges

\* A score is an integer, of a node that was not reached yet.
LEMMA ScoresAre ==
  ASSUME NEW g, IsGraph(g), NEW how, IsHow(how), NEW s
  PROVE  LET score == Scores(g, how, s)
         IN  /\ DOMAIN score \subseteq Nodes /\ DOMAIN score \subseteq how.scope \ s.nodes
             /\ \A m \in DOMAIN score : score[m] \in Int
<1> DEFINE score == Scores(g, how, s)
<1>1. DOMAIN score \subseteq Nodes /\ DOMAIN score \subseteq how.scope \ s.nodes
  BY DEF Scores, IsHow
<1>2. ASSUME NEW m \in DOMAIN score PROVE score[m] \in Int
  <2> DEFINE es == Steps(g, how, s, m)
             worth == [e \in es |-> Gain(g, how, Other(e, m), e)]
  <2>1. score[m] = Total(es, worth)
    BY DEF Scores
  <2>2. es \subseteq Edges /\ \A e \in es : Value(e) > 0
    BY DEF Steps, Touching, InForce, Incident, IsGraph
  <2>3. IsFiniteSet(es) /\ es \subseteq Nat \ {0}
    <3> HIDE DEF es
    <3> QED BY <2>2, EdgeSets, GraphAssumption
  <2>4. ASSUME NEW e \in es PROVE worth[e] \in Int
    <3> DEFINE n == Other(e, m)
    <3>1. Value(e) \in Nat /\ Value(e) > 0
      BY <2>2, EdgeValues
    <3>2. Damping[Degree(g, n)] \in Nat /\ Drain[Degree(g, n)] \in Nat
      BY Degrees DEF IsGraph
    <3> HIDE DEF n
    <3>3. Energy(g, n, e) \in Int
      <4>1. \A x \in Nat, y \in Nat : y > 0 => (25 * x) \div (10 * y) \in Int
        OBVIOUS
      <4> QED BY <3>1, <3>2, <4>1 DEF Energy
    <3>4. (IF how.hubs THEN Energy(g, n, e) ELSE 100) \in Int
      BY <3>3
    <3>5. Gain(g, how, n, e) \in Int
      <4>1. \A x, y, z \in Int : (x * y * z) \div 100 \in Int
        OBVIOUS
      <4> QED BY <3>1, <3>2, <3>4, <4>1 DEF Gain
    <3> QED BY <3>5 DEF n
  <2> HIDE DEF es, worth
  <2> QED BY <2>1, <2>3, <2>4, TotalIs
<1> QED BY <1>1, <1>2

\* The nodes that are let in: as many as there is room for, or all.
LEMMA ChosenAre ==
  ASSUME NEW score, DOMAIN score \subseteq Nodes, \A m \in DOMAIN score : score[m] \in Int,
         NEW room \in Int
  PROVE  /\ Chosen(score, room) \subseteq DOMAIN score
         /\ IsFiniteSet(Chosen(score, room)) /\ IsFiniteSet(DOMAIN score)
         /\ room <= 0 => Chosen(score, room) = {}
         /\ 0 <= room => Cardinality(Chosen(score, room)) =
                           IF room < Cardinality(DOMAIN score) THEN room ELSE Cardinality(DOMAIN score)
         /\ \A more \in Int : room <= more => Chosen(score, room) \subseteq Chosen(score, more)
<1> DEFINE S == DOMAIN score
           worth == [m \in S |-> -score[m]]
           key == [m \in S |-> <<-score[m], NodeRank[m]>>]
<1>1. \A m \in S : worth[m] \in Int
  OBVIOUS
<1>2. Sorts(S, [m \in S |-> <<worth[m], NodeRank[m]>>])
  <2> HIDE DEF worth
  <2> QED BY <1>1, NodeKeys
<1>3. [m \in S |-> <<worth[m], NodeRank[m]>>] = key
  OBVIOUS
<1>4. Sorts(S, key)
  BY <1>2, <1>3
<1>5. \A k : Chosen(score, k) = FirstOf(S, k, key)
  BY DEF Chosen
<1> HIDE DEF key, S
<1>6. /\ FirstOf(S, room, key) \subseteq S
      /\ IsFiniteSet(FirstOf(S, room, key)) /\ IsFiniteSet(S)
      /\ room <= 0 => FirstOf(S, room, key) = {}
      /\ 0 <= room => Cardinality(FirstOf(S, room, key)) =
                        IF room < Cardinality(S) THEN room ELSE Cardinality(S)
      /\ \A l \in Int : room <= l => FirstOf(S, room, key) \subseteq FirstOf(S, l, key)
  BY <1>4, FirstOfIs
<1> QED BY <1>5, <1>6 DEF S

\* One round.
HopIs(g, how, s, t) ==
  /\ t \in Reaches(g)
  /\ Ends(t.edges) \subseteq t.nodes
  /\ s.nodes \subseteq t.nodes
  /\ Cardinality(t.nodes) <= Bigger(how.max, Cardinality(s.nodes))

\* One hop reaches nodes and edges, within the limit.
LEMMA HopFacts ==
  ASSUME NEW g, IsGraph(g), NEW how, IsHow(how), NEW s \in Reaches(g)
  PROVE  /\ Hop(g, how, s) \in Reaches(g)
         /\ Ends(s.edges) \subseteq s.nodes => HopIs(g, how, s, Hop(g, how, s))
<1> DEFINE fresh == (UNION {Incident(g, n, how) : n \in s.frontier}) \ s.seen
           score == Scores(g, how, s)
           room  == how.max - Cardinality(s.nodes)
           next  == Chosen(score, room)
           nodes == s.nodes \union next
           t     == Hop(g, how, s)
<1>1. t = After(s, how, fresh, next)
  BY DEF Hop
<1>2. fresh \subseteq InForce(g)
  BY DEF Incident
<1>3. /\ s.nodes \subseteq Nodes /\ s.frontier \subseteq Nodes /\ s.seen \subseteq InForce(g)
      /\ s.edges \subseteq InForce(g)
  BY DEF Reaches
<1>4. Cardinality(s.nodes) \in Nat /\ IsFiniteSet(s.nodes) /\ how.max \in Int /\ room \in Int
  BY <1>3, NodeSets DEF IsHow
<1>5. /\ DOMAIN score \subseteq Nodes /\ DOMAIN score \subseteq how.scope \ s.nodes
      /\ \A m \in DOMAIN score : score[m] \in Int
  <2> HIDE DEF score
  <2> QED BY ScoresAre DEF score
<1>6. /\ next \subseteq DOMAIN score /\ IsFiniteSet(next)
      /\ room <= 0 => next = {}
      /\ 0 <= room => Cardinality(next) = IF room < Cardinality(DOMAIN score) THEN room
                                          ELSE Cardinality(DOMAIN score)
  <2> HIDE DEF score, room
  <2> QED BY <1>4, <1>5, ChosenAre
<1> HIDE DEF next
<1>7. next \subseteq Nodes /\ next \cap s.nodes = {}
  BY <1>5, <1>6
<1> HIDE DEF fresh
<1>8. /\ t.nodes = nodes /\ t.frontier = next /\ t.seen = s.seen \union fresh
      /\ t.edges = s.edges \union Within(fresh, nodes)
  BY <1>1 DEF After
<1>9. t \in Reaches(g)
  <2>1. Within(fresh, nodes) \subseteq InForce(g)
    BY <1>2 DEF Within
  <2>2. (next # {} /\ Cardinality(nodes) < how.max) \in BOOLEAN
    OBVIOUS
  <2> HIDE DEF room, score, t
  <2> QED BY <1>1, <1>2, <1>3, <1>7, <2>1, <2>2 DEF After, Reaches
<1>10. Cardinality(nodes) <= Bigger(how.max, Cardinality(s.nodes))
  <2> HIDE DEF nodes
  <2>1. Cardinality(nodes) = Cardinality(s.nodes) + Cardinality(next) /\ Cardinality(next) \in Nat
    BY <1>4, <1>6, <1>7, SizeOfUnion DEF nodes
  <2>2. Cardinality(DOMAIN score) \in Nat
    BY <1>5, NodeSets
  <2>3. CASE room <= 0
    <3>1. Cardinality(next) = 0
      BY <1>6, <2>3, FS_EmptySet
    <3> QED BY <1>4, <2>1, <3>1 DEF Bigger
  <2>4. CASE room > 0
    <3>1. Cardinality(next) <= room
      BY <1>4, <1>6, <2>1, <2>2, <2>4
    <3> QED BY <1>4, <2>1, <3>1 DEF Bigger
  <2> QED BY <1>4, <2>3, <2>4
<1>11. ASSUME Ends(s.edges) \subseteq s.nodes PROVE Ends(t.edges) \subseteq t.nodes
  <2> HIDE DEF t
  <2> QED BY <1>8, <1>11 DEF Ends, Within
<1> QED BY <1>8, <1>9, <1>10, <1>11 DEF HopIs

\* The rounds of an expansion.
RoundsOf(g, roots, hops, how, after) ==
  /\ after \in [0 .. hops -> Reaches(g)]
  /\ after[0] = Rooted(g, roots)
  /\ \A i \in 1 .. hops : after[i] = IF after[i - 1].open THEN Hop(g, how, after[i - 1]) ELSE after[i - 1]

\* An expansion is the last of its rounds.
LEMMA ExpandUnfolds ==
  ASSUME NEW g, IsGraph(g), NEW how, IsHow(how), NEW starts, NEW hops \in Nat
  PROVE  \E after : /\ RoundsOf(g, starts \cap how.scope, hops, how, after)
                    /\ Expand(g, starts, hops, how) = after[hops]
<1> DEFINE roots == starts \cap how.scope
           first == Rooted(g, roots)
           Step(s) == IF s.open THEN Hop(g, how, s) ELSE s
           Is(h) == h = [i \in 0 .. hops |-> IF i = 0 THEN first
                                             ELSE LET s == h[i - 1] IN IF s.open THEN Hop(g, how, s) ELSE s]
           after == CHOOSE h : Is(h)
           F == [p \in (1 .. hops) \X Reaches(g) |-> Step(p[2])]
<1>1. first \in Reaches(g)
  BY DEF Rooted, Reaches, Within, IsHow
<1>2. F \in [(1 .. hops) \X Reaches(g) -> Reaches(g)]
  <2>1. ASSUME NEW s \in Reaches(g) PROVE Step(s) \in Reaches(g)
    BY HopFacts
  <2> HIDE DEF Step
  <2> QED BY <2>1
<1>3. PICK h \in [0 .. hops -> Reaches(g)] : Unfolds(h, first, F, hops)
  <2> HIDE DEF F, first
  <2> QED BY <1>1, <1>2, Recursion
<1> HIDE DEF first
<1>4. ASSUME NEW i \in 1 .. hops PROVE h[i] = Step(h[i - 1])
  <2>1. i - 1 \in 0 .. hops /\ h[i - 1] \in Reaches(g)
    OBVIOUS
  <2>2. h[i] = F[<<i, h[i - 1]>>] /\ <<i, h[i - 1]>> \in (1 .. hops) \X Reaches(g)
    <3> HIDE DEF F
    <3> QED BY <1>3, <2>1 DEF Unfolds
  <2> HIDE DEF Step
  <2> QED BY <2>2
<1>5. Is(h)
  <2>1. ASSUME NEW i \in 0 .. hops PROVE h[i] = IF i = 0 THEN first ELSE Step(h[i - 1])
    <3>1. CASE i = 0
      BY <1>3, <3>1 DEF Unfolds
    <3>2. CASE i # 0
      <4> HIDE DEF Step
      <4> QED BY <1>4, <3>2
    <3> QED BY <3>1, <3>2
  <2> QED BY <2>1
<1>6. Is(after)
  <2> HIDE DEF Is
  <2> QED BY <1>5
<1>7. Expand(g, starts, hops, how) = after[hops]
  BY DEF Expand, first
<1> HIDE DEF after
<1>8. after[0] = first /\ \A i \in 1 .. hops : after[i] = Step(after[i - 1])
  BY <1>6
<1> DEFINE Good == {i \in Nat : i <= hops => after[i] \in Reaches(g)}
<1>9. 0 \in Good
  BY <1>1, <1>8
<1>10. ASSUME NEW i \in Nat, i \in Good PROVE i + 1 \in Good
  <2> SUFFICES ASSUME i + 1 <= hops PROVE after[i + 1] \in Reaches(g)
    OBVIOUS
  <2>1. after[i] \in Reaches(g) /\ i + 1 \in 1 .. hops /\ (i + 1) - 1 = i
    BY <1>10
  <2>2. after[i + 1] = Step(after[i])
    BY <1>8, <2>1
  <2> QED BY <2>1, <2>2, HopFacts
<1>11. \A i \in 0 .. hops : after[i] \in Reaches(g)
  <2> HIDE DEF Good
  <2>1. Nat \subseteq Good
    BY <1>9, <1>10, SetInduction
  <2> QED BY <2>1 DEF Good
<1>12. after \in [0 .. hops -> Reaches(g)]
  BY <1>6, <1>11
<1> QED BY <1>7, <1>8, <1>12 DEF RoundsOf, first

\* What an expansion reaches: the starts in scope, and no more than it may.
ExpandIs(g, roots, how, s) ==
  /\ s.nodes \subseteq Nodes /\ s.edges \subseteq InForce(g)
  /\ Ends(s.edges) \subseteq s.nodes
  /\ roots \subseteq s.nodes
  /\ Cardinality(s.nodes) <= Bigger(how.max, Cardinality(roots))

\* What an expansion reaches.
LEMMA ExpandFacts ==
  ASSUME NEW g, IsGraph(g), NEW how, IsHow(how), NEW starts, NEW hops \in Nat
  PROVE  ExpandIs(g, starts \cap how.scope, how, Expand(g, starts, hops, how))
<1> DEFINE roots == starts \cap how.scope
<1>1. PICK after : RoundsOf(g, roots, hops, how, after) /\ Expand(g, starts, hops, how) = after[hops]
  BY ExpandUnfolds
<1>2. roots \subseteq Nodes /\ how.max \in Int
  BY DEF IsHow
<1>3. Cardinality(roots) \in Nat
  BY <1>2, NodeSets
<1> DEFINE Good == {i \in Nat : i <= hops => ExpandIs(g, roots, how, after[i])}
<1>4. 0 \in Good
  <2>1. after[0] = Rooted(g, roots)
    BY <1>1 DEF RoundsOf
  <2> HIDE DEF roots
  <2>2. ExpandIs(g, roots, how, after[0])
    BY <1>2, <1>3, <2>1 DEF ExpandIs, Rooted, Ends, Within, Bigger
  <2> QED BY <2>2
<1>5. ASSUME NEW i \in Nat, i \in Good PROVE i + 1 \in Good
  <2> HIDE DEF roots
  <2> SUFFICES ASSUME i + 1 <= hops PROVE ExpandIs(g, roots, how, after[i + 1])
    OBVIOUS
  <2>1. i + 1 \in 1 .. hops /\ (i + 1) - 1 = i /\ ExpandIs(g, roots, how, after[i]) /\ i \in 0 .. hops
    BY <1>5
  <2>2. after[i + 1] = IF after[i].open THEN Hop(g, how, after[i]) ELSE after[i]
    BY <1>1, <2>1 DEF RoundsOf
  <2>3. CASE ~ after[i].open
    BY <2>1, <2>2, <2>3
  <2>4. CASE after[i].open
    <3> DEFINE s == after[i]
               t == after[i + 1]
    <3>1. s \in Reaches(g)
      BY <1>1, <2>1 DEF RoundsOf
    <3>2. t = Hop(g, how, s)
      BY <2>2, <2>4
    <3> HIDE DEF s, t
    <3>3. ExpandIs(g, roots, how, s)
      BY <2>1 DEF s
    <3>4. HopIs(g, how, s, t)
      BY <3>1, <3>2, <3>3, HopFacts DEF ExpandIs
    <3>5. t.nodes \subseteq Nodes /\ t.edges \subseteq InForce(g) /\ s.nodes \subseteq Nodes
      BY <3>1, <3>4 DEF HopIs, Reaches
    <3>6. Cardinality(t.nodes) <= Bigger(how.max, Cardinality(roots))
      <4>1. Cardinality(t.nodes) \in Nat /\ Cardinality(s.nodes) \in Nat
        BY <3>5, NodeSets
      <4>2. /\ Cardinality(t.nodes) <= Bigger(how.max, Cardinality(s.nodes))
            /\ Cardinality(s.nodes) <= Bigger(how.max, Cardinality(roots))
        BY <3>3, <3>4 DEF HopIs, ExpandIs
      <4> QED BY <1>2, <1>3, <4>1, <4>2 DEF Bigger
    <3>7. roots \subseteq t.nodes /\ Ends(t.edges) \subseteq t.nodes
      BY <3>3, <3>4 DEF HopIs, ExpandIs
    <3>8. ExpandIs(g, roots, how, t)
      BY <3>5, <3>6, <3>7 DEF ExpandIs
    <3> QED BY <3>8 DEF t
  <2> QED BY <2>3, <2>4
<1>6. hops \in Good
  <2> HIDE DEF Good
  <2> QED BY <1>4, <1>5, SetInduction
<1> QED BY <1>1, <1>6

-----------------------------------------------------------------------------
(* A larger budget extends an expansion *)

\* Two expansions that differ in their budgets only.
Widens(how, wide) ==
  /\ how.direction = wide.direction /\ how.relations = wide.relations
  /\ how.scope = wide.scope /\ how.hubs = wide.hubs
  /\ how.max \in Int /\ wide.max \in Int /\ how.max <= wide.max

\* They find the same edges and give the same scores.
LEMMA SameScores ==
  ASSUME NEW g, NEW how, NEW wide, Widens(how, wide), NEW s
  PROVE  /\ Scores(g, how, s) = Scores(g, wide, s)
         /\ \A n : Incident(g, n, how) = Incident(g, n, wide)
<1>1. \A n : Incident(g, n, how) = Incident(g, n, wide)
  BY DEF Incident, Widens
<1>2. \A m : Steps(g, how, s, m) = Steps(g, wide, s, m)
  BY <1>1 DEF Steps, Widens
<1>3. \A n, e : Gain(g, how, n, e) = Gain(g, wide, n, e)
  BY DEF Gain, Widens
<1>4. ASSUME NEW m
      PROVE  [e \in Steps(g, how, s, m) |-> Gain(g, how, Other(e, m), e)]
             = [e \in Steps(g, wide, s, m) |-> Gain(g, wide, Other(e, m), e)]
  BY <1>2, <1>3
<1>5. {m \in how.scope \ s.nodes : Steps(g, how, s, m) # {}}
      = {m \in wide.scope \ s.nodes : Steps(g, wide, s, m) # {}}
  BY <1>2 DEF Widens
<1> DEFINE A == {m \in how.scope \ s.nodes : Steps(g, how, s, m) # {}}
           B == {m \in wide.scope \ s.nodes : Steps(g, wide, s, m) # {}}
           a(m) == Total(Steps(g, how, s, m), [e \in Steps(g, how, s, m) |-> Gain(g, how, Other(e, m), e)])
           b(m) == Total(Steps(g, wide, s, m), [e \in Steps(g, wide, s, m) |-> Gain(g, wide, Other(e, m), e)])
<1>6. Scores(g, how, s) = [m \in A |-> a(m)] /\ Scores(g, wide, s) = [m \in B |-> b(m)]
  BY DEF Scores
<1>7. \A m : a(m) = b(m)
  BY <1>2, <1>4
<1>8. A = B
  BY <1>5
<1> HIDE DEF A, B, a, b
<1> QED BY <1>1, <1>6, <1>7, <1>8

\* One round from the same state: the same again, or the smaller budget is spent and
\* the larger one has its nodes and perhaps more.
LEMMA HopExtends ==
  ASSUME NEW g, IsGraph(g), NEW how, IsHow(how), NEW wide, Widens(how, wide), NEW s \in Reaches(g)
  PROVE  LET t == Hop(g, how, s)
             w == Hop(g, wide, s)
         IN  t.nodes \subseteq w.nodes /\ (t = w \/ ~ t.open)
<1> DEFINE fresh == (UNION {Incident(g, n, how) : n \in s.frontier}) \ s.seen
           score == Scores(g, how, s)
           room  == how.max - Cardinality(s.nodes)
           more  == wide.max - Cardinality(s.nodes)
           next  == Chosen(score, room)
           wider == Chosen(score, more)
           t == Hop(g, how, s)
           w == Hop(g, wide, s)
<1>1. t = After(s, how, fresh, next)
  BY DEF Hop
<1>2. w = After(s, wide, fresh, wider)
  <2>1. (UNION {Incident(g, n, wide) : n \in s.frontier}) \ s.seen = fresh
    BY SameScores
  <2>2. Scores(g, wide, s) = score
    BY SameScores
  <2> HIDE DEF fresh, score
  <2> QED BY <2>1, <2>2 DEF Hop
<1>3. Cardinality(s.nodes) \in Nat /\ IsFiniteSet(s.nodes)
  <2>1. s.nodes \subseteq Nodes
    BY DEF Reaches
  <2> QED BY <2>1, NodeSets
<1>4. /\ room \in Int /\ more \in Int /\ room <= more
      /\ how.max \in Int /\ wide.max \in Int /\ how.max <= wide.max
  BY <1>3 DEF Widens
<1>5. /\ DOMAIN score \subseteq Nodes /\ DOMAIN score \subseteq how.scope \ s.nodes
      /\ \A m \in DOMAIN score : score[m] \in Int
  <2> HIDE DEF score
  <2> QED BY ScoresAre DEF score
<1>6. /\ next \subseteq DOMAIN score /\ IsFiniteSet(next) /\ IsFiniteSet(DOMAIN score)
      /\ room <= 0 => next = {}
      /\ 0 <= room => Cardinality(next) = IF room < Cardinality(DOMAIN score) THEN room
                                          ELSE Cardinality(DOMAIN score)
      /\ next \subseteq wider
  <2> HIDE DEF score, room, more
  <2> QED BY <1>4, <1>5, ChosenAre
<1>7. wider \subseteq DOMAIN score
  <2> HIDE DEF score, room, more
  <2> QED BY <1>4, <1>5, ChosenAre
<1> HIDE DEF next, wider, fresh
<1>8. /\ t.nodes = s.nodes \union next /\ w.nodes = s.nodes \union wider
      /\ t.open = (next # {} /\ Cardinality(s.nodes \union next) < how.max)
  BY <1>1, <1>2 DEF After
<1>9. t.nodes \subseteq w.nodes
  BY <1>6, <1>8
<1>10. CASE next # wider
  <2>1. Cardinality(DOMAIN score) \in Nat /\ Cardinality(next) \in Nat
        /\ Cardinality(next) < Cardinality(DOMAIN score)
    <3> HIDE DEF score
    <3>1. next # DOMAIN score
      BY <1>6, <1>7, <1>10
    <3> QED BY <1>6, <3>1, Sizes
  <2>2. CASE room <= 0
    BY <1>6, <1>8, <2>2
  <2>3. CASE room > 0
    <3> HIDE DEF t, w
    <3>1. Cardinality(next) = room
      <4> HIDE DEF score, room
      <4> QED BY <1>4, <1>6, <2>1, <2>3
    <3>2. Cardinality(s.nodes \union next) = Cardinality(s.nodes) + Cardinality(next)
      <4>1. s.nodes \cap next = {}
        BY <1>5, <1>6
      <4> QED BY <1>3, <1>6, <4>1, SizeOfUnion
    <3>3. ~ t.open
      <4>1. (Cardinality(s.nodes \union next) < how.max) = FALSE
        BY <1>3, <1>4, <3>1, <3>2
      <4>2. (next # {} /\ Cardinality(s.nodes \union next) < how.max) = FALSE
        BY <4>1
      <4> QED BY <1>8, <4>2
    <3> QED BY <1>9, <3>3 DEF t, w
  <2> QED BY <1>4, <1>9, <2>2, <2>3
<1>11. CASE next = wider
  <2>1. Cardinality(s.nodes \union next) \in Nat
    BY <1>3, <1>6, SizeOfUnion
  <2>2. ASSUME t.open PROVE t = w
    <3>1. /\ next # {} /\ Cardinality(s.nodes \union next) < how.max
      BY <1>8, <2>2
    <3>2. Cardinality(s.nodes \union next) < wide.max
      BY <1>4, <2>1, <3>1
    <3> QED BY <1>1, <1>2, <1>11, <3>1, <3>2 DEF After
  <2> QED BY <1>9, <2>2
<1> QED BY <1>10, <1>11

\* The whole expansion.
LEMMA ExpandExtends ==
  ASSUME NEW g, IsGraph(g), NEW how, IsHow(how), NEW wide, Widens(how, wide), NEW starts, NEW hops \in Nat
  PROVE  Expand(g, starts, hops, how).nodes \subseteq Expand(g, starts, hops, wide).nodes
<1> DEFINE roots == starts \cap how.scope
<1>1. IsHow(wide) /\ wide.scope = how.scope
  BY DEF IsHow, Widens
<1>2. PICK after : RoundsOf(g, roots, hops, how, after) /\ Expand(g, starts, hops, how) = after[hops]
  BY ExpandUnfolds
<1>3. PICK later : RoundsOf(g, roots, hops, wide, later) /\ Expand(g, starts, hops, wide) = later[hops]
  <2>1. \E later : /\ RoundsOf(g, starts \cap wide.scope, hops, wide, later)
                   /\ Expand(g, starts, hops, wide) = later[hops]
    BY <1>1, ExpandUnfolds
  <2> QED BY <1>1, <2>1
<1> DEFINE Nested(i) == after[i].nodes \subseteq later[i].nodes /\ (after[i] = later[i] \/ ~ after[i].open)
           Good == {i \in Nat : i <= hops => Nested(i)}
<1>4. 0 \in Good
  BY <1>2, <1>3 DEF RoundsOf
<1>5. ASSUME NEW i \in Nat, i \in Good PROVE i + 1 \in Good
  <2> HIDE DEF roots
  <2> SUFFICES ASSUME i + 1 <= hops PROVE Nested(i + 1)
    OBVIOUS
  <2>1. i + 1 \in 1 .. hops /\ (i + 1) - 1 = i /\ Nested(i) /\ i \in 0 .. hops
    BY <1>5
  <2> DEFINE s == after[i]
             l == later[i]
  <2>2. /\ after[i + 1] = IF s.open THEN Hop(g, how, s) ELSE s
        /\ later[i + 1] = IF l.open THEN Hop(g, wide, l) ELSE l
    BY <1>2, <1>3, <2>1 DEF RoundsOf
  <2>3. s \in Reaches(g) /\ l \in Reaches(g)
    BY <1>2, <1>3, <2>1 DEF RoundsOf
  <2>4. s.nodes \subseteq l.nodes /\ (s = l \/ ~ s.open)
    BY <2>1
  <2> HIDE DEF s, l
  <2>5. l.nodes \subseteq Hop(g, wide, l).nodes
    BY DEF Hop, After
  <2>6. CASE ~ s.open
    BY <2>2, <2>4, <2>5, <2>6
  <2>7. CASE s.open
    <3>1. s = l
      BY <2>4, <2>7
    <3>2. after[i + 1] = Hop(g, how, s) /\ later[i + 1] = Hop(g, wide, s)
      BY <2>2, <2>7, <3>1
    <3> QED BY <2>3, <3>2, HopExtends
  <2> QED BY <2>6, <2>7
<1>6. hops \in Good
  <2> HIDE DEF Good
  <2> QED BY <1>4, <1>5, SetInduction
<1> QED BY <1>2, <1>3, <1>6

-----------------------------------------------------------------------------
(* Paths *)

\* A partial path along some edges.
Way(es) == [at : Nat \X Nat \X Nat, node : Nodes, score : Int, path : SUBSET es]

\* The ways of a level: no two were found at one time.
AreWays(ways, es) ==
  /\ ways \subseteq Way(es) /\ IsFiniteSet(ways)
  /\ \A v, w \in ways : v.at = w.at => v = w

\* The strength of a step of a path is a number.
LEMMA StrengthIs ==
  ASSUME NEW e \in Edges
  PROVE  PathEdgeStrength(e) \in Int
<1>1. Conf[e] \in 1 .. 10 /\ Type[e] \in Relations
  BY GraphAssumption
<1>2. LogTenths[Conf[e]] \in Int
  BY <1>1 DEF LogTenths
<1>3. ASSUME Value(e) # 0 PROVE LogStrength[Type[e]] \in Int
  <2>1. Type[e] # "calls_candidate"
    <3>1. Type[e] = "calls_candidate" => Strength[Type[e]] * Conf[e] = 0
      BY <1>1 DEF Strength
    <3>2. 0 \div 10 = 0
      OBVIOUS
    <3> QED BY <1>3, <3>1, <3>2 DEF Value
  <2> QED BY <1>1, <2>1 DEF LogStrength, Relations
<1>4. /\ -1382 + LogTenths[Conf[e]] \in Int
      /\ Value(e) # 0 => LogStrength[Type[e]] + 2 * LogTenths[Conf[e]] \in Int
  BY <1>2, <1>3
<1>5. \A x \in Int : x + (IF Type[e] \in Prefers("multi_hop_path") THEN 179 ELSE 0) \in Int
  OBVIOUS
<1> QED BY <1>4, <1>5 DEF PathEdgeStrength

\* Of a level's ways some was found first, and some is the strongest.
LEMMA BestOf ==
  ASSUME NEW es, NEW ways, AreWays(ways, es), NEW S, S \subseteq ways, S # {}
  PROVE  Earliest(S) \in S /\ Strongest(S) \in S
<1>1. IsFiniteSet(S) /\ \A w \in S : w \in Way(es) /\ w.at \in Nat \X Nat \X Nat /\ w.score \in Int
  BY FS_Subset DEF AreWays, Way
<1>2. \A v, w \in S : v.at = w.at => v = w
  BY DEF AreWays
<1>3. ASSUME NEW w \in S
      PROVE  /\ w.at = <<w.at[1], w.at[2], w.at[3]>>
             /\ w.at[1] \in Int /\ w.at[2] \in Int /\ w.at[3] \in Int
  BY <1>1
<1>4. Sorts(S, ByTime(S))
  <2>1. \A w \in S : ByTime(S)[w] = w.at
    BY DEF ByTime
  <2>2. \A w \in S : ByTime(S)[w] \in [1 .. 3 -> Int]
    <3> SUFFICES ASSUME NEW w \in S PROVE w.at \in [1 .. 3 -> Int]
      BY <2>1
    <3>1. <<w.at[1], w.at[2], w.at[3]>> \in [1 .. 3 -> Int]
      BY <1>3
    <3> QED BY <1>3, <3>1
  <2>3. \A v, w \in S : ByTime(S)[v] = ByTime(S)[w] => v = w
    BY <1>2, <2>1
  <2> QED BY <1>1, <2>2, <2>3 DEF Sorts
<1>5. Sorts(S, ByStrength(S))
  <2>1. \A w \in S : ByStrength(S)[w] = <<-w.score, w.at[1], w.at[2], w.at[3]>>
    BY DEF ByStrength
  <2>2. \A w \in S : ByStrength(S)[w] \in [1 .. 4 -> Int]
    <3> SUFFICES ASSUME NEW w \in S PROVE <<-w.score, w.at[1], w.at[2], w.at[3]>> \in [1 .. 4 -> Int]
      BY <2>1
    <3>1. -w.score \in Int
      BY <1>1
    <3> QED BY <1>3, <3>1
  <2>3. ASSUME NEW v \in S, NEW w \in S, ByStrength(S)[v] = ByStrength(S)[w] PROVE v = w
    <3>1. v.at[1] = w.at[1] /\ v.at[2] = w.at[2] /\ v.at[3] = w.at[3]
      BY <2>1, <2>3
    <3>2. v.at = w.at
      BY <1>3, <3>1
    <3> QED BY <1>2, <3>2
  <2> QED BY <1>1, <2>2, <2>3 DEF Sorts
<1>6. FirstOf(S, 1, ByTime(S)) \subseteq S /\ FirstOf(S, 1, ByTime(S)) # {}
  BY <1>4, FirstOfIs
<1>7. FirstOf(S, 1, ByStrength(S)) \subseteq S /\ FirstOf(S, 1, ByStrength(S)) # {}
  BY <1>5, FirstOfIs
<1> QED BY <1>6, <1>7 DEF Earliest, Strongest

\* The beam lists ways of its level.
LEMMA BeamIs ==
  ASSUME NEW es, NEW ways, AreWays(ways, es)
  PROVE  Beam(ways) \in Seq(Way(es))
<1> DEFINE best(w) == Strongest(Ending(ways, w.node))
           first(w) == Earliest(Ending(ways, w.node))
           S == {best(w) : w \in ways}
           key == [w \in ways |-> LET at == first(w).at IN <<-w.score, at[1], at[2], at[3]>>]
<1>1. ASSUME NEW w \in ways
      PROVE  /\ best(w) \in ways /\ best(w).node = w.node
             /\ first(w) \in ways /\ first(w).node = w.node
  <2>1. Ending(ways, w.node) \subseteq ways /\ w \in Ending(ways, w.node)
    BY DEF Ending
  <2>2. best(w) \in Ending(ways, w.node) /\ first(w) \in Ending(ways, w.node)
    BY <2>1, BestOf
  <2> HIDE DEF best, first
  <2> QED BY <2>2 DEF Ending
<1>2. S \subseteq ways /\ IsFiniteSet(S)
  <2>1. S \subseteq ways
    BY <1>1
  <2> HIDE DEF S
  <2> QED BY <2>1, FS_Subset DEF AreWays
<1>3. ASSUME NEW w \in ways
      PROVE  /\ key[w] = <<-w.score, first(w).at[1], first(w).at[2], first(w).at[3]>>
             /\ w.score \in Int /\ first(w).at \in Nat \X Nat \X Nat
             /\ first(w).at = <<first(w).at[1], first(w).at[2], first(w).at[3]>>
  <2>1. w \in Way(es) /\ first(w) \in Way(es)
    BY <1>1 DEF AreWays
  <2>2. key[w] = <<-w.score, first(w).at[1], first(w).at[2], first(w).at[3]>>
    OBVIOUS
  <2> HIDE DEF first
  <2> QED BY <2>1, <2>2 DEF Way
<1> HIDE DEF first, key
<1>4. \A w \in S : key[w] \in [1 .. 4 -> Int]
  <2> SUFFICES ASSUME NEW w \in ways PROVE key[w] \in [1 .. 4 -> Int]
    BY <1>2
  <2>1. first(w).at[1] \in Int /\ first(w).at[2] \in Int /\ first(w).at[3] \in Int /\ -w.score \in Int
    BY <1>3
  <2>2. <<-w.score, first(w).at[1], first(w).at[2], first(w).at[3]>> \in [1 .. 4 -> Int]
    BY <2>1
  <2> QED BY <1>3, <2>2
<1>5. ASSUME NEW v \in S, NEW w \in S, key[v] = key[w] PROVE v = w
  <2>1. v \in ways /\ w \in ways
    BY <1>2
  <2>2. /\ first(v).at[1] = first(w).at[1] /\ first(v).at[2] = first(w).at[2]
        /\ first(v).at[3] = first(w).at[3]
    BY <1>3, <1>5, <2>1
  <2>3. first(v).at = first(w).at
    BY <1>3, <2>1, <2>2
  <2>4. first(v) = first(w)
    BY <1>1, <2>1, <2>3 DEF AreWays
  <2>5. v.node = w.node
    BY <1>1, <2>1, <2>4
  <2>6. PICK a \in ways : v = best(a)
    OBVIOUS
  <2>7. PICK b \in ways : w = best(b)
    OBVIOUS
  <2>8. a.node = v.node /\ b.node = w.node
    BY <1>1, <2>6, <2>7
  <2> QED BY <2>5, <2>6, <2>7, <2>8
<1>6. Sorts(S, key)
  <2> HIDE DEF S
  <2> QED BY <1>2, <1>4, <1>5 DEF Sorts
<1>7. InOrder(S, key) \in Seq(S)
  BY <1>6, InOrderIs
<1>8. Beam(ways) = InOrder(S, key)
  BY DEF Beam, key, first
<1>9. S \subseteq Way(es)
  BY <1>2 DEF AreWays
<1> HIDE DEF S
<1>10. Seq(S) \subseteq Seq(Way(es))
  BY <1>9
<1> QED BY <1>7, <1>8, <1>10

\* The ways of a level from a beam.
LEMMA WaysAre ==
  ASSUME NEW es, es \subseteq Edges, NEW beam \in Seq(Way(es)), NEW root
  PROVE  AreWays(Ways(es, beam, root), es)
<1> DEFINE pairs == (DOMAIN beam) \X es
           used  == {p \in pairs : /\ beam[p[1]].node \in {Source[p[2]], Target[p[2]]}
                                   /\ Other(p[2], beam[p[1]].node) \notin Ends(beam[p[1]].path) \union {root}}
           way   == [p \in used |->
                      [at    |-> <<p[1], IF Source[p[2]] = beam[p[1]].node THEN 0 ELSE 1, p[2]>>,
                       node  |-> Other(p[2], beam[p[1]].node),
                       score |-> beam[p[1]].score + PathEdgeStrength(p[2]),
                       path  |-> beam[p[1]].path \union {p[2]}]]
           ways  == {way[p] : p \in used}
<1>1. DOMAIN beam = 1 .. Len(beam) /\ Len(beam) \in Nat
      /\ \A i \in DOMAIN beam : beam[i] \in Way(es)
  OBVIOUS
<1>2. IsFiniteSet(used)
  <2>1. IsFiniteSet(DOMAIN beam) /\ IsFiniteSet(es)
    BY <1>1, FS_Interval, EdgeSets
  <2>2. IsFiniteSet(pairs)
    BY <2>1, FS_Product
  <2>3. used \subseteq pairs
    OBVIOUS
  <2> HIDE DEF used, pairs
  <2> QED BY <2>2, <2>3, FS_Subset
<1>3. Ways(es, beam, root) = ways
  BY DEF Ways
<1>4. ASSUME NEW p \in used
      PROVE  /\ way[p] \in Way(es)
             /\ p = <<way[p].at[1], way[p].at[3]>>
  <2>1. p[1] \in DOMAIN beam /\ p[1] \in Nat /\ p[2] \in es /\ p[2] \in Edges /\ p[2] \in Nat /\ p = <<p[1], p[2]>>
    BY <1>1, EdgeValues
  <2>2. beam[p[1]].score \in Int /\ beam[p[1]].path \subseteq es
    BY <1>1, <2>1 DEF Way
  <2>3. /\ Other(p[2], beam[p[1]].node) \in Nodes
        /\ beam[p[1]].score + PathEdgeStrength(p[2]) \in Int
        /\ beam[p[1]].path \union {p[2]} \subseteq es
    BY <2>1, <2>2, EdgeValues, StrengthIs
  <2> DEFINE side == IF Source[p[2]] = beam[p[1]].node THEN 0 ELSE 1
             node == Other(p[2], beam[p[1]].node)
             score == beam[p[1]].score + PathEdgeStrength(p[2])
             path == beam[p[1]].path \union {p[2]}
  <2>4. way[p] = [at |-> <<p[1], side, p[2]>>, node |-> node, score |-> score, path |-> path]
    OBVIOUS
  <2>5. side \in Nat
    OBVIOUS
  <2>6. node \in Nodes /\ score \in Int /\ path \subseteq es
    BY <2>3
  <2> HIDE DEF way, side, node, score, path, used
  <2> QED BY <2>1, <2>4, <2>5, <2>6 DEF Way
<1> HIDE DEF way, used
<1>5. ways \subseteq Way(es)
  BY <1>4
<1>6. IsFiniteSet(ways)
  BY <1>2, Mapped
<1>7. \A v, w \in ways : v.at = w.at => v = w
  BY <1>4
<1> QED BY <1>3, <1>5, <1>6, <1>7 DEF AreWays

\* A level keeps ways along its edges; what it found is a path of them.
Level(es) == [beam : Seq(Way(es)), found : SUBSET es]

\* A level of the beam leads to a level.
LEMMA NextLevelIs ==
  ASSUME NEW es, es \subseteq Edges, NEW level \in Level(es), NEW root, NEW target
  PROVE  NextLevel(level, Ways(es, level.beam, root), target) \in Level(es)
<1> DEFINE ways == Ways(es, level.beam, root)
<1>1. level.beam \in Seq(Way(es)) /\ level.found \subseteq es
  BY DEF Level
<1>2. AreWays(ways, es)
  BY <1>1, WaysAre
<1> HIDE DEF ways
<1>3. CASE level.found # {}
  BY <1>3 DEF NextLevel
<1>4. CASE level.found = {} /\ Ending(ways, target) # {}
  <2>1. Strongest(Ending(ways, target)) \in ways
    <3>1. Ending(ways, target) \subseteq ways
      BY DEF Ending
    <3> QED BY <1>2, <1>4, <3>1, BestOf
  <2>2. Strongest(Ending(ways, target)).path \subseteq es
    BY <1>2, <2>1 DEF AreWays, Way
  <2> QED BY <1>4, <2>2 DEF NextLevel, Level, ways
<1>5. CASE level.found = {} /\ Ending(ways, target) = {}
  <2>1. AtMost(Beam(ways), BeamWidth) \in Seq(Way(es))
    BY <1>2, BeamIs, AtMostIs, ExpansionAssumption
  <2> QED BY <1>5, <2>1 DEF NextLevel, Level, ways
<1> QED BY <1>3, <1>4, <1>5 DEF ways

\* The best path is a path of the edges it was looked for in.
LEMMA BestPathIs ==
  ASSUME NEW es, es \subseteq Edges, NEW root \in Nodes, NEW target, NEW hops \in Nat
  PROVE  BestPath(es, root, target, hops) \subseteq es
<1> DEFINE first == [beam |-> <<[at |-> <<0, 0, 0>>, node |-> root, score |-> 0, path |-> {}]>>, found |-> {}]
           Step(s) == NextLevel(s, Ways(es, s.beam, root), target)
           Is(h) == h = [i \in 0 .. hops |-> IF i = 0 THEN first
                                             ELSE LET from == h[i - 1]
                                                  IN  NextLevel(from, Ways(es, from.beam, root), target)]
           level == CHOOSE h : Is(h)
           F == [p \in (1 .. hops) \X Level(es) |-> Step(p[2])]
<1>1. first \in Level(es)
  <2> DEFINE none == [at |-> <<0, 0, 0>>, node |-> root, score |-> 0, path |-> {}]
  <2>1. none \in Way(es)
    BY DEF Way
  <2> HIDE DEF none
  <2>2. <<none>> \in Seq(Way(es))
    BY <2>1
  <2>3. [beam |-> <<none>>, found |-> {}] \in Level(es)
    BY <2>2 DEF Level
  <2> QED BY <2>3 DEF none
<1> HIDE DEF first
<1>2. \A s \in Level(es) : Step(s) \in Level(es)
  BY NextLevelIs
<1>3. F \in [(1 .. hops) \X Level(es) -> Level(es)]
  <2> HIDE DEF Step
  <2> QED BY <1>2
<1>4. PICK h \in [0 .. hops -> Level(es)] : Unfolds(h, first, F, hops)
  <2> HIDE DEF F
  <2> QED BY <1>1, <1>3, Recursion
<1>5. ASSUME NEW i \in 1 .. hops PROVE h[i] = Step(h[i - 1])
  <2>1. i - 1 \in 0 .. hops /\ h[i - 1] \in Level(es)
    OBVIOUS
  <2>2. h[i] = F[<<i, h[i - 1]>>] /\ <<i, h[i - 1]>> \in (1 .. hops) \X Level(es)
    <3> HIDE DEF F
    <3> QED BY <1>4, <2>1 DEF Unfolds
  <2> HIDE DEF Step
  <2> QED BY <2>2
<1>6. Is(h)
  <2>1. ASSUME NEW i \in 0 .. hops PROVE h[i] = IF i = 0 THEN first ELSE Step(h[i - 1])
    <3>1. CASE i = 0
      BY <1>4, <3>1 DEF Unfolds
    <3>2. CASE i # 0
      <4> HIDE DEF Step
      <4> QED BY <1>5, <3>2
    <3> QED BY <3>1, <3>2
  <2> QED BY <2>1
<1>7. Is(level)
  <2> HIDE DEF Is
  <2> QED BY <1>6
<1>8. BestPath(es, root, target, hops) = level[hops].found
  BY DEF BestPath, first
<1> HIDE DEF level
<1>9. level[0] = first /\ \A i \in 1 .. hops : level[i] = Step(level[i - 1])
  BY <1>7
<1> DEFINE Good == {i \in Nat : i <= hops => level[i] \in Level(es)}
<1>10. 0 \in Good
  BY <1>1, <1>9
<1>11. ASSUME NEW i \in Nat, i \in Good PROVE i + 1 \in Good
  <2> SUFFICES ASSUME i + 1 <= hops PROVE level[i + 1] \in Level(es)
    OBVIOUS
  <2>1. level[i] \in Level(es) /\ i + 1 \in 1 .. hops /\ (i + 1) - 1 = i
    BY <1>11
  <2> HIDE DEF Step
  <2>2. level[i + 1] = Step(level[i])
    BY <1>9, <2>1
  <2> QED BY <1>2, <2>1, <2>2
<1>12. level[hops] \in Level(es)
  <2> HIDE DEF Good
  <2>1. hops \in Good
    BY <1>10, <1>11, SetInduction
  <2> QED BY <2>1 DEF Good
<1> QED BY <1>8, <1>12 DEF Level

\* A request whose starts, budget and scope have their types.
IsAsked(q) ==
  /\ q.class \in Classes /\ q.starts \in Seq(Nodes) /\ q.starts # <<>>
  /\ q.budget \in Nat /\ q.scope \subseteq Nodes

\* The starts are a finite set of nodes.
LEMMA StartsAre ==
  ASSUME NEW q, q.starts \in Seq(Nodes)
  PROVE  /\ StartSet(q) \subseteq Nodes /\ IsFiniteSet(StartSet(q)) /\ Cardinality(StartSet(q)) \in Nat
         /\ Len(q.starts) \in Nat /\ DOMAIN q.starts = 1 .. Len(q.starts)
<1>1. StartSet(q) \subseteq Nodes
  BY DEF StartSet, ToSet
<1> QED BY <1>1, NodeSets

\* The proof of a path request: its starts, and paths that fit.
ProofIs(g, q, p) ==
  /\ p.nodes \subseteq Nodes /\ p.edges \subseteq InForce(g)
  /\ StartSet(q) \subseteq p.nodes
  /\ Cardinality(p.nodes) <= Bigger(q.budget, Cardinality(StartSet(q)))

\* The proofs of a path request are what ProofIs says.
LEMMA ProofFacts ==
  ASSUME NEW g, IsGraph(g), NEW q, IsAsked(q)
  PROVE  ProofIs(g, q, Proof(g, q))
<1> DEFINE es == {e \in InForce(g) : q.asks = "calls" => Type[e] = "calls"}
           hops == IF q.asks = "calls" THEN CallHops ELSE Hops(q)
           n == Len(q.starts) - 1
           first == [nodes |-> StartSet(q), edges |-> {}]
           path(i) == InScope(q, BestPath(es, q.starts[1], q.starts[i + 1], hops))
           Is(h) == h = [i \in 0 .. n |-> IF i = 0 THEN first
                           ELSE Proven(q, h[i - 1], InScope(q, BestPath(es, q.starts[1], q.starts[i + 1], hops)))]
           proof == CHOOSE h : Is(h)
           Proofs == {p \in [nodes : SUBSET Nodes, edges : SUBSET InForce(g)] : ProofIs(g, q, p)}
           F == [x \in (1 .. n) \X Proofs |-> Proven(q, x[2], path(x[1]))]
<1>1. n \in Nat /\ q.starts[1] \in Nodes
  BY DEF IsAsked
<1>2. StartSet(q) \subseteq Nodes /\ Cardinality(StartSet(q)) \in Nat
  BY StartsAre DEF IsAsked
<1>3. hops \in Nat /\ es \subseteq InForce(g) /\ es \subseteq Edges /\ InForce(g) \subseteq Edges
  BY ExpansionAssumption DEF Hops, InForce, IsGraph
<1>4. ASSUME NEW i PROVE path(i) \subseteq InForce(g)
  <2> HIDE DEF es, hops
  <2>1. BestPath(es, q.starts[1], q.starts[i + 1], hops) \subseteq es
    BY <1>1, <1>3, BestPathIs
  <2> QED BY <1>3, <2>1 DEF InScope
<1>5. first \in Proofs
  BY <1>2, <1>1 DEF ProofIs, Bigger, IsAsked
<1>6. ASSUME NEW p \in Proofs, NEW i PROVE Proven(q, p, path(i)) \in Proofs
  <2> DEFINE nodes == p.nodes \union Ends(path(i))
  <2>1. path(i) \subseteq InForce(g)
    BY <1>4
  <2> HIDE DEF path, es, hops
  <2>2. /\ p \in [nodes : SUBSET Nodes, edges : SUBSET InForce(g)]
        /\ ProofIs(g, q, p)
    OBVIOUS
  <2>3. CASE Cardinality(nodes) > q.budget
    BY <2>2, <2>3 DEF Proven
  <2>4. CASE ~ (Cardinality(nodes) > q.budget)
    <3>1. Proven(q, p, path(i)) = [nodes |-> nodes, edges |-> p.edges \union path(i)]
      BY <2>4 DEF Proven
    <3>2. nodes \subseteq Nodes /\ p.edges \union path(i) \subseteq InForce(g) /\ StartSet(q) \subseteq nodes
      <4>1. Ends(path(i)) \subseteq Nodes
        BY <1>3, <2>1, EdgeValues DEF Ends
      <4> QED BY <2>1, <2>2, <4>1 DEF ProofIs
    <3> HIDE DEF nodes
    <3>3. Cardinality(nodes) <= Bigger(q.budget, Cardinality(StartSet(q)))
      <4>1. Cardinality(nodes) \in Nat
        BY <3>2, NodeSets
      <4> QED BY <1>2, <2>4, <4>1 DEF Bigger, IsAsked
    <3> QED BY <3>1, <3>2, <3>3 DEF ProofIs
  <2> QED BY <2>3, <2>4
<1> HIDE DEF Proofs
<1>7. F \in [(1 .. n) \X Proofs -> Proofs]
  <2> HIDE DEF path, n
  <2> QED BY <1>6
<1>8. PICK h \in [0 .. n -> Proofs] : Unfolds(h, first, F, n)
  <2> HIDE DEF F, first, n
  <2> QED BY <1>1, <1>5, <1>7, Recursion
<1> HIDE DEF first, n
<1>9. ASSUME NEW i \in 1 .. n PROVE h[i] = Proven(q, h[i - 1], path(i))
  <2>1. i - 1 \in 0 .. n /\ h[i - 1] \in Proofs
    BY <1>1
  <2>2. h[i] = F[<<i, h[i - 1]>>] /\ <<i, h[i - 1]>> \in (1 .. n) \X Proofs
    <3> HIDE DEF F
    <3> QED BY <1>8, <2>1 DEF Unfolds
  <2> HIDE DEF path
  <2> QED BY <2>2
<1>10. Is(h)
  <2>1. ASSUME NEW i \in 0 .. n PROVE h[i] = IF i = 0 THEN first ELSE Proven(q, h[i - 1], path(i))
    <3>1. CASE i = 0
      BY <1>8, <3>1 DEF Unfolds
    <3>2. CASE i # 0
      <4> HIDE DEF path
      <4> QED BY <1>1, <1>9, <3>2
    <3> QED BY <3>1, <3>2
  <2> QED BY <2>1
<1>11. Is(proof)
  <2> HIDE DEF Is
  <2> QED BY <1>10
<1>12. Proof(g, q) = proof[n]
  BY DEF Proof, first, n
<1> HIDE DEF proof
<1>13. proof[0] = first /\ \A i \in 1 .. n : proof[i] = Proven(q, proof[i - 1], path(i))
  <2>1. proof = [i \in 0 .. n |-> IF i = 0 THEN first ELSE Proven(q, proof[i - 1], path(i))]
    BY <1>11
  <2>2. 0 \in 0 .. n /\ \A i \in 1 .. n : i \in 0 .. n /\ i # 0
    BY <1>1
  <2> HIDE DEF path, Is
  <2> QED BY <2>1, <2>2
<1> DEFINE Good == {i \in Nat : i <= n => proof[i] \in Proofs}
<1>14. 0 \in Good
  BY <1>5, <1>13
<1>15. ASSUME NEW i \in Nat, i \in Good PROVE i + 1 \in Good
  <2> SUFFICES ASSUME i + 1 <= n PROVE proof[i + 1] \in Proofs
    OBVIOUS
  <2>1. proof[i] \in Proofs /\ i + 1 \in 1 .. n /\ (i + 1) - 1 = i
    BY <1>1, <1>15
  <2>2. proof[i + 1] = Proven(q, proof[i], path(i + 1))
    <3> HIDE DEF path
    <3> QED BY <1>13, <2>1
  <2> HIDE DEF path
  <2> QED BY <1>6, <2>1, <2>2
<1>16. n \in Good
  <2> HIDE DEF Good
  <2> QED BY <1>1, <1>14, <1>15, SetInduction
<1> QED BY <1>1, <1>12, <1>16 DEF Proofs

-----------------------------------------------------------------------------
(* Packets *)

Packets == [nodes : SUBSET Nodes, edges : SUBSET Edges, late : Seq(Edges), room : Nat]

\* Edges that may join the nodes of a packet.
IsLive(g, q, es) == es \subseteq Permitted(g, q)

\* An edge in force always may.
LEMMA InForceIsLive ==
  ASSUME NEW g, NEW q, NEW es, es \subseteq InForce(g)
  PROVE  IsLive(g, q, es)
BY DEF IsLive, Permitted, InForce

\* A packet with the ends of its edges, each of which it may have.
IsPacket(g, q, s) ==
  /\ s \in Packets
  /\ Ends(s.edges) \subseteq s.nodes
  /\ IsLive(g, q, s.edges)

StartsKept(q, s) == StartSet(q) \cap q.scope \subseteq s.nodes

\* Other nodes, with the edges inside of what there was and of some more.
LEMMA PackedIs ==
  ASSUME NEW g, NEW q, NEW s, IsPacket(g, q, s), NEW nodes, nodes \subseteq Nodes,
         NEW es, es \subseteq Edges, IsLive(g, q, es)
  PROVE  IsPacket(g, q, Packed(s, nodes, es)) /\ Packed(s, nodes, es).nodes = nodes
<1> DEFINE t == Packed(s, nodes, es)
           kept == Within(s.edges \union es, nodes)
<1>1. /\ s \in Packets /\ s.edges \subseteq Edges
      /\ IsLive(g, q, s.edges)
  BY DEF IsPacket, Packets
<1>2. kept \subseteq Edges /\ Ends(kept) \subseteq nodes
      /\ IsLive(g, q, kept)
  BY <1>1 DEF Ends, Within, IsLive
<1>3. t = [s EXCEPT !.nodes = nodes, !.edges = kept]
  BY <1>1 DEF Packed, Packets
<1> HIDE DEF kept, t
<1>4. t \in Packets /\ t.nodes = nodes /\ t.edges = kept /\ t.room = s.room
  BY <1>1, <1>2, <1>3 DEF Packets
<1> QED BY <1>2, <1>4 DEF IsPacket, t, kept

\* Fewer edges, or nodes, with the edges inside.
LEMMA FewerEdges ==
  ASSUME NEW g, NEW q, NEW s, IsPacket(g, q, s), NEW es, es \subseteq s.edges,
         NEW t \in Packets, t.nodes = s.nodes, t.edges = es
  PROVE  IsPacket(g, q, t)
BY DEF IsPacket, Ends, IsLive

\* A packet cut down to some nodes.
LEMMA LimitedIs ==
  ASSUME NEW g, NEW q, NEW s, IsPacket(g, q, s), NEW nodes, nodes \subseteq Nodes
  PROVE  IsPacket(g, q, Limited(s, nodes)) /\ Limited(s, nodes).nodes = nodes
<1> DEFINE t == Limited(s, nodes)
           kept == Within(s.edges, nodes)
<1>1. /\ s \in Packets /\ s.edges \subseteq Edges
      /\ IsLive(g, q, s.edges)
  BY DEF IsPacket, Packets
<1>2. kept \subseteq Edges /\ Ends(kept) \subseteq nodes
      /\ IsLive(g, q, kept)
  BY <1>1 DEF Ends, Within, IsLive
<1>3. t = [s EXCEPT !.nodes = nodes, !.edges = kept]
  BY <1>1 DEF Limited, Packets
<1> HIDE DEF kept, t
<1>4. t \in Packets /\ t.nodes = nodes /\ t.edges = kept /\ t.room = s.room
  BY <1>1, <1>2, <1>3 DEF Packets
<1> QED BY <1>2, <1>4 DEF IsPacket, t, kept

\* The packet of a path request: sound, with its starts, and within its bound.
LEMMA MonotoneIs ==
  ASSUME NEW g, IsGraph(g), NEW q, IsAsked(q)
  PROVE  LET s == Monotone(g, q)
         IN  /\ IsPacket(g, q, s) /\ StartsKept(q, s)
             /\ Cardinality(s.nodes) <= Bigger(q.budget, Cardinality(StartSet(q)))
<1> DEFINE p == Proof(g, q)
           how == How(q, "both", Prefers(q.class), FALSE, q.budget)
           wide == Expand(g, p.nodes, Hops(q), how)
           roots == p.nodes \cap how.scope
           s == Monotone(g, q)
           es == Sure(q.class, Within(wide.edges \union p.edges, wide.nodes))
<1>1. ProofIs(g, q, p)
  BY ProofFacts
<1>2. IsHow(how) /\ how.max = q.budget /\ how.scope = q.scope /\ Hops(q) \in Nat
  BY DEF IsHow, How, Hops, IsAsked
<1> HIDE DEF p, how
<1>3. ExpandIs(g, roots, how, wide)
  BY <1>2, ExpandFacts
<1> HIDE DEF wide
<1>4. s = [nodes |-> wide.nodes, late |-> <<>>, room |-> q.budget, edges |-> es]
  BY DEF Monotone, Widened, Assembled, p, how, wide
<1>5. /\ es \subseteq InForce(g) /\ Ends(es) \subseteq wide.nodes
      /\ InForce(g) \subseteq Edges /\ wide.nodes \subseteq Nodes
  BY <1>1, <1>3 DEF ExpandIs, ProofIs, Sure, Within, Ends, InForce, IsGraph
<1> HIDE DEF es, s
<1>6. IsPacket(g, q, s)
  <2>1. IsLive(g, q, es)
    BY <1>5, InForceIsLive
  <2>2. s \in Packets /\ s.edges = es /\ s.nodes = wide.nodes
    BY <1>4, <1>5 DEF Packets, IsAsked
  <2> QED BY <1>5, <2>1, <2>2 DEF IsPacket
<1>7. StartsKept(q, s)
  BY <1>1, <1>2, <1>3, <1>4 DEF StartsKept, ProofIs, ExpandIs
<1>8. Cardinality(wide.nodes) <= Bigger(q.budget, Cardinality(StartSet(q)))
  <2>1. roots \subseteq p.nodes /\ p.nodes \subseteq Nodes
    BY <1>1 DEF ProofIs
  <2> HIDE DEF roots
  <2>2. Cardinality(roots) <= Cardinality(p.nodes) /\ Cardinality(roots) \in Nat /\ Cardinality(p.nodes) \in Nat
    BY <2>1, NodeSets, Sizes
  <2>3. Cardinality(StartSet(q)) \in Nat /\ Cardinality(wide.nodes) \in Nat /\ q.budget \in Nat
    BY <1>5, NodeSets, StartsAre DEF IsAsked
  <2>4. /\ Cardinality(wide.nodes) <= Bigger(q.budget, Cardinality(roots))
        /\ Cardinality(p.nodes) <= Bigger(q.budget, Cardinality(StartSet(q)))
    BY <1>1, <1>2, <1>3 DEF ExpandIs, ProofIs
  <2> QED BY <2>2, <2>3, <2>4 DEF Bigger
<1> QED BY <1>4, <1>6, <1>7, <1>8 DEF s

\* If the same proofs fit a larger budget, the packet at it has the nodes of the packet.
LEMMA MonotoneExtends ==
  ASSUME NEW g, IsGraph(g), NEW q, IsAsked(q), NEW r, IsAsked(r),
         r.class = q.class, r.scope = q.scope, q.budget <= r.budget,
         Proof(g, q).nodes = Proof(g, r).nodes
  PROVE  Monotone(g, q).nodes \subseteq Monotone(g, r).nodes
<1> DEFINE how == How(q, "both", Prefers(q.class), FALSE, q.budget)
           wide == How(r, "both", Prefers(r.class), FALSE, r.budget)
<1>1. IsHow(how) /\ Widens(how, wide) /\ Hops(q) \in Nat /\ Hops(r) = Hops(q)
  BY DEF IsHow, How, Hops, Widens, IsAsked
<1>2. /\ Monotone(g, q).nodes = Expand(g, Proof(g, q).nodes, Hops(q), how).nodes
      /\ Monotone(g, r).nodes = Expand(g, Proof(g, r).nodes, Hops(r), wide).nodes
  BY DEF Monotone, Widened, Assembled
<1> HIDE DEF how, wide
<1> QED BY <1>1, <1>2, ExpandExtends

\* From nothing nothing is reached.
LEMMA ExpandOfNothing ==
  ASSUME NEW g, IsGraph(g), NEW how, IsHow(how), NEW starts, NEW hops \in Nat
  PROVE  starts \cap how.scope = {} => Expand(g, starts, hops, how).nodes = {}
<1> DEFINE roots == starts \cap how.scope
<1>1. PICK after : RoundsOf(g, roots, hops, how, after) /\ Expand(g, starts, hops, how) = after[hops]
  BY ExpandUnfolds
<1> HIDE DEF roots
<1> SUFFICES ASSUME roots = {} PROVE Expand(g, starts, hops, how).nodes = {}
  BY DEF roots
<1> DEFINE Good == {i \in Nat : i <= hops => after[i].nodes = {} /\ after[i].frontier = {}}
<1>2. 0 \in Good
  <2>1. after[0] = Rooted(g, roots)
    BY <1>1 DEF RoundsOf
  <2> QED BY <2>1 DEF Rooted
<1>3. ASSUME NEW i \in Nat, i \in Good PROVE i + 1 \in Good
  <2> SUFFICES ASSUME i + 1 <= hops PROVE after[i + 1].nodes = {} /\ after[i + 1].frontier = {}
    OBVIOUS
  <2>1. i + 1 \in 1 .. hops /\ (i + 1) - 1 = i /\ after[i].nodes = {} /\ after[i].frontier = {}
    BY <1>3
  <2> DEFINE s == after[i]
             score == Scores(g, how, s)
             room == how.max - Cardinality(s.nodes)
             next == Chosen(score, room)
  <2>2. after[i + 1] = IF s.open THEN Hop(g, how, s) ELSE s
    BY <1>1, <2>1 DEF RoundsOf
  <2>3. next = {}
    <3>1. \A m : Steps(g, how, s, m) = {}
      BY <2>1 DEF Steps
    <3>2. DOMAIN score = {}
      <4> HIDE DEF s
      <4> QED BY <3>1 DEF Scores
    <3>3. next \subseteq DOMAIN score
      <4> HIDE DEF score, room
      <4> QED BY DEF Chosen, FirstOf
    <3> QED BY <3>2, <3>3
  <2>4. Hop(g, how, s).nodes = s.nodes \union next /\ Hop(g, how, s).frontier = next
    <3> HIDE DEF s
    <3> QED BY DEF Hop, After, score, room
  <2> HIDE DEF next
  <2> QED BY <2>1, <2>2, <2>3, <2>4
<1>4. hops \in Good
  <2> HIDE DEF Good
  <2> QED BY <1>2, <1>3, SetInduction
<1> QED BY <1>1, <1>4

\* What the other classes reach before they reserve anything.
ReachedIs(g, q, s) ==
  /\ s.nodes \subseteq Nodes /\ s.edges \subseteq InForce(g)
  /\ Ends(s.edges) \subseteq s.nodes
  /\ StartSet(q) \cap q.scope \subseteq s.nodes
  /\ StartSet(q) \cap q.scope = {} => s.nodes = {}

\* What is reached is what ReachedIs says: a summary expands as other classes do, an
\* impact is the union of its three branches.
LEMMA ReachedFacts ==
  ASSUME NEW g, IsGraph(g), NEW q, IsAsked(q)
  PROVE  ReachedIs(g, q, Reached(g, q))
<1>1. Hops(q) \in Nat /\ q.scope \subseteq Nodes /\ q.budget \in Int
  BY DEF Hops, IsAsked
<1>2. CASE q.class # "blast_radius"
  <2> DEFINE how == How(q, Direction[q.class], Prefers(q.class), FALSE, q.budget)
  <2>1. IsHow(how) /\ how.scope = q.scope
    BY <1>1 DEF IsHow, How
  <2>2. Reached(g, q) = Expand(g, StartSet(q), Hops(q), how)
    BY <1>2 DEF Reached
  <2> HIDE DEF how
  <2>3. ExpandIs(g, StartSet(q) \cap how.scope, how, Expand(g, StartSet(q), Hops(q), how))
    BY <1>1, <2>1, ExpandFacts
  <2>4. StartSet(q) \cap how.scope = {} => Expand(g, StartSet(q), Hops(q), how).nodes = {}
    BY <1>1, <2>1, ExpandOfNothing
  <2> QED BY <2>1, <2>2, <2>3, <2>4 DEF ExpandIs, ReachedIs
<1>3. CASE q.class = "blast_radius"
  <2> DEFINE n == Len(q.starts)
             total == Bigger(n, q.budget)
             share == Shares(n, total)
             all == Branches(q, share)
             reach == [b \in all |-> Expand(g, StartSet(q), b[1], b[2])]
             S == {reach[b] : b \in all}
             s == United(S)
  <2>1. n \in Nat /\ total \in Int
    BY <1>1, StartsAre DEF Bigger, IsAsked
  <2> HIDE DEF n, total
  <2>2. share[1] \in Int /\ share[2] \in Int /\ share[3] \in Int
    <3> DEFINE impact == Bigger(n, (65 * total + 50) \div 100)
               support == Bigger(n, (20 * total + 50) \div 100)
    <3>1. impact \in Int /\ support \in Int
      BY <2>1 DEF Bigger
    <3>2. share = <<impact, support, Bigger(n, total - impact - support)>>
      BY DEF Shares
    <3> HIDE DEF impact, support, share
    <3> QED BY <2>1, <3>1, <3>2 DEF Bigger
  <2> HIDE DEF share
  <2>3. ASSUME NEW b \in all PROVE b[1] \in Nat /\ IsHow(b[2]) /\ b[2].scope = q.scope
    BY <1>1, <2>2 DEF Branches, How, IsHow
  <2>4. ASSUME NEW b \in all PROVE ReachedIs(g, q, reach[b])
    <3> HIDE DEF all
    <3>1. ExpandIs(g, StartSet(q) \cap q.scope, b[2], Expand(g, StartSet(q), b[1], b[2]))
      <4>1. ExpandIs(g, StartSet(q) \cap b[2].scope, b[2], Expand(g, StartSet(q), b[1], b[2]))
        BY <2>3, ExpandFacts
      <4> QED BY <2>3, <4>1
    <3>2. StartSet(q) \cap q.scope = {} => Expand(g, StartSet(q), b[1], b[2]).nodes = {}
      <4>1. StartSet(q) \cap b[2].scope = {} => Expand(g, StartSet(q), b[1], b[2]).nodes = {}
        BY <2>3, ExpandOfNothing
      <4> QED BY <2>3, <4>1
    <3>3. reach[b] = Expand(g, StartSet(q), b[1], b[2])
      OBVIOUS
    <3> QED BY <3>1, <3>2, <3>3 DEF ExpandIs, ReachedIs
  <2>5. Reached(g, q) = s
    <3>1. S = {Expand(g, StartSet(q), b[1], b[2]) : b \in all}
      OBVIOUS
    <3> QED BY <1>3, <3>1 DEF Reached, Impact, share, total, n
  <2>6. all # {}
    BY DEF Branches
  <2>7. /\ s.nodes = UNION {reach[b].nodes : b \in all}
        /\ s.edges = UNION {reach[b].edges : b \in all}
    BY DEF United
  <2> HIDE DEF all, reach, s
  <2>8. /\ s.nodes \subseteq Nodes /\ s.edges \subseteq InForce(g)
        /\ StartSet(q) \cap q.scope \subseteq s.nodes
        /\ StartSet(q) \cap q.scope = {} => s.nodes = {}
    BY <2>4, <2>6, <2>7 DEF ReachedIs
  <2>9. ASSUME NEW e \in s.edges PROVE Source[e] \in s.nodes /\ Target[e] \in s.nodes
    <3>1. PICK b \in all : e \in reach[b].edges
      BY <2>7
    <3>2. Source[e] \in reach[b].nodes /\ Target[e] \in reach[b].nodes
      <4>1. Ends(reach[b].edges) \subseteq reach[b].nodes
        BY <2>4 DEF ReachedIs
      <4> QED BY <3>1, <4>1, EndsIn
    <3> QED BY <2>7, <3>2
  <2>10. Ends(s.edges) \subseteq s.nodes
    BY <2>9, EndsIn
  <2> QED BY <2>5, <2>8, <2>10 DEF ReachedIs
<1> QED BY <1>2, <1>3

-----------------------------------------------------------------------------
(* What is reserved *)

\* A key that ends in the number of the edge sorts any set of edges.
LEMMA EdgeKeys ==
  ASSUME NEW S, S \subseteq Edges, NEW key,
         \E n \in Nat \ {0} : \A e \in S : key[e] \in [1 .. n -> Int] /\ key[e][n] = e
  PROVE  Sorts(S, key)
<1> PICK n \in Nat \ {0} : \A e \in S : key[e] \in [1 .. n -> Int] /\ key[e][n] = e
  OBVIOUS
<1>1. IsFiniteSet(S)
  BY EdgeSets
<1>2. \A e, f \in S : key[e] = key[f] => e = f
  OBVIOUS
<1> QED BY <1>1, <1>2 DEF Sorts

\* The rank of the relations sorts the edges.
LEMMA RankKeys ==
  ASSUME NEW S, S \subseteq Edges, NEW class \in Classes
  PROVE  Sorts(S, ByRank[class])
<1>1. ASSUME NEW e \in S PROVE ByRank[class][e] \in [1 .. 2 -> Int] /\ ByRank[class][e][2] = e
  <2>1. RelationRank[class][e] \in Int /\ e \in Int
    BY RelationRanks, EdgeValues
  <2>2. ByRank[class][e] = <<RelationRank[class][e], e>>
    BY DEF ByRank
  <2>3. <<RelationRank[class][e], e>> \in [1 .. 2 -> Int]
    BY <2>1
  <2> QED BY <2>2, <2>3
<1> DEFINE key == ByRank[class]
<1>2. \A e \in S : key[e] \in [1 .. 2 -> Int] /\ key[e][2] = e
  BY <1>1
<1>3. 2 \in Nat \ {0}
  OBVIOUS
<1> HIDE DEF key
<1>4. \E n \in Nat \ {0} : \A e \in S : key[e] \in [1 .. n -> Int] /\ key[e][n] = e
  BY <1>2, <1>3
<1>5. Sorts(S, key)
  BY <1>4, EdgeKeys
<1> QED BY <1>5 DEF key

\* The families of a summary: four edges at the starts.
LEMMA FamilyEdgesAre ==
  ASSUME NEW g, IsGraph(g), NEW q, IsAsked(q)
  PROVE  LET chosen == FamilyEdges(g, q)
             reserved == StartSet(q) \union Ends(chosen)
         IN  /\ chosen \subseteq InForce(g) /\ chosen \subseteq Edges /\ reserved \subseteq Nodes
             /\ Cardinality(reserved) <= Cardinality(StartSet(q)) + 4
<1> DEFINE all   == {e \in InForce(g) : AtStart(q, e)}
           known == {e \in all : Type[e] \in Prefers(q.class)}
           from  == IF known # {} THEN known ELSE all
           alike(e) == {f \in from : Family[Type[f]] = Family[Type[e]]}
           first == {e \in from : e \in FirstOf(alike(e), 1, ByRank[q.class])}
           chosen == FamilyEdges(g, q)
           starts == StartSet(q)
           reserved == starts \union Ends(chosen)
<1>1. chosen = FirstOf(first, 4, ByRank[q.class])
  BY DEF FamilyEdges
<1>2. first \subseteq Edges /\ \A e \in first : e \in InForce(g) /\ AtStart(q, e)
  BY DEF InForce, IsGraph
<1> HIDE DEF first
<1>3. Sorts(first, ByRank[q.class])
  BY <1>2, RankKeys DEF IsAsked
<1>4. chosen \subseteq first /\ IsFiniteSet(chosen) /\ Cardinality(chosen) \in Nat /\ Cardinality(chosen) <= 4
  <2>1. /\ chosen \subseteq first /\ IsFiniteSet(chosen) /\ Cardinality(first) \in Nat
        /\ Cardinality(chosen) = IF 4 < Cardinality(first) THEN 4 ELSE Cardinality(first)
    <3> HIDE DEF chosen
    <3>1. 4 \in Int /\ 0 <= 4
      OBVIOUS
    <3> QED BY <1>1, <1>3, <3>1, FirstOfIs
  <2> HIDE DEF chosen
  <2> QED BY <2>1
<1> HIDE DEF chosen
<1>5. ASSUME NEW e \in chosen
      PROVE  /\ Source[e] \in Nodes /\ Target[e] \in Nodes
             /\ Source[e] \in starts \/ Target[e] \in starts
  <2>1. e \in Edges /\ AtStart(q, e)
    BY <1>2, <1>4
  <2> QED BY <2>1, EdgeValues DEF AtStart
<1>6. IsFiniteSet(starts) /\ Cardinality(starts) \in Nat /\ starts \subseteq Nodes
  BY StartsAre DEF IsAsked
<1> HIDE DEF starts
<1> DEFINE far == [e \in chosen |-> IF Source[e] \in starts THEN Target[e] ELSE Source[e]]
           others == {far[e] : e \in chosen}
<1>7. reserved = starts \union others
  <2>1. Ends(chosen) \subseteq starts \union others
    <3>1. ASSUME NEW e \in chosen PROVE Source[e] \in starts \union others /\ Target[e] \in starts \union others
      <4>1. far[e] \in others
        OBVIOUS
      <4>2. far[e] = IF Source[e] \in starts THEN Target[e] ELSE Source[e]
        OBVIOUS
      <4> HIDE DEF far, others
      <4> QED BY <1>5, <4>1, <4>2
    <3> HIDE DEF others
    <3> QED BY <3>1, EndsIn
  <2>2. others \subseteq Ends(chosen)
    BY DEF Ends
  <2> HIDE DEF others
  <2> QED BY <2>1, <2>2
<1>8. Cardinality(reserved) <= Cardinality(starts) + 4
  <2>1. /\ IsFiniteSet(others) /\ Cardinality(others) \in Nat
        /\ Cardinality(others) <= Cardinality(chosen)
    <3> HIDE DEF far
    <3> QED BY <1>4, Mapped
  <2> HIDE DEF others, reserved
  <2>2. Cardinality(reserved) \in Nat /\ Cardinality(reserved) <= Cardinality(starts) + Cardinality(others)
    BY <1>6, <1>7, <2>1, SizeOfUnion
  <2> QED BY <1>4, <1>6, <2>1, <2>2
<1>9. reserved \subseteq Nodes
  BY <1>5, <1>6, EndsIn DEF Ends
<1> QED BY <1>2, <1>4, <1>8, <1>9 DEF reserved, chosen, starts

\* Taking nodes away until a limit is met, or only what is protected is left.
LEMMA FittedIs ==
  ASSUME NEW nodes, nodes \subseteq Nodes, NEW protected, protected \subseteq nodes, NEW max \in Nat
  PROVE  LET kept == Fitted(nodes, protected, max)
         IN  /\ kept \subseteq nodes /\ protected \subseteq kept
             /\ Cardinality(kept) <= Bigger(max, Cardinality(protected))
<1> DEFINE spare == nodes \ protected
           k     == Cardinality(nodes) - max
           going == FirstOf(spare, k, ByWorth)
           kept  == Fitted(nodes, protected, max)
<1>1. kept = nodes \ going
  BY DEF Fitted
<1>2. /\ IsFiniteSet(nodes) /\ Cardinality(nodes) \in Nat
      /\ IsFiniteSet(protected) /\ Cardinality(protected) \in Nat
      /\ IsFiniteSet(spare) /\ Cardinality(spare) = Cardinality(nodes) - Cardinality(protected)
  BY NodeSets, Sizes
<1>3. Sorts(spare, ByWorth)
  BY WorthKeys
<1>4. k \in Int
  BY <1>2
<1>5. /\ going \subseteq spare /\ IsFiniteSet(going)
      /\ k <= 0 => going = {}
      /\ 0 <= k => Cardinality(going) = IF k < Cardinality(spare) THEN k ELSE Cardinality(spare)
  <2> HIDE DEF k, spare
  <2> QED BY <1>3, <1>4, FirstOfIs
<1> HIDE DEF going
<1>6. kept \subseteq nodes /\ protected \subseteq kept
  BY <1>1, <1>5
<1>7. Cardinality(kept) = Cardinality(nodes) - Cardinality(going) /\ Cardinality(going) \in Nat
  <2>1. going \subseteq nodes
    BY <1>5
  <2> HIDE DEF kept
  <2> QED BY <1>1, <1>2, <2>1, Sizes
<1>8. Cardinality(kept) <= Bigger(max, Cardinality(protected))
  <2> HIDE DEF kept, spare
  <2>1. CASE k <= 0
    <3>1. Cardinality(going) = 0
      BY <1>5, <2>1, FS_EmptySet
    <3> QED BY <1>2, <1>7, <2>1, <3>1 DEF Bigger
  <2>2. CASE k > 0
    <3>1. Cardinality(going) = IF k < Cardinality(spare) THEN k ELSE Cardinality(spare)
      BY <1>4, <1>5, <2>2
    <3> QED BY <1>2, <1>7, <2>2, <3>1 DEF Bigger
  <2> QED BY <1>4, <2>1, <2>2
<1> QED BY <1>6, <1>8

\* The most nodes of a packet for a request, with a budget in force.
Most(q, room) ==
  Bigger(room, Bigger(q.budget,
    Cardinality(StartSet(q)) + (IF q.class = "subsystem_summary" THEN 4 ELSE 0)))

\* Families are reserved: a sound packet stays so, and keeps its starts and its size.
LEMMA FamiliesReservedIs ==
  ASSUME NEW g, IsGraph(g), NEW q, IsAsked(q), NEW s, IsPacket(g, q, s)
  PROVE  LET t == FamiliesReserved(g, q, s)
         IN  /\ IsPacket(g, q, t) /\ t.room = s.room
             /\ StartsKept(q, s) => StartsKept(q, t)
             /\ q.class = "subsystem_summary" => StartSet(q) \subseteq t.nodes
             /\ q.class # "subsystem_summary" => t = s
             /\ \A room \in Nat : Cardinality(s.nodes) <= Most(q, room) => Cardinality(t.nodes) <= Most(q, room)
<1> DEFINE chosen == FamilyEdges(g, q)
           reserved == StartSet(q) \union Ends(chosen)
           kept == Fitted(s.nodes \union reserved, reserved, q.budget)
           t == FamiliesReserved(g, q, s)
<1>1. CASE q.class # "subsystem_summary"
  BY <1>1 DEF FamiliesReserved
<1>2. CASE q.class = "subsystem_summary"
  <2>1. t = Packed(s, kept, chosen)
    BY <1>2 DEF FamiliesReserved, WithFamilies
  <2>2. /\ chosen \subseteq Edges /\ chosen \subseteq InForce(g) /\ reserved \subseteq Nodes
        /\ Cardinality(reserved) <= Cardinality(StartSet(q)) + 4
    BY FamilyEdgesAre
  <2> HIDE DEF chosen
  <2>3. StartSet(q) \subseteq reserved
    OBVIOUS
  <2> HIDE DEF reserved
  <2>4. /\ kept \subseteq s.nodes \union reserved /\ reserved \subseteq kept
        /\ Cardinality(kept) <= Bigger(q.budget, Cardinality(reserved))
    <3>1. s.nodes \union reserved \subseteq Nodes /\ reserved \subseteq s.nodes \union reserved /\ q.budget \in Nat
      BY <2>2 DEF IsPacket, Packets, IsAsked
    <3> QED BY <3>1, FittedIs
  <2> HIDE DEF kept
  <2>5. kept \subseteq Nodes
    BY <2>2, <2>4 DEF IsPacket, Packets
  <2> HIDE DEF t
  <2>6. IsPacket(g, q, t) /\ t.nodes = kept /\ t.room = s.room
    <3>1. IsLive(g, q, chosen)
      BY <2>2, InForceIsLive
    <3>2. IsPacket(g, q, t) /\ t.nodes = kept
      BY <2>1, <2>2, <2>5, <3>1, PackedIs
    <3>3. t.room = s.room
      BY <2>1 DEF Packed, IsPacket, Packets
    <3> QED BY <3>2, <3>3
  <2>7. StartSet(q) \subseteq t.nodes
    BY <2>3, <2>4, <2>6
  <2>8. ASSUME NEW room \in Nat PROVE Cardinality(t.nodes) <= Most(q, room)
    <3>1. /\ Cardinality(kept) \in Nat /\ Cardinality(reserved) \in Nat /\ Cardinality(StartSet(q)) \in Nat
          /\ q.budget \in Nat
      BY <2>2, <2>5, NodeSets, StartsAre DEF IsAsked
    <3> QED BY <1>2, <2>2, <2>4, <2>6, <3>1 DEF Most, Bigger
  <2> QED BY <1>2, <2>6, <2>7, <2>8 DEF StartsKept, t
<1> QED BY <1>1, <1>2

\* The throttled budget is one.
LEMMA ThrottledIs ==
  ASSUME NEW q, q.budget \in Nat, NEW n \in Nat, NEW es, es \subseteq Edges
  PROVE  Throttled(q, n, es) \in Nat
<1> DEFINE size == Cardinality(es)
           ends == [e \in es |-> {Source[e], Target[e]}]
           tight == Cardinality({{Source[e], Target[e]} : e \in es})
           pairs == (n * (n - 1)) \div 2
           budget == Dense(q, n, size)
<1>1. CASE n <= DenseAbove
  BY <1>1 DEF Throttled
<1>2. CASE ~ (n <= DenseAbove)
  <2>1. IsFiniteSet(es) /\ size \in Nat
    BY EdgeSets
  <2>2. tight \in Nat
    <3>1. {{Source[e], Target[e]} : e \in es} = {ends[e] : e \in es}
      OBVIOUS
    <3> HIDE DEF ends
    <3>2. Cardinality({ends[e] : e \in es}) \in Nat
      BY <2>1, Mapped
    <3> QED BY <3>1, <3>2
  <2>3. n >= 2
    BY <1>2, ExpansionAssumption
  <2>4. pairs \in Nat /\ pairs > 0
    <3>1. \A a \in Nat : a >= 2 => a * (a - 1) \in Nat /\ a * (a - 1) >= 2
      OBVIOUS
    <3>2. \A x \in Nat : x >= 2 => x \div 2 \in Nat /\ x \div 2 > 0
      OBVIOUS
    <3> QED BY <2>3, <3>1, <3>2
  <2> HIDE DEF size, tight, pairs
  <2>5. budget \in Nat
    <3>1. CASE 2 * size <= 3 * n
      BY <3>1 DEF Dense
    <3>2. CASE ~ (2 * size <= 3 * n)
      <4>1. 2 * size \in Nat /\ 2 * size > 0
        BY <2>1, <3>2
      <4>2. 3 * n * q.budget \in Int
        OBVIOUS
      <4>3. \A x \in Int, y \in Nat : y > 0 => x \div y \in Int
        OBVIOUS
      <4>4. (3 * n * q.budget) \div (2 * size) \in Int
        BY <4>1, <4>2, <4>3
      <4>5. (2 * q.budget) \div 5 \in Int /\ DenseFloor \in Nat
        BY ExpansionAssumption
      <4> QED BY <3>2, <4>4, <4>5 DEF Dense, Bigger
    <3> QED BY <3>1, <3>2
  <2> HIDE DEF budget
  <2>6. Tight(budget, tight, pairs) \in Nat
    <3>1. CASE 5 * tight <= 2 * pairs
      BY <2>5, <3>1 DEF Tight
    <3>2. CASE ~ (5 * tight <= 2 * pairs)
      <4>1. 1000 * pairs \in Nat /\ 1000 * pairs > 0
        BY <2>4
      <4>2. budget * (1268 * pairs - 670 * tight) \in Int
        BY <2>2, <2>4, <2>5
      <4>3. \A x \in Int, y \in Nat : y > 0 => x \div y \in Int
        OBVIOUS
      <4>4. (budget * (1268 * pairs - 670 * tight)) \div (1000 * pairs) \in Int
        BY <4>1, <4>2, <4>3
      <4>5. (3 * budget) \div 5 \in Int /\ TightFloor \in Nat
        BY <2>5, ExpansionAssumption
      <4> QED BY <3>2, <4>4, <4>5 DEF Tight, Bigger
    <3> QED BY <3>1, <3>2
  <2> QED BY <1>2, <2>6 DEF Throttled, budget, tight, pairs, size
<1> QED BY <1>1, <1>2

\* The budget in force is a number, and edges only go.
LEMMA BudgetedIs ==
  ASSUME NEW g, IsGraph(g), NEW q, IsAsked(q), NEW s, IsPacket(g, q, s)
  PROVE  LET t == Budgeted(q, s) IN IsPacket(g, q, t) /\ t.nodes = s.nodes
<1> DEFINE sure == Sure(q.class, s.edges)
           room == Throttled(q, Cardinality(s.nodes), sure)
           thin == Thinned(q.class, sure, room)
           t == Budgeted(q, s)
<1>1. t = [s EXCEPT !.room = room, !.edges = thin]
  BY DEF Budgeted, WithRoom, Trimmed
<1>2. s \in Packets /\ s.nodes \subseteq Nodes /\ s.edges \subseteq Edges
  BY DEF IsPacket, Packets
<1>3. sure \subseteq s.edges
  BY DEF Sure
<1> HIDE DEF sure
<1>4. room \in Nat
  <2>1. Cardinality(s.nodes) \in Nat /\ sure \subseteq Edges /\ q.budget \in Nat
    BY <1>2, <1>3, NodeSets DEF IsAsked
  <2> QED BY <2>1, ThrottledIs
<1> HIDE DEF room
<1>5. thin \subseteq sure
  BY DEF Thinned
<1> HIDE DEF thin, t
<1>6. t \in Packets /\ t.nodes = s.nodes /\ t.edges = thin
  BY <1>1, <1>2, <1>3, <1>4, <1>5 DEF Packets
<1>7. thin \subseteq s.edges
  BY <1>3, <1>5
<1>8. IsPacket(g, q, t)
  BY <1>6, <1>7, FewerEdges
<1> QED BY <1>6, <1>8 DEF t

\* Nodes in the order in which edges meet them.
LEMMA AsMetIs ==
  ASSUME NEW es, es \subseteq Edges, NEW S, S \subseteq Ends(es)
  PROVE  AsMet(S, es) \in Seq(Nodes) /\ ToSet(AsMet(S, es)) = S
<1> DEFINE key == [n \in S |-> <<Min(Touching(es, {n})), NodeRank[n]>>]
           worth == [n \in S |-> Min(Touching(es, {n}))]
           keys == [n \in S |-> <<worth[n], NodeRank[n]>>]
<1>1. S \subseteq Nodes
  BY EdgeValues DEF Ends
<1>2. ASSUME NEW n \in S PROVE worth[n] \in Int
  <2> DEFINE near == Touching(es, {n})
  <2>1. near \subseteq Nat
    BY EdgeValues DEF Touching
  <2>2. near # {}
    BY DEF Touching, Ends
  <2> HIDE DEF near
  <2>3. \E least \in near : \A m \in near : least <= m
    BY <2>1, <2>2, LeastNumber
  <2>4. Min(near) \in near
    BY <2>3 DEF Min
  <2> QED BY <2>1, <2>4 DEF near
<1>3. key = keys
  OBVIOUS
<1>4. Sorts(S, keys)
  <2> HIDE DEF worth
  <2> QED BY <1>1, <1>2, NodeKeys
<1> HIDE DEF key, keys
<1>5. InOrder(S, key) \in Seq(S) /\ ToSet(InOrder(S, key)) = S
  BY <1>3, <1>4, InOrderIs
<1>6. InOrder(S, key) \in Seq(Nodes)
  <2> DEFINE list == InOrder(S, key)
  <2>1. list \in Seq(S)
    BY <1>5
  <2> HIDE DEF list
  <2>2. list \in Seq(Nodes)
    BY <1>1, <2>1
  <2> QED BY <2>2 DEF list
<1>7. AsMet(S, es) = InOrder(S, key)
  BY DEF AsMet, key
<1> QED BY <1>5, <1>6, <1>7

\* A step after which the starts that a packet had are still there, and which
\* does not make it larger than its budget and than it was.
Keeps(q, s, t, max) ==
  /\ t.room = s.room
  /\ StartSet(q) \cap s.nodes \subseteq t.nodes
  /\ Cardinality(t.nodes) <= Bigger(max, Cardinality(s.nodes))

\* The evidence at the starts: a few edges in force.
LEMMA StartEvidenceIs ==
  ASSUME NEW g, IsGraph(g), NEW q, IsAsked(q)
  PROVE  LET evidence == StartEvidence(g, q)
         IN  /\ evidence \in Seq(Edges) /\ ToSet(evidence) \subseteq InForce(g)
             /\ ToSet(evidence) \subseteq Edges
             /\ [i \in DOMAIN evidence |-> Neighbour(evidence[i], StartSet(q))] \in Seq(Nodes)
<1> DEFINE S == {e \in InForce(g) : \/ Type[e] = "contains" /\ AtStart(q, e)
                                    \/ Type[e] \in Structural /\ Source[e] \in StartSet(q)}
           key == [e \in Edges |-> <<EvidencePriority(q, e), RelationRank[q.class][e],
                                     NodeRank[Neighbour(e, StartSet(q))], e>>]
           all == InOrder(S, key)
           evidence == StartEvidence(g, q)
<1>1. S \subseteq InForce(g) /\ S \subseteq Edges
  BY DEF InForce, IsGraph
<1>2. ASSUME NEW e \in Edges PROVE Neighbour(e, StartSet(q)) \in Nodes
  BY <1>2, EdgeValues DEF Neighbour
<1>3. ASSUME NEW e \in Edges PROVE key[e] \in [1 .. 4 -> Int] /\ key[e][4] = e
  <2> DEFINE a == EvidencePriority(q, e)
             b == RelationRank[q.class][e]
             c == NodeRank[Neighbour(e, StartSet(q))]
  <2>1. a \in Int
    BY DEF EvidencePriority
  <2>2. b \in Int
    BY RelationRanks DEF IsAsked
  <2>3. c \in Int
    BY <1>2, GraphAssumption
  <2>4. e \in Int
    BY EdgeValues
  <2>5. key[e] = <<a, b, c, e>>
    OBVIOUS
  <2> HIDE DEF a, b, c, key
  <2>6. <<a, b, c, e>> \in [1 .. 4 -> Int]
    BY <2>1, <2>2, <2>3, <2>4
  <2> QED BY <2>5, <2>6
<1>4. evidence = AtMost(all, 4)
  BY DEF StartEvidence
<1> HIDE DEF S, key
<1>5. Sorts(S, key)
  <2>1. 4 \in Nat \ {0} /\ \A e \in S : key[e] \in [1 .. 4 -> Int] /\ key[e][4] = e
    BY <1>1, <1>3
  <2>2. \E n \in Nat \ {0} : \A e \in S : key[e] \in [1 .. n -> Int] /\ key[e][n] = e
    BY <2>1
  <2> QED BY <1>1, <2>2, EdgeKeys
<1>6. all \in Seq(S) /\ ToSet(all) = S
  BY <1>5, InOrderIs
<1> HIDE DEF all, evidence
<1>7. evidence \in Seq(S) /\ ToSet(evidence) \subseteq S
  <2>1. 4 \in Nat
    OBVIOUS
  <2> QED BY <1>4, <1>6, <2>1, AtMostIs
<1>8. [i \in DOMAIN evidence |-> Neighbour(evidence[i], StartSet(q))] \in Seq(Nodes)
  <2>1. DOMAIN evidence = 1 .. Len(evidence) /\ Len(evidence) \in Nat
    BY <1>7
  <2>2. ASSUME NEW i \in DOMAIN evidence PROVE Neighbour(evidence[i], StartSet(q)) \in Nodes
    BY <1>1, <1>2, <1>7
  <2> QED BY <2>1, <2>2
<1>9. evidence \in Seq(Edges)
  BY <1>1, <1>7
<1> QED BY <1>1, <1>7, <1>8, <1>9 DEF evidence

\* The support files beside the starts are nodes, in a list.
LEMMA SupportFilesAre == ASSUME NEW q PROVE SupportFiles(q) \in Seq(Nodes)
<1> DEFINE S == {n \in Support : TestDir[n] \in {TestDir[m] : m \in StartSet(q)} \ {""}}
<1>1. S \subseteq Nodes
  BY SupportAssumption
<1>2. SupportFiles(q) = AtMost(InOrder(S, ByNode), 4) /\ 4 \in Nat
  BY DEF SupportFiles
<1> HIDE DEF S
<1>3. InOrder(S, ByNode) \in Seq(Nodes)
  <2>1. InOrder(S, ByNode) \in Seq(S)
    BY <1>1, NodeKeys, InOrderIs
  <2> QED BY <1>1, <2>1
<1> QED BY <1>2, <1>3, AtMostIs

\* The order of the files that edges lead to sorts the edges.
LEMMA TargetKeys ==
  ASSUME NEW S, S \subseteq Edges
  PROVE  Sorts(S, [e \in Edges |-> <<NodeRank[Target[e]], e>>])
<1> DEFINE key == [e \in Edges |-> <<NodeRank[Target[e]], e>>]
<1>1. ASSUME NEW e \in S PROVE key[e] \in [1 .. 2 -> Int] /\ key[e][2] = e
  <2> DEFINE a == NodeRank[Target[e]]
  <2>1. a \in Int /\ e \in Int
    BY EdgeValues, GraphAssumption
  <2>2. key[e] = <<a, e>>
    OBVIOUS
  <2> HIDE DEF a, key
  <2> QED BY <2>1, <2>2
<1>2. 2 \in Nat \ {0}
  OBVIOUS
<1> HIDE DEF key
<1>3. \E n \in Nat \ {0} : \A e \in S : key[e] \in [1 .. n -> Int] /\ key[e][n] = e
  BY <1>1, <1>2
<1>4. Sorts(S, key)
  BY <1>3, EdgeKeys
<1> QED BY <1>4 DEF key

\* What is appended: the evidence, and edges that were made up.
LEMMA AppendedIs ==
  ASSUME NEW evidence \in Seq(Edges), NEW made, made \subseteq Edges
  PROVE  LET list == Appended(evidence, made)
         IN  list \in Seq(Edges) /\ ToSet(list) \subseteq ToSet(evidence) \union made
<1> DEFINE S == made \ ToSet(evidence)
           rest == InOrder(S, [e \in Edges |-> <<NodeRank[Target[e]], e>>])
<1>1. Appended(evidence, made) = evidence \o rest
  BY DEF Appended
<1>2. rest \in Seq(S) /\ ToSet(rest) = S
  <2>1. Sorts(S, [e \in Edges |-> <<NodeRank[Target[e]], e>>])
    BY TargetKeys
  <2> QED BY <2>1, InOrderIs
<1> HIDE DEF rest
<1>3. rest \in Seq(Edges)
  BY <1>2
<1>4. ToSet(evidence \o rest) \subseteq ToSet(evidence) \union ToSet(rest)
  BY <1>3 DEF ToSet
<1> QED BY <1>1, <1>2, <1>3, <1>4

\* Edges are appended to a packet that holds these nodes.
LEMMA WithAppendedIs ==
  ASSUME NEW g, NEW q, NEW s, IsPacket(g, q, s), NEW nodes, nodes \subseteq Nodes,
         NEW list \in Seq(Edges), IsLive(g, q, ToSet(list))
  PROVE  LET t == WithAppended(s, nodes, list)
         IN  IsPacket(g, q, t) /\ t.nodes = nodes /\ t.room = s.room
<1> DEFINE in == Packed(s, nodes, ToSet(list))
           late == Among(list, Within(ToSet(list) \ s.edges, nodes))
           t == WithAppended(s, nodes, list)
<1>1. t = [in EXCEPT !.late = late]
  BY DEF WithAppended
<1>2. late \in Seq(Edges)
  BY AmongIs
<1>3. IsPacket(g, q, in) /\ in.nodes = nodes
  <2>1. ToSet(list) \subseteq Edges
    BY DEF ToSet
  <2> QED BY <2>1, PackedIs
<1>4. in.room = s.room
  <2>1. s \in Packets
    BY DEF IsPacket
  <2> QED BY <2>1 DEF Packed, Packets
<1> HIDE DEF in, late, t
<1>5. t \in Packets /\ t.nodes = in.nodes /\ t.edges = in.edges /\ t.room = in.room
  BY <1>1, <1>2, <1>3 DEF Packets, IsPacket
<1>6. IsPacket(g, q, t)
  BY <1>3, <1>5, FewerEdges
<1> QED BY <1>3, <1>4, <1>5, <1>6 DEF t

\* Neighbours and support files are let in: no start goes for them.
LEMMA StartsReservedIs ==
  ASSUME NEW g, IsGraph(g), NEW q, IsAsked(q), NEW s, IsPacket(g, q, s)
  PROVE  LET t == StartsReserved(g, q, s) IN IsPacket(g, q, t) /\ Keeps(q, s, t, s.room)
<1> DEFINE evidence == StartEvidence(g, q)
           near == [i \in DOMAIN evidence |-> Neighbour(evidence[i], StartSet(q))]
           list == near \o SupportFiles(q)
           protected == StartSet(q) \union ToSet(list)
           nodes == AdmitAll(list, s.nodes, s.room, protected, ByWorth)
           made == SupportEdges(q, nodes)
           es == Appended(evidence, made)
           t == StartsReserved(g, q, s)
<1>1. /\ s.nodes \subseteq Nodes /\ s.edges \subseteq Edges /\ s.room \in Nat
      /\ Cardinality(s.nodes) \in Nat
  BY NodeSets DEF IsPacket, Packets
<1>2. CASE q.class # "blast_radius"
  BY <1>1, <1>2 DEF StartsReserved, Keeps, Bigger
<1>3. CASE q.class = "blast_radius"
  <2>1. t = WithAppended(s, nodes, es)
    BY <1>3 DEF StartsReserved, WithEvidence
  <2>2. evidence \in Seq(Edges) /\ ToSet(evidence) \subseteq InForce(g) /\ near \in Seq(Nodes)
    BY StartEvidenceIs
  <2>3. made \subseteq InSupport(q) /\ made \subseteq Edges
    BY DEF SupportEdges, InSupport
  <2>4. StartSet(q) \subseteq protected
    OBVIOUS
  <2> HIDE DEF evidence, near, made
  <2>5. list \in Seq(Nodes)
    BY <2>2, SupportFilesAre
  <2>6. es \in Seq(Edges) /\ ToSet(es) \subseteq InForce(g) \union InSupport(q)
    <3>1. es \in Seq(Edges) /\ ToSet(es) \subseteq ToSet(evidence) \union made
      BY <2>2, <2>3, AppendedIs
    <3> QED BY <2>2, <2>3, <3>1
  <2> HIDE DEF list, protected, es
  <2>7. AdmitAllIs(nodes, list, s.nodes, s.room, protected)
    <3>1. SortsNodes(ByWorth)
      BY WorthKeys DEF SortsNodes
    <3> QED BY <1>1, <2>5, <3>1, AdmitAllFacts
  <2> HIDE DEF nodes
  <2>8. nodes \subseteq Nodes
    <3>1. ToSet(list) \subseteq Nodes
      BY <2>5 DEF ToSet
    <3> QED BY <1>1, <2>7, <3>1 DEF AdmitAllIs
  <2>9. IsLive(g, q, ToSet(es))
    BY <1>3, <2>6 DEF IsLive, Permitted
  <2> HIDE DEF t
  <2>10. IsPacket(g, q, t) /\ t.nodes = nodes /\ t.room = s.room
    BY <2>1, <2>6, <2>8, <2>9, WithAppendedIs
  <2>11. Keeps(q, s, t, s.room)
    BY <2>4, <2>7, <2>10 DEF Keeps, AdmitAllIs
  <2> QED BY <2>10, <2>11 DEF t
<1> QED BY <1>2, <1>3

\* The structure beside what is kept, as a list of nodes.
LEMMA NeighboursAre ==
  ASSUME NEW g, IsGraph(g), NEW structural, NEW keep
  PROVE  NeighboursOf(g, structural, keep) \in Seq(Nodes)
<1> DEFINE es == Touching({e \in InForce(g) : Type[e] \in Structural}, structural)
           S == {n \in Ends(es) \ keep : IsStructural(n)}
<1>1. es \subseteq Edges
  BY DEF Touching, InForce, IsGraph
<1>2. NeighboursOf(g, structural, keep) = AtMost(AsMet(S, es), 12)
  BY DEF NeighboursOf
<1>3. S \subseteq Ends(es)
  OBVIOUS
<1> HIDE DEF es, S
<1>4. AsMet(S, es) \in Seq(Nodes) /\ 12 \in Nat
  BY <1>1, <1>3, AsMetIs
<1> QED BY <1>2, <1>4, AtMostIs

\* Documents and concepts give way to structure: no start does.
LEMMA NoisePrunedIs ==
  ASSUME NEW g, IsGraph(g), NEW q, IsAsked(q), NEW s, IsPacket(g, q, s)
  PROVE  LET t == NoisePruned(g, q, s) IN IsPacket(g, q, t) /\ Keeps(q, s, t, s.room)
<1> DEFINE t == NoisePruned(g, q, s)
           concepts == {n \in s.nodes \ StartSet(q) : Kind[n] = "concept"}
           docs     == {n \in s.nodes \ (StartSet(q) \union concepts) : ~IsStructural(n)}
           structural == s.nodes \ (concepts \union docs)
           some == Spared(s, docs, Bigger(6, Min({18, s.room \div 5})))
           few == Spared(s, concepts, Bigger(1, Min({4, s.room \div 30})))
           keep == UNION {structural, some, few}
           list == NeighboursOf(g, structural, keep)
           protected == StartSet(q) \union {n \in Nodes : IsStructural(n)}
           nodes == AdmitAll(list, keep, s.room, protected, ByWorth)
           es == Restored(g, nodes)
<1>1. /\ s.nodes \subseteq Nodes /\ s.edges \subseteq Edges /\ s.room \in Nat
      /\ Cardinality(s.nodes) \in Nat /\ s \in Packets
  BY NodeSets DEF IsPacket, Packets
<1>2. CASE q.class # "subsystem_summary"
  BY <1>1, <1>2 DEF NoisePruned, Keeps, Bigger
<1>3. CASE q.class = "subsystem_summary"
  <2>1. t = Packed(s, nodes, es)
    BY <1>3 DEF NoisePruned, WithStructure
  <2>2. some \subseteq docs /\ few \subseteq concepts
    BY DEF Spared, FirstOf
  <2>3. structural \subseteq s.nodes /\ docs \subseteq s.nodes /\ concepts \subseteq s.nodes
        /\ StartSet(q) \cap s.nodes \subseteq structural /\ StartSet(q) \subseteq protected
    OBVIOUS
  <2> HIDE DEF some, few, structural, docs, concepts
  <2>4. keep \subseteq s.nodes /\ StartSet(q) \cap s.nodes \subseteq keep /\ keep \subseteq Nodes
    BY <1>1, <2>2, <2>3
  <2> HIDE DEF keep, protected
  <2>5. list \in Seq(Nodes)
    BY NeighboursAre
  <2> HIDE DEF list
  <2>6. AdmitAllIs(nodes, list, keep, s.room, protected)
    <3>1. SortsNodes(ByWorth)
      BY WorthKeys DEF SortsNodes
    <3> QED BY <1>1, <2>4, <2>5, <3>1, AdmitAllFacts
  <2>7. es \subseteq Edges /\ es \subseteq g.edges
    BY DEF Restored, Within, IsGraph
  <2> HIDE DEF nodes, es
  <2>8. nodes \subseteq Nodes
    <3>1. ToSet(list) \subseteq Nodes
      BY <2>5 DEF ToSet
    <3> QED BY <2>4, <2>6, <3>1 DEF AdmitAllIs
  <2> HIDE DEF t
  <2>9. IsPacket(g, q, t) /\ t.nodes = nodes
    <3>1. IsLive(g, q, es)
      BY <1>3, <2>7 DEF IsLive, Permitted
    <3> QED BY <2>1, <2>7, <2>8, <3>1, PackedIs
  <2>10. t.room = s.room
    BY <1>1, <2>1 DEF Packed, Packets
  <2>11. Cardinality(keep) \in Nat /\ Cardinality(keep) <= Cardinality(s.nodes) /\ Cardinality(nodes) \in Nat
    BY <1>1, <2>4, <2>8, NodeSets, Sizes
  <2>12. /\ protected \cap keep \subseteq nodes
         /\ Cardinality(nodes) <= Bigger(s.room, Cardinality(keep))
    BY <2>6 DEF AdmitAllIs
  <2>13. Cardinality(nodes) <= Bigger(s.room, Cardinality(s.nodes))
    BY <1>1, <2>11, <2>12 DEF Bigger
  <2>14. StartSet(q) \cap s.nodes \subseteq nodes
    BY <2>3, <2>4, <2>12
  <2>15. Keeps(q, s, t, s.room)
    BY <2>9, <2>10, <2>13, <2>14 DEF Keeps
  <2> QED BY <2>9, <2>15 DEF t
<1> QED BY <1>2, <1>3

\* What is gathered before the partition.  Only a packet that fits may be
\* without a start: a cut always has one to grow from.
GatheredIs(g, q, s) ==
  /\ IsPacket(g, q, s) /\ StartsKept(q, s)
  /\ StartSet(q) \cap s.nodes # {} \/ Cardinality(s.nodes) <= s.room

\* Each step up to the partition keeps what GatheredIs says.
LEMMA GatheredFacts ==
  ASSUME NEW g, IsGraph(g), NEW q, IsAsked(q)
  PROVE  GatheredIs(g, q, Gathered(g, q))
<1> DEFINE r == Reached(g, q)
           a == Listed(q, r)
           b == FamiliesReserved(g, q, a)
           c == Budgeted(q, b)
           d == StartsReserved(g, q, c)
           e == NoisePruned(g, q, d)
<1>1. ReachedIs(g, q, r)
  BY ReachedFacts
<1> HIDE DEF r
<1>2. a.nodes = r.nodes
  BY DEF Listed
<1>3. IsPacket(g, q, a)
  <2>1. a \in Packets
    BY <1>1 DEF Listed, Packets, ReachedIs, IsAsked, IsGraph, InForce
  <2>2. a.edges = r.edges
    BY DEF Listed
  <2> HIDE DEF a
  <2>3. IsLive(g, q, a.edges)
    BY <1>1, <2>2, InForceIsLive DEF ReachedIs
  <2> QED BY <1>1, <1>2, <2>1, <2>2, <2>3 DEF IsPacket, ReachedIs
<1> HIDE DEF a
<1>4. StartsKept(q, a) /\ (StartSet(q) \cap q.scope = {} => a.nodes = {})
  BY <1>1, <1>2 DEF StartsKept, ReachedIs
<1>5. /\ IsPacket(g, q, b) /\ StartsKept(q, b)
      /\ q.class = "subsystem_summary" => StartSet(q) \subseteq b.nodes
      /\ q.class # "subsystem_summary" => b = a
  BY <1>3, <1>4, FamiliesReservedIs
<1> HIDE DEF b
<1>6. IsPacket(g, q, c) /\ c.nodes = b.nodes
  BY <1>5, BudgetedIs
<1> HIDE DEF c
<1>7. IsPacket(g, q, d) /\ Keeps(q, c, d, c.room)
  BY <1>6, StartsReservedIs
<1> HIDE DEF d
<1>8. IsPacket(g, q, e) /\ Keeps(q, d, e, d.room)
  BY <1>7, NoisePrunedIs
<1>9. Gathered(g, q) = e
  BY DEF Gathered, r, a, b, c, d
<1> HIDE DEF e
<1>10. StartSet(q) \cap b.nodes \subseteq e.nodes
  BY <1>6, <1>7, <1>8 DEF Keeps
<1>11. StartsKept(q, e)
  BY <1>5, <1>10 DEF StartsKept
<1>12. ASSUME StartSet(q) \cap e.nodes = {} PROVE Cardinality(e.nodes) <= e.room
  <2>1. StartSet(q) \cap q.scope = {}
    BY <1>11, <1>12 DEF StartsKept
  <2>2. StartSet(q) # {}
    <3>1. 1 \in DOMAIN q.starts
      BY DEF IsAsked
    <3> QED BY <3>1 DEF StartSet, ToSet
  <2>3. b.nodes = {}
    BY <1>4, <1>5, <1>10, <1>12, <2>1, <2>2
  <2>4. Cardinality(c.nodes) = 0
    BY <1>6, <2>3, FS_EmptySet
  <2>5. c.room \in Nat /\ d.room \in Nat /\ Cardinality(d.nodes) \in Nat /\ Cardinality(e.nodes) \in Nat
    BY <1>6, <1>7, <1>8, NodeSets DEF IsPacket, Packets
  <2>6. /\ d.room = c.room /\ Cardinality(d.nodes) <= Bigger(c.room, Cardinality(c.nodes))
        /\ e.room = d.room /\ Cardinality(e.nodes) <= Bigger(d.room, Cardinality(d.nodes))
    BY <1>7, <1>8 DEF Keeps
  <2> QED BY <2>4, <2>5, <2>6 DEF Bigger
<1> QED BY <1>8, <1>9, <1>11, <1>12 DEF GatheredIs

\* The edges near the starts whose neighbours a partition of an impact keeps.
LEMMA SupportIs ==
  ASSUME NEW g, IsGraph(g), NEW q, IsAsked(q), NEW s, IsPacket(g, q, s),
         NEW es, es \subseteq Edges, IsLive(g, q, es)
  PROVE  LET t == SupportReserved(q, s, es) IN IsPacket(g, q, t) /\ Keeps(q, s, t, s.room)
<1> DEFINE S == {e \in es : Type[e] \in {"tests", "configures"} /\ AtStart(q, e)}
           key == [e \in Edges |-> <<Place(e, s.late), RelationRank[q.class][e], e>>]
           near == InOrder(S, key)
           few == AtMost(near, 4)
           list == [i \in DOMAIN few |-> IF Target[few[i]] \in StartSet(q)
                                         THEN Source[few[i]] ELSE Target[few[i]]]
           protected == StartSet(q) \union ToSet(list)
           nodes == AdmitAll(list, s.nodes, s.room, protected, Displaced(q, es))
           kept == Within(es, nodes)
           t == SupportReserved(q, s, es)
<1>1. /\ s.nodes \subseteq Nodes /\ s.edges \subseteq Edges /\ s.room \in Nat
      /\ Cardinality(s.nodes) \in Nat /\ s \in Packets
  BY NodeSets DEF IsPacket, Packets
<1>2. t = [s EXCEPT !.nodes = nodes, !.edges = kept]
  BY DEF SupportReserved, WithSupport
<1>3. S \subseteq Edges
  OBVIOUS
<1>4. ASSUME NEW e \in Edges PROVE key[e] \in [1 .. 3 -> Int] /\ key[e][3] = e
  <2> DEFINE a == Place(e, s.late)
             b == RelationRank[q.class][e]
  <2>1. a \in Int
    <3>1. s.late \in Seq(Edges)
      BY <1>1 DEF Packets
    <3>2. DOMAIN s.late \subseteq Int
      BY <3>1
    <3>3. e \in ToSet(s.late) => \E i \in DOMAIN s.late : s.late[i] = e
      BY DEF ToSet
    <3> QED BY <3>2, <3>3 DEF Place
  <2>2. b \in Int
    BY RelationRanks DEF IsAsked
  <2>3. e \in Int
    BY EdgeValues
  <2>4. key[e] = <<a, b, e>>
    OBVIOUS
  <2> HIDE DEF a, b, key
  <2>5. <<a, b, e>> \in [1 .. 3 -> Int]
    BY <2>1, <2>2, <2>3
  <2> QED BY <2>4, <2>5
<1> HIDE DEF S, key
<1>5. Sorts(S, key)
  <2>1. 3 \in Nat \ {0} /\ \A e \in S : key[e] \in [1 .. 3 -> Int] /\ key[e][3] = e
    BY <1>3, <1>4
  <2>2. \E n \in Nat \ {0} : \A e \in S : key[e] \in [1 .. n -> Int] /\ key[e][n] = e
    BY <2>1
  <2> QED BY <1>3, <2>2, EdgeKeys
<1>6. near \in Seq(S)
  BY <1>5, InOrderIs
<1> HIDE DEF near
<1>7. few \in Seq(S)
  <2>1. 4 \in Nat
    OBVIOUS
  <2> QED BY <1>6, <2>1, AtMostIs
<1> HIDE DEF few
<1>8. list \in Seq(Nodes)
  <2>1. DOMAIN few = 1 .. Len(few) /\ Len(few) \in Nat
    BY <1>7
  <2>2. ASSUME NEW i \in DOMAIN few PROVE Source[few[i]] \in Nodes /\ Target[few[i]] \in Nodes
    <3>1. few[i] \in Edges
      BY <1>3, <1>7
    <3> QED BY <3>1, EdgeValues
  <2> QED BY <2>1, <2>2
<1>9. StartSet(q) \subseteq protected
  OBVIOUS
<1>10. SortsNodes(Displaced(q, es))
  <2> DEFINE used == {Target[e] : e \in {f \in es : Source[f] \in StartSet(q)}}
             worth(n) == IF n \in used THEN 0 ELSE 1
             order == Displaced(q, es)
  <2>1. order = [n \in Nodes |-> <<worth(n), NodeRank[n]>>]
    BY DEF Displaced
  <2>2. \A n \in Nodes : worth(n) \in Int
    OBVIOUS
  <2> HIDE DEF worth, order
  <2>3. ASSUME NEW T, T \subseteq Nodes PROVE Sorts(T, order)
    <3>1. IsFiniteSet(T) /\ \A n \in T : NodeRank[n] \in Nat
      BY <2>3, NodeSets, GraphAssumption
    <3>2. \A n \in T : order[n] \in [1 .. 2 -> Int]
      BY <2>1, <2>2, <2>3, <3>1
    <3>3. \A m, n \in T : order[m] = order[n] => m = n
      BY <2>1, <2>3, GraphAssumption
    <3> QED BY <3>1, <3>2, <3>3 DEF Sorts
  <2> QED BY <2>3 DEF SortsNodes, order
<1> HIDE DEF list, protected
<1>11. AdmitAllIs(nodes, list, s.nodes, s.room, protected)
  BY <1>1, <1>8, <1>10, AdmitAllFacts
<1> HIDE DEF nodes
<1>12. nodes \subseteq Nodes
  <2>1. ToSet(list) \subseteq Nodes
    BY <1>8 DEF ToSet
  <2> QED BY <1>1, <1>11, <2>1 DEF AdmitAllIs
<1>13. kept \subseteq es /\ Ends(kept) \subseteq nodes
  BY EndsIn
<1> HIDE DEF kept, t
<1>14. t \in Packets /\ t.nodes = nodes /\ t.edges = kept /\ t.room = s.room
  BY <1>1, <1>2, <1>12, <1>13 DEF Packets
<1>15. IsPacket(g, q, t)
  BY <1>13, <1>14 DEF IsPacket, IsLive
<1>16. Keeps(q, s, t, s.room)
  BY <1>9, <1>11, <1>14 DEF Keeps, AdmitAllIs
<1> QED BY <1>15, <1>16 DEF t

\* What a partition leaves: the starts that were gathered, in the room there is.
CutIs(g, q, s, t) ==
  /\ IsPacket(g, q, t) /\ StartsKept(q, t) /\ t.room = s.room
  /\ Cardinality(t.nodes) <= Bigger(s.room, Cardinality(StartSet(q)))

\* Whole or cut, and with the support of an impact: a part is what CutIs says.
LEMMA PartsAre ==
  ASSUME NEW g, IsGraph(g), NEW q, IsAsked(q), NEW s, GatheredIs(g, q, s), NEW t \in Parts(q, s)
  PROVE  CutIs(g, q, s, t)
<1> DEFINE roots == StartSet(q) \cap s.nodes
<1>1. /\ IsPacket(g, q, s) /\ s \in Packets /\ s.nodes \subseteq Nodes /\ s.edges \subseteq Edges
      /\ s.room \in Nat /\ Cardinality(s.nodes) \in Nat /\ IsLive(g, q, s.edges)
  BY NodeSets DEF GatheredIs, IsPacket, Packets
<1>2. Cardinality(StartSet(q)) \in Nat /\ IsFiniteSet(StartSet(q))
  BY StartsAre DEF IsAsked
<1>3. CASE Cardinality(s.nodes) <= s.room
  <2>1. t = s
    BY <1>3 DEF Parts
  <2> QED BY <1>1, <1>2, <1>3, <2>1 DEF CutIs, GatheredIs, Bigger
<1>4. CASE ~ (Cardinality(s.nodes) <= s.room)
  <2>1. roots # {}
    BY <1>4 DEF GatheredIs
  <2>2. PICK S \in Partitions(q, s) : t = Cut(q, s, S)
    BY <1>4 DEF Parts
  <2>3. S \subseteq s.nodes /\ roots \subseteq S /\ Cardinality(S) <= Bigger(s.room, Cardinality(roots))
    BY DEF Partitions
  <2>4. Cardinality(roots) \in Nat /\ Cardinality(roots) <= Cardinality(StartSet(q))
    <3>1. roots \subseteq StartSet(q)
      OBVIOUS
    <3> HIDE DEF roots
    <3> QED BY <1>2, <3>1, Sizes
  <2> DEFINE part == Part(s, S)
             kept == Within(s.edges, S)
  <2>5. part = [s EXCEPT !.nodes = S, !.edges = kept]
    BY <1>1, <2>1, <2>3 DEF Part, Packets
  <2>6. kept \subseteq s.edges /\ Ends(kept) \subseteq S
    BY EndsIn
  <2> HIDE DEF part, kept
  <2>7. part \in Packets /\ part.nodes = S /\ part.edges = kept /\ part.room = s.room
    BY <1>1, <2>3, <2>5, <2>6 DEF Packets
  <2>8. IsPacket(g, q, part)
    BY <1>1, <2>6, <2>7 DEF IsPacket, IsLive
  <2>9. Cardinality(S) \in Nat
    BY <1>1, <2>3, NodeSets
  <2>10. IsPacket(g, q, t) /\ t.room = s.room /\ StartSet(q) \cap S \subseteq t.nodes
         /\ Cardinality(t.nodes) <= Bigger(s.room, Cardinality(S))
    <3>1. CASE q.class # "blast_radius"
      <4>1. t = part
        BY <2>2, <3>1 DEF Cut, part
      <4> QED BY <1>1, <2>7, <2>8, <2>9, <4>1 DEF Bigger
    <3>2. CASE q.class = "blast_radius"
      <4>1. t = SupportReserved(q, part, s.edges)
        BY <2>2, <3>2 DEF Cut, part
      <4>2. IsPacket(g, q, t) /\ Keeps(q, part, t, part.room)
        BY <1>1, <2>8, <4>1, SupportIs
      <4> QED BY <2>7, <4>2 DEF Keeps
    <3> QED BY <3>1, <3>2
  <2>11. StartsKept(q, t)
    BY <2>3, <2>10 DEF StartsKept, GatheredIs
  <2>12. Cardinality(t.nodes) <= Bigger(s.room, Cardinality(StartSet(q)))
    <3>1. Cardinality(t.nodes) \in Nat
      BY <2>10, NodeSets DEF IsPacket, Packets
    <3> HIDE DEF roots
    <3> QED BY <1>1, <1>2, <2>3, <2>4, <2>9, <2>10, <3>1 DEF Bigger
  <2> QED BY <2>10, <2>11, <2>12 DEF CutIs
<1> QED BY <1>3, <1>4

\* What was partitioned is shaped: an edge may go, and no node.
LEMMA PartitionedIs ==
  ASSUME NEW g, IsGraph(g), NEW q, IsAsked(q), NEW s, GatheredIs(g, q, s), NEW p \in Parts(q, s)
  PROVE  LET t == Shaped(q, FamiliesReserved(g, q, p))
         IN  IsPacket(g, q, t) /\ StartsKept(q, t) /\ Cardinality(t.nodes) <= Most(q, t.room)
<1> DEFINE f == FamiliesReserved(g, q, p)
           target == ShapeTarget(Cardinality(f.nodes), Cardinality(f.edges))
           fan == Fan(q, f.edges, target)
           t == Shaped(q, f)
<1>1. CutIs(g, q, s, p)
  BY PartsAre
<1>2. /\ p.room \in Nat /\ Cardinality(p.nodes) \in Nat /\ Cardinality(StartSet(q)) \in Nat
      /\ q.budget \in Nat /\ IsPacket(g, q, p) /\ StartsKept(q, p)
  BY <1>1, NodeSets, StartsAre DEF CutIs, IsPacket, Packets, IsAsked
<1>3. Cardinality(p.nodes) <= Most(q, p.room)
  <2>1. Cardinality(p.nodes) <= Bigger(p.room, Cardinality(StartSet(q)))
    BY <1>1 DEF CutIs
  <2> QED BY <1>2, <2>1 DEF Most, Bigger
<1>4. /\ IsPacket(g, q, f) /\ f.room = p.room /\ StartsKept(q, f)
      /\ Cardinality(f.nodes) <= Most(q, p.room)
  BY <1>2, <1>3, FamiliesReservedIs
<1> HIDE DEF f
<1>5. t = f \/ t = [f EXCEPT !.edges = fan]
  BY DEF Shaped
<1>6. fan \subseteq f.edges
  BY DEF Fan, FirstOf
<1> HIDE DEF fan, t
<1>7. IsPacket(g, q, t) /\ t.nodes = f.nodes /\ t.room = f.room
  <2>1. CASE t = f
    BY <1>4, <2>1
  <2>2. CASE t = [f EXCEPT !.edges = fan]
    <3>1. f \in Packets
      BY <1>4 DEF IsPacket
    <3>2. t \in Packets /\ t.nodes = f.nodes /\ t.edges = fan /\ t.room = f.room
      BY <1>6, <2>2, <3>1 DEF Packets
    <3>3. IsPacket(g, q, t)
      BY <1>4, <1>6, <3>2, FewerEdges
    <3> QED BY <3>2, <3>3
  <2> QED BY <1>5, <2>1, <2>2
<1>8. StartsKept(q, t) /\ Cardinality(t.nodes) <= Most(q, t.room)
  BY <1>4, <1>7 DEF StartsKept
<1> QED BY <1>7, <1>8 DEF t, f

-----------------------------------------------------------------------------
(* A request, and what is reserved and taken out beside the expansion *)

SearchRequests ==
  [class : Classes, anchors : Seq(Nodes), modified : Seq(Nodes), asks : {"any", "calls", "tests"},
   budget : Nat, scope : SUBSET Nodes, inferred : SUBSET Nodes, expired : SUBSET Edges,
   named : SUBSET Nodes, members : Seq(Nodes), exact : BOOLEAN, starts : Seq(Nodes)]

\* What the query names beside the starts is let in.
LEMMA SiblingsReservedIs ==
  ASSUME NEW g, IsGraph(g), NEW r \in SearchRequests, NEW s, IsPacket(g, r, s)
  PROVE  LET t == SiblingsReserved(g, r, s) IN IsPacket(g, r, t) /\ Keeps(r, s, t, r.budget)
<1> DEFINE t == SiblingsReserved(g, r, s)
           list == NamedSiblings(r, s)
           protected == StartSet(r) \union ToSet(list)
           nodes == AdmitAll(list, s.nodes, r.budget, protected, ByWorth)
           es == {e \in InForce(g) : \/ {Source[e], Target[e]} \cap protected # {}
                                     \/ Type[e] \in {"contains", "implements"}}
           S == {n \in r.named \ s.nodes : /\ Path[n] \in {Path[m] : m \in StartSet(r)} \ {""}
                                           /\ IsStructural(n) /\ Kind[n] # "field"}
<1>1. /\ s.nodes \subseteq Nodes /\ s.edges \subseteq Edges /\ s.room \in Nat
      /\ Cardinality(s.nodes) \in Nat /\ s \in Packets /\ r.budget \in Nat
  BY NodeSets DEF IsPacket, Packets, SearchRequests
<1>2. t = s \/ t = Packed(s, nodes, es)
  BY DEF SiblingsReserved, WithSiblings
<1>3. list \in Seq(Nodes)
  <2>1. S \subseteq Nodes
    BY DEF SearchRequests
  <2>2. list = AtMost(InOrder(S, ByNode), 12)
    BY DEF NamedSiblings
  <2> HIDE DEF S, list
  <2> DEFINE all == InOrder(S, ByNode)
  <2>3. all \in Seq(S)
    BY <2>1, NodeKeys, InOrderIs
  <2> HIDE DEF all
  <2>4. all \in Seq(Nodes) /\ 12 \in Nat
    BY <2>1, <2>3
  <2>5. AtMost(all, 12) \in Seq(Nodes)
    BY <2>4, AtMostIs
  <2> QED BY <2>2, <2>5 DEF all
<1>4. StartSet(r) \subseteq protected
  OBVIOUS
<1>5. es \subseteq InForce(g) /\ es \subseteq Edges
  BY DEF InForce, IsGraph
<1> HIDE DEF list, protected, es
<1>6. AdmitAllIs(nodes, list, s.nodes, r.budget, protected)
  <2>1. SortsNodes(ByWorth) /\ r.budget \in Int
    BY <1>1, WorthKeys DEF SortsNodes
  <2> QED BY <1>1, <1>3, <2>1, AdmitAllFacts
<1> HIDE DEF nodes
<1>7. nodes \subseteq Nodes
  <2>1. ToSet(list) \subseteq Nodes
    BY <1>3 DEF ToSet
  <2> QED BY <1>1, <1>6, <2>1 DEF AdmitAllIs
<1> HIDE DEF t
<1>8. CASE t = s
  BY <1>1, <1>8 DEF Keeps, Bigger, t
<1>9. CASE t = Packed(s, nodes, es)
  <2>1. IsLive(g, r, es)
    BY <1>5, InForceIsLive
  <2>2. IsPacket(g, r, t) /\ t.nodes = nodes
    BY <1>5, <1>7, <1>9, <2>1, PackedIs
  <2>3. t.room = s.room
    BY <1>1, <1>9 DEF Packed, Packets
  <2>4. Keeps(r, s, t, r.budget)
    BY <1>4, <1>6, <2>2, <2>3 DEF Keeps, AdmitAllIs
  <2> QED BY <2>2, <2>4 DEF t
<1> QED BY <1>2, <1>8, <1>9

Sources(es) == {Source[e] : e \in es}

\* Who answers is let in: all of them, unless the starts and answers fill the packet.
LEMMA AnswersReservedIs ==
  ASSUME NEW g, IsGraph(g), NEW r \in SearchRequests, NEW s, IsPacket(g, r, s)
  PROVE  LET t == AnswersReserved(g, r, s)
             A == Answers(g, r)
         IN  /\ IsPacket(g, r, t) /\ Keeps(r, s, t, r.budget)
             /\ Sources(A) \subseteq t.nodes \/ t.nodes \subseteq StartSet(r) \union Sources(A)
             /\ Within(A, t.nodes) \subseteq t.edges
<1> DEFINE t == AnswersReserved(g, r, s)
           A == Answers(g, r)
           key == [e \in Edges |-> <<RelationRank[r.class][e], -Conf[e], e>>]
           list == AnswerOrder(g, r)
           from == [i \in DOMAIN list |-> Source[list[i]]]
           protected == StartSet(r) \union ToSet(from)
           nodes == AdmitAll(from, s.nodes, r.budget, protected, ByWorth)
<1>1. /\ s.nodes \subseteq Nodes /\ s.edges \subseteq Edges /\ s \in Packets
      /\ Cardinality(s.nodes) \in Nat /\ r.budget \in Int /\ r.class \in Classes
  BY NodeSets DEF IsPacket, Packets, SearchRequests
<1>2. A \subseteq InForce(g) /\ A \subseteq Edges
  BY DEF Answers, AnswersTo, InForce, IsGraph
<1>3. ASSUME NEW e \in Edges PROVE key[e] \in [1 .. 3 -> Int] /\ key[e][3] = e
  <2> DEFINE a == RelationRank[r.class][e]
             b == -Conf[e]
  <2>1. a \in Int /\ e \in Int
    BY <1>1, RelationRanks, EdgeValues
  <2>2. b \in Int
    BY EdgeValues
  <2>3. key[e] = <<a, b, e>>
    OBVIOUS
  <2> HIDE DEF a, b, key
  <2>4. <<a, b, e>> \in [1 .. 3 -> Int]
    BY <2>1, <2>2
  <2> QED BY <2>3, <2>4
<1>4. list = InOrder(A, key)
  BY DEF AnswerOrder
<1>5. t = Packed(s, nodes, A)
  BY DEF AnswersReserved, WithAnswers
<1> HIDE DEF A, key
<1>6. Sorts(A, key)
  <2>1. 3 \in Nat \ {0} /\ \A e \in A : key[e] \in [1 .. 3 -> Int] /\ key[e][3] = e
    BY <1>2, <1>3
  <2>2. \E n \in Nat \ {0} : \A e \in A : key[e] \in [1 .. n -> Int] /\ key[e][n] = e
    BY <2>1
  <2> QED BY <1>2, <2>2, EdgeKeys
<1>7. list \in Seq(A) /\ ToSet(list) = A
  BY <1>4, <1>6, InOrderIs
<1> HIDE DEF list
<1>8. from \in Seq(Nodes) /\ ToSet(from) = Sources(A)
  <2>1. DOMAIN list = 1 .. Len(list) /\ Len(list) \in Nat
    BY <1>7
  <2>2. ASSUME NEW i \in DOMAIN list PROVE Source[list[i]] \in Nodes
    <3>1. list[i] \in Edges
      BY <1>2, <1>7
    <3> QED BY <3>1, EdgeValues
  <2>3. ToSet(from) = {Source[list[i]] : i \in DOMAIN list}
    BY DEF ToSet
  <2>4. A = {list[i] : i \in DOMAIN list}
    BY <1>7 DEF ToSet
  <2>5. ToSet(from) = Sources(A)
    BY <2>3, <2>4 DEF Sources
  <2> QED BY <2>1, <2>2, <2>5
<1>9. StartSet(r) \subseteq protected /\ ToSet(from) \subseteq protected
      /\ protected = StartSet(r) \union Sources(A)
  BY <1>8
<1> HIDE DEF from, protected
<1>10. AdmitAllIs(nodes, from, s.nodes, r.budget, protected)
  <2>1. SortsNodes(ByWorth)
    BY WorthKeys DEF SortsNodes
  <2> QED BY <1>1, <1>8, <2>1, AdmitAllFacts
<1> HIDE DEF nodes
<1>11. nodes \subseteq Nodes
  <2>1. ToSet(from) \subseteq Nodes
    BY <1>8 DEF ToSet
  <2> QED BY <1>1, <1>10, <2>1 DEF AdmitAllIs
<1> HIDE DEF t
<1>12. IsPacket(g, r, t) /\ t.nodes = nodes
  <2>1. IsLive(g, r, A)
    BY <1>2, InForceIsLive
  <2> QED BY <1>2, <1>5, <1>11, <2>1, PackedIs
<1>13. t.room = s.room /\ t.edges = Within(s.edges \union A, nodes)
  BY <1>1, <1>5 DEF Packed, Packets
<1>14. Keeps(r, s, t, r.budget)
  BY <1>9, <1>10, <1>12, <1>13 DEF Keeps, AdmitAllIs
<1>15. Sources(A) \subseteq t.nodes \/ t.nodes \subseteq StartSet(r) \union Sources(A)
  BY <1>8, <1>9, <1>10, <1>12 DEF AdmitAllIs
<1>16. Within(A, t.nodes) \subseteq t.edges
  BY <1>12, <1>13 DEF Within
<1> QED BY <1>12, <1>14, <1>15, <1>16 DEF t, A

\* Fewer nodes, with all the edges between them.
Shrinks(s, t) ==
  /\ t.room = s.room /\ t.nodes \subseteq s.nodes
  /\ Within(s.edges, t.nodes) \subseteq t.edges

\* A packet cut down to some of its nodes.
LEMMA LimitedShrinks ==
  ASSUME NEW g, NEW q, NEW s, IsPacket(g, q, s), NEW ns, ns \subseteq s.nodes, NEW t,
         t = Limited(s, ns)
  PROVE  IsPacket(g, q, t) /\ Shrinks(s, t) /\ t.nodes = ns
<1>1. s \in Packets /\ ns \subseteq Nodes
  BY DEF IsPacket, Packets
<1>2. t.room = s.room /\ t.edges = Within(s.edges, ns)
  BY <1>1 DEF Limited, Packets
<1>3. IsPacket(g, q, t) /\ t.nodes = ns
  BY <1>1, LimitedIs
<1> QED BY <1>2, <1>3 DEF Shrinks

\* Two cuts are a cut.
LEMMA ShrinksTwice ==
  ASSUME NEW s, NEW t, Shrinks(s, t), NEW u, Shrinks(t, u)
  PROVE  Shrinks(s, u)
<1>1. u.nodes \subseteq t.nodes
  BY DEF Shrinks
<1>2. Within(s.edges, u.nodes) \subseteq Within(t.edges, u.nodes)
  <2>1. Within(s.edges, u.nodes) \subseteq Within(s.edges, t.nodes)
    BY <1>1 DEF Within
  <2>2. Within(s.edges, u.nodes) \subseteq t.edges
    BY <2>1 DEF Shrinks
  <2> QED BY <2>2 DEF Within
<1> QED BY <1>1, <1>2 DEF Shrinks

\* No cut is one.
LEMMA ShrinksToItself ==
  ASSUME NEW s
  PROVE  Shrinks(s, s)
BY DEF Shrinks, Within

Callees(r) == r.class = "direct_lookup" /\ r.exact /\ r.asks = "calls"

\* The exact callees are a packet with every start.
LEMMA CallsAre ==
  ASSUME NEW g, IsGraph(g), NEW r \in SearchRequests
  PROVE  LET s == CallsOf(g, r) IN IsPacket(g, r, s) /\ StartSet(r) \subseteq s.nodes
<1> DEFINE calls == {e \in InForce(g) : Type[e] = "calls" /\ Source[e] \in StartSet(r)}
           callees == {Target[e] : e \in calls}
           nodes == StartSet(r) \union callees
           s == CallsOf(g, r)
<1>1. s = [nodes |-> nodes, edges |-> calls, late |-> <<>>, room |-> r.budget]
  BY DEF CallsOf
<1>2. calls \subseteq InForce(g) /\ calls \subseteq Edges
  BY DEF InForce, IsGraph
<1>3. \A e \in calls : Source[e] \in nodes /\ Target[e] \in nodes
  OBVIOUS
<1>4. nodes \subseteq Nodes
  <2>1. StartSet(r) \subseteq Nodes
    BY StartsAre DEF SearchRequests
  <2>2. callees \subseteq Nodes
    BY <1>2, EdgeValues
  <2> QED BY <2>1, <2>2
<1>5. StartSet(r) \subseteq nodes
  OBVIOUS
<1>6. r.budget \in Nat
  BY DEF SearchRequests
<1> HIDE DEF calls, nodes, s
<1>7. s \in Packets /\ s.nodes = nodes /\ s.edges = calls
  BY <1>1, <1>2, <1>4, <1>6 DEF Packets
<1>8. Ends(calls) \subseteq nodes
  BY <1>3, EndsIn
<1>9. IsLive(g, r, calls)
  BY <1>2, InForceIsLive
<1> QED BY <1>2, <1>5, <1>7, <1>8, <1>9 DEF IsPacket, s

\* What explains nothing goes: starts and ends of edges stay.
LEMMA ExplainedIs ==
  ASSUME NEW g, NEW r \in SearchRequests, NEW s, IsPacket(g, r, s)
  PROVE  LET t == Explained(r, s)
         IN  /\ IsPacket(g, r, t) /\ Shrinks(s, t)
             /\ StartSet(r) \cap s.nodes \subseteq t.nodes /\ Ends(s.edges) \subseteq t.nodes
<1> DEFINE t == Explained(r, s)
           ns == s.nodes \cap (StartSet(r) \union Ends(s.edges))
<1>1. t = s \/ t = Limited(s, ns)
  BY DEF Explained
<1>2. Ends(s.edges) \subseteq s.nodes
  BY DEF IsPacket
<1>3. ns \subseteq s.nodes /\ StartSet(r) \cap s.nodes \subseteq ns /\ Ends(s.edges) \subseteq ns
  BY <1>2
<1> HIDE DEF ns, t
<1>4. CASE t = s
  BY <1>2, <1>4, ShrinksToItself DEF t
<1>5. CASE t = Limited(s, ns)
  <2>1. IsPacket(g, r, t) /\ Shrinks(s, t) /\ t.nodes = ns
    BY <1>3, <1>5, LimitedShrinks
  <2> QED BY <1>3, <2>1 DEF t
<1> QED BY <1>1, <1>4, <1>5

\* The caps on what is out of scope take nodes out.
LEMMA ScopedIs ==
  ASSUME NEW g, NEW r \in SearchRequests, NEW s, IsPacket(g, r, s)
  PROVE  LET t == Scoped(r, CrossingsCapped(r, s)) IN IsPacket(g, r, t) /\ Shrinks(s, t)
<1> DEFINE inside == s.nodes \cap r.inferred
           starts == (s.nodes \ inside) \cap StartSet(r)
           others == s.nodes \ (inside \union starts)
           limit == CrossingLimit(Cardinality(inside), Cardinality(starts))
           key == [n \in others |-> <<-LinkScore(s, inside, n), NodeRank[n]>>]
           ns == inside \union starts \union FirstOf(others, limit - Cardinality(starts), key)
           c == CrossingsCapped(r, s)
           t == Scoped(r, c)
<1>1. c = s \/ c = Limited(s, ns)
  BY DEF CrossingsCapped, WithCrossings
<1>2. ns \subseteq s.nodes
  BY DEF FirstOf
<1> HIDE DEF ns, c
<1>3. IsPacket(g, r, c) /\ Shrinks(s, c)
  <2>1. CASE c = s
    BY <2>1, ShrinksToItself
  <2>2. CASE c = Limited(s, ns)
    BY <1>2, <2>2, LimitedShrinks
  <2> QED BY <1>1, <2>1, <2>2
<1> DEFINE ms == c.nodes \cap r.scope
<1>4. t = Limited(c, ms) /\ ms \subseteq c.nodes
  BY DEF Scoped
<1> HIDE DEF ms, t
<1>5. IsPacket(g, r, t) /\ Shrinks(c, t)
  BY <1>3, <1>4, LimitedShrinks
<1>6. Shrinks(s, t)
  BY <1>3, <1>5, ShrinksTwice
<1> QED BY <1>5, <1>6 DEF t, c

\* The constraints: what they take out, and what only the exact callees may replace.
LEMMA ConstrainedIs ==
  ASSUME NEW g, IsGraph(g), NEW r \in SearchRequests, NEW p, IsPacket(g, r, p)
  PROVE  LET s == Explained(r, InExactly(g, r, p))
             t == Scoped(r, CrossingsCapped(r, s))
         IN  /\ IsPacket(g, r, t) /\ t.nodes \subseteq s.nodes
             /\ StartSet(r) \cap p.nodes \subseteq s.nodes
             /\ ~ Callees(r) => Shrinks(p, t) /\ Ends(p.edges) \subseteq s.nodes
<1> DEFINE x == InExactly(g, r, p)
           s == Explained(r, x)
           t == Scoped(r, CrossingsCapped(r, s))
<1>1. IsPacket(g, r, x) /\ StartSet(r) \cap p.nodes \subseteq x.nodes /\ (~ Callees(r) => x = p)
  BY CallsAre DEF InExactly, Callees
<1> HIDE DEF x
<1>2. /\ IsPacket(g, r, s) /\ Shrinks(x, s)
      /\ StartSet(r) \cap x.nodes \subseteq s.nodes /\ Ends(x.edges) \subseteq s.nodes
  BY <1>1, ExplainedIs
<1> HIDE DEF s
<1>3. IsPacket(g, r, t) /\ Shrinks(s, t)
  BY <1>2, ScopedIs
<1> HIDE DEF t
<1>4. Shrinks(x, t)
  BY <1>2, <1>3, ShrinksTwice
<1>5. t.nodes \subseteq s.nodes /\ StartSet(r) \cap p.nodes \subseteq s.nodes
  BY <1>1, <1>2, <1>3 DEF Shrinks
<1>6. ~ Callees(r) => Shrinks(p, t) /\ Ends(p.edges) \subseteq s.nodes
  BY <1>1, <1>2, <1>4
<1> QED BY <1>3, <1>5, <1>6 DEF t, s, x

-----------------------------------------------------------------------------
(* The states of a search *)

\* The starts are nodes, and there is one.
LEMMA StartsAreNodes ==
  ASSUME search \in SearchRequests, search.anchors # <<>>
  PROVE  Starts \in Seq(Nodes) /\ Starts # <<>>
<1> DEFINE anchors == search.anchors
<1>1. anchors \in Seq(Nodes) /\ Len(anchors) \in Nat /\ Len(anchors) >= 1
  BY DEF SearchRequests
<1>2. search.modified \in Seq(Nodes) /\ IsGraph(Graph)
  BY DEF SearchRequests, IsGraph, Graph
<1> HIDE DEF anchors
<1>3. ASSUME NEW list \in Seq(Nodes), Len(list) >= 1
      PROVE  AtMost(list, 12) \in Seq(Nodes) /\ AtMost(list, 12) # <<>>
  <2> DEFINE some == AtMost(list, 12)
  <2>1. /\ some \in Seq(Nodes) /\ Len(list) \in Nat
        /\ DOMAIN some = 1 .. (IF Len(list) < 12 THEN Len(list) ELSE 12)
    <3>1. 12 \in Nat
      OBVIOUS
    <3> HIDE DEF some
    <3> QED BY <3>1, AtMostIs DEF some
  <2> HIDE DEF some
  <2>2. 1 \in DOMAIN some
    BY <1>3, <2>1
  <2> QED BY <2>1, <2>2 DEF some
<1>4. ASSUME NEW more \in Seq(Nodes)
      PROVE  anchors \o more \in Seq(Nodes) /\ Len(anchors \o more) >= 1
  BY <1>1
<1>5. ContractStarts(Graph, search) \in Seq(Nodes) /\ Len(ContractStarts(Graph, search)) >= 1
  <2> DEFINE es == {e \in InForce(Graph) : Type[e] = "implements" /\ Target[e] \in ToSet(anchors)}
             S == {Source[e] : e \in es} \ ToSet(anchors)
             more == AsMet(S, es)
             list == anchors \o more
             rest == Among(search.members, Nodes \ ToSet(list))
  <2>1. es \subseteq Edges /\ S \subseteq Ends(es)
    BY <1>2 DEF InForce, IsGraph, Ends
  <2>2. ContractStarts(Graph, search) = list \o rest
    BY DEF ContractStarts, Implementors, Joined, anchors
  <2> HIDE DEF es, S
  <2>3. more \in Seq(Nodes)
    BY <2>1, AsMetIs
  <2> HIDE DEF more
  <2>4. list \in Seq(Nodes) /\ Len(list) >= 1
    BY <1>4, <2>3
  <2> HIDE DEF list
  <2>5. rest \in Seq(Nodes)
    <3>1. search.members \in Seq(Nodes)
      BY DEF SearchRequests
    <3> QED BY <3>1, AmongIs
  <2> HIDE DEF rest
  <2> QED BY <2>2, <2>4, <2>5
<1>6. SessionStarts(search) \in Seq(Nodes) /\ Len(SessionStarts(search)) >= 1
  <2> DEFINE S == {n \in Nodes \ ToSet(anchors) : search.inferred = {} \/ n \in search.inferred}
             more == Among(search.modified, S)
  <2>1. SessionStarts(search) = anchors \o more
    BY DEF SessionStarts, anchors
  <2> HIDE DEF S
  <2>2. more \in Seq(Nodes)
    BY <1>2, AmongIs
  <2> HIDE DEF more
  <2> QED BY <1>4, <2>1, <2>2
<1>7. Starts \in {AtMost(ContractStarts(Graph, search), 12), AtMost(SessionStarts(search), 12), AtMost(anchors, 12)}
  BY DEF Starts, anchors
<1> QED BY <1>1, <1>3, <1>5, <1>6, <1>7

\* Before anything is reserved beside the expansion.
Early == {"anchor", "expand", "partition", "reserve"}

\* The request keeps its type, and a start until something is pruned.
AskedWell ==
  /\ search \in SearchRequests /\ search.anchors # <<>>
  /\ stage \in Early => search.starts # <<>>
  /\ pruned \subseteq Nodes
  /\ stage \in Early \union {"constrain", "anchors"} => pruned = {}

\* A request that has not been expanded is one to expand.
LEMMA AskedIs ==
  ASSUME AskedWell
  PROVE  /\ IsGraph(Graph) /\ search.budget \in Nat /\ StartSet(search) \subseteq Nodes
         /\ stage \in Early => IsAsked(search)
BY StartsAre DEF AskedWell, IsGraph, Graph, SearchRequests, IsAsked

\* Each step keeps the request well formed.
LEMMA AskedWellHolds ==
  /\ SearchInit => AskedWell
  /\ AskedWell /\ [SearchNext]_searchVars => AskedWell'
<1>1. SearchInit => AskedWell
  <2> SUFFICES ASSUME SearchInit PROVE AskedWell
    OBVIOUS
  <2>1. PICK r \in Searches :
          search = [x \in DOMAIN r \union {"starts"} |-> IF x = "starts" THEN r.anchors ELSE r[x]]
    BY DEF SearchInit
  <2>2. /\ r \in [class : Classes, anchors : Seq(Nodes), modified : Seq(Nodes),
                  asks : {"any", "calls", "tests"}, budget : Nat, scope : SUBSET Nodes,
                  inferred : SUBSET Nodes, expired : SUBSET Edges, named : SUBSET Nodes,
                  members : Seq(Nodes), exact : BOOLEAN]
        /\ r.anchors # <<>>
    BY SearchAssumption
  <2>3. search = [class |-> r.class, anchors |-> r.anchors, modified |-> r.modified, asks |-> r.asks,
                  budget |-> r.budget, scope |-> r.scope, inferred |-> r.inferred, expired |-> r.expired,
                  named |-> r.named, members |-> r.members, exact |-> r.exact,
                  starts |-> r.anchors]
    <3> DEFINE fields == {"class", "anchors", "modified", "asks", "budget", "scope", "inferred",
                          "expired", "named", "members", "exact"}
    <3>1. DOMAIN r = fields
      BY <2>2
    <3>2. search = [x \in {"starts"} \union fields |-> IF x = "starts" THEN r.anchors ELSE r[x]]
      BY <2>1, <3>1
    <3> QED BY <3>2
  <2>4. search \in SearchRequests /\ search.anchors = r.anchors /\ search.starts = r.anchors
    BY <2>2, <2>3 DEF SearchRequests
  <2> QED BY <2>2, <2>4 DEF SearchInit, AskedWell
<1>2. ASSUME AskedWell, [SearchNext]_searchVars PROVE AskedWell'
  <2> USE DEF AskedWell, Early
  <2>1. CASE Anchor
    <3>1. Starts \in Seq(Nodes) /\ Starts # <<>>
      BY <1>2, StartsAreNodes
    <3>2. search' = [search EXCEPT !.starts = Starts] /\ stage = "anchor" /\ stage' = "expand" /\ pruned' = pruned
      BY <2>1 DEF Anchor, Go
    <3> QED BY <1>2, <3>1, <3>2 DEF SearchRequests
  <2>2. CASE ExpandPaths
    BY <1>2, <2>2 DEF ExpandPaths, Go
  <2>3. CASE ExpandOthers
    BY <1>2, <2>3 DEF ExpandOthers, Go
  <2>4. CASE Partition
    BY <1>2, <2>4 DEF Partition, Go
  <2>5. CASE ReserveAnswers
    BY <1>2, <2>5 DEF ReserveAnswers, Go
  <2>6. CASE ReserveSiblings
    BY <1>2, <2>6 DEF ReserveSiblings, Go
  <2>7. CASE Constrain
    BY <1>2, <2>7 DEF Constrain, Go
  <2>8. CASE PruneAnchors
    <3>1. PICK idle \in SUBSET StartSet(search) :
            pruned' = idle /\ search' = [search EXCEPT !.starts = Among(@, Nodes \ idle)]
      BY <2>8 DEF PruneAnchors
    <3>2. stage' = "facets"
      BY <2>8 DEF PruneAnchors, Go
    <3>3. search.starts \in Seq(Nodes)
      BY <1>2 DEF SearchRequests
    <3>4. Among(search.starts, Nodes \ idle) \in Seq(Nodes)
      BY <3>3, AmongIs
    <3>5. StartSet(search) \subseteq Nodes
      BY <3>3, StartsAre
    <3> QED BY <1>2, <3>1, <3>2, <3>4, <3>5 DEF SearchRequests
  <2>9. CASE JudgeFacets
    BY <1>2, <2>9 DEF JudgeFacets, Go
  <2>10. CASE JudgeEvidence
    BY <1>2, <2>10 DEF JudgeEvidence, Go
  <2>11. CASE JudgeDocuments
    BY <1>2, <2>11 DEF JudgeDocuments, Go
  <2>12. CASE Conclude
    <3>1. /\ stage' = "done" /\ pruned' = pruned
          /\ search' = search \/ search' = [search EXCEPT !.starts = <<>>]
      BY <2>12 DEF Conclude, Go
    <3>2. <<>> \in Seq(Nodes)
      OBVIOUS
    <3> QED BY <1>2, <3>1, <3>2 DEF SearchRequests
  <2>13. CASE UNCHANGED searchVars
    BY <1>2, <2>13 DEF searchVars
  <2> QED BY <1>2, <2>1, <2>2, <2>3, <2>4, <2>5, <2>6, <2>7, <2>8, <2>9, <2>10, <2>11, <2>12, <2>13
             DEF SearchNext
<1> QED BY <1>1, <1>2

\* The request that the next state has, as far as packets are concerned.
LEMMA SameRequest ==
  ASSUME NEW g, NEW h, h.edges = g.edges, h.expired = g.expired,
         NEW q, NEW r, r.class = q.class, r.scope = q.scope, r.budget = q.budget, r.starts = q.starts,
         NEW s
  PROVE  /\ IsPacket(g, q, s) => IsPacket(h, r, s)
         /\ StartSet(r) = StartSet(q)
         /\ GatheredIs(g, q, s) => GatheredIs(h, r, s)
BY DEF IsPacket, IsLive, Permitted, InSupport, InForce, StartSet, GatheredIs, StartsKept

\* What reaches the packet stays a packet, with its starts and within its bound.
Sound ==
  /\ IsPacket(Graph, search, packet)
  /\ stage = "anchor" => packet.edges = {}
  /\ stage = "partition" => GatheredIs(Graph, search, packet)
  /\ stage \notin {"anchor", "expand", "partition"} =>
       /\ StartSet(search) \cap search.scope \subseteq packet.nodes \union removed
       /\ Callees(search) \/ Cardinality(packet.nodes) <= Allowed

\* Nodes are let in up to the budget: the packet keeps its bound.
LEMMA KeepsAllowed ==
  ASSUME NEW q, q.budget \in Nat, q.starts \in Seq(Nodes), NEW s \in Packets, NEW t \in Packets,
         Keeps(q, s, t, q.budget), NEW u \in Packets, u.nodes \subseteq t.nodes, u.room = t.room,
         Cardinality(s.nodes) <= Most(q, s.room)
  PROVE  Cardinality(u.nodes) <= Most(q, u.room)
<1>1. /\ s.nodes \subseteq Nodes /\ t.nodes \subseteq Nodes /\ s.room \in Nat /\ t.room = s.room
      /\ Cardinality(t.nodes) <= Bigger(q.budget, Cardinality(s.nodes))
  BY DEF Packets, Keeps
<1>2. /\ Cardinality(s.nodes) \in Nat /\ Cardinality(t.nodes) \in Nat /\ Cardinality(u.nodes) \in Nat
      /\ Cardinality(u.nodes) <= Cardinality(t.nodes) /\ Cardinality(StartSet(q)) \in Nat
  BY <1>1, NodeSets, Sizes, StartsAre
<1> QED BY <1>1, <1>2 DEF Most, Bigger

\* Before anything was pruned, the bound is that of the starts.
LEMMA MostAllowed ==
  ASSUME pruned = {}
  PROVE  Allowed = Most(search, packet.room)
BY DEF Allowed, Most, Asked

\* Each step keeps the packet sound.
LEMMA SoundHolds ==
  /\ SearchInit => Sound
  /\ AskedWell /\ Sound /\ [SearchNext]_searchVars => Sound'
<1>1. SearchInit => Sound
  <2> SUFFICES ASSUME SearchInit PROVE Sound
    OBVIOUS
  <2>1. search \in SearchRequests /\ stage = "anchor" /\ packet = Empty
    BY AskedWellHolds DEF SearchInit, AskedWell
  <2>2. Empty \in Packets /\ Empty.edges = {} /\ Empty.nodes = {}
    BY <2>1 DEF Empty, Packets, SearchRequests
  <2>3. IsPacket(Graph, search, packet)
    BY <2>1, <2>2 DEF IsPacket, IsLive, Ends
  <2> QED BY <2>1, <2>2, <2>3 DEF Sound
<1>2. ASSUME AskedWell, Sound, [SearchNext]_searchVars PROVE Sound'
  <2>1. search \in SearchRequests /\ search.starts \in Seq(Nodes) /\ search.budget \in Nat
        /\ IsPacket(Graph, search, packet) /\ IsGraph(Graph)
        /\ packet \in Packets
    BY <1>2, AskedIs DEF AskedWell, Sound, SearchRequests, IsPacket
  <2>2. CASE Anchor
    <3>1. /\ search' = [search EXCEPT !.starts = Starts] /\ packet' = packet
          /\ stage' = "expand"
      BY <2>2 DEF Anchor, Go
    <3>2. packet.edges = {}
      BY <1>2, <2>2 DEF Sound, Anchor, Go
    <3>3. IsPacket(Graph', search', packet')
      BY <2>1, <3>1, <3>2 DEF IsPacket, IsLive
    <3> QED BY <3>1, <3>3 DEF Sound
  <2>3. ASSUME UNCHANGED search
        PROVE  Graph' = Graph /\ StartSet(search') = StartSet(search)
    BY <2>3 DEF Graph
  <2>4. CASE ExpandPaths
    <3>1. /\ packet' = Monotone(Graph, search) /\ stage' = "reserve" /\ stage = "expand" /\ UNCHANGED search
          /\ pruned' = pruned /\ removed' = removed
      BY <2>4 DEF ExpandPaths, Go
    <3>2. IsAsked(search) /\ pruned = {}
      BY <1>2, <3>1, AskedIs DEF AskedWell, Early
    <3> DEFINE s == Monotone(Graph, search)
    <3>3. /\ IsPacket(Graph, search, s) /\ StartsKept(search, s)
          /\ Cardinality(s.nodes) <= Bigger(search.budget, Cardinality(StartSet(search)))
      BY <2>1, <3>2, MonotoneIs
    <3> HIDE DEF s
    <3>4. Cardinality(s.nodes) <= Most(search, s.room)
      <4>1. Cardinality(s.nodes) \in Nat /\ s.room \in Nat /\ Cardinality(StartSet(search)) \in Nat
        BY <2>1, <3>3, NodeSets, StartsAre DEF IsPacket, Packets
      <4> QED BY <2>1, <3>3, <4>1 DEF Most, Bigger
    <3>5. packet' = s /\ pruned' = {} /\ search' = search
      BY <3>1, <3>2 DEF s
    <3>6. Allowed' = Most(search, s.room)
      BY <3>5 DEF Allowed, Most, Asked, StartSet
    <3>7. Graph' = Graph
      BY <3>5 DEF Graph
    <3> QED BY <3>1, <3>3, <3>4, <3>5, <3>6, <3>7 DEF Sound, StartsKept, StartSet, Callees
  <2>5. CASE ExpandOthers
    <3>1. /\ packet' = Gathered(Graph, search) /\ stage' = "partition" /\ stage = "expand" /\ UNCHANGED search
      BY <2>5 DEF ExpandOthers, Go
    <3>2. IsAsked(search)
      BY <1>2, <3>1, AskedIs DEF Early
    <3>3. GatheredIs(Graph, search, packet')
      BY <2>1, <3>1, <3>2, GatheredFacts
    <3>4. Graph' = Graph /\ search' = search
      BY <3>1 DEF Graph
    <3> QED BY <3>1, <3>3, <3>4 DEF Sound, GatheredIs
  <2>6. CASE Partition
    <3>1. PICK p \in Parts(search, packet) : packet' = Shaped(search, FamiliesReserved(Graph, search, p))
      BY <2>6 DEF Partition
    <3>2. stage' = "reserve" /\ stage = "partition" /\ UNCHANGED <<search, removed, pruned>>
      BY <2>6 DEF Partition, Go
    <3>3. IsAsked(search) /\ pruned = {} /\ GatheredIs(Graph, search, packet)
      BY <1>2, <3>2, AskedIs DEF AskedWell, Early, Sound
    <3> DEFINE s == Shaped(search, FamiliesReserved(Graph, search, p))
    <3>4. IsPacket(Graph, search, s) /\ StartsKept(search, s) /\ Cardinality(s.nodes) <= Most(search, s.room)
      BY <2>1, <3>3, PartitionedIs
    <3> HIDE DEF s
    <3>5. packet' = s /\ pruned' = {} /\ search' = search
      BY <3>1, <3>2, <3>3 DEF s
    <3>6. Allowed' = Most(search, s.room)
      BY <3>5 DEF Allowed, Most, Asked, StartSet
    <3>7. Graph' = Graph
      BY <3>5 DEF Graph
    <3> QED BY <3>2, <3>4, <3>5, <3>6, <3>7 DEF Sound, StartsKept, StartSet, Callees
  <2>7. ASSUME stage = "reserve", stage' = "constrain", search' = search, pruned' = pruned,
               NEW t, IsPacket(Graph, search, t), Keeps(search, packet, t, search.budget),
               IsPacket(Graph, search, packet'), packet'.room = t.room, packet'.nodes \subseteq t.nodes,
               t.nodes \subseteq packet'.nodes \union removed', removed \subseteq removed'
        PROVE  Sound'
    <3>1. pruned = {} /\ IsAsked(search)
      BY <1>2, <2>7, AskedIs DEF AskedWell, Early
    <3>2. /\ StartSet(search) \cap search.scope \subseteq packet.nodes \union removed
          /\ Callees(search) \/ Cardinality(packet.nodes) <= Most(search, packet.room)
      BY <1>2, <2>7, <3>1, MostAllowed DEF Sound
    <3>3. StartSet(search) \cap search.scope \subseteq packet'.nodes \union removed'
      BY <2>7, <3>2 DEF Keeps
    <3>4. Callees(search) \/ Cardinality(packet'.nodes) <= Most(search, packet'.room)
      BY <2>1, <2>7, <3>2, KeepsAllowed DEF IsPacket
    <3>5. Graph' = Graph /\ Allowed' = Most(search, packet'.room)
      BY <2>7, <3>1 DEF Graph, Allowed, Most, Asked, StartSet
    <3> QED BY <2>7, <3>3, <3>4, <3>5 DEF Sound, StartSet, Callees
  <2>8. CASE ReserveAnswers
    <3> DEFINE t == AnswersReserved(Graph, search, packet)
               siblings == ContractSiblings(Graph, search)
    <3>1. /\ packet' = Limited(t, t.nodes \ siblings) /\ removed' = removed \union (t.nodes \cap siblings)
          /\ stage = "reserve" /\ stage' = "constrain" /\ search' = search /\ pruned' = pruned
      BY <2>8 DEF ReserveAnswers, Go
    <3>2. IsPacket(Graph, search, t) /\ Keeps(search, packet, t, search.budget)
      BY <2>1, AnswersReservedIs
    <3> HIDE DEF t, siblings
    <3>3. /\ IsPacket(Graph, search, packet') /\ packet'.room = t.room
          /\ packet'.nodes = t.nodes \ siblings
      <4>1. t.nodes \ siblings \subseteq t.nodes
        OBVIOUS
      <4>2. IsPacket(Graph, search, packet') /\ Shrinks(t, packet') /\ packet'.nodes = t.nodes \ siblings
        BY <3>1, <3>2, <4>1, LimitedShrinks
      <4> QED BY <4>2 DEF Shrinks
    <3> QED BY <2>7, <3>1, <3>2, <3>3
  <2>9. CASE ReserveSiblings
    <3> DEFINE t == SiblingsReserved(Graph, search, packet)
    <3>1. /\ packet' = t /\ removed' = removed
          /\ stage = "reserve" /\ stage' = "constrain" /\ search' = search /\ pruned' = pruned
      BY <2>9 DEF ReserveSiblings, Go
    <3>2. IsPacket(Graph, search, t) /\ Keeps(search, packet, t, search.budget)
      BY <2>1, SiblingsReservedIs
    <3> HIDE DEF t
    <3> QED BY <2>7, <3>1, <3>2
  <2>10. CASE Constrain
    <3> DEFINE s == Explained(search, InExactly(Graph, search, packet))
               t == Scoped(search, CrossingsCapped(search, s))
    <3>1. /\ packet' = t /\ removed' = removed \union (s.nodes \ t.nodes)
          /\ stage = "constrain" /\ stage' = "anchors" /\ search' = search /\ pruned' = pruned
      BY <2>10 DEF Constrain, Go
    <3>2. /\ IsPacket(Graph, search, t) /\ t.nodes \subseteq s.nodes
          /\ StartSet(search) \cap packet.nodes \subseteq s.nodes
          /\ ~ Callees(search) => Shrinks(packet, t)
      BY <2>1, ConstrainedIs
    <3> HIDE DEF s, t
    <3>3. pruned = {}
      BY <1>2, <3>1 DEF AskedWell
    <3>4. /\ StartSet(search) \cap search.scope \subseteq packet.nodes \union removed
          /\ Callees(search) \/ Cardinality(packet.nodes) <= Most(search, packet.room)
      BY <1>2, <3>1, <3>3, MostAllowed DEF Sound
    <3>5. StartSet(search) \cap search.scope \subseteq packet'.nodes \union removed'
      BY <3>1, <3>2, <3>4
    <3>6. ASSUME ~ Callees(search) PROVE Cardinality(packet'.nodes) <= Most(search, packet'.room)
      <4>1. packet'.room = packet.room /\ packet'.nodes \subseteq packet.nodes /\ packet.nodes \subseteq Nodes
        BY <2>1, <3>1, <3>2, <3>6 DEF Shrinks, Packets
      <4>2. /\ Cardinality(packet'.nodes) \in Nat /\ Cardinality(packet.nodes) \in Nat
            /\ Cardinality(packet'.nodes) <= Cardinality(packet.nodes)
            /\ Cardinality(StartSet(search)) \in Nat /\ packet.room \in Nat
        BY <2>1, <4>1, NodeSets, Sizes, StartsAre DEF Packets
      <4>3. Most(search, packet.room) \in Int
        BY <2>1, <4>2 DEF Most, Bigger
      <4> QED BY <3>4, <3>6, <4>1, <4>2, <4>3
    <3>7. Graph' = Graph /\ Allowed' = Most(search, packet'.room)
      BY <3>1, <3>3 DEF Graph, Allowed, Most, Asked, StartSet
    <3> QED BY <3>1, <3>2, <3>5, <3>6, <3>7 DEF Sound, StartSet, Callees
  <2>11. CASE PruneAnchors
    <3> DEFINE covered == Ends(packet.edges)
               safe    == {search.anchors[1]} \union (IF search.exact THEN ToSet(search.anchors) ELSE {})
               idle    == IF StartSet(search) \cap covered = {} THEN {}
                          ELSE StartSet(search) \ (covered \union safe)
    <3>1. /\ stage = "anchors" /\ stage' = "facets" /\ pruned' = idle
          /\ packet' = [packet EXCEPT !.nodes = @ \ idle]
          /\ search' = [search EXCEPT !.starts = Among(@, Nodes \ idle)] /\ removed' = removed
      BY <2>11 DEF PruneAnchors, Go
    <3>2. idle \subseteq StartSet(search) /\ idle \cap covered = {}
      OBVIOUS
    <3>3. covered \subseteq packet.nodes
      BY <2>1 DEF IsPacket
    <3> HIDE DEF idle
    <3>4. /\ packet' \in Packets /\ packet'.nodes = packet.nodes \ idle /\ packet'.edges = packet.edges
          /\ packet'.room = packet.room
      BY <2>1, <3>1 DEF Packets
    <3>5. /\ search'.class = search.class /\ search'.scope = search.scope /\ search'.exact = search.exact
          /\ search'.asks = search.asks /\ search'.budget = search.budget /\ search'.expired = search.expired
          /\ search'.starts = Among(search.starts, Nodes \ idle)
      BY <2>1, <3>1 DEF SearchRequests
    <3>6. StartSet(search') = StartSet(search) \ idle
      <4>1. StartSet(search) \subseteq Nodes
        BY <2>1, StartsAre
      <4>2. ToSet(search'.starts) = ToSet(search.starts) \cap (Nodes \ idle)
        BY <2>1, <3>5, AmongIs
      <4> QED BY <4>1, <4>2 DEF StartSet
    <3>7. IsPacket(Graph', search', packet')
      <4>1. Ends(packet.edges) \subseteq packet.nodes \ idle
        BY <3>2, <3>3
      <4>2. ASSUME NEW e \in packet.edges PROVE e \in Permitted(Graph', search')
        <5>1. e \in Permitted(Graph, search) /\ Source[e] \in covered
          BY <2>1, <4>2 DEF IsPacket, IsLive, Ends
        <5>2. e \in InSupport(search) => e \in InSupport(search')
          BY <3>2, <3>6, <5>1 DEF InSupport
        <5> QED BY <3>5, <5>1, <5>2 DEF Permitted, InForce, Graph
      <4> QED BY <3>4, <4>1, <4>2 DEF IsPacket, IsLive
    <3>8. pruned = {}
      BY <1>2, <3>1 DEF AskedWell
    <3>9. /\ StartSet(search) \cap search.scope \subseteq packet.nodes \union removed
          /\ Callees(search) \/ Cardinality(packet.nodes) <= Most(search, packet.room)
      BY <1>2, <3>1, <3>8, MostAllowed DEF Sound
    <3>10. StartSet(search') \cap search'.scope \subseteq packet'.nodes \union removed'
      BY <3>1, <3>4, <3>5, <3>6, <3>9
    <3>11. Allowed' = Most(search, packet.room)
      <4>1. Asked' = StartSet(search)
        BY <3>1, <3>2, <3>6 DEF Asked, StartSet
      <4> QED BY <3>4, <3>5, <4>1 DEF Allowed, Most
    <3>12. ASSUME ~ Callees(search) PROVE Cardinality(packet'.nodes) <= Allowed'
      <4>1. packet.nodes \subseteq Nodes /\ packet'.nodes \subseteq packet.nodes
        BY <2>1, <3>4 DEF Packets
      <4>2. /\ Cardinality(packet'.nodes) \in Nat /\ Cardinality(packet.nodes) \in Nat
            /\ Cardinality(packet'.nodes) <= Cardinality(packet.nodes)
            /\ Cardinality(StartSet(search)) \in Nat /\ packet.room \in Nat
        BY <2>1, <4>1, NodeSets, Sizes, StartsAre DEF Packets
      <4>3. Most(search, packet.room) \in Int
        BY <2>1, <4>2 DEF Most, Bigger
      <4> QED BY <3>9, <3>11, <3>12, <4>2, <4>3
    <3>13. Callees(search') <=> Callees(search)
      BY <3>5 DEF Callees
    <3> QED BY <3>1, <3>7, <3>10, <3>12, <3>13 DEF Sound
  <2>12. ASSUME UNCHANGED <<search, packet, removed, pruned>>,
                stage' \notin {"anchor", "partition"},
                stage \in {"anchor", "expand", "partition"} => stage' \in {"anchor", "expand", "partition"}
         PROVE  Sound'
    BY <1>2, <2>12 DEF Sound, Graph, Allowed, Asked
  <2>13. CASE JudgeFacets
    BY <2>12, <2>13 DEF JudgeFacets, Go
  <2>14. CASE JudgeEvidence
    BY <2>12, <2>14 DEF JudgeEvidence, Go
  <2>15. CASE JudgeDocuments
    BY <2>12, <2>15 DEF JudgeDocuments, Go
  <2>16. CASE Conclude
    <3>1. stage = "finish" /\ stage' = "done" /\ removed' = removed /\ pruned' = pruned
      BY <2>16 DEF Conclude, Go
    <3>2. CASE UNCHANGED <<search, packet>>
      BY <2>12, <3>1, <3>2
    <3>3. CASE packet' = Empty /\ search' = [search EXCEPT !.starts = <<>>]
      <4>1. Empty \in Packets /\ Empty.nodes = {} /\ Empty.edges = {} /\ Empty.room \in Nat
        BY <2>1 DEF Empty, Packets
      <4>2. IsPacket(Graph', search', packet')
        BY <3>3, <4>1 DEF IsPacket, IsLive, Ends
      <4>3. search'.starts = <<>> /\ search'.budget = search.budget
        BY <2>1, <3>3 DEF SearchRequests
      <4>4. StartSet(search') = {}
        BY <4>3 DEF StartSet, ToSet
      <4>5. /\ Asked' = pruned /\ Cardinality(Asked') \in Nat
            /\ packet'.room \in Nat /\ search'.budget \in Nat /\ Cardinality(packet'.nodes) = 0
        <5>1. Asked' = pruned /\ pruned \subseteq Nodes
          BY <1>2, <3>1, <4>4 DEF Asked, AskedWell, StartSet
        <5>2. Cardinality(packet'.nodes) = 0
          BY <3>3, <4>1, FS_EmptySet
        <5> QED BY <2>1, <3>3, <4>1, <4>3, <5>1, <5>2, NodeSets
      <4>6. Cardinality(packet'.nodes) <= Allowed'
        BY <4>5 DEF Allowed, Bigger
      <4> QED BY <3>1, <4>2, <4>4, <4>6 DEF Sound
    <3> QED BY <2>16, <3>2, <3>3 DEF Conclude
  <2>17. CASE UNCHANGED searchVars
    BY <1>2, <2>17 DEF Sound, Graph, Allowed, Asked, searchVars
  <2> QED BY <1>2, <2>2, <2>4, <2>5, <2>6, <2>8, <2>9, <2>10, <2>11, <2>13, <2>14, <2>15, <2>16, <2>17
             DEF SearchNext
<1> QED BY <1>1, <1>2

\* A packet is a subgraph within its budget, with its starts (PacketIsSound).
THEOREM PacketIsSoundHolds == SearchSpec => []PacketIsSound
<1>1. AskedWell /\ Sound => PacketIsSound
  <2> SUFFICES ASSUME AskedWell, Sound, Delivered PROVE PacketIsSound
    BY DEF PacketIsSound
  <2>1. stage = "done"
    BY DEF Delivered
  <2> QED BY <2>1 DEF Sound, PacketIsSound, IsPacket, IsLive, Callees
<1> QED BY <1>1, AskedWellHolds, SoundHolds, PTL DEF SearchSpec

-----------------------------------------------------------------------------
(* Path packets *)

\* Until it is reserved beside, a path packet is the monotone expansion.
PathsAreMonotone ==
  /\ stage = "partition" => search.class # "multi_hop_path"
  /\ stage = "reserve" /\ search.class = "multi_hop_path" => packet = Monotone(Graph, search)

\* A larger budget extends a path packet (LargerBudgetsExtend): up to the
\* reservation the packet is the monotone expansion of the proofs.
THEOREM LargerBudgetsExtendHolds == SearchSpec => []LargerBudgetsExtend
<1>1. SearchInit => PathsAreMonotone
  BY DEF SearchInit, PathsAreMonotone
<1>2. ASSUME PathsAreMonotone, [SearchNext]_searchVars PROVE PathsAreMonotone'
  <2> USE DEF PathsAreMonotone, Go
  <2>1. CASE Anchor \/ ReserveAnswers \/ ReserveSiblings \/ Constrain \/ PruneAnchors
    BY <2>1 DEF Anchor, ReserveAnswers, ReserveSiblings, Constrain, PruneAnchors
  <2>2. CASE ExpandPaths
    BY <2>2 DEF ExpandPaths, Graph
  <2>3. CASE ExpandOthers
    BY <2>3 DEF ExpandOthers
  <2>4. CASE Partition
    BY <1>2, <2>4 DEF Partition
  <2>5. CASE JudgeFacets \/ JudgeEvidence \/ JudgeDocuments \/ Conclude
    BY <2>5 DEF JudgeFacets, JudgeEvidence, JudgeDocuments, Conclude
  <2>6. CASE UNCHANGED searchVars
    BY <1>2, <2>6 DEF searchVars, Graph
  <2> QED BY <1>2, <2>1, <2>2, <2>3, <2>4, <2>5, <2>6 DEF SearchNext
<1>3. AskedWell /\ PathsAreMonotone => LargerBudgetsExtend
  <2> SUFFICES ASSUME AskedWell, packet = Monotone(Graph, search), stage = "reserve"
               PROVE  ExtendedBy([search EXCEPT !.budget = @ + 1])
    BY DEF LargerBudgetsExtend, PathsAreMonotone
  <2> DEFINE r == [search EXCEPT !.budget = @ + 1]
  <2>1. IsGraph(Graph) /\ IsAsked(search) /\ search \in SearchRequests
    BY AskedIs DEF AskedWell, Early
  <2>2. /\ r.class = search.class /\ r.scope = search.scope /\ r.starts = search.starts
        /\ r.budget = search.budget + 1
    BY <2>1 DEF SearchRequests
  <2> HIDE DEF r
  <2>3. IsAsked(r) /\ search.budget <= r.budget
    BY <2>1, <2>2 DEF IsAsked
  <2>4. Proof(Graph, search).nodes = Proof(Graph, r).nodes
        => Monotone(Graph, search).nodes \subseteq Monotone(Graph, r).nodes
    BY <2>1, <2>2, <2>3, MonotoneExtends
  <2>5. ExtendedBy(r)
    BY <2>4 DEF ExtendedBy
  <2> QED BY <2>5 DEF r
<1> QED BY <1>1, <1>2, <1>3, AskedWellHolds, PTL DEF SearchSpec

-----------------------------------------------------------------------------
(* Reverse lookups *)

Receipts ==
  [status : {"answerable", "incomplete", "partial", "unanswerable"}, abstained : BOOLEAN,
   omitted : SUBSET Nodes, minimum : BOOLEAN, complete : BOOLEAN]

\* The edges that answer are listed between the nodes there are; who answers is
\* there or was taken out, or starts and answers fill the packet.
AnswersFirst ==
  LET A == AnswersTo(Asked, Graph, search)
  IN  /\ Within(A, packet.nodes) \subseteq packet.edges
      /\ \/ Sources({e \in A : Target[e] \in packet.nodes}) \subseteq packet.nodes \union removed
         \/ packet.nodes \subseteq Asked \union Sources(A)

\* What is known of the direct answers from their reservation on, and what the
\* receipt then says of them.
Told ==
  /\ receipt \in Receipts
  /\ search.class = "reverse_lookup" =>
       /\ stage \notin Early => AnswersFirst
       /\ stage \in {"documents", "finish"} => receipt.omitted = Omitted(Graph, search, packet)
       /\ stage = "done" /\ receipt.complete => Sources(Answers(Graph, search)) \subseteq packet.nodes

\* Fewer nodes: an answer that was there is there, or was taken out by the step.
LEMMA AnswersRemain ==
  ASSUME NEW A, NEW s, NEW t, NEW asked, NEW gone, NEW more, gone \subseteq more,
         Within(A, s.nodes) \subseteq s.edges, t.nodes \subseteq s.nodes,
         Within(s.edges, t.nodes) \subseteq t.edges, Ends(s.edges) \subseteq t.nodes \union more,
         \/ Sources({e \in A : Target[e] \in s.nodes}) \subseteq s.nodes \union gone
         \/ s.nodes \subseteq asked \union Sources(A)
  PROVE  /\ Within(A, t.nodes) \subseteq t.edges
         /\ \/ Sources({e \in A : Target[e] \in t.nodes}) \subseteq t.nodes \union more
            \/ t.nodes \subseteq asked \union Sources(A)
<1>1. Within(A, t.nodes) \subseteq t.edges
  BY DEF Within
<1>2. ASSUME Sources({e \in A : Target[e] \in s.nodes}) \subseteq s.nodes \union gone,
             NEW e \in A, Target[e] \in t.nodes
      PROVE  Source[e] \in t.nodes \union more
  <2>1. Source[e] \in s.nodes \union gone
    BY <1>2 DEF Sources
  <2>2. CASE Source[e] \in s.nodes
    <3>1. e \in s.edges
      BY <1>2, <2>2 DEF Within
    <3> QED BY <3>1 DEF Ends
  <2> QED BY <2>1, <2>2
<1>3. Sources({e \in A : Target[e] \in s.nodes}) \subseteq s.nodes \union gone
      => Sources({e \in A : Target[e] \in t.nodes}) \subseteq t.nodes \union more
  BY <1>2 DEF Sources
<1> QED BY <1>1, <1>3

\* A complete receipt was answerable and lacks nothing.
LEMMA RecordedIs ==
  ASSUME NEW r \in Receipts, NEW starts, NEW s, NEW t, t = Recorded(r, starts, s)
  PROVE  /\ t \in Receipts /\ t.omitted = r.omitted /\ t.status = r.status
         /\ t.complete => r.omitted = {} /\ r.status = "answerable"
<1> DEFINE minimum == r.status # "unanswerable" /\ (starts # <<>> \/ s.nodes # {})
           complete == minimum /\ r.status = "answerable" /\ ~ r.abstained /\ r.omitted = {}
<1>1. minimum \in BOOLEAN /\ complete \in BOOLEAN
  OBVIOUS
<1>2. t = [r EXCEPT !.minimum = minimum, !.complete = complete]
  BY DEF Recorded
<1>3. complete => r.omitted = {} /\ r.status = "answerable"
  OBVIOUS
<1> HIDE DEF minimum, complete
<1>4. t \in Receipts /\ t.omitted = r.omitted /\ t.status = r.status /\ t.complete = complete
  BY <1>1, <1>2 DEF Receipts
<1> QED BY <1>3, <1>4

\* A reverse lookup that omits nobody shows everybody who answers.
LEMMA NobodyOmitted ==
  ASSUME NEW g, NEW r, NEW s, Omitted(g, r, s) = {}
  PROVE  Sources(Answers(g, r)) \subseteq s.nodes
BY DEF Omitted, Sources

\* Who is omitted is a node.
LEMMA OmittedAreNodes ==
  ASSUME NEW g, IsGraph(g), NEW r, NEW s
  PROVE  Omitted(g, r, s) \subseteq Nodes
<1>1. Answers(g, r) \subseteq Edges
  BY DEF Answers, AnswersTo, InForce, IsGraph
<1> QED BY <1>1, EdgeValues DEF Omitted

\* Each step of a reverse lookup keeps its answers, and its receipt says which.
LEMMA ToldHolds ==
  /\ SearchInit => Told
  /\ AskedWell /\ Sound /\ Told /\ [SearchNext]_searchVars => Told'
<1>1. SearchInit => Told
  BY DEF SearchInit, Told, Early, Receipts, Answerable
<1>2. ASSUME AskedWell, Sound, Told, [SearchNext]_searchVars PROVE Told'
  <2>1. search \in SearchRequests /\ IsPacket(Graph, search, packet) /\ IsGraph(Graph)
        /\ packet \in Packets /\ Ends(packet.edges) \subseteq packet.nodes
    BY <1>2, AskedIs DEF AskedWell, Sound, IsPacket
  <2>2. ASSUME stage' \in Early, UNCHANGED receipt PROVE Told'
    BY <1>2, <2>2 DEF Told, Early
  <2>3. CASE Anchor \/ ExpandPaths \/ ExpandOthers \/ Partition
    BY <2>2, <2>3 DEF Anchor, ExpandPaths, ExpandOthers, Partition, Go, Early
  <2>4. CASE ReserveSiblings
    BY <1>2, <2>4 DEF ReserveSiblings, Told
  <2>5. CASE ReserveAnswers
    <3> DEFINE t == AnswersReserved(Graph, search, packet)
               siblings == ContractSiblings(Graph, search)
               A == Answers(Graph, search)
               p == packet'
    <3>1. /\ p = Limited(t, t.nodes \ siblings) /\ removed' = removed \union (t.nodes \cap siblings)
          /\ stage = "reserve" /\ stage' = "constrain" /\ search' = search /\ pruned' = pruned
      BY <2>5 DEF ReserveAnswers, Go
    <3>2. /\ IsPacket(Graph, search, t)
          /\ Sources(A) \subseteq t.nodes \/ t.nodes \subseteq StartSet(search) \union Sources(A)
          /\ Within(A, t.nodes) \subseteq t.edges
      BY <2>1, AnswersReservedIs
    <3>3. pruned = {}
      BY <1>2, <3>1 DEF AskedWell, Early
    <3>4. Asked' = StartSet(search) /\ Graph' = Graph
      BY <3>1, <3>3 DEF Asked, StartSet, Graph
    <3>5. AnswersTo(Asked', Graph', search') = A
      BY <3>1, <3>4 DEF Answers
    <3> HIDE DEF t, siblings, A, p
    <3>6. p.nodes = t.nodes \ siblings /\ Shrinks(t, p)
      <4>1. t.nodes \ siblings \subseteq t.nodes
        OBVIOUS
      <4> QED BY <3>1, <3>2, <4>1, LimitedShrinks
    <3>7. /\ Within(A, p.nodes) \subseteq p.edges
          /\ \/ Sources({e \in A : Target[e] \in p.nodes}) \subseteq p.nodes \union removed'
             \/ p.nodes \subseteq StartSet(search) \union Sources(A)
      <4>1. Within(A, p.nodes) \subseteq p.edges
        BY <3>2, <3>6 DEF Within, Shrinks
      <4>2. Sources({e \in A : Target[e] \in p.nodes}) \subseteq Sources(A)
        BY DEF Sources
      <4> QED BY <3>1, <3>2, <3>6, <4>1, <4>2
    <3>8. AnswersFirst'
      BY <3>4, <3>5, <3>7 DEF AnswersFirst, p
    <3>9. receipt' \in Receipts
      BY <1>2, <2>5 DEF ReserveAnswers, Told
    <3> QED BY <3>1, <3>8, <3>9 DEF Told
  <2>6. ASSUME search.class = "reverse_lookup", AnswersFirst, UNCHANGED <<search, packet, removed, pruned>>
        PROVE  AnswersFirst'
    <3>1. Asked' = Asked /\ Graph' = Graph
      BY <2>6 DEF Asked, Graph
    <3>2. AnswersTo(Asked', Graph', search') = AnswersTo(Asked, Graph, search)
      BY <2>6, <3>1
    <3> QED BY <2>6, <3>1, <3>2 DEF AnswersFirst
  <2>7. CASE Constrain
    <3> DEFINE s == Explained(search, InExactly(Graph, search, packet))
               t == Scoped(search, CrossingsCapped(search, s))
               A == AnswersTo(Asked, Graph, search)
               p == packet'
    <3>1. /\ p = t /\ removed' = removed \union (s.nodes \ t.nodes)
          /\ stage = "constrain" /\ stage' = "anchors" /\ search' = search /\ pruned' = pruned
      BY <2>7 DEF Constrain, Go
    <3>2. ~ Callees(search) => Shrinks(packet, t) /\ Ends(packet.edges) \subseteq s.nodes
      BY <2>1, ConstrainedIs
    <3> SUFFICES ASSUME search.class = "reverse_lookup" PROVE AnswersFirst'
      BY <1>2, <2>7, <3>1 DEF Told, Constrain
    <3>3. AnswersFirst
      BY <1>2, <3>1 DEF Told, Early
    <3>4. Shrinks(packet, t) /\ Ends(packet.edges) \subseteq s.nodes
      BY <3>2 DEF Callees
    <3>5. Asked' = Asked /\ Graph' = Graph
      BY <3>1 DEF Asked, StartSet, Graph
    <3>6. AnswersTo(Asked', Graph', search') = A
      BY <3>1, <3>5
    <3>7. /\ Within(A, packet.nodes) \subseteq packet.edges
          /\ \/ Sources({e \in A : Target[e] \in packet.nodes}) \subseteq packet.nodes \union removed
             \/ packet.nodes \subseteq Asked \union Sources(A)
      BY <3>3 DEF AnswersFirst
    <3> HIDE DEF s, t, A, p
    <3>8. /\ p.nodes \subseteq packet.nodes /\ Within(packet.edges, p.nodes) \subseteq p.edges
          /\ Ends(packet.edges) \subseteq p.nodes \union removed' /\ removed \subseteq removed'
      BY <3>1, <3>4 DEF Shrinks
    <3>9. /\ Within(A, p.nodes) \subseteq p.edges
          /\ \/ Sources({e \in A : Target[e] \in p.nodes}) \subseteq p.nodes \union removed'
             \/ p.nodes \subseteq Asked \union Sources(A)
      BY <3>7, <3>8, AnswersRemain
    <3> QED BY <3>5, <3>6, <3>9 DEF AnswersFirst, p
  <2>8. CASE PruneAnchors
    <3> DEFINE covered == Ends(packet.edges)
               safe    == {search.anchors[1]} \union (IF search.exact THEN ToSet(search.anchors) ELSE {})
               idle    == IF StartSet(search) \cap covered = {} THEN {}
                          ELSE StartSet(search) \ (covered \union safe)
               A == AnswersTo(Asked, Graph, search)
               p == packet'
    <3>1. /\ stage = "anchors" /\ stage' = "facets" /\ pruned' = idle
          /\ packet' = [packet EXCEPT !.nodes = @ \ idle]
          /\ search' = [search EXCEPT !.starts = Among(@, Nodes \ idle)] /\ removed' = removed
      BY <2>8 DEF PruneAnchors, Go
    <3>2. idle \subseteq StartSet(search) /\ idle \cap covered = {}
      OBVIOUS
    <3> HIDE DEF idle
    <3>3. p.nodes = packet.nodes \ idle /\ p.edges = packet.edges
      BY <2>1, <3>1 DEF Packets
    <3>4. /\ search'.class = search.class /\ search'.scope = search.scope /\ search'.asks = search.asks
          /\ search'.expired = search.expired /\ search'.starts = Among(search.starts, Nodes \ idle)
          /\ search.starts \in Seq(Nodes)
      BY <2>1, <3>1 DEF SearchRequests
    <3> SUFFICES ASSUME search.class = "reverse_lookup" PROVE AnswersFirst'
      BY <1>2, <2>8, <3>1, <3>4 DEF Told, PruneAnchors
    <3>5. StartSet(search') = StartSet(search) \ idle
      <4>1. StartSet(search) \subseteq Nodes
        BY <3>4, StartsAre
      <4>2. ToSet(search'.starts) = ToSet(search.starts) \cap (Nodes \ idle)
        BY <3>4, AmongIs
      <4> QED BY <4>1, <4>2 DEF StartSet
    <3>6. pruned = {} /\ AnswersFirst
      BY <1>2, <3>1 DEF Told, Early, AskedWell
    <3>7. Asked' = Asked
      BY <3>1, <3>2, <3>5, <3>6 DEF Asked, StartSet
    <3>8. AnswersTo(Asked', Graph', search') = A
      BY <3>4, <3>7 DEF AnswersTo, Graph, InForce, ReverseRelations
    <3>9. /\ Within(A, packet.nodes) \subseteq packet.edges
          /\ \/ Sources({e \in A : Target[e] \in packet.nodes}) \subseteq packet.nodes \union removed
             \/ packet.nodes \subseteq Asked \union Sources(A)
      BY <3>6 DEF AnswersFirst
    <3> HIDE DEF A, p
    <3>10. /\ p.nodes \subseteq packet.nodes /\ Within(packet.edges, p.nodes) \subseteq p.edges
           /\ Ends(packet.edges) \subseteq p.nodes \union removed'
      <4>1. Within(packet.edges, p.nodes) \subseteq packet.edges
        BY DEF Within
      <4> QED BY <2>1, <3>2, <3>3, <4>1
    <3>11. removed \subseteq removed'
      BY <3>1
    <3>12. /\ Within(A, p.nodes) \subseteq p.edges
           /\ \/ Sources({e \in A : Target[e] \in p.nodes}) \subseteq p.nodes \union removed'
              \/ p.nodes \subseteq Asked \union Sources(A)
      BY <3>9, <3>10, <3>11, AnswersRemain
    <3> QED BY <3>7, <3>8, <3>12 DEF AnswersFirst, p
  <2>9. ASSUME UNCHANGED <<search, packet, removed, pruned>>, stage \notin Early, receipt' \in Receipts,
               stage' \notin {"documents", "finish", "done"}
                 \/ (stage' # "done" /\ search.class = "reverse_lookup"
                      => receipt'.omitted = Omitted(Graph, search, packet)),
               stage' = "done" /\ search.class = "reverse_lookup" /\ receipt'.complete
                 => Sources(Answers(Graph, search)) \subseteq packet.nodes
        PROVE  Told'
    BY <1>2, <2>6, <2>9 DEF Told, Graph
  <2>10. CASE JudgeFacets
    <3>1. PICK lacking \in BOOLEAN :
            receipt' = Abstained \/ receipt' = [receipt EXCEPT !.status = IF lacking THEN "incomplete" ELSE @]
      BY <2>10 DEF JudgeFacets
    <3>2. receipt' \in Receipts
      BY <1>2, <3>1 DEF Told, Receipts, Abstained
    <3>3. stage = "facets" /\ stage' = "evidence" /\ UNCHANGED <<search, packet, removed, pruned>>
      BY <2>10 DEF JudgeFacets, Go
    <3> QED BY <2>9, <3>2, <3>3 DEF Early
  <2>11. CASE JudgeEvidence
    <3> DEFINE omitted == IF search.class = "reverse_lookup" THEN Omitted(Graph, search, packet) ELSE {}
    <3>1. PICK judged \in {receipt, Abstained} : receipt' = [judged EXCEPT !.omitted = omitted]
      BY <2>11 DEF JudgeEvidence
    <3>2. omitted \subseteq Nodes
      BY <2>1, OmittedAreNodes
    <3>3. judged \in Receipts
      BY <1>2 DEF Told, Receipts, Abstained
    <3> HIDE DEF omitted
    <3>4. receipt' \in Receipts /\ receipt'.omitted = omitted
      BY <3>1, <3>2, <3>3 DEF Receipts
    <3>5. stage = "evidence" /\ stage' = "documents" /\ UNCHANGED <<search, packet, removed, pruned>>
      BY <2>11 DEF JudgeEvidence, Go
    <3> QED BY <2>9, <3>4, <3>5 DEF Early, omitted
  <2>12. CASE JudgeDocuments
    <3>1. PICK clipped \in BOOLEAN :
            receipt' = [receipt EXCEPT !.status = IF clipped /\ @ = "answerable" THEN "partial" ELSE @]
      BY <2>12 DEF JudgeDocuments
    <3>2. receipt' \in Receipts /\ receipt'.omitted = receipt.omitted
      <4>1. receipt \in Receipts
        BY <1>2 DEF Told
      <4> DEFINE status == IF clipped /\ receipt.status = "answerable" THEN "partial" ELSE receipt.status
      <4>2. status \in {"answerable", "incomplete", "partial", "unanswerable"}
        BY <4>1 DEF Receipts
      <4>3. receipt' = [receipt EXCEPT !.status = status]
        BY <3>1
      <4> HIDE DEF status
      <4> QED BY <4>1, <4>2, <4>3 DEF Receipts
    <3>3. stage = "documents" /\ stage' = "finish" /\ UNCHANGED <<search, packet, removed, pruned>>
      BY <2>12 DEF JudgeDocuments, Go
    <3> QED BY <1>2, <2>9, <3>2, <3>3 DEF Early, Told
  <2>13. CASE Conclude
    <3>1. /\ stage = "finish" /\ stage' = "done" /\ removed' = removed /\ pruned' = pruned
          /\ receipt \in Receipts
      BY <1>2, <2>13 DEF Conclude, Go, Told
    <3>2. CASE receipt' = Recorded(receipt, search.starts, packet) /\ UNCHANGED <<search, packet>>
      <4>1. receipt' \in Receipts /\ (receipt'.complete => receipt.omitted = {})
        BY <3>1, <3>2, RecordedIs
      <4>2. search.class = "reverse_lookup" => receipt.omitted = Omitted(Graph, search, packet)
        BY <1>2, <3>1 DEF Told
      <4>3. search.class = "reverse_lookup" /\ receipt'.complete
              => Sources(Answers(Graph, search)) \subseteq packet.nodes
        BY <4>1, <4>2, NobodyOmitted
      <4> QED BY <2>9, <3>1, <3>2, <4>1, <4>3 DEF Early
    <3>3. CASE /\ packet' = Empty /\ search' = [search EXCEPT !.starts = <<>>]
               /\ receipt' = Recorded([receipt EXCEPT !.status = "unanswerable", !.abstained = TRUE], <<>>, Empty)
      <4> DEFINE r == [receipt EXCEPT !.status = "unanswerable", !.abstained = TRUE]
      <4>1. r \in Receipts /\ r.status = "unanswerable"
        BY <3>1 DEF Receipts
      <4>2. receipt' = Recorded(r, <<>>, Empty)
        BY <3>3
      <4> HIDE DEF r
      <4>3. receipt' \in Receipts /\ ~ receipt'.complete
        BY <4>1, <4>2, RecordedIs
      <4>4. packet'.nodes = {}
        BY <3>3 DEF Empty
      <4>5. AnswersFirst'
        BY <4>4 DEF AnswersFirst, Within
      <4> QED BY <3>1, <4>3, <4>5 DEF Told
    <3> QED BY <2>13, <3>2, <3>3 DEF Conclude
  <2>14. CASE UNCHANGED searchVars
    BY <1>2, <2>6, <2>14 DEF searchVars, Told, Graph, Early
  <2> QED BY <1>2, <2>3, <2>4, <2>5, <2>7, <2>8, <2>10, <2>11, <2>12, <2>13, <2>14 DEF SearchNext
<1> QED BY <1>1, <1>2

\* A reverse lookup gives its budget to direct answers first, and says what it
\* lacks (DirectAnswersFirst).
THEOREM DirectAnswersFirstHolds == SearchSpec => []DirectAnswersFirst
<1>1. AskedWell /\ Told => DirectAnswersFirst
  <2> SUFFICES ASSUME Told, Delivered, search.class = "reverse_lookup" PROVE DirectAnswersFirst
    BY DEF DirectAnswersFirst
  <2> DEFINE A == AnswersTo(Asked, Graph, search)
             shown == {e \in Answers(Graph, search) : Target[e] \in packet.nodes}
  <2>1. stage = "done"
    BY DEF Delivered
  <2>2. AnswersFirst
    BY <2>1 DEF Told, Early
  <2>3. shown \subseteq {e \in A : Target[e] \in packet.nodes}
    BY DEF Answers, AnswersTo, Asked
  <2>4. \/ {Source[e] : e \in shown} \ packet.nodes \subseteq removed
        \/ packet.nodes \subseteq Asked \union {Source[e] : e \in A}
    <3> HIDE DEF shown
    <3> QED BY <2>2, <2>3 DEF AnswersFirst, Sources
  <2>5. receipt.complete => {Source[e] : e \in Answers(Graph, search)} \subseteq packet.nodes
    BY <2>1 DEF Told, Sources
  <2> QED BY <2>4, <2>5 DEF DirectAnswersFirst
<1> QED BY <1>1, AskedWellHolds, SoundHolds, ToldHolds, PTL DEF SearchSpec
=============================================================================
