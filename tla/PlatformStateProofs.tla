---------------------- MODULE PlatformStateProofs ----------------------
(***************************************************************************)
(* Proofs about FileLock and StateFiles, the platform's state beside the   *)
(* graph, for every set of processes, files, rows and crashes.             *)
(*                                                                         *)
(* FileLock.  Mutual exclusion is not inductive: nothing in it says that   *)
(* contenders contend for the same inode.  The strengthening, LockInv,     *)
(* says that every open descriptor is of the one rendezvous file (which is *)
(* true because nobody ever removes it), and that the kernel's lock table  *)
(* and the contenders' program counters agree about who is inside.         *)
(*                                                                         *)
(* StateFiles.  What a reader, a crash or a migration may find in a        *)
(* journal is not inductive either: halfway through an append the journal  *)
(* cannot be read.  IInv says of a journal that nobody writes that it is   *)
(* Settled: each crash accounts for an acknowledged row, not a split one,  *)
(* without an ended line, or for the dangling line that will spoil the     *)
(* next one, and without crashes and split rows it can be read; and of one *)
(* that is written, that it would be Settled with what is yet to come.  A  *)
(* crash there turns Partly into Settled with one crash more.  What the    *)
(* text operators, which are recursive functions, compute for every text   *)
(* is proved first, by induction along the sequence.                       *)
(***************************************************************************)
EXTENDS FileLock, StateFiles, FiniteSetTheorems, SequenceTheorems, WellFoundedInduction, TLAPS

\* Every open descriptor is of the rendezvous file.
OneInode ==
  \A p \in Procs :
    IF pc[p] \in Opened
    THEN descriptor[p] = rendezvous /\ rendezvous \in Inodes
    ELSE descriptor[p] = NoInode

\* Who is between acquisition and release owns the inode it has open.
InsideOwns == \A p \in Procs : pc[p] \in Locked => owner[descriptor[p]] = p

\* Who owns an inode is between acquisition and release and has that inode open.
OwnerInside ==
  \A i \in Inodes : owner[i] # NoProc => pc[owner[i]] \in Locked /\ descriptor[owner[i]] = i

\* Whoever runs the body has stamped the inode it has open.
CriticalStamped == \A p \in Procs : pc[p] = "critical" => stamp[descriptor[p]] = p

LockInv == LockTypeOK /\ OneInode /\ InsideOwns /\ OwnerInside /\ CriticalStamped

-----------------------------------------------------------------------------
\* The initial state satisfies the inductive invariant.
LEMMA LockInitInv == LockInit => LockInv
BY TimeoutAssumption
   DEF LockInit, LockInv, LockTypeOK, OneInode, InsideOwns, OwnerInside, CriticalStamped, Opened, Locked

\* Every step of every contender preserves the inductive invariant.
LEMMA LockStepInv == LockInv /\ [LockNext]_lockVars => LockInv'
<1> SUFFICES ASSUME LockInv, [LockNext]_lockVars PROVE LockInv'
  OBVIOUS
<1> USE ContenderAssumption, InodeAssumption, TimeoutAssumption
    DEF LockInv, LockTypeOK, OneInode, InsideOwns, OwnerInside, CriticalStamped, Opened, Locked, Goto
<1>1. ASSUME NEW p \in Procs, Start(p) PROVE LockInv'
  BY <1>1 DEF Start
<1>2. ASSUME NEW p \in Procs, Open(p) PROVE LockInv'
  <2>1. PICK i \in Inodes :
          /\ IF rendezvous = NoInode THEN Unused(i) ELSE i = rendezvous
          /\ rendezvous' = i
          /\ descriptor' = [descriptor EXCEPT ![p] = i]
          /\ stamp' = IF rendezvous = NoInode THEN [stamp EXCEPT ![i] = NoProc] ELSE stamp
    BY <1>2 DEF Open
  <2>2. CASE rendezvous = NoInode
    BY <1>2, <2>1, <2>2 DEF Open
  <2>3. CASE rendezvous # NoInode
    BY <1>2, <2>1, <2>3 DEF Open
  <2> QED BY <2>2, <2>3
<1>3. ASSUME NEW p \in Procs, OpenDenied(p) PROVE LockInv'
  BY <1>3 DEF OpenDenied
<1>4. ASSUME NEW p \in Procs, Acquire(p) PROVE LockInv'
  BY <1>4 DEF Acquire
<1>5. ASSUME NEW p \in Procs, Sleep(p) PROVE LockInv'
  BY <1>5 DEF Sleep
<1>6. ASSUME NEW p \in Procs, Expire(p) PROVE LockInv'
  BY <1>6 DEF Expire
<1>7. ASSUME NEW p \in Procs, Stamp(p) PROVE LockInv'
  BY <1>7 DEF Stamp
<1>8. ASSUME NEW p \in Procs, StampFails(p) PROVE LockInv'
  BY <1>8 DEF StampFails
<1>9. ASSUME NEW p \in Procs, Leave(p) PROVE LockInv'
  BY <1>9 DEF Leave
<1>10. ASSUME NEW p \in Procs, Unlock(p) PROVE LockInv'
  BY <1>10 DEF Unlock
<1>11. ASSUME NEW p \in Procs, Close(p) PROVE LockInv'
  BY <1>11 DEF Close
<1>12. ASSUME NEW p \in Procs, Vanish(p) PROVE LockInv'
  BY <1>12 DEF Vanish
<1>13. CASE UNCHANGED lockVars
  BY <1>13 DEF lockVars
<1> QED
  BY <1>1, <1>2, <1>3, <1>4, <1>5, <1>6, <1>7, <1>8, <1>9, <1>10, <1>11, <1>12, <1>13
  DEF LockNext, LockStep

\* The inductive invariant holds throughout.
THEOREM LockInvariant == LockSpec => []LockInv
<1>1. LockInit => LockInv BY LockInitInv
<1>2. LockInv /\ [LockNext]_lockVars => LockInv' BY LockStepInv
<1> QED BY <1>1, <1>2, PTL DEF LockSpec

-----------------------------------------------------------------------------
\* The state of the lock stays well formed: in particular no contender's wait
\* outlasts its timeout.
THEOREM LockTypeCorrect == LockSpec => []LockTypeOK
<1>1. LockInv => LockTypeOK BY DEF LockInv
<1> QED BY <1>1, LockInvariant, PTL

\* No two contenders of file_lock are ever inside together.
THEOREM MutualExclusionHolds == LockSpec => []MutualExclusion
<1>1. LockInv => MutualExclusion
  BY DEF LockInv, OneInode, InsideOwns, MutualExclusion, Inside, Opened, Locked
<1> QED BY <1>1, LockInvariant, PTL

\* The rendezvous file names the contender whose body is running.
THEOREM StampNamesHolderHolds == LockSpec => []StampNamesHolder
<1>1. LockInv => StampNamesHolder
  BY InodeAssumption
     DEF LockInv, OneInode, CriticalStamped, StampNamesHolder, Opened, Locked
<1> QED BY <1>1, LockInvariant, PTL

\* Timeouts, failures and deaths leave no lock without an owner inside.
THEOREM NoAbandonedLockHolds == LockSpec => []NoAbandonedLock
<1>1. LockInv => NoAbandonedLock
  BY DEF LockInv, LockTypeOK, OwnerInside, NoAbandonedLock, Inside
<1> QED BY <1>1, LockInvariant, PTL

-----------------------------------------------------------------------------
\* A step changes who is inside by at most the contender that takes it, and one
\* enters only an empty mutex.
LEMMA StepImplementsMutex == LockInv /\ [LockNext]_lockVars => [M!Next]_Inside
<1> SUFFICES ASSUME LockInv, [LockNext]_lockVars, Inside' # Inside PROVE M!Next
  OBVIOUS
<1> USE DEF Inside, Locked, Goto, LockInv, LockTypeOK
<1>1. PICK p \in Procs : LockStep(p)
  BY DEF LockNext, lockVars
<1>2. CASE Acquire(p)
  <2>1. Inside = {}
    BY <1>2, ContenderAssumption DEF Acquire, OneInode, InsideOwns, Opened
  <2>2. Inside' = {p}
    BY <1>2, <2>1 DEF Acquire
  <2> QED BY <2>1, <2>2 DEF M!Next, M!Enter
<1>3. CASE Unlock(p)
  <2>1. p \in Inside /\ Inside' = Inside \ {p}
    BY <1>3 DEF Unlock
  <2> QED BY <2>1 DEF M!Next, M!Leave
<1>4. CASE Vanish(p)
  <2>1. p \in Inside /\ Inside' = Inside \ {p}
    BY <1>4 DEF Vanish
  <2> QED BY <2>1 DEF M!Next, M!Leave
<1>5. CASE Start(p) \/ Open(p) \/ OpenDenied(p) \/ Sleep(p) \/ Expire(p) \/ Close(p)
  BY <1>5 DEF Start, Open, OpenDenied, Sleep, Expire, Close
<1>6. CASE Stamp(p) \/ StampFails(p) \/ Leave(p)
  BY <1>6 DEF Stamp, StampFails, Leave
<1> QED BY <1>1, <1>2, <1>3, <1>4, <1>5, <1>6 DEF LockStep

\* file_lock implements the abstract mutex.
THEOREM MutexRefinement == LockSpec => ImplementsMutex
<1>1. LockInit => M!Init
  BY DEF LockInit, M!Init, Inside, Locked
<1>2. LockInv /\ [LockNext]_lockVars => [M!Next]_Inside
  BY StepImplementsMutex
<1> QED BY <1>1, <1>2, LockInvariant, PTL DEF LockSpec, ImplementsMutex, M!Spec
-----------------------------------------------------------------------------
(* Recursion along a sequence *)

\* A set that has 0 and the successors of its numbers has them all: induction for a
\* set, from the well-foundedness of <.
LEMMA SetInduction ==
  ASSUME NEW S, 0 \in S, \A n \in Nat : n \in S => n + 1 \in S
  PROVE  Nat \subseteq S
<1> SUFFICES ASSUME Nat \ S # {} PROVE FALSE
  OBVIOUS
<1> DEFINE Less == OpToRel(<, Nat)
<1>1. PICK least \in Nat \ S : \A n \in Nat \ S : ~ (<<n, least>> \in Less)
  <2>1. Nat \ S \subseteq Nat
    OBVIOUS
  <2> HIDE DEF Less
  <2>2. IsWellFoundedOn(Less, Nat)
    BY NatLessThanWellFounded DEF Less
  <2> QED BY <2>1, <2>2, WFMin
<1>2. least - 1 \in Nat /\ least = (least - 1) + 1
  OBVIOUS
<1>3. least - 1 \notin S
  BY <1>2
<1>4. <<least - 1, least>> \in Less
  BY <1>2 DEF OpToRel
<1> QED BY <1>1, <1>2, <1>3, <1>4

\* The values of a recursive function: what it starts with, and one step for each index.
Runs(g, s, F, n) ==
  /\ DOMAIN g = 0 .. n
  /\ g = [i \in 0 .. n |-> IF i = 0 THEN s ELSE F[<<i, g[i - 1]>>]]

\* There is such a function, with its values where the steps stay.
LEMMA Recursion ==
  ASSUME NEW S, NEW s \in S, NEW n \in Nat, NEW F \in [(1 .. n) \X S -> S]
  PROVE  \E g \in [0 .. n -> S] : Runs(g, s, F, n)
<1> DEFINE Begins(h, m) == /\ h \in [0 .. m -> S] /\ h[0] = s
                           /\ \A i \in 1 .. m : h[i] = F[<<i, h[i - 1]>>]
           Has == {m \in Nat : m <= n => \E h : Begins(h, m)}
<1>1. 0 \in Has
  <2>1. Begins([i \in 0 .. 0 |-> s], 0)
    OBVIOUS
  <2> QED BY <2>1
<1>2. ASSUME NEW m \in Nat, m \in Has PROVE m + 1 \in Has
  <2> SUFFICES ASSUME m + 1 <= n PROVE \E h : Begins(h, m + 1)
    OBVIOUS
  <2>1. PICK h : Begins(h, m)
    BY <1>2
  <2> DEFINE last   == F[<<m + 1, h[m]>>]
             longer == [i \in 0 .. m + 1 |-> IF i = m + 1 THEN last ELSE h[i]]
  <2>2. last \in S
    <3>1. h[m] \in S /\ m + 1 \in 1 .. n
      BY <2>1
    <3> QED BY <3>1
  <2>3. longer \in [0 .. m + 1 -> S] /\ longer[0] = s
    <3> HIDE DEF last
    <3> QED BY <2>1, <2>2
  <2>4. ASSUME NEW i \in 1 .. m + 1 PROVE longer[i] = F[<<i, longer[i - 1]>>]
    <3>1. CASE i = m + 1
      <4>1. i \in 0 .. m + 1 /\ i - 1 \in 0 .. m + 1 /\ i - 1 # m + 1 /\ i - 1 = m
        BY <3>1
      <4> HIDE DEF last
      <4>2. longer[i] = last /\ longer[i - 1] = h[m]
        BY <3>1, <4>1
      <4> QED BY <3>1, <4>2 DEF last
    <3>2. CASE i # m + 1
      <4>1. i \in 1 .. m /\ i - 1 \in 0 .. m /\ i - 1 # m + 1 /\ i \in 0 .. m + 1 /\ i - 1 \in 0 .. m + 1
        BY <3>2
      <4> HIDE DEF last
      <4> QED BY <2>1, <3>2, <4>1
    <3> QED BY <3>1, <3>2
  <2> HIDE DEF longer
  <2> QED BY <2>3, <2>4
<1>3. PICK g : Begins(g, n)
  <2> HIDE DEF Has
  <2>1. Nat \subseteq Has
    BY <1>1, <1>2, SetInduction
  <2> QED BY <2>1 DEF Has
<1>4. ASSUME NEW i \in 0 .. n PROVE g[i] = IF i = 0 THEN s ELSE F[<<i, g[i - 1]>>]
  BY <1>3
<1> QED BY <1>3, <1>4 DEF Runs

-----------------------------------------------------------------------------
(* The text of a journal *)

\* What the tokens are.
LEMMA TokenFacts ==
  /\ Newline \in Tokens /\ Newline.part = "newline" /\ Newline.row = NoRow /\ NoRow \notin Rows
  /\ \A c \in Tokens : c # Newline => c.row \in Rows /\ c.part \in {"head", "tail", "rest"}
  /\ \A r, v : Token(r, "head", v) # Newline /\ Token(r, "tail", v) # Newline /\ Token(r, "rest", v) # Newline
  /\ \A r, v : Token(r, "head", v).row = r /\ Token(r, "head", v).part = "head" /\ Token(r, "head", v).version = v
  /\ \A r, v : Token(r, "tail", v).row = r /\ Token(r, "tail", v).part = "tail"
  /\ \A r, v : Token(r, "rest", v).row = r /\ Token(r, "rest", v).part = "rest"
  /\ \A r : Second(r) \in {"tail", "rest"} /\ (r \notin Split => Second(r) = "tail")
  /\ \A r \in Rows : \A v \in 1 .. Current : Token(r, "head", v) \in Tokens /\ Token(r, Second(r), v) \in Tokens
<1>1. NoRow \notin Rows
  BY NameAssumption, RowAssumption DEF NoRow
<1> QED BY <1>1 DEF Newline, Tokens, Token, Second

\* A row is three tokens.
LinedIs(l, row, v) ==
  /\ l \in Seq(Tokens) /\ Len(l) = 3
  /\ l[1] = Token(row, "head", v) /\ l[2] = Token(row, Second(row), v) /\ l[3] = Newline

LEMMA LinedFacts == ASSUME NEW row \in Rows, NEW v \in 1 .. Current PROVE LinedIs(Lined(row, v), row, v)
<1>1. Token(row, "head", v) \in Tokens /\ Token(row, Second(row), v) \in Tokens /\ Newline \in Tokens
  BY TokenFacts
<1> QED BY <1>1 DEF Lined, LinedIs

\* A text is the first m of some rows, three tokens each.
TextIs(t, rows, v, m) ==
  /\ t \in Seq(Tokens) /\ Len(t) = 3 * m
  /\ \A k \in 1 .. m : /\ t[3 * k - 2] = Token(rows[k], "head", v)
                       /\ t[3 * k - 1] = Token(rows[k], Second(rows[k]), v)
                       /\ t[3 * k] = Newline

\* One more row.
LEMMA RowAdded ==
  ASSUME NEW rows \in Seq(Rows), NEW v \in 1 .. Current, NEW m \in Nat, m + 1 <= Len(rows),
         NEW t, TextIs(t, rows, v, m)
  PROVE  TextIs(t \o Lined(rows[m + 1], v), rows, v, m + 1)
<1> DEFINE l == Lined(rows[m + 1], v)
<1>1. rows[m + 1] \in Rows
  BY ElementOfSeq, LenProperties
<1>2. LinedIs(l, rows[m + 1], v)
  BY <1>1, LinedFacts
<1> HIDE DEF l
<1>3. t \in Seq(Tokens) /\ Len(t) = 3 * m /\ l \in Seq(Tokens) /\ Len(l) = 3
  BY <1>2 DEF TextIs, LinedIs
<1>4. /\ t \o l \in Seq(Tokens) /\ Len(t \o l) = 3 * (m + 1)
      /\ \A i \in 1 .. 3 * (m + 1) : (t \o l)[i] = IF i <= 3 * m THEN t[i] ELSE l[i - 3 * m]
  <2>1. Len(t) + Len(l) = 3 * (m + 1)
    BY <1>3
  <2>2. /\ t \o l \in Seq(Tokens) /\ Len(t \o l) = Len(t) + Len(l)
        /\ \A i \in 1 .. Len(t) + Len(l) : (t \o l)[i] = IF i <= Len(t) THEN t[i] ELSE l[i - Len(t)]
    BY <1>3, ConcatProperties
  <2> QED BY <1>3, <2>1, <2>2
<1>5. ASSUME NEW k \in 1 .. m + 1
      PROVE  /\ (t \o l)[3 * k - 2] = Token(rows[k], "head", v)
             /\ (t \o l)[3 * k - 1] = Token(rows[k], Second(rows[k]), v)
             /\ (t \o l)[3 * k] = Newline
  <2>1. 3 * k - 2 \in 1 .. 3 * (m + 1) /\ 3 * k - 1 \in 1 .. 3 * (m + 1) /\ 3 * k \in 1 .. 3 * (m + 1)
    OBVIOUS
  <2>2. CASE k <= m
    <3>1. k \in 1 .. m /\ 3 * k - 2 <= 3 * m /\ 3 * k - 1 <= 3 * m /\ 3 * k <= 3 * m
      BY <2>2
    <3> QED BY <1>4, <2>1, <3>1 DEF TextIs
  <2>3. CASE k = m + 1
    <3>1. /\ ~(3 * k - 2 <= 3 * m) /\ ~(3 * k - 1 <= 3 * m) /\ ~(3 * k <= 3 * m)
          /\ 3 * k - 2 - 3 * m = 1 /\ 3 * k - 1 - 3 * m = 2 /\ 3 * k - 3 * m = 3
      BY <2>3
    <3> QED BY <1>2, <1>4, <2>1, <2>3, <3>1 DEF LinedIs
  <2>4. k <= m \/ k = m + 1
    OBVIOUS
  <2> QED BY <2>2, <2>3, <2>4
<1>6. t \o l \in Seq(Tokens) /\ Len(t \o l) = 3 * (m + 1)
  BY <1>4
<1> QED BY <1>5, <1>6 DEF TextIs, l

\* The text of rows is all of them.
LEMMA TextFacts ==
  ASSUME NEW rows \in Seq(Rows), NEW v \in 1 .. Current
  PROVE  TextIs(TextOf(rows, v), rows, v, Len(rows))
<1> DEFINE n    == Len(rows)
           step == [x \in (1 .. n) \X Seq(Tokens) |-> x[2] \o Lined(rows[x[1]], v)]
           Upto(g) == g = [i \in 0 .. n |-> IF i = 0 THEN <<>> ELSE g[i - 1] \o Lined(rows[i], v)]
           upto == CHOOSE g : Upto(g)
<1>1. TextOf(rows, v) = upto[n]
  BY DEF TextOf
<1>2. n \in Nat /\ \A i \in 1 .. n : rows[i] \in Rows
  BY LenProperties, ElementOfSeq
<1>3. step \in [(1 .. n) \X Seq(Tokens) -> Seq(Tokens)]
  <2> SUFFICES ASSUME NEW x \in (1 .. n) \X Seq(Tokens) PROVE x[2] \o Lined(rows[x[1]], v) \in Seq(Tokens)
    OBVIOUS
  <2>1. x[1] \in 1 .. n /\ x[2] \in Seq(Tokens)
    OBVIOUS
  <2>2. Lined(rows[x[1]], v) \in Seq(Tokens)
    BY <1>2, <2>1, LinedFacts DEF LinedIs
  <2> QED BY <2>1, <2>2, ConcatProperties
<1>4. PICK g \in [0 .. n -> Seq(Tokens)] : Runs(g, <<>>, step, n)
  <2>1. <<>> \in Seq(Tokens)
    BY EmptySeq
  <2> HIDE DEF step
  <2> QED BY <1>2, <1>3, <2>1, Recursion
<1>5. Upto(g)
  <2> SUFFICES ASSUME NEW i \in 0 .. n PROVE g[i] = IF i = 0 THEN <<>> ELSE g[i - 1] \o Lined(rows[i], v)
    BY <1>4 DEF Runs
  <2>1. CASE i = 0
    BY <1>4, <2>1 DEF Runs
  <2>2. CASE i # 0
    <3>1. i \in 1 .. n /\ i - 1 \in 0 .. n /\ g[i - 1] \in Seq(Tokens)
      <4>1. i \in 1 .. n /\ i - 1 \in 0 .. n
        BY <1>2, <2>2
      <4> QED BY <4>1
    <3>2. g[i] = step[<<i, g[i - 1]>>]
      <4> HIDE DEF step
      <4> QED BY <1>4, <2>2, <3>1 DEF Runs
    <3>3. <<i, g[i - 1]>> \in (1 .. n) \X Seq(Tokens)
      BY <3>1
    <3> QED BY <2>2, <3>2, <3>3
  <2> QED BY <2>1, <2>2
<1>6. Upto(upto)
  <2> HIDE DEF Upto
  <2> QED BY <1>5
<1> HIDE DEF upto
<1> DEFINE Good == {m \in Nat : m <= n => TextIs(upto[m], rows, v, m)}
<1>7. 0 \in Good
  <2>1. upto[0] = <<>>
    <3>1. 0 \in 0 .. n
      BY <1>2
    <3> QED BY <1>6, <3>1
  <2>2. <<>> \in Seq(Tokens) /\ Len(<<>>) = 0
    BY EmptySeq
  <2>3. 3 * 0 = 0 /\ 1 .. 0 = {}
    OBVIOUS
  <2>4. TextIs(upto[0], rows, v, 0)
    BY <2>1, <2>2, <2>3 DEF TextIs
  <2> QED BY <2>4
<1>8. ASSUME NEW m \in Nat, m \in Good PROVE m + 1 \in Good
  <2> SUFFICES ASSUME m + 1 <= n PROVE TextIs(upto[m + 1], rows, v, m + 1)
    OBVIOUS
  <2>1. m + 1 \in 0 .. n /\ m + 1 # 0 /\ (m + 1) - 1 = m /\ TextIs(upto[m], rows, v, m)
    BY <1>2, <1>8
  <2>2. upto[m + 1] = upto[m] \o Lined(rows[m + 1], v)
    BY <1>6, <2>1
  <2> QED BY <2>1, <2>2, RowAdded
<1>9. Nat \subseteq Good
  <2> HIDE DEF Good
  <2> QED BY <1>7, <1>8, SetInduction
<1> QED BY <1>1, <1>2, <1>9

-----------------------------------------------------------------------------
(* What is read of a text *)

\* The elements of a sequence after one more.
LEMMA RangeOfAppend ==
  ASSUME NEW S, NEW s \in Seq(S), NEW x \in S
  PROVE  Append(s, x) \in Seq(S) /\ Range(Append(s, x)) = Range(s) \union {x}
<1> DEFINE a == Append(s, x)
<1>1. Len(s) \in Nat /\ DOMAIN s = 1 .. Len(s)
  BY LenProperties
<1>2. /\ a \in Seq(S) /\ Len(a) = Len(s) + 1 /\ a[Len(s) + 1] = x
      /\ \A i \in 1 .. Len(s) : a[i] = s[i]
  BY AppendProperties
<1> HIDE DEF a
<1>3. DOMAIN a = 1 .. Len(s) + 1
  BY <1>2, LenProperties
<1>4. \A i : i \in DOMAIN a <=> i \in DOMAIN s \/ i = Len(s) + 1
  BY <1>1, <1>3
<1>5. Range(a) = Range(s) \union {x}
  BY <1>1, <1>2, <1>4 DEF Range
<1> QED BY <1>2, <1>5 DEF a

\* The first token of a line is of a row.
LEMMA StartFacts ==
  ASSUME NEW t \in Seq(Tokens), NEW i \in Starts(t)
  PROVE  i \in 1 .. Len(t) /\ t[i] \in Tokens /\ t[i] # Newline /\ t[i].row \in Rows
<1>1. i \in 1 .. Len(t) /\ t[i] # Newline
  BY LenProperties DEF Starts
<1>2. t[i] \in Tokens
  BY <1>1, ElementOfSeq
<1> QED BY <1>1, <1>2, TokenFacts

\* The rows read are those that the lines start with.
LEMMA RowsOfFacts ==
  ASSUME NEW t \in Seq(Tokens)
  PROVE  RowsOf(t) \in Seq(Rows) /\ Range(RowsOf(t)) = {t[i].row : i \in Starts(t)}
<1> DEFINE n    == Len(t)
           Next1(i, rows) == IF i \in Starts(t) THEN Append(rows, t[i].row) ELSE rows
           step == [x \in (1 .. n) \X Seq(Rows) |-> Next1(x[1], x[2])]
           Upto(g) == g = [i \in 0 .. n |-> IF i = 0 THEN <<>>
                                           ELSE IF i \in Starts(t) THEN Append(g[i - 1], t[i].row) ELSE g[i - 1]]
           upto == CHOOSE g : Upto(g)
<1>1. RowsOf(t) = upto[n]
  BY DEF RowsOf
<1>2. n \in Nat /\ Starts(t) \subseteq 1 .. n
  BY LenProperties, StartFacts
<1>3. \A i \in 1 .. n : \A rows \in Seq(Rows) : Next1(i, rows) \in Seq(Rows)
  BY StartFacts, RangeOfAppend
<1>4. step \in [(1 .. n) \X Seq(Rows) -> Seq(Rows)]
  <2> HIDE DEF Next1
  <2> QED BY <1>3
<1>5. PICK g \in [0 .. n -> Seq(Rows)] : Runs(g, <<>>, step, n)
  <2>1. <<>> \in Seq(Rows)
    BY EmptySeq
  <2> HIDE DEF step
  <2> QED BY <1>2, <1>4, <2>1, Recursion
<1>6. Upto(g)
  <2> SUFFICES ASSUME NEW i \in 0 .. n PROVE g[i] = IF i = 0 THEN <<>> ELSE Next1(i, g[i - 1])
    BY <1>5 DEF Runs
  <2>1. CASE i = 0
    BY <1>5, <2>1 DEF Runs
  <2>2. CASE i # 0
    <3>0. i \in 1 .. n /\ i - 1 \in 0 .. n
      BY <1>2, <2>2
    <3>1. i \in 1 .. n /\ i - 1 \in 0 .. n /\ g[i - 1] \in Seq(Rows)
      BY <3>0
    <3>2. g[i] = step[<<i, g[i - 1]>>]
      <4> HIDE DEF step
      <4> QED BY <1>5, <2>2, <3>1 DEF Runs
    <3>3. <<i, g[i - 1]>> \in (1 .. n) \X Seq(Rows)
      BY <3>1
    <3> HIDE DEF Next1
    <3> QED BY <2>2, <3>2, <3>3
  <2> QED BY <2>1, <2>2
<1>7. Upto(upto)
  <2> HIDE DEF Upto
  <2> QED BY <1>6
<1> HIDE DEF upto
<1> DEFINE Before(m) == {i \in Starts(t) : i <= m}
           Is(rows, m) == rows \in Seq(Rows) /\ Range(rows) = {t[i].row : i \in Before(m)}
           Good == {m \in Nat : m <= n => Is(upto[m], m)}
<1>8. 0 \in Good
  <2>1. upto[0] = <<>>
    <3>1. 0 \in 0 .. n
      BY <1>2
    <3> QED BY <1>7, <3>1
  <2>2. <<>> \in Seq(Rows) /\ Range(<<>>) = {}
    BY EmptySeq DEF Range
  <2>3. Before(0) = {}
    BY <1>2
  <2>4. Is(upto[0], 0)
    <3> HIDE DEF Before
    <3> QED BY <2>1, <2>2, <2>3
  <2> QED BY <2>4
<1>9. ASSUME NEW m \in Nat, m \in Good PROVE m + 1 \in Good
  <2> SUFFICES ASSUME m + 1 <= n PROVE Is(upto[m + 1], m + 1)
    OBVIOUS
  <2>1. m + 1 \in 0 .. n /\ m + 1 # 0 /\ (m + 1) - 1 = m /\ Is(upto[m], m)
    <3>1. m + 1 \in 0 .. n /\ m + 1 # 0 /\ (m + 1) - 1 = m /\ m <= n
      BY <1>2
    <3> HIDE DEF Is
    <3> QED BY <1>9, <3>1
  <2>2. upto[m + 1] = Next1(m + 1, upto[m])
    BY <1>7, <2>1
  <2>3. CASE m + 1 \in Starts(t)
    <3>1. Before(m + 1) = Before(m) \union {m + 1}
      BY <1>2, <2>3
    <3>2. t[m + 1].row \in Rows
      BY <2>3, StartFacts
    <3>3. upto[m + 1] = Append(upto[m], t[m + 1].row)
      BY <2>2, <2>3
    <3>4. upto[m] \in Seq(Rows) /\ Range(upto[m]) = {t[i].row : i \in Before(m)}
      BY <2>1
    <3>5. upto[m + 1] \in Seq(Rows) /\ Range(upto[m + 1]) = Range(upto[m]) \union {t[m + 1].row}
      BY <3>2, <3>3, <3>4, RangeOfAppend
    <3> HIDE DEF Before
    <3> QED BY <3>1, <3>4, <3>5
  <2>4. CASE m + 1 \notin Starts(t)
    <3>1. Before(m + 1) = Before(m)
      BY <1>2, <2>4
    <3>2. upto[m + 1] = upto[m]
      BY <2>2, <2>4
    <3> HIDE DEF Before
    <3> QED BY <2>1, <3>1, <3>2
  <2> QED BY <2>3, <2>4
<1>10. Is(upto[n], n)
  <2>1. Nat \subseteq Good
    <3> HIDE DEF Good
    <3> QED BY <1>8, <1>9, SetInduction
  <2>2. n \in Good
    <3> HIDE DEF Good
    <3> QED BY <1>2, <2>1
  <2>3. n <= n => Is(upto[n], n)
    <3> HIDE DEF Is
    <3> QED BY <2>2
  <2> HIDE DEF Is
  <2> QED BY <1>2, <2>3
<1>11. Before(n) = Starts(t)
  BY <1>2
<1> HIDE DEF Before
<1> QED BY <1>1, <1>10, <1>11

\* A node for each episode, active unless some episode supersedes it.
LEMMA ProjectedFacts ==
  ASSUME NEW episodes \in Seq(Rows)
  PROVE  Projected(episodes) =
           [id \in {e.id : e \in Range(episodes)} |-> id \notin {e.supersedes : e \in Range(episodes)}]
<1> DEFINE n    == Len(episodes)
           out  == {e.supersedes : e \in Range(episodes)}
           Maps == UNION {[D -> BOOLEAN] : D \in SUBSET Ids}
           step == [x \in (1 .. n) \X Maps |-> Projection(out, x[2], episodes[x[1]])]
           Upto(g) == g = [i \in 0 .. n |-> IF i = 0 THEN <<>> ELSE Projection(out, g[i - 1], episodes[i])]
           upto == CHOOSE g : Upto(g)
<1>1. Projected(episodes) = upto[n]
  BY DEF Projected
<1>2. n \in Nat /\ DOMAIN episodes = 1 .. n /\ \A i \in 1 .. n : episodes[i] \in Rows
  BY LenProperties, ElementOfSeq
<1>3. \A i \in 1 .. n : episodes[i].id \in Ids /\ episodes[i].supersedes \in out
  <2>1. \A i \in 1 .. n : episodes[i].id \in Ids
    BY <1>2, RowAssumption
  <2>2. \A i \in 1 .. n : episodes[i] \in Range(episodes)
    BY <1>2 DEF Range
  <2> QED BY <2>1, <2>2
<1> HIDE DEF out
<1>4. ASSUME NEW i \in 1 .. n, NEW nodes \in Maps PROVE Projection(out, nodes, episodes[i]) \in Maps
  <2>1. PICK D \in SUBSET Ids : nodes \in [D -> BOOLEAN]
    OBVIOUS
  <2>2. D \union {episodes[i].id} \in SUBSET Ids /\ DOMAIN nodes = D
    BY <1>3, <2>1
  <2>3. Projection(out, nodes, episodes[i]) \in [D \union {episodes[i].id} -> BOOLEAN]
    BY <2>1, <2>2 DEF Projection, NodeOf
  <2> QED BY <2>2, <2>3
<1> HIDE DEF Maps
<1>5. step \in [(1 .. n) \X Maps -> Maps]
  <2> SUFFICES ASSUME NEW x \in (1 .. n) \X Maps PROVE Projection(out, x[2], episodes[x[1]]) \in Maps
    OBVIOUS
  <2> QED BY <1>4
<1>6. PICK g \in [0 .. n -> Maps] : Runs(g, <<>>, step, n)
  <2>1. <<>> \in Maps
    <3>1. <<>> \in [{} -> BOOLEAN]
      OBVIOUS
    <3> QED BY <3>1 DEF Maps
  <2> HIDE DEF step
  <2> QED BY <1>2, <1>5, <2>1, Recursion
<1>7. Upto(g)
  <2> SUFFICES ASSUME NEW i \in 0 .. n PROVE g[i] = IF i = 0 THEN <<>> ELSE Projection(out, g[i - 1], episodes[i])
    BY <1>6 DEF Runs
  <2>1. CASE i = 0
    BY <1>6, <2>1 DEF Runs
  <2>2. CASE i # 0
    <3>1. i \in 1 .. n /\ i - 1 \in 0 .. n /\ g[i - 1] \in Maps
      BY <1>2, <2>2
    <3>2. g[i] = step[<<i, g[i - 1]>>]
      <4> HIDE DEF step
      <4> QED BY <1>6, <2>2, <3>1 DEF Runs
    <3>3. <<i, g[i - 1]>> \in (1 .. n) \X Maps
      BY <3>1
    <3> QED BY <2>2, <3>2, <3>3
  <2> QED BY <2>1, <2>2
<1>8. Upto(upto)
  <2> HIDE DEF Upto
  <2> QED BY <1>7
<1> HIDE DEF upto
<1> DEFINE Named(m) == {episodes[i].id : i \in 1 .. m}
           Good == {m \in Nat : m <= n => upto[m] = [id \in Named(m) |-> id \notin out]}
<1>9. 0 \in Good
  <2>1. upto[0] = <<>>
    <3>1. 0 \in 0 .. n
      BY <1>2
    <3> QED BY <1>8, <3>1
  <2>2. Named(0) = {}
    OBVIOUS
  <2>3. <<>> = [id \in {} |-> id \notin out]
    OBVIOUS
  <2>4. upto[0] = [id \in Named(0) |-> id \notin out]
    <3> HIDE DEF Named
    <3> QED BY <2>1, <2>2, <2>3
  <2> QED BY <2>4
<1>10. ASSUME NEW m \in Nat, m \in Good PROVE m + 1 \in Good
  <2> SUFFICES ASSUME m + 1 <= n PROVE upto[m + 1] = [id \in Named(m + 1) |-> id \notin out]
    OBVIOUS
  <2> DEFINE e == episodes[m + 1]
  <2>1. m + 1 \in 0 .. n /\ m + 1 \in 1 .. n /\ m + 1 # 0 /\ (m + 1) - 1 = m
    BY <1>2
  <2>2. upto[m] = [id \in Named(m) |-> id \notin out]
    BY <1>2, <1>10
  <2>3. upto[m + 1] = Projection(out, upto[m], e)
    BY <1>8, <2>1
  <2>4. Named(m + 1) = Named(m) \union {e.id}
    <3>1. 1 .. m + 1 = (1 .. m) \union {m + 1}
      OBVIOUS
    <3> QED BY <3>1
  <2>5. e.supersedes \in out
    BY <1>3, <2>1
  <2> HIDE DEF e, Named
  <2>6. DOMAIN upto[m] = Named(m)
    BY <2>2
  <2>7. upto[m + 1] = [id \in Named(m) \union {e.id} |->
                         IF id = e.supersedes THEN FALSE ELSE IF id = e.id THEN e.id \notin out ELSE upto[m][id]]
    BY <2>3, <2>6 DEF Projection, NodeOf
  <2>8. \A id \in Named(m) \union {e.id} :
          (IF id = e.supersedes THEN FALSE ELSE IF id = e.id THEN e.id \notin out ELSE upto[m][id]) = (id \notin out)
    BY <2>2, <2>5
  <2>9. upto[m + 1] = [id \in Named(m) \union {e.id} |-> id \notin out]
    BY <2>7, <2>8
  <2> QED BY <2>4, <2>9
<1>11. upto[n] = [id \in Named(n) |-> id \notin out]
  <2>1. Nat \subseteq Good
    <3> HIDE DEF Good
    <3> QED BY <1>9, <1>10, SetInduction
  <2> QED BY <1>2, <2>1
<1>12. Named(n) = {e.id : e \in Range(episodes)}
  BY <1>2 DEF Range
<1> HIDE DEF Named
<1> QED BY <1>1, <1>11, <1>12 DEF out
-----------------------------------------------------------------------------
(* The inductive invariant *)

\* What a process can be doing.
Operation ==
  [at : Stages, op : Ops, file : Files \union {NoId}, item : Ids \union Seq(Tokens), version : 0 .. Current,
   seen : SUBSET (Ids \union Rows \union {NoRow}), known : SUBSET (Ids \union Rows)]

\* The rows that are begun in a text, and those that have a line of their own that is ended.
Heads(t) == {t[i].row : i \in {i \in DOMAIN t : t[i].part = "head"}}
Ended(t) == {t[i].row : i \in {i \in Starts(t) : Parses(t, i) /\ i + 2 \in DOMAIN t}}

\* What is written next would be glued to the last line.
Dangling(t) == t # <<>> /\ t[Len(t)] # Newline

\* The rows that lost their line, though they are not split.
Lost(t, rows) == rows \ (Ended(t) \union Split)

\* Of rows that are in a text, c crashes spoilt at most c.
Partly(t, rows, c) ==
  /\ rows \subseteq Heads(t)
  /\ IsFiniteSet(Lost(t, rows)) /\ Cardinality(Lost(t, rows)) <= c

\* Nobody is writing: a line that a crash left unended counts too, for the next row it will spoil.
Settled(t, rows, c) ==
  /\ rows \subseteq Heads(t) /\ (c = 0 /\ Unsplit(t) => Readable(t))
  /\ IsFiniteSet(Lost(t, rows))
  /\ Cardinality(Lost(t, rows)) + (IF Dangling(t) THEN 1 ELSE 0) <= c

\* The rows that an appender will have acknowledged when it returns.
Due(w) == (w.seen \union {w.item[i].row : i \in DOMAIN w.item}) \ {NoRow}

\* A journal with what its holder w has yet to write, the rows acknowledged in it, and
\* the crashes in it.
JournalFine(t, w, rows, c) ==
  IF w.op = "append" THEN Settled(t \o w.item, rows \union Due(w), c) /\ Partly(t, rows, c)
  ELSE Settled(t, rows, c)

\* A store has what was acknowledged, and whoever has loaded it knows all of it.
StoreFine(st, w, records) ==
  records \subseteq st.records /\ (w.at = "loaded" => w.seen = st.records)

\* What is in a process's hands, when a is acknowledged.
ProcFine(w, a) ==
  /\ w.at # "idle" => w.file \in Files /\ w.known \subseteq a[w.file]
  /\ w.op = "remember" => w.file \in Stores /\ w.item \in Ids
  /\ w.op = "append" => w.file \in Journals /\ w.item \in Seq(Tokens) /\ w.seen \subseteq Rows \union {NoRow}
  /\ w.op = "append" /\ w.at = "waiting" => w.seen = {} /\ \E rows \in Seq(Rows) : w.item = TextOf(rows, Current)
  /\ w.op = "read" /\ w.at = "inside" => w.file \in Journals
  /\ w.at = "loaded" => w.op \in {"remember", "migrate"} /\ w.file \in Stores
  /\ w.at = "done" => w.op = "read" /\ w.known \subseteq w.seen

Working(w) == w.at \in {"inside", "loaded"}
\* What the holder of a file is doing.
Work(f) == IF holder[f] = NoProc THEN Idle ELSE proc[holder[f]]

\* Who is inside the lock of a file is who works on it.
OneHolder ==
  /\ \A p \in Procs : Working(proc[p]) => holder[proc[p].file] = p
  /\ \A f \in Files : holder[f] # NoProc => Working(proc[holder[f]]) /\ proc[holder[f]].file = f

IInv ==
  /\ TypeOK /\ proc \in [Procs -> Operation] /\ acked \in [Files -> SUBSET (Ids \union Rows)]
  /\ OneHolder
  /\ \A p \in Procs : ProcFine(proc[p], acked)
  /\ \A s \in Stores : StoreFine(store[s], Work(s), acked[s])
  /\ \A j \in Journals : JournalFine(text[j], Work(j), acked[j], crashes[j])

-----------------------------------------------------------------------------
(* What is added to a text *)

\* A text w that begins with t and ends with u.
LongerIs(t, u, w) ==
  /\ t \in Seq(Tokens) /\ u \in Seq(Tokens) /\ w \in Seq(Tokens) /\ Len(t) \in Nat /\ Len(u) \in Nat
  /\ DOMAIN t = 1 .. Len(t) /\ DOMAIN u = 1 .. Len(u)
  /\ Len(w) = Len(t) + Len(u) /\ DOMAIN w = 1 .. Len(t) + Len(u)
  /\ \A i \in 1 .. Len(t) : w[i] = t[i]
  /\ \A i \in 1 .. Len(u) : w[Len(t) + i] = u[i]

LEMMA Longer == ASSUME NEW t \in Seq(Tokens), NEW u \in Seq(Tokens) PROVE LongerIs(t, u, t \o u)
<1> DEFINE w == t \o u
<1>1. Len(t) \in Nat /\ Len(u) \in Nat /\ DOMAIN t = 1 .. Len(t) /\ DOMAIN u = 1 .. Len(u)
  BY LenProperties
<1>2. /\ w \in Seq(Tokens) /\ Len(w) = Len(t) + Len(u)
      /\ \A i \in 1 .. Len(t) + Len(u) : w[i] = IF i <= Len(t) THEN t[i] ELSE u[i - Len(t)]
  BY ConcatProperties
<1> HIDE DEF w
<1>3. DOMAIN w = 1 .. Len(t) + Len(u)
  BY <1>2, LenProperties
<1>4. \A i \in 1 .. Len(t) : w[i] = t[i]
  BY <1>1, <1>2
<1>5. \A i \in 1 .. Len(u) : w[Len(t) + i] = u[i]
  <2> SUFFICES ASSUME NEW i \in 1 .. Len(u) PROVE w[Len(t) + i] = u[i]
    OBVIOUS
  <2>1. Len(t) + i \in 1 .. Len(t) + Len(u) /\ ~(Len(t) + i <= Len(t)) /\ Len(t) + i - Len(t) = i
    BY <1>1
  <2> QED BY <1>2, <2>1
<1> QED BY <1>1, <1>2, <1>3, <1>4, <1>5 DEF LongerIs, w

\* What was a line's start, a line that is ended, or the head of a row stays so.
Grows(t, w) ==
  /\ Starts(t) \subseteq Starts(w) /\ \A i \in Starts(t) : w[i] = t[i]
  /\ Ended(t) \subseteq Ended(w) /\ Heads(t) \subseteq Heads(w)

LEMMA TextGrows == ASSUME NEW t \in Seq(Tokens), NEW u \in Seq(Tokens) PROVE Grows(t, t \o u)
<1> DEFINE w == t \o u
<1>1. LongerIs(t, u, w)
  BY Longer
<1> HIDE DEF w
<1>2. \A i \in DOMAIN t : i \in DOMAIN w /\ w[i] = t[i]
  BY <1>1 DEF LongerIs
<1>3. ASSUME NEW i \in Starts(t) PROVE i \in Starts(w) /\ w[i] = t[i] /\ i \in DOMAIN t
  <2>1. i \in DOMAIN t /\ i \in 1 .. Len(t)
    BY <1>1 DEF Starts, LongerIs
  <2>2. i = 1 \/ i - 1 \in DOMAIN t
    BY <1>1, <2>1 DEF LongerIs
  <2> QED BY <1>2, <2>1, <2>2 DEF Starts
<1>4. ASSUME NEW i \in Starts(t), Parses(t, i), i + 2 \in DOMAIN t
      PROVE  Parses(w, i) /\ i + 2 \in DOMAIN w
  BY <1>2, <1>3, <1>4 DEF Parses
<1>5. Ended(t) \subseteq Ended(w)
  BY <1>3, <1>4 DEF Ended
<1>6. Heads(t) \subseteq Heads(w)
  BY <1>2 DEF Heads
<1> QED BY <1>3, <1>5, <1>6 DEF Grows, w

\* A token that is no newline is on a line.
LEMMA LineFacts ==
  ASSUME NEW t \in Seq(Tokens), NEW i \in DOMAIN t, t[i] # Newline
  PROVE  \E a \in Starts(t) : a <= i /\ \A k \in a .. i : t[k] # Newline /\ (k # a => t[k].part # "rest")
<1> DEFINE On(m) == \E a \in Starts(t) : a <= m /\ \A k \in a .. m : t[k] # Newline /\ (k # a => t[k].part # "rest")
           Good == {m \in Nat : m + 1 \in DOMAIN t /\ t[m + 1] # Newline => On(m + 1)}
<1>1. DOMAIN t = 1 .. Len(t) /\ Len(t) \in Nat
  BY LenProperties
<1>2. ASSUME NEW m \in Nat, m + 1 \in DOMAIN t, t[m + 1] # Newline,
             m = 0 \/ t[m] = Newline \/ t[m + 1].part = "rest" PROVE On(m + 1)
  <2>1. m + 1 \in Starts(t)
    BY <1>2 DEF Starts
  <2>2. \A k \in m + 1 .. m + 1 : k = m + 1
    OBVIOUS
  <2> QED BY <1>2, <2>1, <2>2
<1>3. 0 \in Good
  BY <1>2
<1>4. ASSUME NEW m \in Nat, m \in Good PROVE m + 1 \in Good
  <2> SUFFICES ASSUME (m + 1) + 1 \in DOMAIN t, t[(m + 1) + 1] # Newline PROVE On((m + 1) + 1)
    OBVIOUS
  <2>1. CASE t[m + 1] = Newline \/ t[(m + 1) + 1].part = "rest"
    BY <1>2, <2>1
  <2>2. CASE t[m + 1] # Newline /\ t[(m + 1) + 1].part # "rest"
    <3>1. m + 1 \in DOMAIN t
      BY <1>1
    <3>2. PICK a \in Starts(t) : a <= m + 1 /\ \A k \in a .. m + 1 : t[k] # Newline /\ (k # a => t[k].part # "rest")
      BY <1>4, <2>2, <3>1
    <3>3. a \in Nat
      BY StartFacts
    <3>4. ASSUME NEW k \in a .. (m + 1) + 1 PROVE t[k] # Newline /\ (k # a => t[k].part # "rest")
      <4>1. CASE k \in a .. m + 1
        BY <3>2, <4>1
      <4>2. CASE k = (m + 1) + 1
        BY <2>2, <4>2
      <4> QED BY <3>3, <4>1, <4>2
    <3> QED BY <3>2, <3>3, <3>4
  <2> QED BY <2>1, <2>2
<1>5. i - 1 \in Nat /\ (i - 1) + 1 = i
  BY <1>1
<1>6. i - 1 \in Good
  <2> HIDE DEF Good
  <2> QED BY <1>3, <1>4, <1>5, SetInduction
<1> QED BY <1>5, <1>6

\* A text that can be read has every row that it has the head of.
LEMMA HeadsRead ==
  ASSUME NEW t \in Seq(Tokens), Readable(t) PROVE Heads(t) \subseteq Range(RowsOf(t))
<1> SUFFICES ASSUME NEW i \in DOMAIN t, t[i].part = "head" PROVE t[i].row \in Range(RowsOf(t))
  BY DEF Heads
<1>1. DOMAIN t = 1 .. Len(t) /\ Len(t) \in Nat
  BY LenProperties
<1>2. t[i] # Newline
  BY TokenFacts
<1>3. PICK a \in Starts(t) : a <= i /\ \A k \in a .. i : t[k] # Newline /\ (k # a => t[k].part # "rest")
  BY <1>2, LineFacts
<1>4. a \in Nat /\ Parses(t, a)
  BY StartFacts DEF Readable
<1>5. a = i
  <2>1. CASE i = a + 1
    BY <1>4, <2>1, TokenFacts DEF Parses
  <2>2. CASE i >= a + 2
    <3>1. a + 2 \in DOMAIN t /\ a + 2 \in a .. i
      BY <1>1, <1>4, <2>2
    <3> QED BY <1>3, <1>4, <3>1 DEF Parses
  <2> QED BY <1>1, <1>3, <1>4, <2>1, <2>2
<1> QED BY <1>3, <1>5, RowsOfFacts

\* A row that has its own line is read, and stands.
LEMMA EndedRead ==
  ASSUME NEW t \in Seq(Tokens)
  PROVE  Ended(t) \subseteq Range(RowsOf(t)) /\ Ended(t) \subseteq Standing(t)
BY RowsOfFacts DEF Ended, Standing

-----------------------------------------------------------------------------
(* What crashes spoil *)

\* No crash: all is there.
LEMMA NoneSpoilt == ASSUME NEW t, NEW rows, Settled(t, rows, 0) PROVE (Unsplit(t) => Readable(t)) /\ rows \subseteq Ended(t) \union Split
<1>1. /\ IsFiniteSet(Lost(t, rows)) /\ (Unsplit(t) => Readable(t))
      /\ Cardinality(Lost(t, rows)) + (IF Dangling(t) THEN 1 ELSE 0) <= 0
  BY DEF Settled
<1>2. PICK n \in Nat : n = Cardinality(Lost(t, rows))
  BY <1>1, FS_CardinalityType
<1>3. n = 0
  BY <1>1, <1>2
<1>4. Lost(t, rows) = {}
  BY <1>1, <1>2, <1>3, FS_EmptySet
<1> QED BY <1>1, <1>4 DEF Lost

\* Fewer rows lose no more, and more crashes may be counted.
LEMMA SettledWeakens ==
  ASSUME NEW t, NEW rows, NEW c \in Nat, Settled(t, rows, c), NEW some \in SUBSET rows, NEW d \in Nat, c <= d
  PROVE  Settled(t, some, d) /\ Partly(t, some, d)
<1>1. /\ IsFiniteSet(Lost(t, rows)) /\ rows \subseteq Heads(t) /\ (c = 0 /\ Unsplit(t) => Readable(t))
      /\ Cardinality(Lost(t, rows)) + (IF Dangling(t) THEN 1 ELSE 0) <= c
  BY DEF Settled
<1>2. Lost(t, some) \subseteq Lost(t, rows)
  BY DEF Lost
<1>3. /\ IsFiniteSet(Lost(t, some)) /\ Cardinality(Lost(t, some)) <= Cardinality(Lost(t, rows))
  BY <1>1, <1>2, FS_Subset
<1>4. PICK m \in Nat, n \in Nat : m = Cardinality(Lost(t, some)) /\ n = Cardinality(Lost(t, rows))
  BY <1>1, <1>3, FS_CardinalityType
<1>5. m <= n /\ n + (IF Dangling(t) THEN 1 ELSE 0) <= c
  BY <1>1, <1>3, <1>4
<1>6. m + (IF Dangling(t) THEN 1 ELSE 0) <= d /\ m <= d
  BY <1>5
<1>7. d = 0 => c = 0
  OBVIOUS
<1>8. some \subseteq Heads(t)
  BY <1>1
<1> QED BY <1>1, <1>3, <1>4, <1>6, <1>7, <1>8 DEF Settled, Partly

\* Whatever an appender has written when it dies, it is one crash more.
LEMMA CrashSettles ==
  ASSUME NEW t, NEW rows, NEW c \in Nat, Partly(t, rows, c) PROVE Settled(t, rows, c + 1)
<1>1. PICK n \in Nat : n = Cardinality(Lost(t, rows))
  BY FS_CardinalityType DEF Partly
<1>2. n + (IF Dangling(t) THEN 1 ELSE 0) <= c + 1 /\ c + 1 # 0
  BY <1>1 DEF Partly
<1> QED BY <1>1, <1>2 DEF Partly, Settled

\* What is written next spoils no row that has its line.
LEMMA PartlyGrows ==
  ASSUME NEW t \in Seq(Tokens), NEW u \in Seq(Tokens), NEW rows, NEW c \in Nat, Partly(t, rows, c)
  PROVE  Partly(t \o u, rows, c)
<1> DEFINE w == t \o u
<1>1. Ended(t) \subseteq Ended(w) /\ Heads(t) \subseteq Heads(w)
  BY TextGrows DEF Grows
<1> HIDE DEF w
<1>2. Lost(w, rows) \subseteq Lost(t, rows)
  BY <1>1 DEF Lost
<1>3. IsFiniteSet(Lost(w, rows)) /\ Cardinality(Lost(w, rows)) <= Cardinality(Lost(t, rows))
  BY <1>2, FS_Subset DEF Partly
<1>4. PICK m \in Nat, n \in Nat : m = Cardinality(Lost(w, rows)) /\ n = Cardinality(Lost(t, rows))
  BY <1>3, FS_CardinalityType DEF Partly
<1>5. m <= c
  BY <1>3, <1>4 DEF Partly
<1> QED BY <1>1, <1>3, <1>4, <1>5 DEF Partly, w

\* Every place in a text of n rows is one of a row's three.
LEMMA ThirdFacts ==
  \A n \in Nat : \A i \in 1 .. 3 * n : \E k \in 1 .. n : i = 3 * k - 2 \/ i = 3 * k - 1 \/ i = 3 * k
<1> DEFINE Third(i, n) == \E k \in 1 .. n : i = 3 * k - 2 \/ i = 3 * k - 1 \/ i = 3 * k
           Good == {n \in Nat : \A i \in 1 .. 3 * n : Third(i, n)}
<1>1. 0 \in Good
  OBVIOUS
<1>2. ASSUME NEW n \in Nat, n \in Good PROVE n + 1 \in Good
  <2> SUFFICES ASSUME NEW i \in 1 .. 3 * (n + 1) PROVE Third(i, n + 1)
    OBVIOUS
  <2>1. CASE i \in 1 .. 3 * n
    <3>1. PICK k \in 1 .. n : i = 3 * k - 2 \/ i = 3 * k - 1 \/ i = 3 * k
      BY <1>2, <2>1
    <3>2. k \in 1 .. n + 1
      OBVIOUS
    <3> QED BY <3>1, <3>2
  <2>2. CASE i \notin 1 .. 3 * n
    <3>1. n + 1 \in 1 .. n + 1 /\ (i = 3 * (n + 1) - 2 \/ i = 3 * (n + 1) - 1 \/ i = 3 * (n + 1))
      BY <2>2
    <3> QED BY <3>1
  <2> QED BY <2>1, <2>2
<1>3. Nat \subseteq Good
  <2> HIDE DEF Good
  <2> QED BY <1>1, <1>2, SetInduction
<1> QED BY <1>3

\* Where the rows are in a text that they end.
AppendedIs(t, rows, w) ==
  /\ Len(t) \in Nat /\ Len(rows) \in Nat /\ DOMAIN w = 1 .. Len(t) + 3 * Len(rows)
  /\ \A i \in 1 .. Len(t) : w[i] = t[i]
  /\ \A k \in 1 .. Len(rows) :
       /\ w[Len(t) + 3 * k - 2].row = rows[k] /\ w[Len(t) + 3 * k - 2].part = "head"
       /\ w[Len(t) + 3 * k - 1] = Token(rows[k], Second(rows[k]), w[Len(t) + 3 * k - 2].version)
       /\ w[Len(t) + 3 * k] = Newline

LEMMA AppendedFacts ==
  ASSUME NEW t \in Seq(Tokens), NEW rows \in Seq(Rows), NEW v \in 1 .. Current
  PROVE  AppendedIs(t, rows, t \o TextOf(rows, v))
<1> DEFINE u == TextOf(rows, v)
           w == t \o u
           n == Len(rows)
<1>1. TextIs(u, rows, v, n)
  BY TextFacts
<1> HIDE DEF u
<1>2. LongerIs(t, u, w)
  BY <1>1, Longer DEF TextIs
<1> HIDE DEF w
<1>3. n \in Nat
  BY LenProperties
<1> HIDE DEF n
<1>4. Len(u) = 3 * n
  BY <1>1 DEF TextIs, n
<1>5. ASSUME NEW k \in 1 .. n
      PROVE  /\ w[Len(t) + 3 * k - 2] = Token(rows[k], "head", v)
             /\ w[Len(t) + 3 * k - 1] = Token(rows[k], Second(rows[k]), v)
             /\ w[Len(t) + 3 * k] = Newline
  <2>1. 3 * k - 2 \in 1 .. Len(u) /\ 3 * k - 1 \in 1 .. Len(u) /\ 3 * k \in 1 .. Len(u)
    BY <1>3, <1>4
  <2>2. PICK l \in Nat : l = Len(t)
    BY <1>2 DEF LongerIs
  <2>3. /\ w[l + (3 * k - 2)] = u[3 * k - 2] /\ w[l + (3 * k - 1)] = u[3 * k - 1] /\ w[l + 3 * k] = u[3 * k]
    BY <1>2, <2>1, <2>2 DEF LongerIs
  <2>4. l + (3 * k - 2) = l + 3 * k - 2 /\ l + (3 * k - 1) = l + 3 * k - 1
    BY <2>2
  <2> QED BY <1>1, <2>2, <2>3, <2>4 DEF TextIs, n
<1>6. DOMAIN w = 1 .. Len(t) + 3 * n /\ Len(t) \in Nat /\ \A i \in 1 .. Len(t) : w[i] = t[i]
  BY <1>2, <1>4 DEF LongerIs
<1> QED BY <1>3, <1>5, <1>6, TokenFacts DEF AppendedIs, n, w, u

\* Every row appended that is not split has a line of its own, but the first if the line
\* before it is not ended; if no row is split, every line that is appended parses, and the last is ended.
Landed(t, rows, w) ==
  /\ \A k \in 1 .. Len(rows) : rows[k] \in Heads(w) /\ (k > 1 \/ ~Dangling(t) => rows[k] \in Ended(w) \union Split)
  /\ Unsplit(w) => \A i \in Starts(w) : i > Len(t) => Parses(w, i)

LEMMA AppendLands ==
  ASSUME NEW t \in Seq(Tokens), NEW rows, NEW w, AppendedIs(t, rows, w)
  PROVE  Landed(t, rows, w)
<1>1. PICK l \in Nat, n \in Nat : l = Len(t) /\ n = Len(rows)
  BY DEF AppendedIs
<1>2. /\ DOMAIN w = 1 .. l + 3 * n /\ \A i \in 1 .. l : w[i] = t[i]
      /\ \A k \in 1 .. n : /\ w[l + 3 * k - 2].row = rows[k] /\ w[l + 3 * k - 2].part = "head"
                           /\ w[l + 3 * k - 1] = Token(rows[k], Second(rows[k]), w[l + 3 * k - 2].version)
                           /\ w[l + 3 * k] = Newline
  BY <1>1 DEF AppendedIs
<1>3. ASSUME NEW k \in 1 .. n, rows[k] \notin Split PROVE Parses(w, l + 3 * k - 2) /\ (l + 3 * k - 2) + 2 \in DOMAIN w
  <2>1. PICK a \in Nat : a = l + 3 * k - 2
    OBVIOUS
  <2>2. a + 1 = l + 3 * k - 1 /\ a + 2 = l + 3 * k /\ a + 1 \in 1 .. l + 3 * n /\ a + 2 \in 1 .. l + 3 * n
    BY <2>1
  <2>3. w[a].row = rows[k] /\ w[a].part = "head" /\ w[a + 1] = Token(rows[k], Second(rows[k]), w[a].version)
        /\ w[a + 2] = Newline
    BY <1>2, <2>1, <2>2
  <2>4. Second(rows[k]) = "tail"
    BY <1>3, TokenFacts
  <2>5. Parses(w, a) /\ a + 2 \in DOMAIN w
    BY <1>2, <2>2, <2>3, <2>4 DEF Parses
  <2> QED BY <2>1, <2>5
<1>4. ASSUME NEW k \in 1 .. n, k > 1 \/ ~Dangling(t) PROVE l + 3 * k - 2 \in Starts(w)
  <2>1. PICK a \in Nat : a = l + 3 * k - 2 /\ a \in 1 .. l + 3 * n
    OBVIOUS
  <2>2. w[a].part = "head"
    BY <1>2, <2>1
  <2>3. CASE k > 1
    <3>1. PICK h \in 1 .. n : h = k - 1
      BY <2>3
    <3>2. a - 1 = l + 3 * h
      BY <2>1, <3>1
    <3>3. w[a - 1] = Newline
      BY <1>2, <3>1, <3>2
    <3> QED BY <1>2, <2>1, <2>2, <3>3, TokenFacts DEF Starts
  <2>4. CASE k = 1 /\ ~Dangling(t)
    <3>1. a - 1 = l
      BY <2>1, <2>4
    <3>2. t = <<>> \/ t[l] = Newline
      BY <1>1, <2>4 DEF Dangling
    <3>3. t = <<>> => l = 0
      BY <1>1
    <3>4. l # 0 => w[l] = t[l]
      BY <1>2
    <3>5. a = 1 \/ w[a - 1] = Newline
      BY <2>1, <2>4, <3>1, <3>2, <3>3, <3>4
    <3> QED BY <1>2, <2>1, <2>2, <3>5, TokenFacts DEF Starts
  <2> QED BY <1>4, <2>3, <2>4
<1>5. ASSUME NEW k \in 1 .. n PROVE rows[k] \in Heads(w) /\ (k > 1 \/ ~Dangling(t) => rows[k] \in Ended(w) \union Split)
  <2>1. PICK a \in Nat : a = l + 3 * k - 2 /\ a \in 1 .. l + 3 * n
    OBVIOUS
  <2>2. w[a].row = rows[k] /\ w[a].part = "head" /\ a \in DOMAIN w
    BY <1>2, <2>1
  <2>3. rows[k] \in Heads(w)
    BY <2>2 DEF Heads
  <2>4. ASSUME k > 1 \/ ~Dangling(t), rows[k] \notin Split PROVE rows[k] \in Ended(w)
    BY <1>3, <1>4, <2>1, <2>2, <2>4 DEF Ended
  <2> QED BY <2>3, <2>4
<1>6. ASSUME Unsplit(w), NEW i \in Starts(w), i > l PROVE Parses(w, i)
  <2>1. i \in 1 .. l + 3 * n /\ w[i] # Newline /\ (i = 1 \/ w[i - 1] = Newline \/ w[i].part = "rest")
    BY <1>2 DEF Starts
  <2>2. PICK k \in 1 .. n : i = l + 3 * k - 2 \/ i = l + 3 * k - 1 \/ i = l + 3 * k
    <3>1. PICK d \in 1 .. 3 * n : i = l + d
      BY <1>6, <2>1
    <3>2. PICK k \in 1 .. n : d = 3 * k - 2 \/ d = 3 * k - 1 \/ d = 3 * k
      BY ThirdFacts
    <3>3. i = l + 3 * k - 2 \/ i = l + 3 * k - 1 \/ i = l + 3 * k
      BY <3>1, <3>2
    <3> QED BY <3>3
  <2>3. i # l + 3 * k
    BY <1>2, <2>1
  <2>5. rows[k] \notin Split
    <3>1. PICK a \in Nat : a = l + 3 * k - 2 /\ a \in 1 .. l + 3 * n
      OBVIOUS
    <3> QED BY <1>2, <1>6, <3>1 DEF Unsplit
  <2>4. i # l + 3 * k - 1
    <3> SUFFICES ASSUME i = l + 3 * k - 1 PROVE FALSE
      OBVIOUS
    <3>1. PICK b \in Nat : b = l + 3 * k - 2 /\ i - 1 = b /\ i # 1
      OBVIOUS
    <3>2. w[b].part = "head" /\ w[i] = Token(rows[k], Second(rows[k]), w[b].version)
      BY <1>2, <3>1
    <3>3. Second(rows[k]) = "tail"
      BY <2>5, TokenFacts
    <3>4. w[i].part # "rest" /\ w[b] # Newline
      BY <3>2, <3>3, TokenFacts
    <3> QED BY <2>1, <3>1, <3>4
  <2> QED BY <1>3, <2>2, <2>3, <2>4, <2>5
<1> QED BY <1>1, <1>5, <1>6 DEF Landed

\* Appending to a settled journal leaves it settled: the row that an unended line
\* spoils is the one that was counted for it.
LEMMA AppendSettles ==
  ASSUME NEW t \in Seq(Tokens), NEW a, NEW c \in Nat, Settled(t, a, c),
         NEW rows \in Seq(Rows), NEW v \in 1 .. Current
  PROVE  Settled(t \o TextOf(rows, v), a \union Range(rows), c)
<1> DEFINE w   == t \o TextOf(rows, v)
           n   == Len(rows)
           all == a \union Range(rows)
<1>1. TextIs(TextOf(rows, v), rows, v, n)
  BY TextFacts
<1>2. TextOf(rows, v) \in Seq(Tokens)
  BY <1>1 DEF TextIs
<1>3. AppendedIs(t, rows, w) /\ Grows(t, w) /\ LongerIs(t, TextOf(rows, v), w)
  BY <1>2, AppendedFacts, TextGrows, Longer
<1>4. n \in Nat /\ DOMAIN rows = 1 .. n
  BY LenProperties
<1>5. CASE n = 0
  <2>1. rows = <<>> /\ Len(TextOf(rows, v)) = 0
    BY <1>1, <1>5, EmptySeq DEF TextIs
  <2>2. TextOf(rows, v) = <<>> /\ Range(rows) = {}
    BY <1>2, <2>1, EmptySeq DEF Range
  <2>3. w = t /\ all = a
    BY <2>2, ConcatEmptySeq
  <2> QED BY <2>3
<1> HIDE DEF w
<1>6. CASE n # 0
  <2>1. Landed(t, rows, w)
    BY <1>3, AppendLands
  <2>2. Range(rows) = {rows[k] : k \in 1 .. n}
    BY <1>4 DEF Range
  <2>3. all \subseteq Heads(w)
    BY <1>3, <2>1, <2>2 DEF Grows, Settled, Landed
  <2>4. ~Dangling(w)
    <3>1. PICK l \in Nat : l = Len(t) /\ Len(w) = l + 3 * n /\ w[l + 3 * n] = Newline
      <4>1. n \in 1 .. Len(rows)
        BY <1>4, <1>6
      <4>2. Len(w) = Len(t) + 3 * n
        BY <1>1, <1>3 DEF LongerIs, TextIs
      <4> QED BY <1>3, <4>1, <4>2 DEF AppendedIs
    <3> QED BY <3>1 DEF Dangling
  <2>5. PICK m \in Nat : m = Cardinality(Lost(t, a))
    BY FS_CardinalityType DEF Settled
  <2>6. IsFiniteSet(Lost(t, a)) /\ m + (IF Dangling(t) THEN 1 ELSE 0) <= c
    BY <2>5 DEF Settled
  <2>7. IsFiniteSet(Lost(w, all)) /\ Cardinality(Lost(w, all)) <= c
    <3>1. CASE ~Dangling(t)
      <4>1. Lost(w, all) \subseteq Lost(t, a)
        BY <1>3, <2>1, <2>2, <3>1 DEF Landed, Grows, Lost
      <4>2. IsFiniteSet(Lost(w, all)) /\ Cardinality(Lost(w, all)) <= m
        BY <2>5, <2>6, <4>1, FS_Subset
      <4>3. PICK k \in Nat : k = Cardinality(Lost(w, all))
        BY <4>2, FS_CardinalityType
      <4>4. k <= c
        BY <2>6, <3>1, <4>2, <4>3
      <4> QED BY <4>2, <4>3, <4>4
    <3>2. CASE Dangling(t)
      <4> DEFINE lost == (Lost(t, a)) \union {rows[1]}
      <4>1. Lost(w, all) \subseteq lost
        <5>1. \A k \in 1 .. n : k = 1 \/ k > 1
          OBVIOUS
        <5> QED BY <1>3, <2>1, <2>2, <5>1 DEF Landed, Grows, Lost
      <4>2. /\ IsFiniteSet(lost)
            /\ Cardinality(lost) = IF rows[1] \in Lost(t, a) THEN m ELSE m + 1
        BY <2>5, <2>6, FS_AddElement
      <4> HIDE DEF lost
      <4>3. IsFiniteSet(Lost(w, all)) /\ Cardinality(Lost(w, all)) <= Cardinality(lost)
        BY <4>1, <4>2, FS_Subset
      <4>4. PICK k \in Nat, h \in Nat : k = Cardinality(Lost(w, all)) /\ h = Cardinality(lost)
        BY <4>2, <4>3, FS_CardinalityType
      <4>5. k <= h /\ h <= m + 1
        BY <4>2, <4>3, <4>4
      <4>6. k <= c
        BY <2>6, <3>2, <4>5
      <4> QED BY <4>3, <4>4, <4>6
    <3> QED BY <3>1, <3>2
  <2>8. PICK k \in Nat : k = Cardinality(Lost(w, all))
    BY <2>7, FS_CardinalityType
  <2>9. Cardinality(Lost(w, all)) + (IF Dangling(w) THEN 1 ELSE 0) <= c
    BY <2>4, <2>7, <2>8
  <2>10. ASSUME c = 0, Unsplit(w) PROVE Readable(w)
    <3>0. Unsplit(t)
      BY <1>3, <2>10 DEF LongerIs, Unsplit
    <3>1. Readable(t)
      BY <2>10, <3>0 DEF Settled
    <3>2. ~Dangling(t)
      BY <2>6, <2>10
    <3>3. ASSUME NEW i \in Starts(w), ~(i > Len(t)) PROVE Parses(w, i)
      <4>1. i \in Nat /\ i \in 1 .. Len(t) /\ DOMAIN t = 1 .. Len(t) /\ Len(t) \in Nat
        BY <1>3, <3>3 DEF Starts, LongerIs
      <4>2. i - 1 \in 1 .. Len(t) \/ i = 1
        BY <4>1
      <4>3. i \in Starts(t) /\ w[i] = t[i]
        BY <1>3, <4>1, <4>2 DEF Starts, LongerIs
      <4>4. Parses(t, i)
        BY <3>1, <4>3 DEF Readable
      <4>5. i + 1 \in 1 .. Len(t) /\ t[i + 1] # Newline
        BY <4>1, <4>4, TokenFacts DEF Parses
      <4>6. i + 2 \in 1 .. Len(t)
        <5>1. PICK l \in Nat : l = Len(t)
          BY <4>1
        <5>2. i + 1 \in 1 .. l
          BY <4>5, <5>1
        <5>3. CASE i + 1 = l
          <6>1. t # <<>> /\ t[l] # Newline
            BY <4>5, <5>1, <5>2, <5>3, EmptySeq
          <6> QED BY <3>2, <5>1, <6>1 DEF Dangling
        <5>4. CASE i + 1 # l
          <6>1. PICK place \in Nat : place = i
            BY <4>1
          <6>2. place + 1 \in 1 .. l /\ place + 1 # l
            BY <5>2, <5>4, <6>1
          <6>3. place + 2 \in 1 .. l
            BY <6>2
          <6> QED BY <5>1, <6>1, <6>3
        <5> QED BY <5>3, <5>4
      <4>7. w[i + 1] = t[i + 1] /\ w[i + 2] = t[i + 2] /\ i + 1 \in DOMAIN w /\ i + 2 \in DOMAIN w
        BY <1>3, <4>5, <4>6 DEF LongerIs
      <4> QED BY <4>1, <4>3, <4>4, <4>6, <4>7 DEF Parses
    <3> QED BY <2>1, <2>10, <3>3 DEF Readable, Landed
  <2>11. Settled(w, all, c)
    <3> HIDE DEF all
    <3> QED BY <2>3, <2>7, <2>9, <2>10 DEF Settled
  <2> QED BY <2>11 DEF w
<1> QED BY <1>5, <1>6 DEF w

\* The text of some rows has them all.
LEMMA TextSettled ==
  ASSUME NEW rows \in Seq(Rows), NEW v \in 1 .. Current
  PROVE  /\ TextOf(rows, v) \in Seq(Tokens) /\ Settled(TextOf(rows, v), Range(rows), 0)
         /\ Standing(TextOf(rows, v)) \subseteq Range(rows)
<1> DEFINE u == TextOf(rows, v)
<1>1. TextIs(u, rows, v, Len(rows))
  BY TextFacts
<1>2. u \in Seq(Tokens)
  BY <1>1 DEF TextIs
<1>3. <<>> \in Seq(Tokens) /\ <<>> \o u = u
  BY <1>2, EmptySeq, ConcatEmptySeq
<1>4. Settled(<<>>, {}, 0)
  <2>1. IsFiniteSet({}) /\ Cardinality({}) = 0
    BY FS_EmptySet
  <2>2. Lost(<<>>, {}) = {} /\ ~Dangling(<<>>) /\ Readable(<<>>)
    BY DEF Dangling, Readable, Starts, Lost
  <2> QED BY <2>1, <2>2 DEF Settled
<1>5. Settled(<<>> \o u, {} \union Range(rows), 0)
  BY <1>3, <1>4, AppendSettles
<1>6. Settled(u, Range(rows), 0)
  BY <1>3, <1>5
<1>7. AppendedIs(<<>>, rows, <<>> \o u)
  BY <1>3, AppendedFacts
<1> HIDE DEF u
<1>8. ASSUME NEW i \in Starts(u), Parses(u, i) PROVE u[i].row \in Range(rows)
  <2>1. PICK n \in Nat : n = Len(rows) /\ DOMAIN u = 1 .. 3 * n /\ DOMAIN rows = 1 .. n
    <3>1. Len(rows) \in Nat /\ DOMAIN rows = 1 .. Len(rows) /\ Len(<<>>) = 0
      BY LenProperties, EmptySeq
    <3>2. Len(u) = 3 * Len(rows) /\ DOMAIN u = 1 .. Len(u)
      <4>1. Len(u) = 3 * Len(rows)
        BY <1>1 DEF TextIs
      <4> QED BY <1>2, <4>1, LenProperties
    <3> QED BY <3>1, <3>2
  <2>2. \A k \in 1 .. n : /\ u[3 * k - 2] = Token(rows[k], "head", v)
                          /\ u[3 * k - 1] = Token(rows[k], Second(rows[k]), v)
                          /\ u[3 * k] = Newline
    BY <1>1, <2>1 DEF TextIs
  <2>3. i \in 1 .. 3 * n /\ u[i] # Newline
    BY <2>1 DEF Starts
  <2>4. PICK k \in 1 .. n : i = 3 * k - 2 \/ i = 3 * k - 1 \/ i = 3 * k
    BY <2>1, <2>3, ThirdFacts
  <2>5. u[i].row = rows[k]
    <3>1. u[3 * k - 2].row = rows[k] /\ u[3 * k - 1].row = rows[k]
      <4>1. u[3 * k - 2] = Token(rows[k], "head", v) /\ u[3 * k - 1] = Token(rows[k], Second(rows[k]), v)
        BY <2>2
      <4> QED BY <4>1 DEF Token
    <3>2. u[3 * k] = Newline
      BY <2>2
    <3>3. i # 3 * k
      BY <2>3, <3>2
    <3> QED BY <2>4, <3>1, <3>3
  <2> QED BY <2>1, <2>5 DEF Range
<1>9. Standing(u) \subseteq Range(rows)
  BY <1>8 DEF Standing
<1> QED BY <1>2, <1>6, <1>9 DEF u

-----------------------------------------------------------------------------
(* One file at a time *)

\* What p's step leaves at work on f, when p is then doing w.
NewWork(p, f, w) == IF Working(w) THEN w ELSE IF Working(proc[p]) THEN Idle ELSE Work(f)

\* A step of p that is about f alone: p is then doing w, and inside f's lock if w works.
Local(p, f, w) ==
  /\ proc' = [proc EXCEPT ![p] = w]
  /\ Working(proc[p]) => proc[p].file = f
  /\ Working(w) => w.file = f /\ (Working(proc[p]) \/ holder[f] = NoProc)
  /\ holder' = [holder EXCEPT ![f] = IF Working(w) THEN p ELSE IF Working(proc[p]) THEN NoProc ELSE @]
  /\ \A s \in Stores \ {f} : store'[s] = store[s]
  /\ \A j \in Journals \ {f} : text'[j] = text[j]
  /\ \A g \in Files \ {f} : acked'[g] = acked[g] /\ crashes'[g] = crashes[g]

\* The state after it has its type.
Typed ==
  /\ store' \in [Stores -> [version : 0 .. Current, records : SUBSET Ids]]
  /\ text' \in [Journals -> Seq(Tokens)]
  /\ acked' \in [Files -> SUBSET (Ids \union Rows)]
  /\ began' \in 0 .. MaxWork /\ crashes' \in [Files -> 0 .. MaxCrashes]

\* What it has to make good: its own work and the file it is about.
Good(p, f, w) ==
  /\ w \in Operation /\ ProcFine(w, acked') /\ acked[f] \subseteq acked'[f]
  /\ f \in Stores => StoreFine(store'[f], NewWork(p, f, w), acked'[f]) /\ acked'[f] \subseteq Ids
  /\ f \in Journals => /\ JournalFine(text'[f], NewWork(p, f, w), acked'[f], crashes'[f])
                       /\ acked'[f] \subseteq Rows

\* The holder of a file after such a step.
LEMMA LocalWork ==
  ASSUME IInv, NEW p \in Procs, NEW f \in Files, NEW w \in Operation, Local(p, f, w)
  PROVE  Work(f)' = NewWork(p, f, w) /\ \A g \in Files \ {f} : Work(g)' = Work(g)
<1>1. /\ holder \in [Files -> Procs \union {NoProc}] /\ proc \in [Procs -> Operation] /\ OneHolder
      /\ NoProc \notin Procs
  BY ContenderAssumption DEF IInv, TypeOK
<1>2. ASSUME NEW g \in Files, g # f PROVE Work(g)' = Work(g)
  <2>1. holder'[g] = holder[g]
    BY <1>1, <1>2 DEF Local
  <2>2. CASE holder[g] = NoProc
    BY <2>1, <2>2 DEF Work, Idle
  <2>3. CASE holder[g] # NoProc
    <3>1. holder[g] \in Procs /\ holder[g] # p
      BY <1>1, <1>2, <2>3 DEF OneHolder, Local
    <3>2. proc'[holder[g]] = proc[holder[g]]
      BY <1>1, <3>1 DEF Local
    <3> QED BY <2>1, <2>3, <3>2 DEF Work
  <2> QED BY <2>2, <2>3
<1>3. Work(f)' = NewWork(p, f, w)
  <2>1. p # NoProc /\ proc'[p] = w
    BY <1>1 DEF Local
  <2>2. CASE Working(w)
    <3>1. holder'[f] = p
      BY <1>1, <2>2 DEF Local
    <3> QED BY <2>1, <2>2, <3>1 DEF Work, NewWork
  <2>3. CASE ~Working(w) /\ Working(proc[p])
    <3>1. holder'[f] = NoProc
      BY <1>1, <2>3 DEF Local
    <3> QED BY <2>3, <3>1 DEF Work, NewWork, Idle
  <2>4. CASE ~Working(w) /\ ~Working(proc[p])
    <3>1. holder'[f] = holder[f]
      BY <1>1, <2>4 DEF Local
    <3>2. CASE holder[f] = NoProc
      BY <2>4, <3>1, <3>2 DEF Work, NewWork, Idle
    <3>3. CASE holder[f] # NoProc
      <4>1. holder[f] \in Procs /\ holder[f] # p
        BY <1>1, <2>4, <3>3 DEF OneHolder
      <4>2. proc'[holder[f]] = proc[holder[f]]
        BY <1>1, <4>1 DEF Local
      <4> QED BY <2>4, <3>1, <3>3, <4>2 DEF Work, NewWork
    <3> QED BY <3>2, <3>3
  <2> QED BY <2>2, <2>3, <2>4
<1> QED BY <1>2, <1>3

\* Such a step keeps the lock to one holder.
LEMMA LocalHolder ==
  ASSUME IInv, NEW p \in Procs, NEW f \in Files, NEW w \in Operation, Local(p, f, w)
  PROVE  /\ OneHolder' /\ holder' \in [Files -> Procs \union {NoProc}] /\ proc' \in [Procs -> Operation]
<1>1. /\ holder \in [Files -> Procs \union {NoProc}] /\ proc \in [Procs -> Operation] /\ OneHolder
      /\ NoProc \notin Procs
  BY ContenderAssumption DEF IInv, TypeOK
<1>2. holder' \in [Files -> Procs \union {NoProc}] /\ proc' \in [Procs -> Operation]
  BY <1>1 DEF Local
<1>3. ASSUME NEW q \in Procs, Working(proc'[q]) PROVE holder'[proc'[q].file] = q
  <2>1. CASE q = p
    <3>1. proc'[q] = w
      BY <1>1, <2>1 DEF Local
    <3>2. Working(w) /\ w.file = f
      BY <1>3, <3>1 DEF Local
    <3> QED BY <1>1, <2>1, <3>1, <3>2 DEF Local
  <2>2. CASE q # p
    <3>1. proc'[q] = proc[q]
      BY <1>1, <2>2 DEF Local
    <3>2. Working(proc[q]) /\ holder[proc[q].file] = q
      BY <1>1, <1>3, <3>1 DEF OneHolder
    <3>3. proc[q].file # f => holder'[proc[q].file] = holder[proc[q].file]
      BY <1>1 DEF Local
    <3>4. proc[q].file = f => ~Working(w) /\ ~Working(proc[p])
      BY <1>1, <2>2, <3>2 DEF Local, OneHolder
    <3>5. ~Working(w) /\ ~Working(proc[p]) => holder' = [holder EXCEPT ![f] = @]
      BY DEF Local
    <3> QED BY <1>1, <3>1, <3>2, <3>3, <3>4, <3>5
  <2> QED BY <2>1, <2>2
<1>4. ASSUME NEW g \in Files, holder'[g] # NoProc
      PROVE  Working(proc'[holder'[g]]) /\ proc'[holder'[g]].file = g
  <2>1. CASE g = f /\ Working(w)
    <3>1. holder'[g] = p /\ proc'[p] = w /\ w.file = f
      BY <1>1, <2>1 DEF Local
    <3> QED BY <2>1, <3>1
  <2>2. CASE g # f \/ ~Working(w)
    <3>1. holder'[g] = holder[g] /\ holder[g] \in Procs
      BY <1>1, <1>4, <2>2 DEF Local
    <3>2. Working(proc[holder[g]]) /\ proc[holder[g]].file = g
      BY <1>1, <1>4, <3>1 DEF OneHolder
    <3>3. holder[g] # p
      BY <1>1, <1>4, <2>2, <3>1, <3>2 DEF Local
    <3>4. proc'[holder[g]] = proc[holder[g]]
      BY <1>1, <3>1, <3>3 DEF Local
    <3> QED BY <3>1, <3>2, <3>4
  <2> QED BY <2>1, <2>2
<1> QED BY <1>2, <1>3, <1>4 DEF OneHolder

\* So the invariant is kept if what it is about is.
LEMMA LocalKeeps ==
  ASSUME IInv, NEW p \in Procs, NEW f \in Files, NEW w, Local(p, f, w), Typed, Good(p, f, w)
  PROVE  IInv'
<1> w \in Operation
  BY DEF Good
<1>1. /\ Work(f)' = NewWork(p, f, w) /\ \A g \in Files \ {f} : Work(g)' = Work(g)
      /\ OneHolder' /\ holder' \in [Files -> Procs \union {NoProc}] /\ proc' \in [Procs -> Operation]
  BY LocalWork, LocalHolder
<1>2. Stores \subseteq Files /\ Journals \subseteq Files /\ proc \in [Procs -> Operation]
  BY DEF Files, IInv
<1>3. \A g \in Files : acked[g] \subseteq acked'[g]
  BY DEF Local, Good
<1>4. ASSUME NEW q \in Procs PROVE ProcFine(proc'[q], acked')
  <2>1. CASE q = p
    <3>1. proc'[q] = w
      BY <1>2, <2>1 DEF Local
    <3> QED BY <3>1 DEF Good
  <2>2. CASE q # p
    <3>1. proc'[q] = proc[q]
      BY <1>2, <2>2 DEF Local
    <3>2. ProcFine(proc[q], acked)
      BY DEF IInv
    <3>3. proc[q].at # "idle" => proc[q].known \subseteq acked'[proc[q].file]
      BY <1>3, <3>2 DEF ProcFine
    <3> QED BY <3>1, <3>2, <3>3 DEF ProcFine
  <2> QED BY <2>1, <2>2
<1>5. ASSUME NEW s \in Stores PROVE StoreFine(store'[s], Work(s)', acked'[s]) /\ acked'[s] \subseteq Ids
  <2>1. CASE s = f
    BY <1>1, <2>1 DEF Good
  <2>2. CASE s # f
    <3>1. StoreFine(store[s], Work(s), acked[s]) /\ acked[s] \subseteq Ids
      BY DEF IInv, TypeOK
    <3>2. store'[s] = store[s] /\ acked'[s] = acked[s] /\ Work(s)' = Work(s)
      BY <1>1, <1>2, <2>2 DEF Local
    <3> QED BY <3>1, <3>2
  <2> QED BY <2>1, <2>2
<1>6. ASSUME NEW j \in Journals
      PROVE  JournalFine(text'[j], Work(j)', acked'[j], crashes'[j]) /\ acked'[j] \subseteq Rows
  <2>1. CASE j = f
    BY <1>1, <2>1 DEF Good
  <2>2. CASE j # f
    <3>1. JournalFine(text[j], Work(j), acked[j], crashes[j]) /\ acked[j] \subseteq Rows
      BY DEF IInv, TypeOK
    <3>2. text'[j] = text[j] /\ acked'[j] = acked[j] /\ crashes'[j] = crashes[j] /\ Work(j)' = Work(j)
      BY <1>1, <1>2, <2>2 DEF Local
    <3> QED BY <3>1, <3>2
  <2> QED BY <2>1, <2>2
<1>7. \A q \in Procs : /\ proc'[q].at \in Stages /\ proc'[q].op \in Ops
                       /\ proc'[q].at # "idle" => proc'[q].file \in Files
                       /\ proc'[q].at \in {"inside", "loaded"} => holder'[proc'[q].file] = q
  BY <1>1, <1>4 DEF Operation, ProcFine, OneHolder, Working
<1>8. TypeOK'
  BY <1>1, <1>5, <1>6, <1>7 DEF TypeOK, Typed
<1>9. /\ \A q \in Procs : ProcFine(proc[q], acked)'
      /\ \A s \in Stores : StoreFine(store[s], Work(s), acked[s])'
      /\ \A j \in Journals : JournalFine(text[j], Work(j), acked[j], crashes[j])'
  <2>1. \A q \in Procs : ProcFine(proc[q], acked)'
    BY <1>4 DEF ProcFine
  <2>2. \A s \in Stores : StoreFine(store[s], Work(s), acked[s])'
    BY <1>5 DEF StoreFine
  <2>3. \A j \in Journals : JournalFine(text[j], Work(j), acked[j], crashes[j])'
    BY <1>6 DEF JournalFine, Due
  <2> QED BY <2>1, <2>2, <2>3
<1>10. (acked \in [Files -> SUBSET (Ids \union Rows)])'
  BY DEF Typed
<1> QED BY <1>1, <1>8, <1>9, <1>10 DEF IInv

\* Who works on a file holds it.
LEMMA HeldFacts ==
  ASSUME IInv, NEW p \in Procs, Working(proc[p])
  PROVE  /\ proc[p].file \in Files /\ holder[proc[p].file] = p /\ Work(proc[p].file) = proc[p]
<1>1. proc[p].file \in Files /\ holder[proc[p].file] = p
  BY DEF IInv, OneHolder, ProcFine, Working
<1> QED BY <1>1, ContenderAssumption DEF Work

-----------------------------------------------------------------------------
(* The actions *)

\* The types of what a step leaves alone, or changes at one file.
LEMMA TypedFacts ==
  ASSUME IInv
  PROVE  /\ store \in [Stores -> [version : 0 .. Current, records : SUBSET Ids]]
         /\ text \in [Journals -> Seq(Tokens)] /\ acked \in [Files -> SUBSET (Ids \union Rows)]
         /\ began \in 0 .. MaxWork /\ crashes \in [Files -> 0 .. MaxCrashes]
         /\ holder \in [Files -> Procs \union {NoProc}] /\ proc \in [Procs -> Operation]
         /\ Stores \subseteq Files /\ Journals \subseteq Files /\ Stores \cap Journals = {}
BY NameAssumption DEF IInv, TypeOK, Files

\* An idle process has nothing in its hands.
LEMMA IdleFacts == Idle \in Operation /\ ~Working(Idle) /\ \A a : ProcFine(Idle, a)
<1>1. <<>> \in Seq(Tokens)
  BY EmptySeq
<1>2. Idle \in Operation
  BY <1>1 DEF Idle, Operation, Stages, Ops, Current
<1> QED BY <1>2 DEF Idle, Working, ProcFine

\* A step by which a process stays outside the lock and no file changes.
LEMMA OutsideKeeps ==
  ASSUME IInv, NEW p \in Procs, NEW w \in Operation, ~Working(proc[p]), ~Working(w), ProcFine(w, acked),
         NEW f \in Files, proc' = [proc EXCEPT ![p] = w], UNCHANGED <<store, text, holder, acked, crashes>>,
         began' \in 0 .. MaxWork
  PROVE  IInv'
<1>1. Local(p, f, w)
  BY TypedFacts DEF Local
<1>2. Typed
  BY TypedFacts DEF Typed
<1>3. NewWork(p, f, w) = Work(f)
  BY DEF NewWork
<1>4. f \in Stores => StoreFine(store[f], Work(f), acked[f]) /\ acked[f] \subseteq Ids
  BY DEF IInv, TypeOK
<1>5. f \in Journals => JournalFine(text[f], Work(f), acked[f], crashes[f]) /\ acked[f] \subseteq Rows
  BY DEF IInv, TypeOK
<1>6. Good(p, f, w)
  BY <1>3, <1>4, <1>5 DEF Good
<1> QED BY <1>1, <1>2, <1>6, LocalKeeps

\* Beginning an operation whose item is made already.
LEMMA BeginKeeps ==
  ASSUME IInv, NEW p \in Procs, NEW op \in Ops, NEW f \in Files, NEW item \in Ids \union Seq(Tokens), Begin(p, op, f, item),
         op = "remember" => f \in Stores /\ item \in Ids,
         op = "append" => f \in Journals /\ \E rows \in Seq(Rows) : item = TextOf(rows, Current)
  PROVE  IInv'
<1> DEFINE w == [Idle EXCEPT !.at = "waiting", !.op = op, !.file = f, !.item = item, !.known = acked[f]]
<1>1. /\ proc[p].at = "idle" /\ began < MaxWork /\ began' = began + 1
      /\ proc' = [proc EXCEPT ![p] = w] /\ UNCHANGED <<store, text, holder, acked, crashes>>
  BY DEF Begin
<1>2. acked[f] \in SUBSET (Ids \union Rows) /\ began \in 0 .. MaxWork
  BY TypedFacts
<1>3. Idle.seen = {}
  BY DEF Idle
<1>4. /\ w \in Operation /\ w.at = "waiting" /\ w.op = op /\ w.file = f /\ w.item = item /\ w.seen = {}
      /\ w.known = acked[f]
  BY <1>2, <1>3, IdleFacts DEF Operation, Stages
<1> HIDE DEF w
<1>5. ~Working(proc[p]) /\ ~Working(w)
  BY <1>1, <1>4 DEF Working
<1>6. op = "append" => item \in Seq(Tokens)
  <2>1. Current \in 1 .. Current
    BY DEF Current
  <2> QED BY <2>1, TextSettled
<1>7. ProcFine(w, acked)
  BY <1>4, <1>6 DEF ProcFine
<1>8. began' \in 0 .. MaxWork
  BY <1>1, <1>2, BoundAssumption
<1> QED BY <1>1, <1>4, <1>5, <1>7, <1>8, OutsideKeeps

LEMMA RequestKeeps ==
  ASSUME IInv, NEW p \in Procs, Remember(p) \/ AppendRows(p) \/ Migrate(p) \/ Read(p) PROVE IInv'
<1> USE DEF Ops
<1>1. Stores \subseteq Files /\ Journals \subseteq Files /\ Versioned \subseteq Files /\ <<>> \in Seq(Tokens)
  BY FileAssumption, EmptySeq DEF Files
<1>2. CASE Remember(p)
  <2>1. PICK f \in Stores, id \in Ids : Begin(p, "remember", f, id)
    BY <1>2 DEF Remember
  <2> QED BY <1>1, <2>1, BeginKeeps
<1>3. CASE AppendRows(p)
  <2>0. PICK j \in Journals : \E rows \in Batches[j] : Begin(p, "append", j, TextOf(rows, Current))
    BY <1>3 DEF AppendRows
  <2>1. PICK rows \in Batches[j] : Begin(p, "append", j, TextOf(rows, Current))
    BY <2>0
  <2>2. rows \in Seq(Rows)
    BY InputAssumption
  <2>3. Current \in 1 .. Current
    BY DEF Current
  <2>4. TextOf(rows, Current) \in Seq(Tokens)
    BY <2>2, <2>3, TextSettled
  <2> QED BY <1>1, <2>1, <2>2, <2>4, BeginKeeps
<1>4. CASE Migrate(p)
  <2>1. PICK f \in Versioned : Begin(p, "migrate", f, <<>>)
    BY <1>4 DEF Migrate
  <2> QED BY <1>1, <2>1, BeginKeeps
<1>5. CASE Read(p)
  <2>1. PICK f \in Files : Begin(p, "read", f, <<>>)
    BY <1>5 DEF Read
  <2> QED BY <1>1, <2>1, BeginKeeps
<1> QED BY <1>2, <1>3, <1>4, <1>5

\* Who does not hold a lock gives up or returns.
LEMMA GiveUpKeeps == ASSUME IInv, NEW p \in Procs, GiveUp(p) \/ Return(p) PROVE IInv'
<1>1. /\ ~Working(proc[p]) /\ proc[p].at # "idle" /\ proc' = [proc EXCEPT ![p] = Idle]
      /\ UNCHANGED <<store, text, holder, acked, began, crashes>>
  BY DEF GiveUp, Return, Working
<1>2. proc[p].file \in Files /\ began' \in 0 .. MaxWork
  BY <1>1, TypedFacts DEF IInv, ProcFine
<1> QED BY <1>1, <1>2, IdleFacts, OutsideKeeps

LEMMA ReadStoreKeeps == ASSUME IInv, NEW p \in Procs, ReadStore(p) PROVE IInv'
<1> DEFINE f == proc[p].file
           w == [proc[p] EXCEPT !.at = "done", !.seen = store[f].records]
<1>1. /\ proc[p].at = "waiting" /\ proc[p].op = "read" /\ f \in Stores /\ proc' = [proc EXCEPT ![p] = w]
      /\ UNCHANGED <<store, text, holder, acked, began, crashes>>
  BY DEF ReadStore
<1>2. proc[p] \in Operation /\ f \in Files /\ store[f].records \in SUBSET Ids /\ began' \in 0 .. MaxWork
  BY <1>1, TypedFacts
<1>3. w \in Operation /\ w.at = "done" /\ w.op = "read" /\ w.file = f /\ w.known = proc[p].known
      /\ w.seen = store[f].records
  BY <1>1, <1>2 DEF Operation, Stages
<1>4. proc[p].known \subseteq acked[f] /\ acked[f] \subseteq store[f].records
  BY <1>1 DEF IInv, ProcFine, StoreFine
<1> HIDE DEF w, f
<1>5. ProcFine(w, acked) /\ ~Working(proc[p]) /\ ~Working(w)
  BY <1>1, <1>2, <1>3, <1>4 DEF ProcFine, Working
<1> QED BY <1>1, <1>2, <1>3, <1>5, OutsideKeeps

\* The holder of f goes on, with other local variables, and does something to f.
LEMMA StayKeeps ==
  ASSUME IInv, NEW p \in Procs, Working(proc[p]), NEW f, f = proc[p].file, NEW w \in Operation,
         Working(w), w.file = f, proc' = [proc EXCEPT ![p] = w], UNCHANGED <<store, holder, acked, crashes>>,
         \A j \in Journals \ {f} : text'[j] = text[j], Typed, ProcFine(w, acked'),
         f \in Stores => StoreFine(store[f], w, acked[f]),
         f \in Journals => JournalFine(text'[f], w, acked[f], crashes[f])
  PROVE  IInv'
<1>1. f \in Files /\ holder[f] = p /\ holder \in [Files -> Procs \union {NoProc}]
  BY HeldFacts, TypedFacts
<1>2. holder = [holder EXCEPT ![f] = p]
  BY <1>1
<1>3. Local(p, f, w)
  BY <1>2 DEF Local
<1>4. NewWork(p, f, w) = w
  BY DEF NewWork
<1>5. (f \in Stores => acked[f] \subseteq Ids) /\ (f \in Journals => acked[f] \subseteq Rows)
  BY DEF IInv, TypeOK
<1>6. Good(p, f, w)
  BY <1>4, <1>5 DEF Good
<1> QED BY <1>1, <1>3, <1>6, LocalKeeps

\* The holder of f leaves, with what it read or with nothing, and has done something to f.
LEMMA LeavingKeeps ==
  ASSUME IInv, NEW p \in Procs, Working(proc[p]), NEW f, f = proc[p].file, NEW w \in Operation, ~Working(w),
         proc' = [proc EXCEPT ![p] = w], holder' = [holder EXCEPT ![f] = NoProc],
         \A s \in Stores \ {f} : store'[s] = store[s], \A j \in Journals \ {f} : text'[j] = text[j],
         \A g \in Files \ {f} : acked'[g] = acked[g] /\ crashes'[g] = crashes[g],
         Typed, acked[f] \subseteq acked'[f], ProcFine(w, acked'),
         f \in Stores => StoreFine(store'[f], Idle, acked'[f]) /\ acked'[f] \subseteq Ids,
         f \in Journals => JournalFine(text'[f], Idle, acked'[f], crashes'[f]) /\ acked'[f] \subseteq Rows
  PROVE  IInv'
<1>1. f \in Files /\ holder[f] = p /\ holder \in [Files -> Procs \union {NoProc}]
  BY HeldFacts, TypedFacts
<1>2. Local(p, f, w)
  BY <1>1 DEF Local
<1>3. NewWork(p, f, w) = Idle
  BY DEF NewWork
<1>4. Good(p, f, w)
  BY <1>3 DEF Good
<1> QED BY <1>1, <1>2, <1>4, LocalKeeps

LEMMA LeaveKeeps ==
  ASSUME IInv, NEW p \in Procs, Working(proc[p]), NEW f, f = proc[p].file, proc' = [proc EXCEPT ![p] = Idle],
         holder' = [holder EXCEPT ![f] = NoProc],
         \A s \in Stores \ {f} : store'[s] = store[s], \A j \in Journals \ {f} : text'[j] = text[j],
         \A g \in Files \ {f} : acked'[g] = acked[g] /\ crashes'[g] = crashes[g],
         Typed, acked[f] \subseteq acked'[f],
         f \in Stores => StoreFine(store'[f], Idle, acked'[f]) /\ acked'[f] \subseteq Ids,
         f \in Journals => JournalFine(text'[f], Idle, acked'[f], crashes'[f]) /\ acked'[f] \subseteq Rows
  PROVE  IInv'
<1>1. Idle \in Operation /\ ~Working(Idle) /\ ProcFine(Idle, acked')
  BY IdleFacts
<1> QED BY <1>1, LeavingKeeps

\* The rows of a text's tokens are its rows.
LEMMA TextTokens ==
  ASSUME NEW rows \in Seq(Rows), NEW v \in 1 .. Current
  PROVE  \A i \in DOMAIN TextOf(rows, v) : TextOf(rows, v)[i].row \in Range(rows) \union {NoRow}
<1> DEFINE u == TextOf(rows, v)
<1>1. PICK n \in Nat : n = Len(rows) /\ DOMAIN rows = 1 .. n
  BY LenProperties
<1>2. TextIs(u, rows, v, n)
  BY <1>1, TextFacts
<1> HIDE DEF u
<1>3. DOMAIN u = 1 .. 3 * n
  <2>1. u \in Seq(Tokens) /\ Len(u) = 3 * n
    BY <1>2 DEF TextIs
  <2> QED BY <2>1, LenProperties
<1>4. ASSUME NEW i \in DOMAIN u PROVE u[i].row \in Range(rows) \union {NoRow}
  <2>1. PICK k \in 1 .. n : i = 3 * k - 2 \/ i = 3 * k - 1 \/ i = 3 * k
    BY <1>1, <1>3, ThirdFacts
  <2>2. u[3 * k - 2].row = rows[k] /\ u[3 * k - 1].row = rows[k] /\ u[3 * k].row = NoRow
    <3>1. /\ u[3 * k - 2] = Token(rows[k], "head", v) /\ u[3 * k - 1] = Token(rows[k], Second(rows[k]), v)
          /\ u[3 * k] = Newline
      BY <1>2 DEF TextIs
    <3> QED BY <3>1 DEF Token, Newline
  <2>3. rows[k] \in Range(rows)
    BY <1>1 DEF Range
  <2> QED BY <2>1, <2>2, <2>3
<1> QED BY <1>4 DEF u

\* Taking the lock: what an appender will write is due from then on.
LEMMA EnterKeeps == ASSUME IInv, NEW p \in Procs, Enter(p) PROVE IInv'
<1> DEFINE f == proc[p].file
           w == [proc[p] EXCEPT !.at = "inside"]
<1>1. /\ proc[p].at = "waiting" /\ Locks(p) /\ holder[f] = NoProc
      /\ proc' = [proc EXCEPT ![p] = w] /\ holder' = [holder EXCEPT ![f] = p]
      /\ UNCHANGED <<store, text, acked, began, crashes>>
  BY DEF Enter
<1>2. proc[p] \in Operation /\ ProcFine(proc[p], acked) /\ f \in Files
  BY <1>1, TypedFacts DEF IInv, ProcFine
<1>3. /\ w \in Operation /\ w.at = "inside" /\ w.op = proc[p].op /\ w.file = f /\ w.item = proc[p].item
      /\ w.seen = proc[p].seen /\ w.known = proc[p].known
  BY <1>2 DEF Operation, Stages
<1>4. w.op = "read" => w.file \in Journals
  BY <1>1, <1>3 DEF Locks
<1>5. Work(f) = Idle
  BY <1>1 DEF Work
<1>6. f \in Journals => Settled(text[f], acked[f], crashes[f]) /\ acked[f] \subseteq Rows
  <2>1. f \in Journals => JournalFine(text[f], Idle, acked[f], crashes[f]) /\ acked[f] \subseteq Rows
    BY <1>5 DEF IInv, TypeOK
  <2>2. Idle.op # "append"
    BY DEF Idle
  <2> QED BY <2>1, <2>2 DEF JournalFine
<1>7. f \in Stores => acked[f] \subseteq store[f].records /\ acked[f] \subseteq Ids
  BY DEF IInv, TypeOK, StoreFine
<1> HIDE DEF w, f
<1>8. ASSUME f \in Journals PROVE JournalFine(text[f], w, acked[f], crashes[f])
  <2>1. CASE w.op # "append"
    BY <1>6, <1>8, <2>1 DEF JournalFine
  <2>2. CASE w.op = "append"
    <3>1. PICK rows \in Seq(Rows) : w.item = TextOf(rows, Current)
      BY <1>1, <1>2, <1>3, <2>2 DEF ProcFine
    <3>2. crashes[f] \in Nat /\ text[f] \in Seq(Tokens) /\ Current \in 1 .. Current
      BY <1>8, TypedFacts, BoundAssumption DEF Current
    <3>3. Settled(text[f] \o w.item, acked[f] \union Range(rows), crashes[f])
      BY <1>6, <1>8, <3>1, <3>2, AppendSettles
    <3>4. Due(w) \subseteq Range(rows)
      <4>1. w.seen = {}
        BY <1>1, <1>2, <1>3, <2>2 DEF ProcFine
      <4>2. \A i \in DOMAIN w.item : w.item[i].row \in Range(rows) \union {NoRow}
        BY <3>1, <3>2, TextTokens
      <4> QED BY <4>1, <4>2 DEF Due
    <3>5. Settled(text[f] \o w.item, acked[f] \union Due(w), crashes[f])
      <4>1. acked[f] \union Due(w) \in SUBSET (acked[f] \union Range(rows))
        BY <3>4
      <4>2. crashes[f] <= crashes[f]
        BY <3>2
      <4> QED BY <3>2, <3>3, <4>1, <4>2, SettledWeakens
    <3>6. Partly(text[f], acked[f], crashes[f])
      <4>1. acked[f] \in SUBSET acked[f] /\ crashes[f] <= crashes[f]
        BY <3>2
      <4> QED BY <1>6, <1>8, <3>2, <4>1, SettledWeakens
    <3> QED BY <2>2, <3>5, <3>6 DEF JournalFine
  <2> QED BY <2>1, <2>2
<1>9. Working(w) /\ ~Working(proc[p])
  BY <1>1, <1>3 DEF Working
<1>10. Local(p, f, w) /\ Typed
  BY <1>1, <1>3, <1>9, TypedFacts DEF Local, Typed
<1>11. ProcFine(w, acked')
  BY <1>1, <1>2, <1>3, <1>4 DEF ProcFine, f
<1>12. Good(p, f, w)
  <2>1. NewWork(p, f, w) = w
    BY <1>9 DEF NewWork
  <2>2. f \in Stores => StoreFine(store'[f], w, acked'[f]) /\ acked'[f] \subseteq Ids
    BY <1>1, <1>3, <1>7 DEF StoreFine
  <2>3. f \in Journals => JournalFine(text'[f], w, acked'[f], crashes'[f]) /\ acked'[f] \subseteq Rows
    BY <1>1, <1>6, <1>8
  <2>4. acked[f] \subseteq acked'[f]
    BY <1>1
  <2> QED BY <1>3, <1>11, <2>1, <2>2, <2>3, <2>4 DEF Good
<1> QED BY <1>2, <1>10, <1>12, LocalKeeps DEF f

\* Under the lock of a store: its old content is read, and a new one replaces it, or not.
LEMMA LoadKeeps == ASSUME IInv, NEW p \in Procs, Load(p) PROVE IInv'
<1> DEFINE f == proc[p].file
           w == [proc[p] EXCEPT !.at = "loaded", !.version = store[f].version, !.seen = store[f].records]
<1>1. /\ proc[p].at = "inside" /\ proc[p].op \in {"remember", "migrate"} /\ f \in Stores
      /\ proc' = [proc EXCEPT ![p] = w] /\ UNCHANGED <<store, text, holder, acked, began, crashes>>
  BY DEF Load
<1>2. /\ proc[p] \in Operation /\ ProcFine(proc[p], acked) /\ f \in Files
      /\ store[f].version \in 0 .. Current /\ store[f].records \in SUBSET Ids
  BY <1>1, TypedFacts DEF IInv
<1>3. /\ w \in Operation /\ w.at = "loaded" /\ w.op = proc[p].op /\ w.file = f /\ w.item = proc[p].item
      /\ w.seen = store[f].records /\ w.known = proc[p].known
  BY <1>2 DEF Operation, Stages
<1> HIDE DEF w
<1>4. Working(proc[p]) /\ Working(w)
  BY <1>1, <1>3 DEF Working
<1>5. ProcFine(w, acked')
  BY <1>1, <1>2, <1>3 DEF ProcFine
<1>6. acked[f] \subseteq store[f].records /\ acked[f] \subseteq Ids
  BY <1>1 DEF IInv, TypeOK, StoreFine
<1>7. StoreFine(store[f], w, acked[f]) /\ f \notin Journals
  BY <1>1, <1>3, <1>6, TypedFacts DEF StoreFine
<1>8. Typed
  BY <1>1, TypedFacts DEF Typed
<1> QED BY <1>1, <1>3, <1>4, <1>5, <1>7, <1>8, StayKeeps

\* Leaving the lock of a store: the records are at least those that were loaded, and
\* what is acknowledged besides is among them.
LEMMA StoreKeeps ==
  ASSUME IInv, NEW p \in Procs, NEW f, f = proc[p].file, proc[p].at = "loaded", NEW version \in 0 .. Current,
         NEW records \in SUBSET Ids, NEW more \in SUBSET records, proc[p].seen \subseteq records,
         store' = [store EXCEPT ![f] = [version |-> version, records |-> records]],
         acked' = [acked EXCEPT ![f] = @ \union more],
         proc' = [proc EXCEPT ![p] = Idle], Release(p), UNCHANGED <<text, began, crashes>>
  PROVE  IInv'
<1>1. Working(proc[p]) /\ f \in Stores /\ f \notin Journals /\ f \in Files /\ Work(f) = proc[p]
  <2>1. Working(proc[p])
    BY DEF Working
  <2>2. f \in Stores
    BY DEF IInv, ProcFine
  <2> QED BY <2>1, <2>2, HeldFacts, TypedFacts
<1>2. acked[f] \subseteq store[f].records /\ proc[p].seen = store[f].records /\ acked[f] \subseteq Ids
  BY <1>1 DEF IInv, TypeOK, StoreFine
<1>3. store'[f].records = records /\ acked'[f] = acked[f] \union more
  BY <1>1, TypedFacts
<1>4. StoreFine(store'[f], Idle, acked'[f]) /\ acked'[f] \subseteq Ids
  BY <1>2, <1>3 DEF StoreFine, Idle
<1>5. Typed
  BY TypedFacts DEF Typed
<1>6. holder' = [holder EXCEPT ![f] = NoProc]
  BY DEF Release
<1>7. /\ \A s \in Stores \ {f} : store'[s] = store[s] /\ \A j \in Journals \ {f} : text'[j] = text[j]
      /\ \A g \in Files \ {f} : acked'[g] = acked[g] /\ crashes'[g] = crashes[g]
  BY TypedFacts
<1>8. acked[f] \subseteq acked'[f]
  BY <1>3
<1> QED BY <1>1, <1>4, <1>5, <1>6, <1>7, <1>8, LeaveKeeps

LEMMA CommitKeeps == ASSUME IInv, NEW p \in Procs, Commit(p) PROVE IInv'
<1> DEFINE f == proc[p].file
           records == proc[p].seen \union {proc[p].item}
           more == {proc[p].item}
<1>1. /\ proc[p].at = "loaded" /\ proc[p].op = "remember"
      /\ store' = [store EXCEPT ![f] = [version |-> Current, records |-> records]]
      /\ acked' = [acked EXCEPT ![f] = @ \union more]
      /\ proc' = [proc EXCEPT ![p] = Idle] /\ Release(p) /\ UNCHANGED <<text, began, crashes>>
  BY DEF Commit
<1>2. f \in Stores /\ proc[p].item \in Ids /\ Current \in 0 .. Current
  BY <1>1 DEF IInv, ProcFine, Current
<1>3. proc[p].seen \in SUBSET Ids
  <2>1. Working(proc[p])
    BY <1>1 DEF Working
  <2>2. proc[p].seen = store[f].records
    BY <1>1, <1>2, <2>1, HeldFacts DEF IInv, StoreFine
  <2> QED BY <1>2, <2>2, TypedFacts
<1>4. records \in SUBSET Ids /\ more \in SUBSET records /\ proc[p].seen \subseteq records
  BY <1>2, <1>3
<1>5. f = proc[p].file
  OBVIOUS
<1> HIDE DEF f, records, more
<1> QED BY <1>1, <1>2, <1>4, <1>5, StoreKeeps

LEMMA MigrateStoreKeeps == ASSUME IInv, NEW p \in Procs, CommitFails(p) \/ MigrateStore(p) PROVE IInv'
<1> DEFINE f == proc[p].file
<1>1. /\ proc[p].at = "loaded" /\ proc' = [proc EXCEPT ![p] = Idle] /\ Release(p)
      /\ UNCHANGED <<text, acked, began, crashes>>
  BY DEF CommitFails, MigrateStore
<1>2. Working(proc[p]) /\ f \in Stores
  BY <1>1 DEF Working, IInv, ProcFine
<1>3. proc[p].seen = store[f].records
  BY <1>1, <1>2, HeldFacts DEF IInv, StoreFine
<1>4. store[f] \in [version : 0 .. Current, records : SUBSET Ids] /\ Current \in 0 .. Current
  BY <1>2, TypedFacts DEF Current
<1>5. PICK version \in 0 .. Current :
        store' = [store EXCEPT ![f] = [version |-> version, records |-> proc[p].seen]]
  <2>1. [version |-> store[f].version, records |-> store[f].records] = store[f]
    BY <1>4
  <2>2. store = [store EXCEPT ![f] = store[f]]
    BY <1>2, TypedFacts
  <2>3. store' = store \/ store' = [store EXCEPT ![f] = [version |-> Current, records |-> proc[p].seen]]
    BY <2>2 DEF CommitFails, MigrateStore
  <2> QED BY <1>3, <1>4, <2>1, <2>2, <2>3
<1>6. acked' = [acked EXCEPT ![f] = @ \union {}]
  BY <1>1, TypedFacts
<1>7. proc[p].seen \in SUBSET Ids /\ {} \in SUBSET proc[p].seen /\ proc[p].seen \subseteq proc[p].seen
  BY <1>3, <1>4
<1>8. f = proc[p].file
  OBVIOUS
<1> HIDE DEF f
<1> QED BY <1>1, <1>5, <1>6, <1>7, <1>8, StoreKeeps

\* What the holder of a journal knows of it.
LEMMA JournalHeld ==
  ASSUME IInv, NEW p \in Procs, Working(proc[p]), proc[p].file \in Journals
  PROVE  LET j == proc[p].file
         IN /\ text[j] \in Seq(Tokens) /\ crashes[j] \in Nat /\ acked[j] \subseteq Rows
            /\ JournalFine(text[j], proc[p], acked[j], crashes[j])
<1>1. Work(proc[p].file) = proc[p]
  BY HeldFacts
<1> QED BY <1>1, TypedFacts, BoundAssumption DEF IInv, TypeOK

\* Who reads a journal that can be read has everything acknowledged in it.
LEMMA ReadAll ==
  ASSUME NEW t \in Seq(Tokens), NEW rows, NEW c, Settled(t, rows, c), Readable(t)
  PROVE  rows \subseteq Range(RowsOf(t)) /\ RowsOf(t) \in Seq(Rows) /\ Range(RowsOf(t)) \subseteq Rows
<1>1. rows \subseteq Range(RowsOf(t))
  BY HeadsRead DEF Settled
<1>2. RowsOf(t) \in Seq(Rows)
  BY RowsOfFacts
<1>3. Range(RowsOf(t)) \subseteq Rows
  BY RowsOfFacts, StartFacts
<1> QED BY <1>1, <1>2, <1>3

\* A migration writes the rows that it read, and only if it read them all.
LEMMA MigrateJournalKeeps == ASSUME IInv, NEW p \in Procs, MigrateJournal(p) PROVE IInv'
<1> DEFINE j == proc[p].file
           new == TextOf(RowsOf(text[j]), Current)
<1>1. /\ proc[p].at = "inside" /\ proc[p].op = "migrate" /\ j \in Journals
      /\ (text' = [text EXCEPT ![j] = new] /\ Readable(text[j])) \/ text' = text
      /\ proc' = [proc EXCEPT ![p] = Idle] /\ holder' = [holder EXCEPT ![j] = NoProc]
      /\ UNCHANGED <<store, acked, began, crashes>>
  BY DEF MigrateJournal, Release
<1>2. Working(proc[p])
  BY <1>1 DEF Working
<1>3. text[j] \in Seq(Tokens) /\ crashes[j] \in Nat /\ acked[j] \subseteq Rows /\ Settled(text[j], acked[j], crashes[j])
  BY <1>1, <1>2, JournalHeld DEF JournalFine
<1>4. j \notin Stores /\ text \in [Journals -> Seq(Tokens)]
  BY <1>1, TypedFacts
<1>5. text' \in [Journals -> Seq(Tokens)] /\ Settled(text'[j], acked[j], crashes[j])
  <2>1. CASE text' = text
    BY <1>3, <1>4, <2>1
  <2>2. CASE text' = [text EXCEPT ![j] = new] /\ Readable(text[j])
    <3>1. acked[j] \in SUBSET Range(RowsOf(text[j])) /\ RowsOf(text[j]) \in Seq(Rows)
      BY <1>3, <2>2, ReadAll
    <3>2. Current \in 1 .. Current
      BY DEF Current
    <3>3. new \in Seq(Tokens) /\ Settled(new, Range(RowsOf(text[j])), 0)
      BY <3>1, <3>2, TextSettled
    <3>4. 0 <= crashes[j]
      BY <1>3
    <3> HIDE DEF new, j
    <3>5. Settled(new, acked[j], crashes[j])
      BY <1>3, <3>1, <3>3, <3>4, SettledWeakens
    <3>6. text'[j] = new /\ text' \in [Journals -> Seq(Tokens)]
      BY <1>1, <1>4, <2>2, <3>3
    <3> QED BY <3>5, <3>6
  <2> QED BY <1>1, <2>1, <2>2
<1>6. JournalFine(text'[j], Idle, acked'[j], crashes'[j]) /\ acked'[j] \subseteq Rows
  <2>1. Idle.op # "append"
    BY DEF Idle
  <2> QED BY <1>1, <1>3, <1>5, <2>1 DEF JournalFine
<1>7. Typed
  BY <1>1, <1>5, TypedFacts DEF Typed
<1>8. \A i \in Journals \ {j} : text'[i] = text[i]
  BY <1>1, <1>4
<1>9. j = proc[p].file
  OBVIOUS
<1> HIDE DEF j, new
<1> QED BY <1>1, <1>2, <1>4, <1>6, <1>7, <1>8, <1>9, LeaveKeeps

\* Both parts of a sequence that is cut in two.
SplitIs(item, n, pre, post) ==
  /\ pre \in Seq(Tokens) /\ post \in Seq(Tokens) /\ pre \o post = item
  /\ {item[i].row : i \in 1 .. n} \union {post[i].row : i \in DOMAIN post} = {item[i].row : i \in DOMAIN item}
  /\ \A i \in 1 .. n : item[i] \in Tokens

LEMMA SplitFacts ==
  ASSUME NEW item \in Seq(Tokens), NEW n \in 1 .. Len(item)
  PROVE  SplitIs(item, n, SubSeq(item, 1, n), SubSeq(item, n + 1, Len(item)))
<1> DEFINE pre  == SubSeq(item, 1, n)
           post == SubSeq(item, n + 1, Len(item))
<1>1. PICK l \in Nat : l = Len(item) /\ DOMAIN item = 1 .. l /\ n \in 1 .. l /\ \A i \in 1 .. l : item[i] \in Tokens
  BY LenProperties, ElementOfSeq
<1>2. pre \in Seq(Tokens) /\ Len(pre) = n /\ \A i \in 1 .. n : pre[i] = item[i]
  <2>1. \A i \in 1 .. n : item[i] \in Tokens
    BY <1>1
  <2>2. /\ pre \in Seq(Tokens) /\ Len(pre) = (IF 1 <= n THEN n - 1 + 1 ELSE 0)
        /\ \A i \in 1 .. n - 1 + 1 : pre[i] = item[1 + i - 1]
    BY <1>1, <2>1, SubSeqProperties
  <2> HIDE DEF pre
  <2>3. \A i \in 1 .. n : i \in 1 .. n - 1 + 1 /\ 1 + i - 1 = i
    BY <1>1
  <2>4. \A i \in 1 .. n : pre[i] = item[i]
    BY <2>2, <2>3
  <2> QED BY <1>1, <2>2, <2>4
<1>3. post \in Seq(Tokens) /\ Len(post) = l - n /\ \A i \in 1 .. l - n : post[i] = item[n + i]
  <2>1. \A i \in n + 1 .. l : item[i] \in Tokens
    BY <1>1
  <2>2. /\ post \in Seq(Tokens) /\ Len(post) = (IF n + 1 <= l THEN l - (n + 1) + 1 ELSE 0)
        /\ \A i \in 1 .. l - (n + 1) + 1 : post[i] = item[n + 1 + i - 1]
    BY <1>1, <2>1, SubSeqProperties
  <2> HIDE DEF post
  <2>3. \A i \in 1 .. l - n : i \in 1 .. l - (n + 1) + 1 /\ n + 1 + i - 1 = n + i
    BY <1>1
  <2>4. \A i \in 1 .. l - n : post[i] = item[n + i]
    BY <2>2, <2>3
  <2> QED BY <1>1, <2>2, <2>4
<1> HIDE DEF pre, post
<1>4. DOMAIN post = 1 .. l - n
  BY <1>3, LenProperties
<1>5. pre \o post = item
  <2>1. /\ pre \o post \in Seq(Tokens) /\ Len(pre \o post) = n + (l - n)
        /\ \A i \in 1 .. n + (l - n) : (pre \o post)[i] = IF i <= n THEN pre[i] ELSE post[i - n]
    <3>1. /\ pre \o post \in Seq(Tokens) /\ Len(pre \o post) = Len(pre) + Len(post)
          /\ \A i \in 1 .. Len(pre) + Len(post) : (pre \o post)[i] = IF i <= Len(pre) THEN pre[i] ELSE post[i - Len(pre)]
      BY <1>2, <1>3, ConcatProperties
    <3>2. Len(pre) = n /\ Len(post) = l - n
      BY <1>2, <1>3
    <3> QED BY <3>1, <3>2
  <2> DEFINE both == pre \o post
  <2> HIDE DEF both
  <2>2. ASSUME NEW i \in 1 .. l PROVE both[i] = item[i]
    <3>1. i \in 1 .. n + (l - n) /\ (i <= n => i \in 1 .. n) /\ (~(i <= n) => i - n \in 1 .. l - n /\ n + (i - n) = i)
      BY <1>1
    <3> QED BY <1>2, <1>3, <2>1, <3>1 DEF both
  <2>3. both \in Seq(Tokens) /\ Len(both) = Len(item)
    BY <1>1, <2>1 DEF both
  <2>4. both = item
    BY <1>1, <2>2, <2>3, SeqEqual
  <2> QED BY <2>4 DEF both
<1>6. {item[i].row : i \in 1 .. n} \union {post[i].row : i \in 1 .. l - n} = {item[i].row : i \in 1 .. l}
  <2>1. \A i \in 1 .. n : i \in 1 .. l
    BY <1>1
  <2>2. \A i \in 1 .. l - n : n + i \in 1 .. l /\ post[i].row = item[n + i].row
    BY <1>1, <1>3
  <2>3. \A i \in 1 .. l : i \in 1 .. n \/ (i - n \in 1 .. l - n /\ post[i - n].row = item[i].row)
    <3> SUFFICES ASSUME NEW i \in 1 .. l, i \notin 1 .. n PROVE i - n \in 1 .. l - n /\ post[i - n].row = item[i].row
      OBVIOUS
    <3>1. i - n \in 1 .. l - n /\ n + (i - n) = i
      BY <1>1
    <3> QED BY <1>3, <3>1
  <2> DEFINE first == {item[i].row : i \in 1 .. n}
             rest  == {post[i].row : i \in 1 .. l - n}
             all   == {item[i].row : i \in 1 .. l}
  <2>4. first \subseteq all
    BY <2>1
  <2>5. rest \subseteq all
    <3> SUFFICES ASSUME NEW i \in 1 .. l - n PROVE post[i].row \in all
      OBVIOUS
    <3> QED BY <2>2
  <2>6. all \subseteq first \union rest
    <3> SUFFICES ASSUME NEW i \in 1 .. l PROVE item[i].row \in first \union rest
      OBVIOUS
    <3> QED BY <2>3
  <2> HIDE DEF first, rest, all
  <2>7. first \union rest = all
    BY <2>4, <2>5, <2>6
  <2> QED BY <2>7 DEF first, rest, all
<1>7. {item[i].row : i \in 1 .. n} \union {post[i].row : i \in DOMAIN post} = {item[i].row : i \in DOMAIN item}
  BY <1>1, <1>4, <1>6
<1>8. \A i \in 1 .. n : item[i] \in Tokens
  BY <1>1
<1>9. SplitIs(item, n, pre, post)
  BY <1>2, <1>3, <1>5, <1>7, <1>8 DEF SplitIs
<1> QED BY <1>9 DEF pre, post

\* Writing some of what is left: the text with what is left stays what it was.
LEMMA WriteKeeps == ASSUME IInv, NEW p \in Procs, Write(p) PROVE IInv'
<1> DEFINE j == proc[p].file
           item == proc[p].item
<1>1. proc[p].at = "inside" /\ proc[p].op = "append" /\ UNCHANGED <<store, holder, acked, began, crashes>>
  BY DEF Write
<1>2. Working(proc[p]) /\ j \in Journals /\ item \in Seq(Tokens) /\ proc[p].seen \subseteq Rows \union {NoRow}
      /\ proc[p] \in Operation /\ ProcFine(proc[p], acked)
  BY <1>1, TypedFacts DEF IInv, ProcFine, Working
<1>3. /\ text[j] \in Seq(Tokens) /\ crashes[j] \in Nat
      /\ JournalFine(text[j], proc[p], acked[j], crashes[j])
  BY <1>2, JournalHeld
<1>4. /\ Settled(text[j] \o item, acked[j] \union Due(proc[p]), crashes[j])
      /\ Partly(text[j], acked[j], crashes[j])
  BY <1>1, <1>3 DEF JournalFine
<1>5. PICK n \in 1 .. Len(item) :
        /\ text' = [text EXCEPT ![j] = @ \o SubSeq(item, 1, n)]
        /\ proc' = [proc EXCEPT ![p].item = SubSeq(@, n + 1, Len(@)),
                                ![p].seen = @ \union {item[i].row : i \in 1 .. n}]
  BY DEF Write
<1> DEFINE pre  == SubSeq(item, 1, n)
           post == SubSeq(item, n + 1, Len(item))
           more == {item[i].row : i \in 1 .. n}
           w    == [proc[p] EXCEPT !.item = post, !.seen = @ \union more]
<1>6. SplitIs(item, n, pre, post)
  BY <1>2, SplitFacts
<1>7. text' = [text EXCEPT ![j] = @ \o pre] /\ proc' = [proc EXCEPT ![p] = w]
  BY <1>2, <1>5, TypedFacts
<1>8. more \subseteq Rows \union {NoRow}
  <2>1. \A c \in Tokens : c.row \in Rows \union {NoRow}
    BY TokenFacts
  <2> QED BY <1>6, <2>1 DEF SplitIs
<1> HIDE DEF pre, post, more
<1>9. /\ w \in Operation /\ w.at = "inside" /\ w.op = "append" /\ w.file = j /\ w.item = post
      /\ w.seen = proc[p].seen \union more /\ w.known = proc[p].known
  BY <1>1, <1>2, <1>6, <1>8 DEF Operation, SplitIs
<1>10. Due(w) = Due(proc[p])
  <2>1. more \union {post[i].row : i \in DOMAIN post} = {item[i].row : i \in DOMAIN item}
    BY <1>6 DEF SplitIs, more
  <2> HIDE DEF w
  <2> QED BY <1>9, <2>1 DEF Due
<1> HIDE DEF w
<1>11. text'[j] = text[j] \o pre /\ text' \in [Journals -> Seq(Tokens)] /\ \A i \in Journals \ {j} : text'[i] = text[i]
  <2>1. text \in [Journals -> Seq(Tokens)] /\ text[j] \o pre \in Seq(Tokens)
    BY <1>3, <1>6, TypedFacts, ConcatProperties DEF SplitIs
  <2> QED BY <1>2, <1>7, <2>1
<1>12. JournalFine(text'[j], w, acked[j], crashes[j])
  <2>1. (text[j] \o pre) \o post = text[j] \o item
    <3>1. pre \in Seq(Tokens) /\ post \in Seq(Tokens) /\ pre \o post = item
      BY <1>6 DEF SplitIs
    <3>2. PICK t \in Seq(Tokens) : t = text[j]
      BY <1>3
    <3>3. pre \in Seq(Tokens) /\ post \in Seq(Tokens)
      BY <3>1
    <3>4. (t \o pre) \o post = t \o (pre \o post)
      <4>1. \A u \in Seq(Tokens) : \A v \in Seq(Tokens) : (t \o u) \o v = t \o (u \o v)
        BY ConcatAssociative, SMTT(30)
      <4> QED BY <3>3, <4>1
    <3> QED BY <3>1, <3>2, <3>4
  <2>2. Partly(text[j] \o pre, acked[j], crashes[j])
    BY <1>3, <1>4, <1>6, PartlyGrows DEF SplitIs
  <2>3. Settled((text[j] \o pre) \o post, acked[j] \union Due(w), crashes[j])
    BY <1>4, <1>10, <2>1
  <2> QED BY <1>9, <1>11, <2>2, <2>3 DEF JournalFine
<1>13. ProcFine(w, acked')
  BY <1>1, <1>2, <1>6, <1>8, <1>9 DEF ProcFine, SplitIs
<1>14. Typed /\ j \notin Stores
  BY <1>1, <1>2, <1>11, TypedFacts DEF Typed
<1>15. Working(w)
  BY <1>9 DEF Working
<1> QED BY <1>1, <1>2, <1>7, <1>9, <1>11, <1>12, <1>13, <1>14, <1>15, StayKeeps

\* All is written: what was due is acknowledged.
LEMMA AppendedKeeps == ASSUME IInv, NEW p \in Procs, Appended(p) PROVE IInv'
<1> DEFINE j == proc[p].file
           all == acked[j] \union (proc[p].seen \ {NoRow})
<1>1. /\ proc[p].at = "inside" /\ proc[p].op = "append" /\ proc[p].item = <<>>
      /\ acked' = [acked EXCEPT ![j] = all] /\ proc' = [proc EXCEPT ![p] = Idle]
      /\ holder' = [holder EXCEPT ![j] = NoProc] /\ UNCHANGED <<store, text, began, crashes>>
  BY DEF Appended, Release
<1>2. Working(proc[p]) /\ j \in Journals /\ proc[p].seen \subseteq Rows \union {NoRow}
  BY <1>1 DEF IInv, ProcFine, Working
<1>3. /\ text[j] \in Seq(Tokens) /\ acked[j] \subseteq Rows
      /\ JournalFine(text[j], proc[p], acked[j], crashes[j])
  BY <1>2, JournalHeld
<1>4. Settled(text[j] \o <<>>, acked[j] \union Due(proc[p]), crashes[j])
  BY <1>1, <1>3 DEF JournalFine
<1>5. Due(proc[p]) = proc[p].seen \ {NoRow}
  BY <1>1 DEF Due
<1>6. text[j] \o <<>> = text[j]
  BY <1>3, ConcatEmptySeq
<1>7. Settled(text[j], all, crashes[j])
  BY <1>4, <1>5, <1>6
<1>8. all \subseteq Rows /\ acked[j] \subseteq all
  BY <1>2, <1>3
<1>9. j = proc[p].file /\ j \notin Stores /\ j \in Files
  BY <1>2, TypedFacts
<1> HIDE DEF all, j
<1>10. acked'[j] = all /\ \A g \in Files \ {j} : acked'[g] = acked[g] /\ crashes'[g] = crashes[g]
  BY <1>1, <1>9, TypedFacts
<1>11. JournalFine(text'[j], Idle, acked'[j], crashes'[j]) /\ acked'[j] \subseteq Rows
  <2>1. Idle.op # "append"
    BY DEF Idle
  <2> QED BY <1>1, <1>7, <1>8, <1>10, <2>1 DEF JournalFine
<1>12. acked' \in [Files -> SUBSET (Ids \union Rows)]
  BY <1>1, <1>8, TypedFacts
<1>13. Typed
  BY <1>1, <1>12, TypedFacts DEF Typed
<1>14. /\ \A s \in Stores \ {j} : store'[s] = store[s]
       /\ \A i \in Journals \ {j} : text'[i] = text[i]
  BY <1>1
<1>15. acked[j] \subseteq acked'[j]
  BY <1>8, <1>10
<1> QED BY <1>1, <1>2, <1>9, <1>10, <1>11, <1>13, <1>14, <1>15, LeaveKeeps

\* A reader leaves a journal with all that was acknowledged, or with an error.
LEMMA ReadJournalKeeps == ASSUME IInv, NEW p \in Procs, ReadJournal(p) PROVE IInv'
<1> DEFINE j == proc[p].file
           w == IF Readable(text[j]) THEN [proc[p] EXCEPT !.at = "done", !.seen = Range(RowsOf(text[j]))] ELSE Idle
<1>1. /\ proc[p].at = "inside" /\ proc[p].op = "read" /\ proc' = [proc EXCEPT ![p] = w]
      /\ holder' = [holder EXCEPT ![j] = NoProc] /\ UNCHANGED <<store, text, acked, began, crashes>>
  BY DEF ReadJournal, Release
<1>2. Working(proc[p]) /\ j \in Journals /\ proc[p] \in Operation /\ ProcFine(proc[p], acked)
  BY <1>1, TypedFacts DEF IInv, ProcFine, Working
<1>3. text[j] \in Seq(Tokens) /\ acked[j] \subseteq Rows /\ Settled(text[j], acked[j], crashes[j])
  BY <1>1, <1>2, JournalHeld DEF JournalFine
<1>4. w \in Operation /\ ~Working(w) /\ ProcFine(w, acked)
  <2>1. CASE Readable(text[j])
    <3> DEFINE rows == Range(RowsOf(text[j]))
    <3>1. acked[j] \subseteq rows /\ rows \subseteq Rows
      BY <1>3, <2>1, ReadAll
    <3> HIDE DEF rows
    <3>2. w = [proc[p] EXCEPT !.at = "done", !.seen = rows]
      BY <2>1 DEF rows
    <3> HIDE DEF w
    <3>3. /\ w \in Operation /\ w.at = "done" /\ w.op = "read" /\ w.file = j /\ w.seen = rows
          /\ w.known = proc[p].known
      BY <1>1, <1>2, <3>1, <3>2 DEF Operation, Stages
    <3>4. w.known \subseteq acked[j] /\ j \in Files
      BY <1>1, <1>2, <3>3 DEF ProcFine
    <3> QED BY <3>1, <3>3, <3>4 DEF ProcFine, Working
  <2>2. CASE ~Readable(text[j])
    BY <2>2, IdleFacts
  <2> QED BY <2>1, <2>2
<1>5. Typed
  BY <1>1, TypedFacts DEF Typed
<1>6. JournalFine(text'[j], Idle, acked'[j], crashes'[j]) /\ acked'[j] \subseteq Rows
  <2>1. Idle.op # "append"
    BY DEF Idle
  <2> QED BY <1>1, <1>3, <2>1 DEF JournalFine
<1>7. j = proc[p].file /\ j \notin Stores
  BY <1>2, TypedFacts
<1> HIDE DEF w, j
<1>8. ProcFine(w, acked') /\ acked[j] \subseteq acked'[j]
  BY <1>1, <1>4
<1>9. /\ \A s \in Stores \ {j} : store'[s] = store[s]
      /\ \A i \in Journals \ {j} : text'[i] = text[i]
      /\ \A g \in Files \ {j} : acked'[g] = acked[g] /\ crashes'[g] = crashes[g]
  BY <1>1
<1> QED BY <1>1, <1>2, <1>4, <1>5, <1>6, <1>7, <1>8, <1>9, LeavingKeeps

\* A holder dies: a journal is settled again with one crash more.
LEMMA DieKeeps == ASSUME IInv, NEW p \in Procs, Die(p) PROVE IInv'
<1> DEFINE f == proc[p].file
<1>1. /\ Working(proc[p]) /\ crashes[f] < MaxCrashes /\ crashes' = [crashes EXCEPT ![f] = @ + 1]
      /\ proc' = [proc EXCEPT ![p] = Idle] /\ holder' = [holder EXCEPT ![f] = NoProc]
      /\ UNCHANGED <<store, text, acked, began>>
  BY DEF Die, Release, Working
<1>2. f \in Files /\ Work(f) = proc[p] /\ crashes[f] \in 0 .. MaxCrashes /\ crashes[f] \in Nat
  BY <1>1, HeldFacts, TypedFacts, BoundAssumption
<1>3. crashes'[f] = crashes[f] + 1 /\ crashes' \in [Files -> 0 .. MaxCrashes]
  <2>1. crashes[f] + 1 \in 0 .. MaxCrashes
    BY <1>1, <1>2, BoundAssumption
  <2> QED BY <1>1, <1>2, <2>1, TypedFacts
<1>4. f = proc[p].file
  OBVIOUS
<1> HIDE DEF f
<1>5. f \in Stores => StoreFine(store[f], Idle, acked[f]) /\ acked[f] \subseteq Ids
  BY DEF IInv, TypeOK, StoreFine, Idle
<1>6. ASSUME f \in Journals PROVE JournalFine(text[f], Idle, acked[f], crashes[f] + 1) /\ acked[f] \subseteq Rows
  <2>1. JournalFine(text[f], proc[p], acked[f], crashes[f]) /\ acked[f] \subseteq Rows /\ Idle.op # "append"
    BY <1>1, <1>4, <1>6, JournalHeld DEF Idle
  <2>2. CASE proc[p].op = "append"
    <3>1. Settled(text[f], acked[f], crashes[f] + 1)
      BY <1>2, <2>1, <2>2, CrashSettles DEF JournalFine
    <3> QED BY <2>1, <3>1 DEF JournalFine
  <2>3. CASE proc[p].op # "append"
    <3>1. Settled(text[f], acked[f], crashes[f]) /\ acked[f] \in SUBSET acked[f]
      BY <2>1, <2>3 DEF JournalFine
    <3>2. crashes[f] + 1 \in Nat /\ crashes[f] <= crashes[f] + 1
      BY <1>2
    <3>3. Settled(text[f], acked[f], crashes[f] + 1)
      BY <1>2, <3>1, <3>2, SettledWeakens
    <3> QED BY <2>1, <3>3 DEF JournalFine
  <2> QED BY <2>2, <2>3
<1>7. Typed
  BY <1>1, <1>3, TypedFacts DEF Typed
<1>8. /\ \A s \in Stores \ {f} : store'[s] = store[s]
      /\ \A i \in Journals \ {f} : text'[i] = text[i]
      /\ \A g \in Files \ {f} : acked'[g] = acked[g] /\ crashes'[g] = crashes[g]
      /\ acked[f] \subseteq acked'[f]
  BY <1>1, <1>2, TypedFacts
<1>9. /\ f \in Stores => StoreFine(store'[f], Idle, acked'[f]) /\ acked'[f] \subseteq Ids
      /\ f \in Journals => JournalFine(text'[f], Idle, acked'[f], crashes'[f]) /\ acked'[f] \subseteq Rows
  BY <1>1, <1>3, <1>5, <1>6
<1> QED BY <1>1, <1>4, <1>7, <1>8, <1>9, LeaveKeeps

-----------------------------------------------------------------------------
\* What an older release left is settled, and is acknowledged.
LEMMA InitIInv == Init => IInv
<1> SUFFICES ASSUME Init PROVE IInv
  OBVIOUS
<1>1. ASSUME NEW j \in Journals
      PROVE  text[j] \in Seq(Tokens) /\ Settled(text[j], acked[j], 0) /\ acked[j] \subseteq Rows
  <2>1. PICK rows \in OldTexts : text[j] = TextOf(rows, 1)
    BY DEF Init
  <2>2. rows \in Seq(Rows) /\ 1 \in 1 .. Current
    BY InputAssumption DEF Current
  <2>3. /\ text[j] \in Seq(Tokens) /\ Settled(text[j], Range(rows), 0)
        /\ Standing(text[j]) \in SUBSET Range(rows)
    BY <2>1, <2>2, TextSettled
  <2>4. acked[j] = Standing(text[j])
    BY NameAssumption DEF Init, Files
  <2>5. Settled(text[j], acked[j], 0)
    <3>1. 0 <= 0 /\ 0 \in Nat
      OBVIOUS
    <3> QED BY <2>3, <2>4, <3>1, SettledWeakens
  <2>6. Range(rows) \subseteq Rows
    <3>1. \A i \in DOMAIN rows : rows[i] \in Rows
      BY <2>2, LenProperties, ElementOfSeq
    <3> QED BY <3>1 DEF Range
  <2> QED BY <2>3, <2>4, <2>5, <2>6
<1>2. ASSUME NEW s \in Stores
      PROVE  store[s] \in [version : 0 .. Current, records : SUBSET Ids] /\ acked[s] = store[s].records
  <2>1. store[s] \in {[version |-> 0, records |-> {}]} \union {[version |-> 1, records |-> r] : r \in OldStores}
    BY DEF Init
  <2>2. acked[s] = store[s].records
    BY DEF Init, Files
  <2>3. CASE store[s] = [version |-> 0, records |-> {}]
    BY <2>2, <2>3 DEF Current
  <2>4. CASE store[s] # [version |-> 0, records |-> {}]
    <3>1. PICK r \in OldStores : store[s] = [version |-> 1, records |-> r]
      BY <2>1, <2>4
    <3>2. r \in SUBSET Ids
      BY InputAssumption
    <3> QED BY <2>2, <3>1, <3>2 DEF Current
  <2> QED BY <2>3, <2>4
<1>3. /\ store = [s \in Stores |-> store[s]] /\ text = [j \in Journals |-> text[j]]
      /\ acked = [f \in Files |-> acked[f]] /\ holder = [f \in Files |-> NoProc]
      /\ proc = [p \in Procs |-> Idle] /\ began = 0 /\ crashes = [f \in Files |-> 0]
  BY DEF Init
<1>4. store \in [Stores -> [version : 0 .. Current, records : SUBSET Ids]] /\ text \in [Journals -> Seq(Tokens)]
  BY <1>1, <1>2, <1>3
<1>5. acked \in [Files -> SUBSET (Ids \union Rows)]
  <2>1. \A f \in Files : acked[f] \in SUBSET (Ids \union Rows)
    BY <1>1, <1>2 DEF Files
  <2> QED BY <1>3, <2>1
<1>6. (\A s \in Stores : acked[s] \subseteq Ids) /\ (\A j \in Journals : acked[j] \subseteq Rows)
  BY <1>1, <1>2
<1>7. holder \in [Files -> Procs \union {NoProc}] /\ crashes \in [Files -> 0 .. MaxCrashes] /\ began \in 0 .. MaxWork
  BY <1>3, BoundAssumption
<1>8. \A p \in Procs : proc[p] = Idle /\ ProcFine(proc[p], acked) /\ ~Working(proc[p])
  BY <1>3, IdleFacts
<1>9. \A p \in Procs : /\ proc[p].at \in Stages /\ proc[p].op \in Ops
                       /\ proc[p].at # "idle" => proc[p].file \in Files
                       /\ proc[p].at \in {"inside", "loaded"} => holder[proc[p].file] = p
  <2>1. Idle.at = "idle" /\ Idle.op = "none"
    BY DEF Idle
  <2>2. "idle" \notin {"inside", "loaded"} /\ "idle" \in Stages /\ "none" \in Ops
    BY DEF Stages, Ops
  <2> QED BY <1>8, <2>1, <2>2
<1>10. TypeOK
  BY <1>4, <1>6, <1>7, <1>9 DEF TypeOK
<1>11. OneHolder /\ proc \in [Procs -> Operation]
  BY <1>3, <1>8, IdleFacts DEF OneHolder
<1>12. \A f \in Files : Work(f) = Idle
  BY <1>3 DEF Work
<1>13. \A s \in Stores : StoreFine(store[s], Work(s), acked[s])
  BY <1>2, <1>12 DEF StoreFine, Idle, Files
<1>14. \A j \in Journals : JournalFine(text[j], Work(j), acked[j], crashes[j])
  BY <1>1, <1>3, <1>12 DEF JournalFine, Idle, Files
<1> QED BY <1>5, <1>8, <1>10, <1>11, <1>13, <1>14 DEF IInv

\* Every step of every process preserves the invariant.
LEMMA StepIInv == IInv /\ [Next]_vars => IInv'
<1> SUFFICES ASSUME IInv, [Next]_vars PROVE IInv'
  OBVIOUS
<1>1. CASE UNCHANGED vars
  <2>1. UNCHANGED <<store, text, holder, proc, acked, began, crashes>>
    BY <1>1 DEF vars
  <2>2. \A f : Work(f)' = Work(f)
    BY <2>1 DEF Work
  <2>3. TypeOK' /\ OneHolder' /\ (proc \in [Procs -> Operation])' /\ (acked \in [Files -> SUBSET (Ids \union Rows)])'
    BY <2>1 DEF IInv, TypeOK, OneHolder
  <2>4. \A p \in Procs : ProcFine(proc[p], acked)'
    <3>1. \A p \in Procs : ProcFine(proc'[p], acked')
      BY <2>1 DEF IInv
    <3> QED BY <3>1 DEF ProcFine
  <2>5. \A s \in Stores : StoreFine(store[s], Work(s), acked[s])'
    <3>1. \A s \in Stores : StoreFine(store'[s], Work(s)', acked'[s])
      BY <2>1, <2>2 DEF IInv
    <3> QED BY <3>1 DEF StoreFine
  <2>6. \A j \in Journals : JournalFine(text[j], Work(j), acked[j], crashes[j])'
    <3>1. \A j \in Journals : JournalFine(text'[j], Work(j)', acked'[j], crashes'[j])
      BY <2>1, <2>2 DEF IInv
    <3> QED BY <3>1 DEF JournalFine, Due
  <2> QED BY <2>3, <2>4, <2>5, <2>6 DEF IInv
<1>2. ASSUME NEW p \in Procs, Step(p) PROVE IInv'
  BY <1>2, RequestKeeps, EnterKeeps, GiveUpKeeps, LoadKeeps, CommitKeeps, MigrateStoreKeeps, MigrateJournalKeeps,
     WriteKeeps, AppendedKeeps, ReadStoreKeeps, ReadJournalKeeps, DieKeeps DEF Step
<1> QED BY <1>1, <1>2 DEF Next

\* The inductive invariant holds throughout.
THEOREM Invariant == Spec => []IInv
<1>1. Init => IInv BY InitIInv
<1>2. IInv /\ [Next]_vars => IInv' BY StepIInv
<1> QED BY <1>1, <1>2, PTL DEF Spec

-----------------------------------------------------------------------------
(* What follows *)

\* The types: who is inside a lock holds it, and what was acknowledged is of its file's kind.
THEOREM TypeCorrect == Spec => []TypeOK
<1>1. IInv => TypeOK
  BY DEF IInv
<1> QED BY <1>1, Invariant, PTL

\* A reader has in its hands all that was acknowledged when it began, of a store that it
\* reads without a lock and of a journal that a migration may rewrite.
THEOREM ReadersSeeAcksHolds == Spec => []ReadersSeeAcks
<1>1. IInv => ReadersSeeAcks
  BY DEF IInv, ProcFine, ReadersSeeAcks
<1> QED BY <1>1, Invariant, PTL

\* A journal that nobody writes is settled: with no crash and no split row in it, it can be
\* read and holds every acknowledged row.
THEOREM JournalWholeHolds == Spec => []JournalWhole
<1>1. IInv => JournalWhole
  <2> SUFFICES ASSUME IInv, NEW j \in Journals, crashes[j] = 0, holder[j] = NoProc, Unsplit(text[j])
               PROVE  Readable(text[j]) /\ acked[j] \subseteq Range(RowsOf(text[j]))
    BY DEF JournalWhole
  <2>1. Work(j) = Idle /\ Idle.op # "append"
    BY DEF Work, Idle
  <2>2. Settled(text[j], acked[j], 0)
    BY <2>1 DEF IInv, JournalFine
  <2>3. text[j] \in Seq(Tokens)
    BY TypedFacts
  <2>4. Readable(text[j])
    BY <2>2, NoneSpoilt
  <2> QED BY <2>2, <2>3, <2>4, ReadAll
<1> QED BY <1>1, Invariant, PTL

\* Whatever is being written, a crash has cost at most one acknowledged row that is not split.
THEOREM CrashCostsOneRowHolds == Spec => []CrashCostsOneRow
<1>1. IInv => CrashCostsOneRow
  <2> SUFFICES ASSUME IInv, NEW j \in Journals
               PROVE  Cardinality(acked[j] \ (Standing(text[j]) \union Split)) <= crashes[j]
    BY DEF CrashCostsOneRow
  <2> DEFINE lost == acked[j] \ (Standing(text[j]) \union Split)
  <2>1. text[j] \in Seq(Tokens) /\ crashes[j] \in Nat
    BY TypedFacts, BoundAssumption
  <2>2. JournalFine(text[j], Work(j), acked[j], crashes[j])
    BY DEF IInv
  <2>3. Partly(text[j], acked[j], crashes[j])
    <3>1. CASE Work(j).op = "append"
      BY <2>2, <3>1 DEF JournalFine
    <3>2. CASE Work(j).op # "append"
      <4>1. Settled(text[j], acked[j], crashes[j]) /\ acked[j] \in SUBSET acked[j]
        BY <2>2, <3>2 DEF JournalFine
      <4>2. crashes[j] <= crashes[j]
        BY <2>1
      <4> QED BY <2>1, <4>1, <4>2, SettledWeakens
    <3> QED BY <3>1, <3>2
  <2>4. lost \subseteq Lost(text[j], acked[j])
    BY <2>1, EndedRead DEF Lost
  <2>5. IsFiniteSet(Lost(text[j], acked[j])) /\ Cardinality(Lost(text[j], acked[j])) <= crashes[j]
    BY <2>3 DEF Partly
  <2> HIDE DEF lost
  <2>6. IsFiniteSet(lost) /\ Cardinality(lost) <= Cardinality(Lost(text[j], acked[j]))
    BY <2>4, <2>5, FS_Subset
  <2>7. PICK m \in Nat, n \in Nat : m = Cardinality(lost) /\ n = Cardinality(Lost(text[j], acked[j]))
    BY <2>5, <2>6, FS_CardinalityType
  <2>8. Cardinality(lost) <= crashes[j]
    BY <2>1, <2>5, <2>6, <2>7
  <2> QED BY <2>8 DEF lost
<1> QED BY <1>1, Invariant, PTL

\* Which steps change a store, and which a journal.
LEMMA WhoChanges ==
  ASSUME NEW p \in Procs, Step(p)
  PROVE  /\ store' = store \/ Commit(p) \/ MigrateStore(p)
         /\ text' = text \/ Write(p) \/ MigrateJournal(p)
BY DEF Step, Remember, AppendRows, Migrate, Read, Begin, Enter, GiveUp, Load, Commit, CommitFails, MigrateStore,
       MigrateJournal, Write, Appended, ReadStore, ReadJournal, Return, Die

\* Who rewrites a store has loaded all that is in it.
LEMMA StepKeepsRecords ==
  IInv /\ [Next]_vars => \A s \in Stores : store[s].records \subseteq store'[s].records
<1> SUFFICES ASSUME IInv, [Next]_vars, NEW s \in Stores, store' # store
             PROVE  store[s].records \subseteq store'[s].records
  OBVIOUS
<1>1. PICK p \in Procs : Commit(p) \/ MigrateStore(p)
  BY WhoChanges DEF Next, vars
<1> DEFINE f == proc[p].file
<1>2. proc[p].at = "loaded" /\ f \in Stores /\ Working(proc[p])
  BY <1>1 DEF Commit, MigrateStore, IInv, ProcFine, Working
<1>3. proc[p].seen = store[f].records
  BY <1>2, HeldFacts DEF IInv, StoreFine
<1>4. store'[f].records = store[f].records \/ store'[f].records = proc[p].seen
        \/ store'[f].records = proc[p].seen \union {proc[p].item}
  <2>1. CASE Commit(p)
    BY <1>2, <2>1, TypedFacts DEF Commit
  <2>2. CASE MigrateStore(p)
    BY <1>2, <2>2, TypedFacts DEF MigrateStore
  <2> QED BY <1>1, <2>1, <2>2
<1>5. s # f => store'[s] = store[s]
  BY <1>1, TypedFacts DEF Commit, MigrateStore
<1> QED BY <1>3, <1>4, <1>5

\* No rewrite of a store, and no migration, loses a record: each has loaded, under the
\* lock, what it replaces.
THEOREM RecordsKeptHolds == Spec => RecordsKept
<1>1. IInv /\ [Next]_vars => [\A s \in Stores : store[s].records \subseteq store'[s].records]_vars
  BY StepKeepsRecords
<1> QED BY <1>1, Invariant, PTL DEF Spec, RecordsKept

\* A step after which a journal can be read leaves every row in it.
LEMMA RowsStay ==
  ASSUME IInv, [Next]_vars, NEW j \in Journals, Readable(text'[j])
  PROVE  Range(RowsOf(text[j])) \subseteq Range(RowsOf(text'[j])) /\ text[j] \in Seq(Tokens) /\ text'[j] \in Seq(Tokens)
<1>1. text[j] \in Seq(Tokens) /\ text \in [Journals -> Seq(Tokens)]
  BY TypedFacts
<1>2. CASE text'[j] = text[j]
  BY <1>1, <1>2
<1>3. CASE text'[j] # text[j]
  <2>1. PICK p \in Procs : Write(p) \/ MigrateJournal(p)
    BY <1>3, WhoChanges DEF Next, vars
  <2>2. CASE Write(p)
    <3>1. /\ proc[p].op = "append" /\ proc[p] \in Operation /\ ProcFine(proc[p], acked)
      BY <2>2, TypedFacts DEF Write, IInv
    <3>2. proc[p].item \in Seq(Tokens)
      BY <3>1 DEF ProcFine
    <3>3. PICK n \in 1 .. Len(proc[p].item) : text' = [text EXCEPT ![proc[p].file] = @ \o SubSeq(proc[p].item, 1, n)]
      BY <2>2 DEF Write
    <3> DEFINE pre == SubSeq(proc[p].item, 1, n)
    <3>4. pre \in Seq(Tokens)
      BY <3>2, SplitFacts DEF SplitIs
    <3> HIDE DEF pre
    <3>5. text'[j] = text[j] \o pre
      BY <1>1, <1>3, <3>3 DEF pre
    <3>6. Grows(text[j], text[j] \o pre) /\ text[j] \o pre \in Seq(Tokens)
      BY <1>1, <3>4, TextGrows, ConcatProperties
    <3> DEFINE t == text[j]
               u == text'[j]
    <3>7. Grows(t, u) /\ t \in Seq(Tokens) /\ u \in Seq(Tokens)
      BY <1>1, <3>5, <3>6
    <3> HIDE DEF t, u
    <3>8. Range(RowsOf(t)) = {t[i].row : i \in Starts(t)} /\ Range(RowsOf(u)) = {u[i].row : i \in Starts(u)}
      BY <3>7, RowsOfFacts
    <3>9. \A i \in Starts(t) : i \in Starts(u) /\ u[i] = t[i]
      BY <3>7 DEF Grows
    <3>10. Range(RowsOf(t)) \subseteq Range(RowsOf(u))
      BY <3>8, <3>9
    <3> QED BY <3>7, <3>10 DEF t, u
  <2>3. CASE MigrateJournal(p)
    <3> DEFINE rows == RowsOf(text[j])
               new  == TextOf(rows, Current)
    <3>1. text'[j] = new
      BY <1>1, <1>3, <2>3 DEF MigrateJournal
    <3>2. rows \in Seq(Rows) /\ Current \in 1 .. Current
      BY <1>1, RowsOfFacts DEF Current
    <3> HIDE DEF rows
    <3>3. new \in Seq(Tokens) /\ Settled(new, Range(rows), 0)
      BY <3>2, TextSettled
    <3> HIDE DEF new
    <3>4. Range(rows) \subseteq Range(RowsOf(new))
      BY <3>1, <3>3, ReadAll
    <3> QED BY <1>1, <3>1, <3>3, <3>4 DEF rows
  <2> QED BY <2>1, <2>2, <2>3
<1> QED BY <1>2, <1>3

\* Of two readings of a journal, one of which has the other's rows: what is out in the
\* smaller is out in the larger, in whatever order each has them.
LEMMA OutStaysOut ==
  ASSUME NEW a \in Seq(Rows), NEW b \in Seq(Rows), Range(a) \subseteq Range(b),
         NEW id \in DOMAIN Projected(a), ~ Projected(a)[id]
  PROVE  id \in DOMAIN Projected(b) /\ ~ Projected(b)[id]
<1> DEFINE ids(s) == {e.id : e \in Range(s)}
           out(s) == {e.supersedes : e \in Range(s)}
<1>1. /\ Projected(a) = [i \in ids(a) |-> i \notin out(a)]
      /\ Projected(b) = [i \in ids(b) |-> i \notin out(b)]
  BY ProjectedFacts
<1>2. ids(a) \subseteq ids(b) /\ out(a) \subseteq out(b)
  OBVIOUS
<1> HIDE DEF ids, out
<1>3. id \in ids(a) /\ id \in out(a)
  BY <1>1
<1> QED BY <1>1, <1>2, <1>3

\* An episode that was superseded stays out whatever is appended, and whatever is migrated.
THEOREM SupersededStaysInactiveHolds == Spec => SupersededStaysInactive
<1>1. IInv /\ [Next]_vars =>
        [\A j \in Journals :
           text[j] # text'[j] /\ Readable(text[j]) /\ Readable(text'[j]) =>
             \A before \in {Projected(RowsOf(text[j]))}, after \in {Projected(RowsOf(text'[j]))} :
               \A id \in DOMAIN before : ~ before[id] => id \in DOMAIN after /\ ~ after[id]]_vars
  <2> SUFFICES ASSUME IInv, [Next]_vars, NEW j \in Journals, Readable(text'[j]),
                      NEW id \in DOMAIN Projected(RowsOf(text[j])), ~ Projected(RowsOf(text[j]))[id]
               PROVE  id \in DOMAIN Projected(RowsOf(text'[j])) /\ ~ Projected(RowsOf(text'[j]))[id]
    OBVIOUS
  <2>1. RowsOf(text[j]) \in Seq(Rows) /\ RowsOf(text'[j]) \in Seq(Rows)
    BY RowsStay, RowsOfFacts
  <2> QED BY <2>1, RowsStay, OutStaysOut
<1> QED BY <1>1, Invariant, PTL DEF Spec, SupersededStaysInactive
=============================================================================
