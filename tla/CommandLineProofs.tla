------------------------- MODULE CommandLineProofs --------------------------
(***************************************************************************)
(* Proofs about CommandLine, for any command line, file, overrides and     *)
(* sources that fail.  The first part is about documents of any depth:     *)
(* what an override writes, and what it leaves alone.  The second follows  *)
(* what was asked for through the stages of main().                        *)
(***************************************************************************)
EXTENDS CommandLine, WellFoundedInduction, SequenceTheorems, TLAPS

(* The strings.  No prover knows that a literal is one: those of interest  *)
(* are named.                                                              *)
Segments ==
    STRING \cup {"profiler", "sources"} \cup ProfilerKeys \cup SourceIds
      \cup {"ignore_on_failure"} \cup CgroupKeys \cup RaplKeys
      \cup {"rapl_backnd", "nvlm"}

KeyPaths == Seq(Segments)

-----------------------------------------------------------------------------
(* Walks                                                                   *)
-----------------------------------------------------------------------------

(***************************************************************************)
(* A set of naturals that is not empty has a least element: what stands    *)
(* for induction here is that no number is the least counterexample.       *)
(***************************************************************************)
LEMMA LeastNat ==
    ASSUME NEW T \in SUBSET Nat, T # {}
    PROVE  \E x \in T : \A y \in T : x <= y
<1>1. IsWellFoundedOn(OpToRel(<, Nat), Nat)
  BY NatLessThanWellFounded
<1>2. PICK x \in T : \A y \in T : ~ (<<y, x>> \in OpToRel(<, Nat))
  BY <1>1, WFMin
<1>3. \A y \in T : ~ (y < x)
  BY <1>2 DEF OpToRel
<1> QED BY <1>3

(* The nodes that a document has on the way to a path. *)
IsWalk(w, doc, path) ==
    w = [i \in 0 .. Len(path) |-> IF i = 0 THEN doc ELSE Entry(w[i - 1], path[i])]

(* There is a walk to every path: what NodeAt chooses is one. *)
LEMMA WalkExists ==
    ASSUME NEW doc, NEW path \in KeyPaths
    PROVE  \E w : IsWalk(w, doc, path)
<1> DEFINE Part(w, n) ==
             w = [i \in 0 .. n |-> IF i = 0 THEN doc ELSE Entry(w[i - 1], path[i])]
           Failing == {n \in Nat : ~ \E w : Part(w, n)}
<1>1. SUFFICES Failing = {}
  <2>1. Len(path) \in Nat
    BY DEF KeyPaths
  <2> QED BY <2>1 DEF IsWalk
<1>2. SUFFICES ASSUME Failing # {} PROVE FALSE
  OBVIOUS
<1>3. PICK n \in Failing : \A m \in Failing : n <= m
  <2> HIDE DEF Failing
  <2>1. Failing \in SUBSET Nat
    BY DEF Failing
  <2> QED BY <1>2, <2>1, LeastNat
<1>4. n # 0
  <2>1. Part([i \in 0 .. 0 |-> doc], 0)
    OBVIOUS
  <2> QED BY <2>1, <1>3
<1>5. PICK w : Part(w, n - 1)
  <2>1. n - 1 \in Nat /\ ~ (n <= n - 1)
    BY <1>3, <1>4
  <2>2. n - 1 \notin Failing
    BY <1>3, <2>1
  <2> HIDE DEF Part
  <2> QED BY <2>1, <2>2
<1> DEFINE v == [i \in 0 .. n |-> IF i = n THEN Entry(w[n - 1], path[n]) ELSE w[i]]
<1>6. Part(v, n)
  <2>1. \A i \in 0 .. n : v[i] = IF i = 0 THEN doc ELSE Entry(v[i - 1], path[i])
    <3> SUFFICES ASSUME NEW i \in 0 .. n
                 PROVE  v[i] = IF i = 0 THEN doc ELSE Entry(v[i - 1], path[i])
      OBVIOUS
    <3>1. CASE i = n
      BY <1>4, <3>1
    <3>2. CASE i # n
      <4>1. i \in 0 .. n - 1
        BY <3>2
      <4>2. v[i] = w[i]
        BY <3>2
      <4>3. i # 0 => v[i - 1] = w[i - 1]
        BY <4>1
      <4> HIDE DEF v
      <4> QED BY <1>5, <4>1, <4>2, <4>3
    <3> QED BY <3>1, <3>2
  <2> QED BY <2>1
<1> QED BY <1>3, <1>6

(* NodeAt is where the walk ends. *)
LEMMA NodeIsWalk ==
    ASSUME NEW doc, NEW path \in KeyPaths
    PROVE  \E w : IsWalk(w, doc, path) /\ NodeAt(doc, path) = w[Len(path)]
<1> DEFINE chosen == CHOOSE w : IsWalk(w, doc, path)
<1>1. IsWalk(chosen, doc, path)
  BY WalkExists
<1>2. NodeAt(doc, path) = chosen[Len(path)]
  BY DEF NodeAt, IsWalk
<1> QED BY <1>1, <1>2

(* Paths that go the same way for n segments. *)
Agree(p, q, n) == \A i \in 1 .. n : p[i] = q[i]

(* Two walks that go the same way are at the same node. *)
LEMMA WalksAgree ==
    ASSUME NEW doc, NEW p \in KeyPaths, NEW q \in KeyPaths, NEW v, NEW w,
           IsWalk(v, doc, p), IsWalk(w, doc, q), Len(p) <= Len(q),
           Agree(p, q, Len(p))
    PROVE  v[Len(p)] = w[Len(p)]
<1> DEFINE Failing == {i \in 0 .. Len(p) : v[i] # w[i]}
<1>0. Len(p) \in Nat /\ Len(q) \in Nat
  BY DEF KeyPaths
<1>1. SUFFICES ASSUME Failing # {} PROVE FALSE
  BY <1>0
<1>2. PICK n \in Failing : \A m \in Failing : n <= m
  <2> HIDE DEF Failing
  <2>1. Failing \in SUBSET Nat
    BY <1>0 DEF Failing
  <2> QED BY <1>1, <2>1, LeastNat
<1>3. v[0] = doc /\ w[0] = doc
  BY <1>0 DEF IsWalk
<1>4. n # 0 /\ n \in 1 .. Len(p)
  BY <1>0, <1>2, <1>3
<1>5. v[n] = Entry(v[n - 1], p[n])
  BY <1>0, <1>4 DEF IsWalk
<1>6. w[n] = Entry(w[n - 1], q[n])
  <2>1. n \in 0 .. Len(q) /\ n # 0
    BY <1>0, <1>4
  <2> QED BY <2>1 DEF IsWalk
<1>7. v[n - 1] = w[n - 1]
  BY <1>0, <1>2, <1>4
<1> QED BY <1>2, <1>4, <1>5, <1>6, <1>7 DEF Agree

(* The part of a path that ends at its i-th segment. *)
LEMMA PrefixFacts ==
    ASSUME NEW path \in KeyPaths, NEW i \in 0 .. Len(path)
    PROVE  /\ SubSeq(path, 1, i) \in KeyPaths
           /\ Len(SubSeq(path, 1, i)) = i
           /\ \A j \in 1 .. i : SubSeq(path, 1, i)[j] = path[j]
           /\ SubSeq(path, 1, Len(path)) = path
<1>1. Len(path) \in Nat
  BY DEF KeyPaths
<1>2. SubSeq(path, 1, i) \in KeyPaths /\ Len(SubSeq(path, 1, i)) = i
  BY <1>1, SubSeqProperties DEF KeyPaths
<1>3. \A j \in 1 .. i : SubSeq(path, 1, i)[j] = path[j]
  BY <1>1, SubSeqProperties DEF KeyPaths
<1>4. SubSeq(path, 1, Len(path)) = path
  BY SubSeqFull DEF KeyPaths
<1> QED BY <1>2, <1>3, <1>4

(* One more segment is one more entry. *)
LEMMA NodeAtPrefix ==
    ASSUME NEW doc, NEW path \in KeyPaths, NEW i \in 0 .. Len(path)
    PROVE  NodeAt(doc, SubSeq(path, 1, i)) =
             IF i = 0 THEN doc
             ELSE Entry(NodeAt(doc, SubSeq(path, 1, i - 1)), path[i])
<1>0. Len(path) \in Nat
  BY DEF KeyPaths
<1>1. PICK w : IsWalk(w, doc, path)
  BY WalkExists
<1>2. ASSUME NEW p \in KeyPaths, Len(p) \in 0 .. Len(path),
             Agree(p, path, Len(p))
      PROVE  NodeAt(doc, p) = w[Len(p)]
  <2>1. PICK v : IsWalk(v, doc, p) /\ NodeAt(doc, p) = v[Len(p)]
    BY NodeIsWalk
  <2>2. Len(p) <= Len(path)
    BY <1>0, <1>2
  <2>3. v[Len(p)] = w[Len(p)]
    BY <1>1, <1>2, <2>1, <2>2, WalksAgree
  <2> QED BY <1>0, <1>2, <2>1, <2>3
<1>3. w[i] = IF i = 0 THEN doc ELSE Entry(w[i - 1], path[i])
  BY <1>0, <1>1 DEF IsWalk
<1>4. ASSUME NEW j \in 0 .. Len(path)
      PROVE  NodeAt(doc, SubSeq(path, 1, j)) = w[j]
  <2>1. /\ SubSeq(path, 1, j) \in KeyPaths /\ Len(SubSeq(path, 1, j)) = j
        /\ Agree(SubSeq(path, 1, j), path, j)
    BY PrefixFacts DEF Agree
  <2> HIDE DEF KeyPaths
  <2> QED BY <1>2, <2>1
<1> QED BY <1>0, <1>3, <1>4

(* The same, from a part of a path to the next. *)
LEMMA NodeAtNext ==
    ASSUME NEW doc, NEW path \in KeyPaths, NEW i \in 0 .. Len(path) - 1
    PROVE  NodeAt(doc, SubSeq(path, 1, i + 1)) =
             Entry(NodeAt(doc, SubSeq(path, 1, i)), path[i + 1])
<1>1. PICK j \in 0 .. Len(path) : j = i + 1
  BY DEF KeyPaths
<1>2. j # 0 /\ i = j - 1
  BY <1>1
<1>3. NodeAt(doc, SubSeq(path, 1, j)) =
        IF j = 0 THEN doc ELSE Entry(NodeAt(doc, SubSeq(path, 1, j - 1)), path[j])
  BY NodeAtPrefix
<1> QED BY <1>1, <1>2, <1>3

(* At the beginning of a path is the document. *)
LEMMA NodeAtRoot ==
    ASSUME NEW doc
    PROVE  NodeAt(doc, <<>>) = doc /\ HasNode(doc, <<>>)
<1>1. <<>> \in KeyPaths /\ Len(<<>>) = 0
  BY DEF KeyPaths
<1>2. PICK w : IsWalk(w, doc, <<>>) /\ NodeAt(doc, <<>>) = w[Len(<<>>)]
  BY <1>1, NodeIsWalk
<1>3. w[0] = doc
  BY <1>1, <1>2 DEF IsWalk
<1>4. HasNode(doc, <<>>)
  BY <1>1 DEF HasNode
<1> QED BY <1>1, <1>2, <1>3, <1>4

(* After i segments of a path, a document has the next one. *)
StepAt(v, path, i) == HasKey(NodeAt(v, SubSeq(path, 1, i)), path[i + 1])

(* A document has a node if every step to it can be made. *)
LEMMA HasNodeSteps ==
    ASSUME NEW v, NEW path \in KeyPaths
    PROVE  HasNode(v, path) <=> \A i \in 0 .. Len(path) - 1 : StepAt(v, path, i)
<1>0. Len(path) \in Nat
  BY DEF KeyPaths
<1>1. ASSUME HasNode(v, path), NEW i \in 0 .. Len(path) - 1 PROVE StepAt(v, path, i)
  <2>1. i + 1 \in 1 .. Len(path) /\ i + 1 - 1 = i
    BY <1>0
  <2>2. HasKey(NodeAt(v, SubSeq(path, 1, i + 1 - 1)), path[i + 1])
    BY <1>1, <2>1 DEF HasNode
  <2> QED BY <2>1, <2>2 DEF StepAt
<1>2. ASSUME \A i \in 0 .. Len(path) - 1 : StepAt(v, path, i) PROVE HasNode(v, path)
  <2> SUFFICES ASSUME NEW i \in 1 .. Len(path)
               PROVE  HasKey(NodeAt(v, SubSeq(path, 1, i - 1)), path[i])
    BY DEF HasNode
  <2>1. i - 1 \in 0 .. Len(path) - 1 /\ i - 1 + 1 = i
    BY <1>0
  <2>2. StepAt(v, path, i - 1)
    BY <1>2, <2>1
  <2> QED BY <2>1, <2>2 DEF StepAt
<1> QED BY <1>1, <1>2

(***************************************************************************)
(* From m and n on, two paths have the same segments, and the documents    *)
(* the same nodes there.                                                   *)
(***************************************************************************)
SameRest(p, m, q, n) ==
    /\ m \in 0 .. Len(p) /\ n \in 0 .. Len(q) /\ Len(p) - m = Len(q) - n
    /\ \A j \in 1 .. Len(p) - m : p[m + j] = q[n + j]

SameFrom(d, p, m, e, q, n) ==
    /\ SameRest(p, m, q, n)
    /\ NodeAt(d, SubSeq(p, 1, m)) = NodeAt(e, SubSeq(q, 1, n))

(* Below the same node, the same segments lead to the same nodes. *)
LEMMA SameBelow ==
    ASSUME NEW d, NEW e, NEW p \in KeyPaths, NEW q \in KeyPaths,
           NEW m, NEW n, SameFrom(d, p, m, e, q, n)
    PROVE  \A j \in 0 .. Len(p) - m :
              NodeAt(d, SubSeq(p, 1, m + j)) = NodeAt(e, SubSeq(q, 1, n + j))
<1> DEFINE P(j) == NodeAt(d, SubSeq(p, 1, m + j))
           Q(j) == NodeAt(e, SubSeq(q, 1, n + j))
           Failing == {j \in 0 .. Len(p) - m : P(j) # Q(j)}
<1>0. Len(p) \in Nat /\ Len(q) \in Nat /\ m \in 0 .. Len(p) /\ n \in 0 .. Len(q)
  BY DEF KeyPaths, SameFrom, SameRest
<1>1. SUFFICES ASSUME Failing # {} PROVE FALSE
  BY <1>0
<1>2. PICK j \in Failing : \A k \in Failing : j <= k
  <2> HIDE DEF Failing
  <2>1. Failing \in SUBSET Nat
    BY <1>0 DEF Failing
  <2> QED BY <1>1, <2>1, LeastNat
<1>3. P(0) = Q(0)
  BY <1>0 DEF SameFrom
<1>4. j \in 1 .. Len(p) - m
  <2>1. j # 0
    BY <1>2, <1>3
  <2> QED BY <1>0, <1>2, <2>1
<1>5. p[m + j] = q[n + j] /\ Len(p) - m = Len(q) - n
  BY <1>4 DEF SameFrom, SameRest
<1>6. P(j) = Entry(P(j - 1), p[m + j]) /\ Q(j) = Entry(Q(j - 1), q[n + j])
  <2>1. /\ m + (j - 1) \in 0 .. Len(p) - 1 /\ m + (j - 1) + 1 = m + j
        /\ n + (j - 1) \in 0 .. Len(q) - 1 /\ n + (j - 1) + 1 = n + j
    BY <1>0, <1>4, <1>5
  <2>2. P(j) = Entry(P(j - 1), p[m + j])
    BY <2>1, NodeAtNext
  <2>3. Q(j) = Entry(Q(j - 1), q[n + j])
    BY <2>1, NodeAtNext
  <2> QED BY <2>2, <2>3
<1>7. P(j - 1) = Q(j - 1)
  <2>1. j - 1 \in 0 .. Len(p) - m /\ ~ (j <= j - 1)
    BY <1>0, <1>4
  <2> QED BY <1>2, <2>1
<1> QED BY <1>2, <1>5, <1>6, <1>7

(* A key that is missing leads to an empty table, whatever follows it. *)
LEMMA MissingBelow ==
    ASSUME NEW doc, NEW p \in KeyPaths, NEW i \in 0 .. Len(p) - 1,
           IsTable(NodeAt(doc, SubSeq(p, 1, i))), ~ StepAt(doc, p, i)
    PROVE  \A j \in i + 1 .. Len(p) : NodeAt(doc, SubSeq(p, 1, j)) = EmptyTable
<1> DEFINE N(j) == NodeAt(doc, SubSeq(p, 1, j))
           Failing == {j \in i + 1 .. Len(p) : N(j) # EmptyTable}
<1>0. Len(p) \in Nat
  BY DEF KeyPaths
<1>1. SUFFICES ASSUME Failing # {} PROVE FALSE
  OBVIOUS
<1>2. PICK j \in Failing : \A k \in Failing : j <= k
  <2> HIDE DEF Failing
  <2>1. Failing \in SUBSET Nat
    BY <1>0 DEF Failing
  <2> QED BY <1>1, <2>1, LeastNat
<1>3. PICK k \in i .. Len(p) - 1 : j = k + 1
  <2>1. j - 1 \in i .. Len(p) - 1 /\ j = j - 1 + 1
    BY <1>0, <1>2
  <2> QED BY <2>1
<1>4. N(j) = Entry(N(k), p[k + 1])
  BY <1>0, <1>3, NodeAtNext
<1>5. IsTable(EmptyTable) /\ DOMAIN EmptyTable.of = {}
  BY DEF EmptyTable, Table, IsTable
<1>6. CASE k = i
  BY <1>2, <1>4, <1>6 DEF Entry, StepAt, HasKey
<1>7. CASE k # i
  <2>1. k \in i + 1 .. Len(p) /\ ~ (j <= k)
    BY <1>0, <1>2, <1>3, <1>7
  <2>2. N(k) = EmptyTable
    BY <1>2, <2>1
  <2> QED BY <1>2, <1>4, <1>5, <2>2 DEF Entry
<1> QED BY <1>6, <1>7

-----------------------------------------------------------------------------
(* Overrides                                                               *)
-----------------------------------------------------------------------------

(* What Apply builds, from the value outwards. *)
IsWritten(w, o, doc) ==
    w = [i \in 0 .. Len(o.path) |->
            IF i = 0 THEN o.value
            ELSE Table(Put(NodeAt(doc, SubSeq(o.path, 1, Len(o.path) - i)).of,
                           o.path[Len(o.path) - i + 1], w[i - 1]))]

(* It can be built. *)
LEMMA WrittenExists ==
    ASSUME NEW o, o.path \in KeyPaths, NEW doc
    PROVE  \E w : IsWritten(w, o, doc)
<1> DEFINE Around(i, v) ==
             Table(Put(NodeAt(doc, SubSeq(o.path, 1, Len(o.path) - i)).of,
                       o.path[Len(o.path) - i + 1], v))
           Part(w, n) ==
             w = [i \in 0 .. n |-> IF i = 0 THEN o.value ELSE Around(i, w[i - 1])]
           Failing == {n \in Nat : ~ \E w : Part(w, n)}
<1>1. SUFFICES Failing = {}
  <2>1. Len(o.path) \in Nat
    BY DEF KeyPaths
  <2> QED BY <2>1 DEF IsWritten
<1> HIDE DEF Around
<1>2. SUFFICES ASSUME Failing # {} PROVE FALSE
  OBVIOUS
<1>3. PICK n \in Failing : \A m \in Failing : n <= m
  <2> HIDE DEF Failing
  <2>1. Failing \in SUBSET Nat
    BY DEF Failing
  <2> QED BY <1>2, <2>1, LeastNat
<1>4. n # 0
  <2>1. Part([i \in 0 .. 0 |-> o.value], 0)
    OBVIOUS
  <2> QED BY <2>1, <1>3
<1>5. PICK w : Part(w, n - 1)
  <2>1. n - 1 \in Nat /\ ~ (n <= n - 1)
    BY <1>3, <1>4
  <2>2. n - 1 \notin Failing
    BY <1>3, <2>1
  <2> HIDE DEF Part
  <2> QED BY <2>1, <2>2
<1> DEFINE v == [i \in 0 .. n |-> IF i = n THEN Around(n, w[n - 1]) ELSE w[i]]
<1>6. Part(v, n)
  <2>1. \A i \in 0 .. n : v[i] = IF i = 0 THEN o.value ELSE Around(i, v[i - 1])
    <3> SUFFICES ASSUME NEW i \in 0 .. n
                 PROVE  v[i] = IF i = 0 THEN o.value ELSE Around(i, v[i - 1])
      OBVIOUS
    <3>1. CASE i = n
      BY <1>4, <3>1
    <3>2. CASE i # n
      <4>1. i \in 0 .. n - 1
        BY <3>2
      <4>2. v[i] = w[i]
        BY <3>2
      <4>3. i # 0 => v[i - 1] = w[i - 1]
        BY <4>1
      <4> HIDE DEF v
      <4> QED BY <1>5, <4>1, <4>2, <4>3
    <3> QED BY <3>1, <3>2
  <2> QED BY <2>1
<1> QED BY <1>3, <1>6

(***************************************************************************)
(* What an override leads to: its value at its path, and on the way to it  *)
(* the tables that were there, each with the one entry written.            *)
(***************************************************************************)
OverrideWrites(o, doc, new) ==
    /\ \A i \in 0 .. Len(o.path) - 1 : IsTable(NodeAt(doc, SubSeq(o.path, 1, i)))
    /\ NodeAt(new, o.path) = o.value
    /\ \A i \in 0 .. Len(o.path) - 1 :
          NodeAt(new, SubSeq(o.path, 1, i)) =
            Table(Put(NodeAt(doc, SubSeq(o.path, 1, i)).of, o.path[i + 1],
                      NodeAt(new, SubSeq(o.path, 1, i + 1))))

(* An override that succeeds does that. *)
LEMMA ApplyWrites ==
    ASSUME NEW o, o.path \in KeyPaths, NEW doc, Apply(o, doc) # <<>>
    PROVE  OverrideWrites(o, doc, Apply(o, doc)[1])
<1> DEFINE path == o.path
           depth == Len(path)
           chosen == CHOOSE w : IsWritten(w, o, doc)
           new == chosen[depth]
<1>0. depth \in Nat
  BY DEF KeyPaths
<1>1. IsWritten(chosen, o, doc)
  BY WrittenExists
<1>2. /\ \A p \in Traversed(o) : IsTable(NodeAt(doc, p))
      /\ Apply(o, doc) = <<new>>
  BY DEF Apply, IsWritten
<1> HIDE DEF chosen
<1>3. \A i \in 0 .. depth - 1 : IsTable(NodeAt(doc, SubSeq(path, 1, i)))
  BY <1>2 DEF Traversed
<1>4. /\ chosen[0] = o.value
      /\ \A i \in 0 .. depth - 1 :
            chosen[depth - i] =
              Table(Put(NodeAt(doc, SubSeq(path, 1, i)).of, path[i + 1],
                        chosen[depth - (i + 1)]))
  <2>1. chosen[0] = o.value
    BY <1>0, <1>1 DEF IsWritten
  <2>2. ASSUME NEW i \in 0 .. depth - 1
        PROVE  chosen[depth - i] =
                 Table(Put(NodeAt(doc, SubSeq(path, 1, i)).of, path[i + 1],
                           chosen[depth - (i + 1)]))
    <3>1. /\ depth - i \in 0 .. depth /\ depth - i # 0
          /\ depth - (depth - i) = i /\ depth - i - 1 = depth - (i + 1)
      BY <1>0
    <3> QED BY <1>1, <3>1 DEF IsWritten
  <2> QED BY <2>1, <2>2
<1>5. \A i \in 0 .. depth : NodeAt(new, SubSeq(path, 1, i)) = chosen[depth - i]
  <2> DEFINE Failing ==
               {i \in 0 .. depth : NodeAt(new, SubSeq(path, 1, i)) # chosen[depth - i]}
  <2>1. SUFFICES ASSUME Failing # {} PROVE FALSE
    OBVIOUS
  <2>2. PICK i \in Failing : \A k \in Failing : i <= k
    <3> HIDE DEF Failing
    <3>1. Failing \in SUBSET Nat
      BY <1>0 DEF Failing
    <3> QED BY <2>1, <3>1, LeastNat
  <2>3. \A k \in 0 .. depth :
           NodeAt(new, SubSeq(path, 1, k)) =
             IF k = 0 THEN new ELSE Entry(NodeAt(new, SubSeq(path, 1, k - 1)), path[k])
    BY NodeAtPrefix
  <2>4. i # 0
    <3>1. NodeAt(new, SubSeq(path, 1, 0)) = new /\ depth - 0 = depth
      BY <1>0, <2>3
    <3> QED BY <2>2, <3>1
  <2>5. NodeAt(new, SubSeq(path, 1, i - 1)) = chosen[depth - (i - 1)]
    <3>1. i - 1 \in 0 .. depth /\ ~ (i <= i - 1)
      BY <1>0, <2>2, <2>4
    <3> QED BY <2>2, <3>1
  <2>6. NodeAt(new, SubSeq(path, 1, i)) = Entry(chosen[depth - (i - 1)], path[i])
    BY <2>2, <2>3, <2>4, <2>5
  <2>7. chosen[depth - (i - 1)] =
          Table(Put(NodeAt(doc, SubSeq(path, 1, i - 1)).of, path[i], chosen[depth - i]))
    <3>1. i - 1 \in 0 .. depth - 1 /\ i - 1 + 1 = i
      BY <1>0, <2>2, <2>4
    <3> QED BY <1>4, <3>1
  <2>8. ASSUME NEW f, NEW k, NEW v PROVE Entry(Table(Put(f, k, v)), k) = v
    BY DEF Entry, Table, Put, IsTable
  <2> QED BY <2>2, <2>6, <2>7, <2>8
<1>6. NodeAt(new, path) = o.value
  <2>1. SubSeq(path, 1, depth) = path /\ depth - depth = 0 /\ depth \in 0 .. depth
    BY <1>0, PrefixFacts
  <2> QED BY <1>4, <1>5, <2>1
<1>7. \A i \in 0 .. depth - 1 :
         NodeAt(new, SubSeq(path, 1, i)) =
           Table(Put(NodeAt(doc, SubSeq(path, 1, i)).of, path[i + 1],
                     NodeAt(new, SubSeq(path, 1, i + 1))))
  <2> SUFFICES ASSUME NEW i \in 0 .. depth - 1
               PROVE  NodeAt(new, SubSeq(path, 1, i)) =
                        Table(Put(NodeAt(doc, SubSeq(path, 1, i)).of, path[i + 1],
                                  NodeAt(new, SubSeq(path, 1, i + 1))))
    OBVIOUS
  <2>1. i \in 0 .. depth /\ i + 1 \in 0 .. depth
    BY <1>0
  <2> QED BY <1>4, <1>5, <2>1
<1> QED BY <1>2, <1>3, <1>6, <1>7 DEF OverrideWrites

(* Paths that agree on n segments have the same parts up to there. *)
LEMMA AgreeingParts ==
    ASSUME NEW p \in KeyPaths, NEW q \in KeyPaths, NEW n \in Nat,
           n <= Len(p), n <= Len(q), Agree(p, q, n)
    PROVE  \A i \in 0 .. n : SubSeq(p, 1, i) = SubSeq(q, 1, i)
<1> SUFFICES ASSUME NEW i \in 0 .. n PROVE SubSeq(p, 1, i) = SubSeq(q, 1, i)
  OBVIOUS
<1>0. Len(p) \in Nat /\ Len(q) \in Nat /\ i \in 0 .. Len(p) /\ i \in 0 .. Len(q)
  BY DEF KeyPaths
<1> DEFINE a == SubSeq(p, 1, i)
           b == SubSeq(q, 1, i)
<1>1. a \in Seq(Segments) /\ Len(a) = i /\ \A j \in 1 .. i : a[j] = p[j]
  BY <1>0, PrefixFacts DEF KeyPaths
<1>2. b \in Seq(Segments) /\ Len(b) = i /\ \A j \in 1 .. i : b[j] = q[j]
  BY <1>0, PrefixFacts DEF KeyPaths
<1>3. \A j \in 1 .. i : p[j] = q[j]
  BY DEF Agree
<1> HIDE DEF a, b
<1>4. \A j \in 1 .. i : a[j] = b[j]
  BY <1>1, <1>2, <1>3
<1>5. a = b
  BY <1>1, <1>2, <1>4, SeqEqual
<1> QED BY <1>5 DEF a, b

(* A prefix, segment by segment. *)
LEMMA PrefixAgrees ==
    ASSUME NEW p \in KeyPaths, NEW q \in KeyPaths
    PROVE  IsPrefix(p, q) <=> Len(p) <= Len(q) /\ Agree(p, q, Len(p))
<1>0. Len(p) \in Nat /\ Len(q) \in Nat /\ Len(p) \in 0 .. Len(p)
  BY DEF KeyPaths
<1>1. ASSUME Len(p) <= Len(q), Agree(p, q, Len(p)) PROVE IsPrefix(p, q)
  BY <1>0, <1>1, AgreeingParts DEF IsPrefix
<1>2. ASSUME IsPrefix(p, q) PROVE Len(p) <= Len(q) /\ Agree(p, q, Len(p))
  <2>1. Len(p) <= Len(q) /\ SubSeq(p, 1, Len(p)) = SubSeq(q, 1, Len(p))
    BY <1>2 DEF IsPrefix
  <2>2. Len(p) \in 0 .. Len(q)
    BY <1>0, <2>1
  <2>3. \A j \in 1 .. Len(p) : SubSeq(p, 1, Len(p))[j] = p[j]
    BY <1>0, PrefixFacts
  <2>4. \A j \in 1 .. Len(p) : SubSeq(q, 1, Len(p))[j] = q[j]
    BY <2>2, PrefixFacts
  <2> QED BY <2>1, <2>3, <2>4 DEF Agree
<1> QED BY <1>1, <1>2

(* On the way of an override are tables that have its next key. *)
LEMMA OverrideWay ==
    ASSUME NEW o, o.path \in KeyPaths, NEW doc, NEW new, OverrideWrites(o, doc, new),
           NEW i \in 0 .. Len(o.path) - 1
    PROVE  LET before == NodeAt(doc, SubSeq(o.path, 1, i))
               after  == NodeAt(new, SubSeq(o.path, 1, i))
           IN  /\ IsTable(before) /\ IsTable(after)
               /\ StepAt(new, o.path, i)
               /\ \A key : key # o.path[i + 1] =>
                     /\ HasKey(after, key) <=> HasKey(before, key)
                     /\ Entry(after, key) = Entry(before, key)
<1> DEFINE before == NodeAt(doc, SubSeq(o.path, 1, i))
           after  == NodeAt(new, SubSeq(o.path, 1, i))
           below  == NodeAt(new, SubSeq(o.path, 1, i + 1))
<1>1. IsTable(before) /\ after = Table(Put(before.of, o.path[i + 1], below))
  BY DEF OverrideWrites
<1> HIDE DEF before, after, below
<1>2. ASSUME NEW key, key # o.path[i + 1]
      PROVE  /\ HasKey(after, key) <=> HasKey(before, key)
             /\ Entry(after, key) = Entry(before, key)
  BY <1>1, <1>2 DEF Table, Put, IsTable, Entry, HasKey
<1>3. IsTable(after) /\ HasKey(after, o.path[i + 1])
  BY <1>1 DEF Table, Put, IsTable, HasKey
<1>4. /\ IsTable(before) /\ IsTable(after)
      /\ HasKey(after, o.path[i + 1])
      /\ \A key : key # o.path[i + 1] =>
            /\ HasKey(after, key) <=> HasKey(before, key)
            /\ Entry(after, key) = Entry(before, key)
  BY <1>1, <1>2, <1>3
<1> QED BY <1>4 DEF before, after, StepAt

(* What is left of a path below another. *)
RestOf(p, q) == SubSeq(q, Len(p) + 1, Len(q))

(* It has the segments that follow. *)
LEMMA RestFacts ==
    ASSUME NEW p \in KeyPaths, NEW q \in KeyPaths, Len(p) <= Len(q)
    PROVE  RestOf(p, q) \in KeyPaths /\ SameRest(q, Len(p), RestOf(p, q), 0)
<1>0. Len(p) \in Nat /\ Len(q) \in Nat /\ q \in Seq(Segments)
  BY DEF KeyPaths
<1>1. ASSUME NEW n \in Nat, n <= Len(q)
      PROVE  /\ SubSeq(q, n + 1, Len(q)) \in Seq(Segments)
             /\ Len(SubSeq(q, n + 1, Len(q))) = Len(q) - n
             /\ \A j \in 1 .. Len(q) - n : SubSeq(q, n + 1, Len(q))[j] = q[n + j]
  <2>1. n + 1 \in 1 .. Len(q) + 1 /\ Len(q) \in 0 .. Len(q)
    BY <1>0, <1>1
  <2>2. /\ SubSeq(q, n + 1, Len(q)) \in Seq(Segments)
        /\ Len(SubSeq(q, n + 1, Len(q))) =
              IF n + 1 <= Len(q) THEN Len(q) - (n + 1) + 1 ELSE 0
        /\ \A j \in 1 .. Len(q) - (n + 1) + 1 :
              SubSeq(q, n + 1, Len(q))[j] = q[n + 1 + j - 1]
    BY <1>0, <2>1, SubSeqProperties
  <2>3. Len(q) - (n + 1) + 1 = Len(q) - n /\ (~ (n + 1 <= Len(q)) => Len(q) - n = 0)
    BY <1>0, <1>1
  <2>4. \A j \in 1 .. Len(q) - n : n + 1 + j - 1 = n + j
    OBVIOUS
  <2> QED BY <2>2, <2>3, <2>4
<1>2. /\ SubSeq(q, Len(p) + 1, Len(q)) \in Seq(Segments)
      /\ Len(SubSeq(q, Len(p) + 1, Len(q))) = Len(q) - Len(p)
      /\ \A j \in 1 .. Len(q) - Len(p) :
            SubSeq(q, Len(p) + 1, Len(q))[j] = q[Len(p) + j]
  BY <1>0, <1>1
<1>3. RestOf(p, q) \in KeyPaths /\ Len(RestOf(p, q)) = Len(q) - Len(p)
  BY <1>2 DEF RestOf, KeyPaths
<1>4. \A j \in 1 .. Len(q) - Len(p) : RestOf(p, q)[0 + j] = q[Len(p) + j]
  BY <1>2 DEF RestOf
<1> QED BY <1>0, <1>3, <1>4 DEF SameRest

(* From the same node on, the same keys are there. *)
LEMMA SameSteps ==
    ASSUME NEW d, NEW e, NEW p \in KeyPaths, NEW q \in KeyPaths,
           NEW m, NEW n, SameFrom(d, p, m, e, q, n)
    PROVE  /\ NodeAt(d, p) = NodeAt(e, q)
           /\ (\A i \in m .. Len(p) - 1 : StepAt(d, p, i))
                 <=> (\A i \in n .. Len(q) - 1 : StepAt(e, q, i))
<1>0. /\ Len(p) \in Nat /\ Len(q) \in Nat /\ m \in 0 .. Len(p) /\ n \in 0 .. Len(q)
      /\ Len(p) - m = Len(q) - n
  BY DEF KeyPaths, SameFrom, SameRest
<1>1. \A j \in 0 .. Len(p) - m :
         NodeAt(d, SubSeq(p, 1, m + j)) = NodeAt(e, SubSeq(q, 1, n + j))
  BY SameBelow
<1>2. NodeAt(d, p) = NodeAt(e, q)
  <2>1. /\ Len(p) - m \in 0 .. Len(p) - m /\ m + (Len(p) - m) = Len(p)
        /\ n + (Len(p) - m) = Len(q)
    BY <1>0
  <2>2. SubSeq(p, 1, Len(p)) = p /\ SubSeq(q, 1, Len(q)) = q
    BY <1>0, PrefixFacts
  <2> QED BY <1>1, <2>1, <2>2
<1>3. ASSUME NEW j \in 0 .. Len(p) - m - 1
      PROVE  StepAt(d, p, m + j) <=> StepAt(e, q, n + j)
  <2>1. j \in 0 .. Len(p) - m /\ j + 1 \in 1 .. Len(p) - m
    BY <1>0
  <2>2. p[m + (j + 1)] = q[n + (j + 1)]
    BY <2>1 DEF SameFrom, SameRest
  <2>3. m + (j + 1) = m + j + 1 /\ n + (j + 1) = n + j + 1
    BY <1>0
  <2> QED BY <1>1, <2>1, <2>2, <2>3 DEF StepAt
<1>4. ASSUME \A i \in m .. Len(p) - 1 : StepAt(d, p, i), NEW i \in n .. Len(q) - 1
      PROVE  StepAt(e, q, i)
  <2>1. /\ i - n \in 0 .. Len(p) - m - 1 /\ n + (i - n) = i
        /\ m + (i - n) \in m .. Len(p) - 1
    BY <1>0
  <2> QED BY <1>3, <1>4, <2>1
<1>5. ASSUME \A i \in n .. Len(q) - 1 : StepAt(e, q, i), NEW i \in m .. Len(p) - 1
      PROVE  StepAt(d, p, i)
  <2>1. /\ i - m \in 0 .. Len(p) - m - 1 /\ m + (i - m) = i
        /\ n + (i - m) \in n .. Len(q) - 1
    BY <1>0
  <2> QED BY <1>3, <1>5, <2>1
<1> QED BY <1>2, <1>4, <1>5

(***************************************************************************)
(* At its path and below, a document has what the override has: nothing of *)
(* what was there stays.                                                   *)
(***************************************************************************)
LEMMA WrittenAt ==
    ASSUME NEW o, o.path \in KeyPaths, NEW doc, NEW new, OverrideWrites(o, doc, new),
           NEW q \in KeyPaths, IsPrefix(o.path, q)
    PROVE  Lookup(new, q) = Lookup(o.value, RestOf(o.path, q))
<1> DEFINE path  == o.path
           depth == Len(path)
           rest  == RestOf(path, q)
<1>0. depth \in Nat /\ Len(q) \in Nat /\ depth <= Len(q) /\ Agree(path, q, depth)
  BY PrefixAgrees DEF KeyPaths
<1>1. rest \in KeyPaths /\ SameRest(q, depth, rest, 0)
  BY <1>0, RestFacts
<1> HIDE DEF rest
<1>2. SameFrom(new, q, depth, o.value, rest, 0)
  <2>1. SubSeq(q, 1, depth) = path
    BY <1>0, PrefixFacts DEF IsPrefix
  <2>2. 0 \in 0 .. Len(rest)
    BY <1>1 DEF SameRest
  <2>3. NodeAt(o.value, SubSeq(rest, 1, 0)) = o.value
    BY <1>1, <2>2, NodeAtPrefix
  <2> QED BY <1>1, <2>1, <2>3 DEF OverrideWrites, SameFrom
<1>3. /\ NodeAt(new, q) = NodeAt(o.value, rest)
      /\ (\A i \in depth .. Len(q) - 1 : StepAt(new, q, i))
            <=> (\A i \in 0 .. Len(rest) - 1 : StepAt(o.value, rest, i))
  BY <1>1, <1>2, SameSteps
<1>4. ASSUME NEW i \in 0 .. depth - 1 PROVE StepAt(new, q, i)
  <2>1. StepAt(new, path, i)
    BY OverrideWay
  <2>2. i \in 0 .. depth /\ i + 1 \in 1 .. depth
    BY <1>0
  <2>3. SubSeq(path, 1, i) = SubSeq(q, 1, i) /\ path[i + 1] = q[i + 1]
    BY <1>0, <2>2, AgreeingParts DEF Agree
  <2> QED BY <2>1, <2>3 DEF StepAt
<1>5. HasNode(new, q) <=> HasNode(o.value, rest)
  <2>1. HasNode(new, q) <=> \A i \in 0 .. Len(q) - 1 : StepAt(new, q, i)
    BY HasNodeSteps
  <2>2. HasNode(o.value, rest) <=> \A i \in 0 .. Len(rest) - 1 : StepAt(o.value, rest, i)
    BY <1>1, HasNodeSteps
  <2>3. (\A i \in 0 .. Len(q) - 1 : StepAt(new, q, i))
           <=> \A i \in depth .. Len(q) - 1 : StepAt(new, q, i)
    <3> HIDE DEF depth
    <3> QED BY <1>0, <1>4
  <2> QED BY <1>3, <2>1, <2>2, <2>3
<1> QED BY <1>3, <1>5 DEF Lookup, rest

(* Above its path, there is a table, and was one if there was anything. *)
LEMMA WrittenBelow ==
    ASSUME NEW o, o.path \in KeyPaths, NEW doc, NEW new, OverrideWrites(o, doc, new),
           NEW q \in KeyPaths, IsPrefix(q, o.path), q # o.path
    PROVE  /\ HasNode(new, q) /\ IsTable(NodeAt(new, q))
           /\ IsTable(NodeAt(doc, q))
<1> DEFINE path == o.path
<1>0. Len(path) \in Nat /\ Len(q) \in Nat /\ Len(q) <= Len(path) /\ Agree(q, path, Len(q))
  BY PrefixAgrees DEF KeyPaths
<1>1. \A i \in 0 .. Len(q) : SubSeq(q, 1, i) = SubSeq(path, 1, i)
  BY <1>0, AgreeingParts
<1>2. SubSeq(q, 1, Len(q)) = q /\ SubSeq(path, 1, Len(path)) = path
  BY <1>0, PrefixFacts
<1>3. Len(q) \in 0 .. Len(path) - 1
  <2>1. Len(q) # Len(path)
    BY <1>0, <1>1, <1>2
  <2> QED BY <1>0, <2>1
<1>4. IsTable(NodeAt(new, q)) /\ IsTable(NodeAt(doc, q))
  <2>1. SubSeq(path, 1, Len(q)) = q
    BY <1>0, <1>1, <1>2
  <2>2. /\ IsTable(NodeAt(new, SubSeq(path, 1, Len(q))))
        /\ IsTable(NodeAt(doc, SubSeq(path, 1, Len(q))))
    BY <1>3, OverrideWay
  <2> QED BY <2>1, <2>2
<1>5. ASSUME NEW i \in 0 .. Len(q) - 1 PROVE StepAt(new, q, i)
  <2>1. i \in 0 .. Len(path) - 1 /\ i \in 0 .. Len(q) /\ i + 1 \in 1 .. Len(q)
    BY <1>0
  <2>2. SubSeq(path, 1, i) = SubSeq(q, 1, i) /\ path[i + 1] = q[i + 1]
    BY <1>0, <1>1, <2>1 DEF Agree
  <2>3. StepAt(new, path, i)
    BY <2>1, OverrideWay
  <2> QED BY <2>2, <2>3 DEF StepAt
<1> QED BY <1>4, <1>5, HasNodeSteps

(* Elsewhere, the document stays what it was. *)
LEMMA WrittenElsewhere ==
    ASSUME NEW o, o.path \in KeyPaths, NEW doc, NEW new, OverrideWrites(o, doc, new),
           NEW q \in KeyPaths, ~ IsPrefix(q, o.path), ~ IsPrefix(o.path, q)
    PROVE  Lookup(new, q) = Lookup(doc, q)
<1> DEFINE path  == o.path
           depth == Len(path)
           Differ == {i \in Nat : i < Len(q) /\ i < depth /\ q[i + 1] # path[i + 1]}
<1>0. depth \in Nat /\ Len(q) \in Nat
  BY DEF KeyPaths
<1>1. Differ # {}
  <2> SUFFICES ASSUME Differ = {} PROVE FALSE
    OBVIOUS
  <2>1. ASSUME NEW j \in 1 .. Len(q), j <= depth PROVE q[j] = path[j]
    <3>1. j - 1 \in Nat /\ j - 1 < Len(q) /\ j - 1 < depth /\ j - 1 + 1 = j
      BY <1>0, <2>1
    <3>2. j - 1 \notin Differ
      OBVIOUS
    <3> QED BY <3>1, <3>2
  <2>2. CASE Len(q) <= depth
    <3>1. Agree(q, path, Len(q))
      BY <1>0, <2>1, <2>2 DEF Agree
    <3> QED BY <2>2, <3>1, PrefixAgrees
  <2>3. CASE depth <= Len(q)
    <3>1. Agree(path, q, depth)
      BY <1>0, <2>1, <2>3 DEF Agree
    <3> QED BY <2>3, <3>1, PrefixAgrees
  <2> QED BY <1>0, <2>2, <2>3
<1>2. PICK j \in Differ : \A i \in Differ : j <= i
  <2> HIDE DEF Differ
  <2>1. Differ \in SUBSET Nat
    BY DEF Differ
  <2> QED BY <1>1, <2>1, LeastNat
<1>3. /\ j \in 0 .. Len(q) - 1 /\ j \in 0 .. depth - 1 /\ q[j + 1] # path[j + 1]
      /\ j \in Nat /\ j <= depth /\ j <= Len(q)
  BY <1>0, <1>2
<1>4. \A i \in 0 .. j : SubSeq(path, 1, i) = SubSeq(q, 1, i)
  <2>1. ASSUME NEW i \in 1 .. j PROVE path[i] = q[i]
    <3>1. i - 1 \in Nat /\ i - 1 < Len(q) /\ i - 1 < depth /\ i - 1 + 1 = i /\ ~ (j <= i - 1)
      BY <1>0, <1>3
    <3>2. i - 1 \notin Differ
      BY <1>2, <3>1
    <3> QED BY <3>1, <3>2
  <2>2. Agree(path, q, j)
    BY <2>1 DEF Agree
  <2> QED BY <1>3, <2>2, AgreeingParts
<1> HIDE DEF Differ
<1>5. ASSUME NEW i \in 0 .. j
      PROVE  IsTable(NodeAt(doc, SubSeq(q, 1, i)))
  <2>1. i \in 0 .. depth - 1
    BY <1>0, <1>3
  <2>2. IsTable(NodeAt(doc, SubSeq(path, 1, i)))
    BY <2>1, OverrideWay
  <2> QED BY <1>4, <2>2
<1>6. ASSUME NEW i \in 0 .. j - 1 PROVE StepAt(new, q, i)
  <2>1. i \in 0 .. depth - 1 /\ i \in 0 .. j /\ i + 1 \in 0 .. j /\ i + 1 \in 1 .. i + 1
        /\ i + 1 \in 0 .. depth /\ i + 1 \in 0 .. Len(q)
    BY <1>0, <1>3
  <2>2. StepAt(new, path, i)
    BY <2>1, OverrideWay
  <2>3. SubSeq(path, 1, i) = SubSeq(q, 1, i) /\ SubSeq(path, 1, i + 1) = SubSeq(q, 1, i + 1)
    BY <1>4, <2>1
  <2>4. SubSeq(path, 1, i + 1)[i + 1] = path[i + 1] /\ SubSeq(q, 1, i + 1)[i + 1] = q[i + 1]
    BY <2>1, PrefixFacts
  <2> QED BY <2>2, <2>3, <2>4 DEF StepAt
<1>7. /\ StepAt(new, q, j) <=> StepAt(doc, q, j)
      /\ NodeAt(new, SubSeq(q, 1, j + 1)) = NodeAt(doc, SubSeq(q, 1, j + 1))
  <2> DEFINE before == NodeAt(doc, SubSeq(q, 1, j))
             after  == NodeAt(new, SubSeq(q, 1, j))
  <2>1. SubSeq(path, 1, j) = SubSeq(q, 1, j)
    BY <1>3, <1>4
  <2>2. \A key : key # path[j + 1] =>
           /\ HasKey(after, key) <=> HasKey(before, key)
           /\ Entry(after, key) = Entry(before, key)
    <3>1. \A key : key # path[j + 1] =>
             /\ HasKey(NodeAt(new, SubSeq(path, 1, j)), key)
                   <=> HasKey(NodeAt(doc, SubSeq(path, 1, j)), key)
             /\ Entry(NodeAt(new, SubSeq(path, 1, j)), key) =
                   Entry(NodeAt(doc, SubSeq(path, 1, j)), key)
      BY <1>3, OverrideWay
    <3> QED BY <2>1, <3>1
  <2>3. /\ NodeAt(new, SubSeq(q, 1, j + 1)) = Entry(after, q[j + 1])
        /\ NodeAt(doc, SubSeq(q, 1, j + 1)) = Entry(before, q[j + 1])
    BY <1>3, NodeAtNext
  <2> HIDE DEF before, after
  <2>4. /\ HasKey(after, q[j + 1]) <=> HasKey(before, q[j + 1])
        /\ Entry(after, q[j + 1]) = Entry(before, q[j + 1])
    BY <1>3, <2>2
  <2> QED BY <2>3, <2>4 DEF StepAt, before, after
<1>8. /\ NodeAt(new, q) = NodeAt(doc, q)
      /\ (\A i \in j + 1 .. Len(q) - 1 : StepAt(new, q, i))
            <=> (\A i \in j + 1 .. Len(q) - 1 : StepAt(doc, q, i))
  <2>1. SameFrom(new, q, j + 1, doc, q, j + 1)
    BY <1>0, <1>3, <1>7 DEF SameFrom, SameRest
  <2> QED BY <2>1, SameSteps
<1>9. ASSUME StepAt(doc, q, j), NEW i \in 0 .. j - 1 PROVE StepAt(doc, q, i)
  <2> SUFFICES ASSUME ~ StepAt(doc, q, i) PROVE FALSE
    OBVIOUS
  <2>1. i \in 0 .. Len(q) - 1 /\ j \in i + 1 .. Len(q) /\ i \in 0 .. j
    BY <1>0, <1>3
  <2>2. NodeAt(doc, SubSeq(q, 1, j)) = EmptyTable
    BY <1>5, <2>1, MissingBelow
  <2> QED BY <1>9, <2>2 DEF StepAt, HasKey, EmptyTable, Table
<1>10. ASSUME NEW d \in {doc, new}
       PROVE  HasNode(d, q) <=>
                /\ \A i \in 0 .. j - 1 : StepAt(d, q, i)
                /\ StepAt(d, q, j)
                /\ \A i \in j + 1 .. Len(q) - 1 : StepAt(d, q, i)
  <2>1. HasNode(d, q) <=> \A i \in 0 .. Len(q) - 1 : StepAt(d, q, i)
    BY HasNodeSteps
  <2>2. \A i \in 0 .. Len(q) - 1 : i \in 0 .. j - 1 \/ i = j \/ i \in j + 1 .. Len(q) - 1
    BY <1>0, <1>3
  <2>3. \A i : i \in 0 .. j - 1 \/ i = j \/ i \in j + 1 .. Len(q) - 1 => i \in 0 .. Len(q) - 1
    BY <1>0, <1>3
  <2> QED BY <2>1, <2>2, <2>3
<1>11. HasNode(new, q) <=> HasNode(doc, q)
  BY <1>6, <1>7, <1>8, <1>9, <1>10
<1> QED BY <1>8, <1>11 DEF Lookup

-----------------------------------------------------------------------------
(* Short paths                                                              *)
-----------------------------------------------------------------------------

(* One more key, at the end of a path. *)
LEMMA NextKey ==
    ASSUME NEW doc, NEW p \in KeyPaths, NEW k \in Segments
    PROVE  /\ NodeAt(doc, Append(p, k)) = Entry(NodeAt(doc, p), k)
           /\ HasNode(doc, Append(p, k)) <=> HasNode(doc, p) /\ HasKey(NodeAt(doc, p), k)
<1> DEFINE q == Append(p, k)
           n == Len(p)
<1>1. /\ q \in KeyPaths /\ Len(q) = n + 1 /\ n \in Nat
      /\ \A i \in 1 .. n : q[i] = p[i]
      /\ q[n + 1] = k
  BY AppendProperties DEF KeyPaths
<1> HIDE DEF q, n
<1>2. \A i \in 0 .. n : SubSeq(q, 1, i) = SubSeq(p, 1, i)
  <2>1. Agree(q, p, n) /\ n <= Len(p) /\ n <= Len(q)
    BY <1>1 DEF Agree, n
  <2> QED BY <1>1, <2>1, AgreeingParts
<1>3. SubSeq(q, 1, n) = p
  BY <1>1, <1>2, PrefixFacts DEF n
<1>4. SubSeq(q, 1, n + 1) = q
  BY <1>1, PrefixFacts
<1>5. NodeAt(doc, q) = Entry(NodeAt(doc, p), k)
  <2>1. n \in 0 .. Len(q) - 1
    BY <1>1
  <2>2. NodeAt(doc, SubSeq(q, 1, n + 1)) = Entry(NodeAt(doc, SubSeq(q, 1, n)), q[n + 1])
    BY <1>1, <2>1, NodeAtNext
  <2> QED BY <1>1, <1>3, <1>4, <2>2
<1>6. HasNode(doc, q) <=> HasNode(doc, p) /\ HasKey(NodeAt(doc, p), k)
  <2>1. HasNode(doc, q) <=> \A i \in 0 .. n : StepAt(doc, q, i)
    <3>1. Len(q) - 1 = n
      BY <1>1
    <3> QED BY <1>1, <3>1, HasNodeSteps
  <2>2. HasNode(doc, p) <=> \A i \in 0 .. n - 1 : StepAt(doc, p, i)
    BY HasNodeSteps DEF n
  <2>3. \A i \in 0 .. n - 1 : StepAt(doc, q, i) <=> StepAt(doc, p, i)
    <3>1. \A i \in 0 .. n - 1 : i \in 0 .. n /\ i + 1 \in 1 .. n
      BY <1>1
    <3> QED BY <1>1, <1>2, <3>1 DEF StepAt
  <2>4. StepAt(doc, q, n) <=> HasKey(NodeAt(doc, p), k)
    BY <1>1, <1>3 DEF StepAt
  <2>5. \A i : i \in 0 .. n <=> i \in 0 .. n - 1 \/ i = n
    BY <1>1
  <2> QED BY <2>1, <2>2, <2>3, <2>4, <2>5
<1> QED BY <1>5, <1>6 DEF q

(* What a document has at paths of one and of two keys. *)
LEMMA TwoKeys ==
    ASSUME NEW doc, NEW a \in Segments, NEW b \in Segments
    PROVE  /\ <<a>> \in KeyPaths /\ <<a, b>> \in KeyPaths
           /\ NodeAt(doc, <<a>>) = Entry(doc, a)
           /\ NodeAt(doc, <<a, b>>) = Entry(NodeAt(doc, <<a>>), b)
           /\ HasNode(doc, <<a>>) <=> HasKey(doc, a)
           /\ HasNode(doc, <<a, b>>) <=> HasNode(doc, <<a>>) /\ HasKey(NodeAt(doc, <<a>>), b)
<1>1. <<>> \in KeyPaths /\ <<a>> \in KeyPaths /\ <<a, b>> \in KeyPaths
  BY DEF KeyPaths
<1>2. NodeAt(doc, <<a>>) = Entry(doc, a) /\ (HasNode(doc, <<a>>) <=> HasKey(doc, a))
  <2>1. /\ NodeAt(doc, Append(<<>>, a)) = Entry(NodeAt(doc, <<>>), a)
        /\ HasNode(doc, Append(<<>>, a)) <=>
              HasNode(doc, <<>>) /\ HasKey(NodeAt(doc, <<>>), a)
    BY <1>1, NextKey
  <2>2. Append(<<>>, a) = <<a>>
    OBVIOUS
  <2> QED BY <2>1, <2>2, NodeAtRoot
<1>3. Append(<<a>>, b) = <<a, b>>
  <2>1. /\ Append(<<a>>, b) \in Seq(Segments) /\ Len(Append(<<a>>, b)) = Len(<<a>>) + 1
        /\ \A i \in 1 .. Len(<<a>>) : Append(<<a>>, b)[i] = <<a>>[i]
        /\ Append(<<a>>, b)[Len(<<a>>) + 1] = b
    BY <1>1, AppendProperties DEF KeyPaths
  <2> DEFINE t == Append(<<a>>, b)
  <2>2. t \in Seq(Segments) /\ Len(t) = 2 /\ t[1] = a /\ t[2] = b
    BY <2>1
  <2> HIDE DEF t
  <2>3. \A i \in 1 .. 2 : i = 1 \/ i = 2
    OBVIOUS
  <2>4. t = <<a, b>>
    BY <1>1, <2>2, <2>3, SeqEqual DEF KeyPaths
  <2> QED BY <2>4 DEF t
<1>4. /\ NodeAt(doc, Append(<<a>>, b)) = Entry(NodeAt(doc, <<a>>), b)
      /\ HasNode(doc, Append(<<a>>, b)) <=>
            HasNode(doc, <<a>>) /\ HasKey(NodeAt(doc, <<a>>), b)
  BY <1>1, NextKey
<1> QED BY <1>1, <1>2, <1>3, <1>4

(* The same for three keys. *)
LEMMA ThreeKeys ==
    ASSUME NEW doc, NEW a \in Segments, NEW b \in Segments, NEW c \in Segments
    PROVE  /\ <<a, b, c>> \in KeyPaths
           /\ NodeAt(doc, <<a, b, c>>) = Entry(NodeAt(doc, <<a, b>>), c)
           /\ HasNode(doc, <<a, b, c>>) <=>
                 HasNode(doc, <<a, b>>) /\ HasKey(NodeAt(doc, <<a, b>>), c)
<1>1. <<a, b>> \in KeyPaths /\ <<a, b, c>> \in KeyPaths
  BY DEF KeyPaths
<1>2. Append(<<a, b>>, c) = <<a, b, c>>
  <2>1. /\ Append(<<a, b>>, c) \in Seq(Segments)
        /\ Len(Append(<<a, b>>, c)) = Len(<<a, b>>) + 1
        /\ \A i \in 1 .. Len(<<a, b>>) : Append(<<a, b>>, c)[i] = <<a, b>>[i]
        /\ Append(<<a, b>>, c)[Len(<<a, b>>) + 1] = c
    BY <1>1, AppendProperties DEF KeyPaths
  <2> DEFINE t == Append(<<a, b>>, c)
  <2>2. t \in Seq(Segments) /\ Len(t) = 3 /\ t[1] = a /\ t[2] = b /\ t[3] = c
    BY <2>1
  <2> HIDE DEF t
  <2>3. \A i \in 1 .. 3 : i = 1 \/ i = 2 \/ i = 3
    OBVIOUS
  <2>4. t = <<a, b, c>>
    BY <1>1, <2>2, <2>3, SeqEqual DEF KeyPaths
  <2> QED BY <2>4 DEF t
<1>3. /\ NodeAt(doc, Append(<<a, b>>, c)) = Entry(NodeAt(doc, <<a, b>>), c)
      /\ HasNode(doc, Append(<<a, b>>, c)) <=>
            HasNode(doc, <<a, b>>) /\ HasKey(NodeAt(doc, <<a, b>>), c)
  BY <1>1, NextKey
<1> QED BY <1>1, <1>2, <1>3

(* What writes at one key writes there and nowhere above. *)
LEMMA PrefixOfOne ==
    ASSUME NEW p \in KeyPaths, p # <<>>, NEW a \in Segments, IsPrefix(p, <<a>>)
    PROVE  p = <<a>>
<1>0. /\ p \in Seq(Segments) /\ Len(p) \in Nat /\ Len(p) # 0
      /\ <<a>> \in Seq(Segments)
  BY EmptySeq DEF KeyPaths
<1>1. Len(p) <= Len(<<a>>) /\ Agree(p, <<a>>, Len(p))
  BY <1>0, PrefixAgrees DEF KeyPaths
<1>2. Len(p) = 1
  BY <1>0, <1>1
<1>3. p[1] = a
  BY <1>1, <1>2 DEF Agree
<1> QED BY <1>0, <1>2, <1>3, SeqEqual

(* What writes at two keys writes at the first or there. *)
LEMMA PrefixOfTwo ==
    ASSUME NEW p \in KeyPaths, p # <<>>, NEW a \in Segments, NEW b \in Segments,
           IsPrefix(p, <<a, b>>)
    PROVE  p = <<a>> \/ p = <<a, b>>
<1>0. /\ p \in Seq(Segments) /\ Len(p) \in Nat /\ Len(p) # 0
      /\ <<a>> \in Seq(Segments) /\ <<a, b>> \in Seq(Segments)
  BY EmptySeq DEF KeyPaths
<1>1. Len(p) <= Len(<<a, b>>) /\ Agree(p, <<a, b>>, Len(p))
  BY <1>0, PrefixAgrees DEF KeyPaths
<1>2. Len(p) = 1 \/ Len(p) = 2
  <2>1. Len(p) <= 2 /\ Len(p) \in Nat /\ Len(p) # 0
    BY <1>0, <1>1
  <2> DEFINE n == Len(p)
  <2>2. n <= 2 /\ n \in Nat /\ n # 0
    BY <2>1
  <2> HIDE DEF n
  <2>3. n = 1 \/ n = 2
    BY <2>2
  <2> QED BY <2>3 DEF n
<1>3. CASE Len(p) = 1
  <2>1. p[1] = a
    BY <1>1, <1>3 DEF Agree
  <2> QED BY <1>0, <1>3, <2>1, SeqEqual
<1>4. CASE Len(p) = 2
  <2>1. p[1] = a /\ p[2] = b
    BY <1>1, <1>4 DEF Agree
  <2>2. \A i \in 1 .. 2 : i = 1 \/ i = 2
    OBVIOUS
  <2> QED BY <1>0, <1>4, <2>1, <2>2, SeqEqual
<1> QED BY <1>2, <1>3, <1>4

(* The first keys of a path lead to it. *)
LEMMA FirstKeys ==
    ASSUME NEW p \in KeyPaths, p # <<>>
    PROVE  /\ p[1] \in Segments /\ IsPrefix(<<p[1]>>, p)
           /\ Len(p) > 1 => p[2] \in Segments /\ IsPrefix(<<p[1], p[2]>>, p)
<1>0. p \in Seq(Segments) /\ Len(p) \in Nat /\ Len(p) # 0
  BY EmptySeq DEF KeyPaths
<1>1. p[1] \in Segments /\ IsPrefix(<<p[1]>>, p)
  <2>1. 1 \in 1 .. Len(p)
    BY <1>0
  <2>2. p[1] \in Segments
    BY <1>0, <2>1, ElementOfSeq
  <2>3. <<p[1]>> \in KeyPaths /\ Len(<<p[1]>>) = 1 /\ Agree(<<p[1]>>, p, 1)
    BY <2>2 DEF KeyPaths, Agree
  <2>4. 1 <= Len(p)
    BY <1>0
  <2> QED BY <2>2, <2>3, <2>4, PrefixAgrees
<1>2. ASSUME Len(p) > 1 PROVE p[2] \in Segments /\ IsPrefix(<<p[1], p[2]>>, p)
  <2>1. 2 \in 1 .. Len(p)
    BY <1>0, <1>2
  <2>2. p[2] \in Segments
    BY <1>0, <2>1, ElementOfSeq
  <2>3. /\ <<p[1], p[2]>> \in KeyPaths /\ Len(<<p[1], p[2]>>) = 2
        /\ Agree(<<p[1], p[2]>>, p, 2)
    BY <1>1, <2>2 DEF KeyPaths, Agree
  <2>4. 2 <= Len(p)
    BY <1>0, <1>2
  <2> QED BY <2>2, <2>3, <2>4, PrefixAgrees
<1> QED BY <1>1, <1>2

(* What follows one key of two, and what follows a whole path. *)
LEMMA FirstKeysOfTwo ==
    ASSUME NEW a \in Segments, NEW b \in Segments
    PROVE  IsPrefix(<<a>>, <<a, b>>)
<1>1. <<a>> \in KeyPaths /\ <<a, b>> \in KeyPaths /\ Agree(<<a>>, <<a, b>>, 1)
  BY DEF KeyPaths, Agree
<1>2. Len(<<a>>) = 1 /\ 1 <= Len(<<a, b>>)
  OBVIOUS
<1> QED BY <1>1, <1>2, PrefixAgrees

LEMMA RestOfTwo ==
    ASSUME NEW a \in Segments, NEW b \in Segments
    PROVE  RestOf(<<a>>, <<a, b>>) = <<b>>
<1> DEFINE r == RestOf(<<a>>, <<a, b>>)
<1>1. <<a>> \in KeyPaths /\ <<a, b>> \in KeyPaths /\ <<b>> \in Seq(Segments)
  BY DEF KeyPaths
<1>2. Len(<<a>>) = 1 /\ Len(<<a, b>>) = 2 /\ <<a, b>>[2] = b
  OBVIOUS
<1>3. r \in KeyPaths /\ SameRest(<<a, b>>, 1, r, 0)
  <2>1. Len(<<a>>) <= Len(<<a, b>>)
    BY <1>2
  <2>2. r \in KeyPaths /\ SameRest(<<a, b>>, Len(<<a>>), r, 0)
    BY <1>1, <2>1, RestFacts
  <2> QED BY <2>2
<1>4. r \in Seq(Segments) /\ Len(r) \in Nat
  BY <1>3 DEF KeyPaths
<1> HIDE DEF r
<1>5. Len(r) = 1 /\ r[1] = b
  <2>1. Len(<<a, b>>) - 1 = Len(r) - 0
    BY <1>3 DEF SameRest
  <2>2. \A i \in 1 .. Len(<<a, b>>) - 1 : <<a, b>>[1 + i] = r[0 + i]
    BY <1>3 DEF SameRest
  <2>3. 1 \in 1 .. Len(<<a, b>>) - 1
    BY <1>2
  <2>4. <<a, b>>[1 + 1] = r[0 + 1]
    BY <2>2, <2>3
  <2>5. Len(r) = 1
    <3> DEFINE n == Len(r)
    <3>1. 2 - 1 = n - 0 /\ n \in Nat
      BY <1>2, <1>4, <2>1, Zenon
    <3> HIDE DEF n
    <3>2. n = 1
      BY <3>1
    <3> QED BY <3>2 DEF n
  <2>6. 1 + 1 = 2 /\ 0 + 1 = 1
    OBVIOUS
  <2>7. r[1] = b
    BY <1>2, <2>4, <2>6, Zenon
  <2> QED BY <2>5, <2>7
<1> QED BY <1>1, <1>4, <1>5, SeqEqual DEF r

LEMMA RestOfSame ==
    ASSUME NEW q \in KeyPaths
    PROVE  RestOf(q, q) = <<>>
<1> DEFINE r == RestOf(q, q)
<1>1. Len(q) \in Nat
  BY DEF KeyPaths
<1>2. r \in KeyPaths /\ SameRest(q, Len(q), r, 0)
  BY <1>1, RestFacts
<1>3. Len(r) \in Nat
  BY <1>2 DEF KeyPaths
<1> HIDE DEF r
<1>4. Len(r) = 0
  BY <1>1, <1>2, <1>3 DEF SameRest
<1> QED BY <1>2, <1>4, EmptySeq DEF KeyPaths, r

-----------------------------------------------------------------------------
(* What was asked for                                                      *)
-----------------------------------------------------------------------------

(* LastWriter, Asked and "something was written below", for n overrides. *)
WritersUpTo(os, n, q) == {i \in 1 .. n : IsPrefix(os[i].path, q)}

LastUpTo(os, n, q) == IF WritersUpTo(os, n, q) = {} THEN 0 ELSE Max(WritersUpTo(os, n, q))

AskedUpTo(file, os, n, q) ==
    LET i    == LastUpTo(os, n, q)
        from == IF i = 0 THEN file ELSE os[i].value
        rest == IF i = 0 THEN q ELSE RestOf(os[i].path, q)
    IN  Lookup(from, rest)

BelowUpTo(os, n, q) ==
    \E i \in 1 .. n : i > LastUpTo(os, n, q) /\ IsPrefix(q, os[i].path)

(***************************************************************************)
(* After n overrides, a document has at a path what was asked for; or, if  *)
(* something was written below it since, it has a table there, and nothing *)
(* but a table was asked for.                                              *)
(***************************************************************************)
AsAsked(file, os, doc, n) ==
    \A q \in KeyPaths :
        /\ ~ BelowUpTo(os, n, q) => Lookup(doc, q) = AskedUpTo(file, os, n, q)
        /\ BelowUpTo(os, n, q) =>
              /\ HasNode(doc, q) /\ IsTable(NodeAt(doc, q))
              /\ AskedUpTo(file, os, n, q) # <<>> => IsTable(AskedUpTo(file, os, n, q)[1])

PathsTyped(os) ==
    /\ Len(os) \in Nat /\ DOMAIN os = 1 .. Len(os)
    /\ \A i \in 1 .. Len(os) :
          os[i].path \in KeyPaths /\ os[i].path # <<>>

(* The tables among the values of overrides have strings as their keys. *)
ValuesTyped(os) ==
    \A i \in 1 .. Len(os) :
        IsTable(os[i].value) => DOMAIN os[i].value.of \subseteq Segments

OverridesTyped == PathsTyped(cli.overrides) /\ ValuesTyped(cli.overrides)

(* A set of bounded naturals has a maximum. *)
LEMMA MaxOfBounded ==
    ASSUME NEW n \in Nat, NEW W \in SUBSET (1 .. n), W # {}
    PROVE  Max(W) \in W /\ \A y \in W : y <= Max(W)
<1> DEFINE T == {n - i : i \in W}
<1>1. PICK x \in T : \A y \in T : x <= y
  <2>1. \A i \in W : n - i \in Nat
    OBVIOUS
  <2>2. T \in SUBSET Nat /\ T # {}
    BY <2>1
  <2> HIDE DEF T
  <2> QED BY <2>2, LeastNat
<1>2. PICK i \in W : x = n - i
  OBVIOUS
<1>3. \A y \in W : i >= y
  BY <1>1, <1>2
<1>4. Max(W) \in W /\ \A y \in W : Max(W) >= y
  BY <1>3 DEF Max
<1> QED BY <1>4

(* LastUpTo is the last override that wrote a path, if there is one. *)
LEMMA LastFacts ==
    ASSUME NEW os, NEW n \in Nat, NEW q
    PROVE  /\ LastUpTo(os, n, q) \in 0 .. n
           /\ LastUpTo(os, n, q) # 0 => LastUpTo(os, n, q) \in WritersUpTo(os, n, q)
           /\ \A i \in WritersUpTo(os, n, q) :
                 i <= LastUpTo(os, n, q) /\ LastUpTo(os, n, q) # 0
<1>1. WritersUpTo(os, n, q) \in SUBSET (1 .. n)
  BY DEF WritersUpTo
<1>2. CASE WritersUpTo(os, n, q) = {}
  BY <1>2 DEF LastUpTo
<1>3. CASE WritersUpTo(os, n, q) # {}
  <2>1. /\ Max(WritersUpTo(os, n, q)) \in WritersUpTo(os, n, q)
        /\ \A y \in WritersUpTo(os, n, q) : y <= Max(WritersUpTo(os, n, q))
    BY <1>1, <1>3, MaxOfBounded
  <2> QED BY <1>1, <1>3, <2>1 DEF LastUpTo
<1> QED BY <1>2, <1>3

(* One more override, where it writes. *)
LEMMA AskedAtWriter ==
    ASSUME NEW file, NEW os, NEW n \in Nat, PathsTyped(os), n + 1 <= Len(os),
           NEW q \in KeyPaths, IsPrefix(os[n + 1].path, q)
    PROVE  /\ ~ BelowUpTo(os, n + 1, q)
           /\ AskedUpTo(file, os, n + 1, q) =
                 Lookup(os[n + 1].value, RestOf(os[n + 1].path, q))
<1>1. n + 1 \in WritersUpTo(os, n + 1, q)
  BY DEF WritersUpTo
<1>2. LastUpTo(os, n + 1, q) = n + 1
  BY <1>1, LastFacts
<1>3. ~ BelowUpTo(os, n + 1, q)
  BY <1>2 DEF BelowUpTo
<1>4. n + 1 # 0
  OBVIOUS
<1> QED BY <1>2, <1>3, <1>4 DEF AskedUpTo

(* One more override, where it does not. *)
LEMMA AskedElsewhere ==
    ASSUME NEW file, NEW os, NEW n \in Nat, NEW q, ~ IsPrefix(os[n + 1].path, q)
    PROVE  /\ AskedUpTo(file, os, n + 1, q) = AskedUpTo(file, os, n, q)
           /\ BelowUpTo(os, n + 1, q) <=>
                 BelowUpTo(os, n, q) \/ IsPrefix(q, os[n + 1].path)
<1>1. WritersUpTo(os, n + 1, q) = WritersUpTo(os, n, q)
  BY DEF WritersUpTo
<1>2. LastUpTo(os, n + 1, q) = LastUpTo(os, n, q) /\ LastUpTo(os, n, q) \in 0 .. n
  BY <1>1, LastFacts DEF LastUpTo
<1>3. BelowUpTo(os, n + 1, q) <=>
        BelowUpTo(os, n, q) \/ IsPrefix(q, os[n + 1].path)
  BY <1>2 DEF BelowUpTo
<1> QED BY <1>2, <1>3 DEF AskedUpTo

(* What an override writes was asked for, and nothing else is changed. *)
LEMMA OverrideAsAsked ==
    ASSUME NEW file, NEW os, PathsTyped(os), NEW n \in Nat, n + 1 <= Len(os),
           NEW doc, NEW new, AsAsked(file, os, doc, n),
           OverrideWrites(os[n + 1], doc, new)
    PROVE  AsAsked(file, os, new, n + 1)
<1> DEFINE o == os[n + 1]
<1>0. o.path \in KeyPaths
  BY DEF PathsTyped
<1> SUFFICES ASSUME NEW q \in KeyPaths
             PROVE  LET asked == AskedUpTo(file, os, n + 1, q)
                    IN  /\ ~ BelowUpTo(os, n + 1, q) => Lookup(new, q) = asked
                        /\ BelowUpTo(os, n + 1, q) =>
                              /\ HasNode(new, q) /\ IsTable(NodeAt(new, q))
                              /\ asked # <<>> => IsTable(asked[1])
  BY DEF AsAsked
<1>1. /\ ~ BelowUpTo(os, n, q) => Lookup(doc, q) = AskedUpTo(file, os, n, q)
      /\ BelowUpTo(os, n, q) =>
            /\ HasNode(doc, q) /\ IsTable(NodeAt(doc, q))
            /\ AskedUpTo(file, os, n, q) # <<>> => IsTable(AskedUpTo(file, os, n, q)[1])
  BY DEF AsAsked
<1>2. CASE IsPrefix(o.path, q)
  BY <1>0, <1>2, AskedAtWriter, WrittenAt
<1>3. CASE ~ IsPrefix(o.path, q) /\ IsPrefix(q, o.path)
  <2>1. q # o.path
    BY <1>3
  <2>2. /\ HasNode(new, q) /\ IsTable(NodeAt(new, q))
        /\ IsTable(NodeAt(doc, q))
    BY <1>0, <1>3, <2>1, WrittenBelow
  <2>3. AskedUpTo(file, os, n + 1, q) = AskedUpTo(file, os, n, q) /\ BelowUpTo(os, n + 1, q)
    BY <1>3, AskedElsewhere
  <2>4. AskedUpTo(file, os, n, q) # <<>> => IsTable(AskedUpTo(file, os, n, q)[1])
    BY <1>1, <2>2 DEF Lookup
  <2> QED BY <2>2, <2>3, <2>4
<1>4. CASE ~ IsPrefix(o.path, q) /\ ~ IsPrefix(q, o.path)
  <2>1. Lookup(new, q) = Lookup(doc, q)
    BY <1>0, <1>4, WrittenElsewhere
  <2>2. /\ AskedUpTo(file, os, n + 1, q) = AskedUpTo(file, os, n, q)
        /\ BelowUpTo(os, n + 1, q) <=> BelowUpTo(os, n, q)
    BY <1>4, AskedElsewhere
  <2>3. HasNode(doc, q) => HasNode(new, q) /\ NodeAt(new, q) = NodeAt(doc, q)
    BY <2>1 DEF Lookup
  <2> QED BY <1>1, <2>1, <2>2, <2>3
<1> QED BY <1>2, <1>3, <1>4

(* A document has a node where something was asked for or written below. *)
LEMMA ThereIfAsked ==
    ASSUME NEW file, NEW os, NEW n, NEW doc, AsAsked(file, os, doc, n), NEW q \in KeyPaths
    PROVE  HasNode(doc, q) <=> AskedUpTo(file, os, n, q) # <<>> \/ BelowUpTo(os, n, q)
<1>1. CASE BelowUpTo(os, n, q)
  BY <1>1 DEF AsAsked
<1>2. CASE ~ BelowUpTo(os, n, q)
  <2>1. Lookup(doc, q) = AskedUpTo(file, os, n, q)
    BY <1>2 DEF AsAsked
  <2>2. HasNode(doc, q) <=> Lookup(doc, q) # <<>>
    BY DEF Lookup
  <2> QED BY <1>2, <2>1, <2>2
<1> QED BY <1>1, <1>2

(* With every override applied, this is what CommandLine says of them. *)
LEMMA AskedIsAll ==
    ASSUME OverridesTyped, NEW q
    PROVE  LET os == cli.overrides
               n  == Len(os)
           IN  /\ LastWriter(q) = LastUpTo(os, n, q)
               /\ Asked(q) = AskedUpTo(args.config.doc, os, n, q)
               /\ BelowUpTo(os, n, q) <=>
                     \E i \in DOMAIN cli.overrides :
                        i > LastWriter(q) /\ IsPrefix(q, cli.overrides[i].path)
<1>1. DOMAIN cli.overrides = 1 .. Len(cli.overrides)
  BY DEF OverridesTyped, PathsTyped
<1>2. LastWriter(q) = LastUpTo(cli.overrides, Len(cli.overrides), q)
  BY <1>1 DEF LastWriter, LastUpTo, WritersUpTo
<1>3. Asked(q) = AskedUpTo(args.config.doc, cli.overrides, Len(cli.overrides), q)
  BY <1>2 DEF Asked, AskedUpTo, RestOf
<1> QED BY <1>1, <1>2, <1>3 DEF BelowUpTo

-----------------------------------------------------------------------------
(* The invariant                                                           *)
-----------------------------------------------------------------------------

(* Before the displayer is made, and before the document is resolved. *)
Early == {"parse", "validate", "load", "override", "register", "display"}

(* What is read of the command line. *)
CliInv ==
    /\ args \in Arguments /\ unavailable \in Unavailable
    /\ OverridesTyped
    /\ Range(cli.sources) \subseteq SourceIds
    /\ stage \notin {"parse", "validate", "failed"} => IsInjective(cli.sources)
    /\ stage \notin {"parse", "failed"} =>
          /\ cli.command = args.command /\ cli.flags = args.flags
          /\ cli.use_root = args.use_root

(* How the document comes to be what was asked for. *)
DocumentInv ==
    /\ stage \in {"parse", "validate", "load"} => step = 0
    /\ stage = "override" =>
          /\ step \in 0 .. Len(cli.overrides)
          /\ AsAsked(args.config.doc, cli.overrides, root, step)
    /\ Resolved =>
          /\ AsAsked(args.config.doc, cli.overrides, root, Len(cli.overrides))
          /\ GlobalConfig(root) # <<>>

Global == GlobalConfig(root)[1]

(* The sources whose turn has come. *)
Taken == {SourceOrder[i] : i \in 1 .. step}

(* The table is the document and the flags, without the sections taken. *)
TableInv ==
    Resolved =>
        /\ DOMAIN table = {"profiler", "sources", "enabled"}
        /\ table.profiler = ApplyCli(NewTable(Global, cli.sources), cli).profiler
        /\ table.enabled = DOMAIN Global.sources \cup Range(cli.sources)
        /\ step \in 0 .. Len(SourceOrder)
        /\ DOMAIN table.sources = DOMAIN Global.sources \ Taken
        /\ \A id \in DOMAIN table.sources : table.sources[id] = Global.sources[id]
        /\ stage # "register" => DOMAIN table.sources = {} /\ step = Len(SourceOrder)

(* The section of a source in a document. *)
Section(doc, id) ==
    LET sources == GlobalConfig(doc)[1].sources
    IN  IF id \in DOMAIN sources THEN sources[id] ELSE EmptyTable

(* What became of the sources whose turn has come. *)
SourcesInv ==
    /\ added \in Seq(Range(added))
    /\ ~ Resolved /\ stage # "failed" => added = <<>> /\ skipped = {}
    /\ Resolved =>
          /\ {added[i].id : i \in DOMAIN added} = (Taken \cap table.enabled) \ unavailable
          /\ skipped = (Taken \cap table.enabled) \cap unavailable
          /\ \A id \in Taken \cap table.enabled : SectionReads(id, Section(root, id))
          /\ \A id \in skipped : SourceConfig(id, Section(root, id)).ignore_on_failure = "true"
          /\ \A i \in DOMAIN added :
                /\ added[i].config = SourceConfig(added[i].id, Section(root, added[i].id))
                /\ added[i].id = "rapl" => added[i].backend = table.profiler.rapl_backend
          /\ \A i, j \in DOMAIN added :
                i < j => \E m, n \in 1 .. step :
                            /\ m < n
                            /\ added[i].id = SourceOrder[m] /\ added[j].id = SourceOrder[n]

(* Who may have touched the files. *)
FilesInv ==
    /\ files \in [Paths -> Contents]
    /\ stage \in Early => displayer = NoDisplayer /\ Touched = {} /\ ~ started
    /\ stage \in {"start", "running", "results", "sensors", "done"} => displayer # NoDisplayer
    /\ displayer.path # Absent =>
          displayer.path = ResultsPath /\ table.profiler.output_format # "terminal"
    /\ Touched \subseteq
          (IF table.profiler.output_format = "terminal" THEN {} ELSE {ResultsPath})
            \cup (IF started THEN {table.profiler.stdout_file} ELSE {})
    /\ started => /\ added # <<>> /\ displayer # NoDisplayer
                  /\ stage \in {"running", "results", "done", "failed"}

IInv == CliInv /\ DocumentInv /\ TableInv /\ SourcesInv /\ FilesInv

(* The length of a function that is a sequence. *)
LEMMA LengthOfSeq ==
    ASSUME NEW n \in Nat, NEW f, DOMAIN f = 1 .. n, f = [i \in 1 .. n |-> f[i]]
    PROVE  Len(f) = n
<1> DEFINE S == {f[i] : i \in 1 .. n}
<1>1. f \in [1 .. n -> S]
  OBVIOUS
<1> HIDE DEF S
<1>2. f \in Seq(S)
  BY <1>1, SeqDef
<1>3. Len(f) \in Nat /\ DOMAIN f = 1 .. Len(f)
  BY <1>2, LenProperties
<1> QED BY <1>3

(* A sequence after Append, by its length and its elements. *)
LEMMA AppendFacts ==
    ASSUME NEW s, NEW e, s \in Seq(Range(s))
    PROVE  /\ Append(s, e) \in Seq(Range(Append(s, e)))
           /\ Len(s) \in Nat /\ DOMAIN s = 1 .. Len(s)
           /\ DOMAIN Append(s, e) = 1 .. Len(s) + 1
           /\ \A i \in 1 .. Len(s) : Append(s, e)[i] = s[i]
           /\ Append(s, e)[Len(s) + 1] = e
<1> DEFINE S == Range(s) \cup {e}
           t == Append(s, e)
<1>1. s \in Seq(S) /\ Len(s) \in Nat /\ DOMAIN s = 1 .. Len(s)
  <2> DEFINE R == Range(s)
  <2> HIDE DEF R
  <2>1. s \in Seq(R)
    BY DEF R
  <2>2. Len(s) \in Nat /\ DOMAIN s = 1 .. Len(s) /\ s \in [1 .. Len(s) -> R]
    BY <2>1, LenProperties
  <2>3. s \in [1 .. Len(s) -> S]
    BY <2>2 DEF R
  <2> HIDE DEF S
  <2> QED BY <2>2, <2>3, SeqDef
<1>2. /\ t \in Seq(S) /\ Len(t) = Len(s) + 1
      /\ \A i \in 1 .. Len(s) : t[i] = s[i]
      /\ t[Len(s) + 1] = e
  <2>1. e \in S
    OBVIOUS
  <2> HIDE DEF S
  <2> QED BY <1>1, <2>1, AppendProperties
<1>3. DOMAIN t = 1 .. Len(t) /\ t \in [1 .. Len(t) -> S]
  <2> HIDE DEF S, t
  <2> QED BY <1>2, LenProperties
<1>4. t \in Seq(Range(t))
  <2> HIDE DEF S, t
  <2>1. Len(t) \in Nat /\ t \in [1 .. Len(t) -> Range(t)]
    BY <1>1, <1>2, <1>3 DEF Range
  <2> DEFINE R == Range(t)
  <2> HIDE DEF R
  <2>2. t \in [1 .. Len(t) -> R]
    BY <2>1 DEF R
  <2>3. t \in Seq(R)
    BY <2>1, <2>2, SeqDef
  <2> QED BY <2>3 DEF R
<1> QED BY <1>1, <1>2, <1>3, <1>4

(* The keys of the profiler. *)
LEMMA ProfilerKeysFacts ==
    ProfilerKeys = {"stdout_file", "token_pattern", "use_root", "output_file",
                    "output_format", "init_timeout", "rapl_backend"}
BY DEF ProfilerKeys, ProfilerDefault

(* A value that is read, with its keys. *)
LEMMA ParsedTyped ==
    ASSUME NEW text
    PROVE  IsTable(ParseValue(text)) => DOMAIN ParseValue(text).of \subseteq Segments
<1> DEFINE v == ParseValue(text)
           Read(w) == ~ IsTable(w) \/ DOMAIN w.of \subseteq Segments
<1>1. ASSUME NEW kind \in {"boolean", "integer", "array", "string"}
      PROVE  Read(Scalar(kind, text))
  BY DEF IsTable, Scalar
<1>2. /\ Read(EmptyTable)
      /\ Read(Table([rapl_backend |-> Scalar("string", "powercap")]))
      /\ Read(Table([rapl_backnd |-> Scalar("string", "powercap")]))
      /\ Read(Table([nvlm |-> EmptyTable]))
  BY ProfilerKeysFacts DEF Segments, EmptyTable, Table
<1> HIDE DEF Read
<1>3. Read(v)
  BY <1>1, <1>2 DEF ParseValue
<1> QED BY <1>3 DEF Read

(* The overrides of a command line that reads, with their keys. *)
LEMMA OverridesRead ==
    ASSUME NEW a \in Arguments
    PROVE  LET os == [i \in DOMAIN a.overrides |-> OverrideOf(a.overrides[i])]
           IN  PathsTyped(os) /\ ValuesTyped(os)
<1> DEFINE raws == a.overrides
           read == [i \in DOMAIN raws |-> OverrideOf(raws[i])]
           Raw  == [assigns : BOOLEAN, key : Seq(STRING) \ {<<>>}, text : STRING]
<1>1. raws \in Seq(Raw)
  BY ArgumentsAssumption
<1>2. Len(raws) \in Nat /\ DOMAIN raws = 1 .. Len(raws)
  <2> HIDE DEF raws, Raw
  <2> QED BY <1>1, LenProperties
<1>3. \A i \in 1 .. Len(raws) : raws[i] \in Raw
  <2> HIDE DEF raws, Raw
  <2> QED BY <1>1, <1>2, ElementOfSeq
<1>4. \A i \in 1 .. Len(raws) : raws[i].key \in KeyPaths /\ raws[i].key # <<>>
  <2> HIDE DEF raws
  <2>1. \A i \in 1 .. Len(raws) : raws[i].key \in Seq(STRING) /\ raws[i].key # <<>>
    BY <1>3
  <2>2. STRING \subseteq Segments
    BY DEF Segments
  <2>3. Seq(STRING) \subseteq KeyPaths
    BY <2>2, SeqMonotonic DEF KeyPaths
  <2> QED BY <2>1, <2>3
<1> HIDE DEF raws, Raw
<1>5. read = [i \in 1 .. Len(raws) |-> OverrideOf(raws[i])]
  BY <1>2
<1>6. Len(read) = Len(raws)
  <2>1. DOMAIN read = 1 .. Len(raws)
    BY <1>5
  <2>2. read = [i \in 1 .. Len(raws) |-> read[i]]
    BY <1>5
  <2> QED BY <1>2, <2>1, <2>2, LengthOfSeq
<1>7. \A i \in 1 .. Len(raws) :
          read[i].path = raws[i].key /\ read[i].value = ParseValue(raws[i].text)
  BY <1>5 DEF OverrideOf
<1>8. PathsTyped(read)
  <2> HIDE DEF read
  <2>1. DOMAIN read = 1 .. Len(raws)
    BY <1>5
  <2> QED BY <1>2, <1>4, <1>6, <1>7, <2>1 DEF PathsTyped
<1>9. ValuesTyped(read)
  <2> HIDE DEF read
  <2> QED BY <1>6, <1>7, ParsedTyped DEF ValuesTyped
<1> QED BY <1>8, <1>9 DEF raws

USE DEF vars

(* CliInv holds initially. *)
LEMMA CliInit == Init => CliInv
<1> SUFFICES ASSUME Init PROVE CliInv
  OBVIOUS
<1>1. /\ cli.overrides = <<>> /\ cli.sources = DefaultSources
      /\ stage = "parse" /\ args \in Arguments
      /\ unavailable \in Unavailable
  BY DEF Init
<1>2. OverridesTyped
  BY <1>1 DEF OverridesTyped, PathsTyped, ValuesTyped
<1>3. Range(DefaultSources) \subseteq SourceIds
  BY DEF Range, DefaultSources, SourceIds
<1> QED BY <1>1, <1>2, <1>3 DEF CliInv

(* The names that --sources may have are names of sources. *)
LEMMA SourceNamedFacts ==
    \A name \in DOMAIN SourceNamed : SourceNamed[name] \in SourceIds
BY DEF SourceNamed, SourceIds

(* The arguments become CliArgs. *)
LEMMA ParseArgsCli == CliInv /\ ParseArgs => CliInv'
<1> SUFFICES ASSUME CliInv, ParseArgs PROVE CliInv'
  OBVIOUS
<1>0. args' = args /\ args \in Arguments /\ unavailable' = unavailable
  BY DEF CliInv, ParseArgs
<1>1. CASE stage' = "failed" /\ cli' = cli
  BY <1>0, <1>1 DEF CliInv, OverridesTyped
<1>2. CASE stage' = "validate"
  <2>1. /\ Range(args.sources) \subseteq DOMAIN SourceNamed
        /\ cli' = [command |-> args.command,
                   sources |-> IF args.sources = <<>> THEN DefaultSources
                               ELSE [i \in DOMAIN args.sources |->
                                        SourceNamed[args.sources[i]]],
                   overrides |-> [i \in DOMAIN args.overrides |-> OverrideOf(args.overrides[i])],
                   flags |-> args.flags, use_root |-> args.use_root]
    BY <1>2 DEF ParseArgs, Fail
  <2>2. /\ cli'.command = args.command /\ cli'.flags = args.flags
        /\ cli'.use_root = args.use_root
        /\ cli'.overrides = [i \in DOMAIN args.overrides |-> OverrideOf(args.overrides[i])]
        /\ cli'.sources = IF args.sources = <<>> THEN DefaultSources
                          ELSE [i \in DOMAIN args.sources |-> SourceNamed[args.sources[i]]]
    BY <2>1
  <2>3. OverridesTyped'
    BY <1>0, <2>2, OverridesRead DEF OverridesTyped
  <2>4. Range(cli'.sources) \subseteq SourceIds
    <3>1. CASE args.sources = <<>>
      BY <2>2, <3>1 DEF Range, DefaultSources, SourceIds
    <3>2. CASE args.sources # <<>>
      BY <2>1, <2>2, <3>2, SourceNamedFacts DEF Range
    <3> QED BY <3>1, <3>2
  <2> QED BY <1>0, <1>2, <2>2, <2>3, <2>4 DEF CliInv
<1> QED BY <1>1, <1>2 DEF ParseArgs, Fail

(* After the arguments are read, nothing changes what was read. *)
LEMMA CliNext == CliInv /\ [Next]_vars => CliInv'
<1> SUFFICES ASSUME CliInv, [Next]_vars PROVE CliInv'
  OBVIOUS
<1>1. CASE ParseArgs
  BY <1>1, ParseArgsCli
<1>2. CASE UNCHANGED vars
  BY <1>2 DEF CliInv, OverridesTyped
<1>3. CASE Next /\ ~ ParseArgs /\ ~ UNCHANGED vars
  <2>1. /\ UNCHANGED <<args, unavailable, cli>> /\ stage \notin {"parse", "failed"}
        /\ stage = "validate" => stage' = "failed" \/ IsInjective(cli.sources)
    BY <1>3 DEF Next, Validate, LoadFile, ApplyOverride, Deserialize, Register,
       EnsureKnown,
       MakeDisplayer, Dispatch, ProfileFailsAtOnce, ProfileStarts, ProfileReturns,
       ListSensors, DisplayResults, DisplaySensors, Displayed, Finished, Fail
  <2> QED BY <2>1 DEF CliInv, OverridesTyped
<1> QED BY <1>1, <1>2, <1>3

(* The rest holds initially. *)
LEMMA OthersInit == Init => DocumentInv /\ TableInv /\ SourcesInv /\ FilesInv
<1> SUFFICES ASSUME Init PROVE DocumentInv /\ TableInv /\ SourcesInv /\ FilesInv
  OBVIOUS
<1>1. stage = "parse" /\ step = 0 /\ ~ Resolved
  BY DEF Init, Resolved
<1>2. DocumentInv /\ TableInv
  BY <1>1 DEF DocumentInv, TableInv
<1>3. SourcesInv
  <2>1. <<>> \in Seq(Range(added))
    OBVIOUS
  <2> QED BY <1>1, <2>1 DEF Init, SourcesInv
<1>4. FilesInv
  <2>1. files \in [Paths -> Contents] /\ Touched = {}
    BY DEF Init, Paths, Contents, Touched
  <2> QED BY <1>1, <2>1 DEF Init, FilesInv, NoDisplayer
<1> QED BY <1>2, <1>3, <1>4

(* Nothing is asked for but the file, before the first override. *)
LEMMA NothingWritten ==
    ASSUME NEW file, NEW os
    PROVE  AsAsked(file, os, file, 0)
<1>1. \A q : LastUpTo(os, 0, q) = 0
  BY LastFacts
<1>2. \A q : ~ BelowUpTo(os, 0, q) /\ AskedUpTo(file, os, 0, q) = Lookup(file, q)
  BY <1>1 DEF BelowUpTo, AskedUpTo
<1> QED BY <1>2 DEF AsAsked

(* The document stays what was asked for, override by override. *)
LEMMA ApplyOverrideDocument ==
    CliInv /\ DocumentInv /\ ApplyOverride => DocumentInv'
<1> SUFFICES ASSUME CliInv, DocumentInv, ApplyOverride PROVE DocumentInv'
  OBVIOUS
<1> DEFINE os == cli.overrides
           file == args.config.doc
           o == os[step + 1]
<1>0. /\ UNCHANGED <<cli, args>> /\ stage = "override" /\ step < Len(os)
      /\ PathsTyped(os) /\ Len(os) \in Nat
      /\ step \in 0 .. Len(os) /\ AsAsked(file, os, root, step)
  BY DEF ApplyOverride, DocumentInv, CliInv, OverridesTyped, PathsTyped
<1>1. CASE Apply(o, root) # <<>>
  <2>1. root' = Apply(o, root)[1] /\ step' = step + 1 /\ stage' = "override"
    BY <1>0, <1>1 DEF ApplyOverride
  <2>2. o.path \in KeyPaths
    BY <1>0 DEF PathsTyped
  <2>3. OverrideWrites(o, root, Apply(o, root)[1])
    BY <1>1, <2>2, ApplyWrites
  <2>4. step \in Nat /\ step + 1 <= Len(os) /\ step + 1 \in 0 .. Len(os)
    BY <1>0
  <2>5. AsAsked(file, os, Apply(o, root)[1], step + 1)
    BY <1>0, <2>3, <2>4, OverrideAsAsked
  <2> QED BY <1>0, <2>1, <2>4, <2>5 DEF DocumentInv, Resolved
<1>2. CASE Apply(o, root) = <<>>
  <2>1. stage' = "failed"
    BY <1>0, <1>2 DEF ApplyOverride, Fail
  <2> QED BY <2>1 DEF DocumentInv, Resolved
<1> QED BY <1>1, <1>2

(* Other steps leave the document and the command line alone. *)
LEMMA DocumentNext == CliInv /\ DocumentInv /\ [Next]_vars => DocumentInv'
<1> SUFFICES ASSUME CliInv, DocumentInv, [Next]_vars PROVE DocumentInv'
  OBVIOUS
<1>1. CASE ParseArgs \/ Validate
  BY <1>1 DEF ParseArgs, Validate, Fail, DocumentInv, Resolved
<1>2. CASE LoadFile
  <2>1. CASE stage' = "override" /\ root' = args.config.doc
    <3>1. AsAsked(args.config.doc, cli.overrides, args.config.doc, 0)
      BY NothingWritten
    <3>2. step' = 0 /\ UNCHANGED <<args, cli>> /\ Len(cli.overrides) \in Nat
      BY <1>2 DEF LoadFile, DocumentInv, CliInv, OverridesTyped, PathsTyped
    <3> QED BY <2>1, <3>1, <3>2 DEF DocumentInv, Resolved
  <2>2. CASE stage' = "failed"
    BY <2>2 DEF DocumentInv, Resolved
  <2> QED BY <1>2, <2>1, <2>2 DEF LoadFile, Fail
<1>3. CASE ApplyOverride
  BY <1>3, ApplyOverrideDocument
<1>4. CASE Deserialize
  <2>1. CASE GlobalConfig(root) # <<>>
    BY <1>4, <2>1 DEF Deserialize, DocumentInv, Resolved
  <2>2. CASE GlobalConfig(root) = <<>>
    BY <1>4, <2>2 DEF Deserialize, DocumentInv, Resolved, Fail
  <2> QED BY <2>1, <2>2
<1>5. CASE Next /\ ~ (ParseArgs \/ Validate \/ LoadFile \/ ApplyOverride \/ Deserialize)
  <2>1. /\ UNCHANGED <<root, args, cli>> /\ (Resolved \/ UNCHANGED vars)
        /\ stage' \notin {"parse", "validate", "load", "override"} \/ UNCHANGED vars
    BY <1>5 DEF Next, Register, EnsureKnown, MakeDisplayer, Dispatch, ProfileFailsAtOnce,
       ProfileStarts, ProfileReturns, ListSensors, DisplayResults, DisplaySensors, Displayed,
       Finished, Fail, Resolved
  <2> QED BY <2>1 DEF DocumentInv, Resolved
<1>6. CASE UNCHANGED vars
  BY <1>6 DEF DocumentInv, Resolved
<1> QED BY <1>1, <1>2, <1>3, <1>4, <1>5, <1>6

(* The turns of the sources. *)
LEMMA SourceOrderFacts ==
    /\ Len(SourceOrder) = 6
    /\ SourceIds = {SourceOrder[i] : i \in 1 .. 6}
    /\ \A i, j \in 1 .. 6 : i # j => SourceOrder[i] # SourceOrder[j]
<1>1. /\ Len(SourceOrder) = 6 /\ DOMAIN SourceOrder = 1 .. 6
      /\ SourceOrder[1] = "rapl" /\ SourceOrder[2] = "perf" /\ SourceOrder[3] = "cgroup"
      /\ SourceOrder[4] = "procfs" /\ SourceOrder[5] = "nvml" /\ SourceOrder[6] = "amdsmi"
  BY DEF SourceOrder
<1>2. \A i \in 1 .. 6 : i \in {1, 2, 3, 4, 5, 6}
  OBVIOUS
<1>3. SourceIds = {SourceOrder[i] : i \in 1 .. 6}
  BY <1>1, <1>2 DEF SourceIds
<1>4. \A i, j \in 1 .. 6 : i # j => SourceOrder[i] # SourceOrder[j]
  BY <1>1, <1>2
<1> QED BY <1>1, <1>3, <1>4

(* A turn adds its source to those taken, for the first time. *)
LEMMA TurnTakes ==
    ASSUME step \in 0 .. 5, step' = step + 1
    PROVE  /\ Taken' = Taken \cup {SourceOrder[step + 1]}
           /\ SourceOrder[step + 1] \notin Taken
           /\ SourceOrder[step + 1] \in SourceIds
<1>1. 1 .. step + 1 = (1 .. step) \cup {step + 1}
  OBVIOUS
<1>2. Taken' = {SourceOrder[i] : i \in 1 .. step + 1}
  BY DEF Taken
<1>3. \A i \in 1 .. step : i \in 1 .. 6 /\ i # step + 1
  OBVIOUS
<1>4. step + 1 \in 1 .. 6
  OBVIOUS
<1>5. SourceOrder[step + 1] \notin Taken
  BY <1>3, <1>4, SourceOrderFacts DEF Taken
<1>6. Taken' = Taken \cup {SourceOrder[step + 1]}
  BY <1>1, <1>2 DEF Taken
<1> QED BY <1>4, <1>5, <1>6, SourceOrderFacts

(* The document becomes the table. *)
LEMMA DeserializeTable ==
    CliInv /\ DocumentInv /\ Deserialize => TableInv'
<1> SUFFICES ASSUME CliInv, DocumentInv, Deserialize PROVE TableInv'
  OBVIOUS
<1>1. CASE GlobalConfig(root) = <<>>
  BY <1>1 DEF Deserialize, Fail, TableInv, Resolved
<1>2. CASE GlobalConfig(root) # <<>>
  <2>1. /\ table' = ApplyCli(NewTable(Global, cli.sources), cli)
        /\ stage' = "register" /\ step' = 0 /\ UNCHANGED <<root, cli>>
    BY <1>2 DEF Deserialize, Global
  <2>2. Taken' = {} /\ Global' = Global /\ 0 \in 0 .. Len(SourceOrder)
    BY <2>1, SourceOrderFacts DEF Taken, Global
  <2>3. /\ DOMAIN table' = {"profiler", "sources", "enabled"}
        /\ table'.sources = Global.sources
        /\ table'.enabled = DOMAIN Global.sources \cup Range(cli.sources)
    BY <2>1 DEF ApplyCli, NewTable
  <2> QED BY <2>1, <2>2, <2>3 DEF TableInv
<1> QED BY <1>1, <1>2

(* What a turn does to the table. *)
LEMMA RegisterTakes ==
    ASSUME CliInv, TableInv, Register, stage' = "register"
    PROVE  LET id == SourceOrder[step + 1]
           IN  /\ step \in 0 .. 5 /\ Resolved /\ Resolved'
               /\ UNCHANGED <<table.profiler, table.enabled, root, cli, args, unavailable>>
               /\ DOMAIN table' = DOMAIN table
               /\ Taken' = Taken \cup {id} /\ id \notin Taken /\ id \in SourceIds
               /\ DOMAIN table'.sources = DOMAIN table.sources \ {id}
               /\ \A s \in DOMAIN table'.sources : table'.sources[s] = table.sources[s]
               /\ SectionOf(table, id) = Section(root, id)
<1> DEFINE id == SourceOrder[step + 1]
<1>1. /\ stage = "register" /\ Resolved /\ Resolved' /\ step < Len(SourceOrder)
      /\ step' = step + 1 /\ UNCHANGED <<root, cli, args, unavailable>>
  BY DEF Register, Resolved
<1>2. step \in 0 .. 5
  BY <1>1, SourceOrderFacts DEF TableInv
<1>3. Taken' = Taken \cup {id} /\ id \notin Taken /\ id \in SourceIds
  BY <1>1, <1>2, TurnTakes
<1>4. SectionOf(table, id) = Section(root, id)
  BY <1>1, <1>3 DEF TableInv, SectionOf, Section, Global
<1>5. table' = IF BuildSource(table, id, id \notin unavailable) = "disabled"
               THEN table ELSE TakeSection(table, id)
  BY DEF Register
<1> HIDE DEF id
<1>6. /\ DOMAIN table = {"profiler", "sources", "enabled"}
      /\ table.enabled = DOMAIN Global.sources \cup Range(cli.sources)
      /\ DOMAIN table.sources = DOMAIN Global.sources \ Taken
  BY <1>1 DEF TableInv
<1>7. CASE BuildSource(table, id, id \notin unavailable) = "disabled"
  <2>1. id \notin table.enabled
    BY <1>7 DEF BuildSource
  <2>2. id \notin DOMAIN table.sources
    BY <1>6, <2>1
  <2>3. table' = table
    BY <1>5, <1>7
  <2>4. /\ UNCHANGED <<table.profiler, table.enabled>> /\ DOMAIN table' = DOMAIN table
        /\ DOMAIN table'.sources = DOMAIN table.sources \ {id}
        /\ \A s \in DOMAIN table'.sources : table'.sources[s] = table.sources[s]
    BY <2>2, <2>3
  <2> QED BY <1>1, <1>2, <1>3, <1>4, <2>4 DEF id
<1>8. CASE BuildSource(table, id, id \notin unavailable) # "disabled"
  <2>1. table' = [table EXCEPT !.sources =
                    [s \in DOMAIN table.sources \ {id} |-> table.sources[s]]]
    BY <1>5, <1>8 DEF TakeSection
  <2>2. /\ UNCHANGED <<table.profiler, table.enabled>> /\ DOMAIN table' = DOMAIN table
        /\ table'.sources = [s \in DOMAIN table.sources \ {id} |-> table.sources[s]]
    BY <1>6, <2>1
  <2>3. /\ DOMAIN table'.sources = DOMAIN table.sources \ {id}
        /\ \A s \in DOMAIN table'.sources : table'.sources[s] = table.sources[s]
    BY <2>2
  <2> QED BY <1>1, <1>2, <1>3, <1>4, <2>2, <2>3 DEF id
<1> QED BY <1>7, <1>8

(* The table, turn by turn. *)
LEMMA RegisterTable ==
    CliInv /\ TableInv /\ Register => TableInv'
<1> SUFFICES ASSUME CliInv, TableInv, Register PROVE TableInv'
  OBVIOUS
<1>1. CASE stage' # "register"
  BY <1>1 DEF Register, TableInv, Resolved
<1>2. CASE stage' = "register"
  <2> DEFINE id == SourceOrder[step + 1]
  <2>1. /\ step \in 0 .. 5 /\ Resolved
        /\ UNCHANGED <<table.profiler, table.enabled, root, cli>>
        /\ DOMAIN table' = DOMAIN table
        /\ Taken' = Taken \cup {id}
        /\ DOMAIN table'.sources = DOMAIN table.sources \ {id}
        /\ \A s \in DOMAIN table'.sources : table'.sources[s] = table.sources[s]
    BY <1>2, RegisterTakes
  <2>2. step' = step + 1 /\ step' \in 0 .. Len(SourceOrder) /\ Global' = Global
    BY <2>1, SourceOrderFacts DEF Register, Global
  <2> HIDE DEF id
  <2>3. DOMAIN table'.sources = DOMAIN Global.sources \ Taken'
    BY <2>1 DEF TableInv
  <2>4. \A s \in DOMAIN table'.sources : table'.sources[s] = Global.sources[s]
    BY <2>1 DEF TableInv
  <2> QED BY <1>2, <2>1, <2>2, <2>3, <2>4 DEF TableInv
<1> QED BY <1>1, <1>2

(* The table does not change otherwise. *)
LEMMA TableNext == CliInv /\ DocumentInv /\ TableInv /\ [Next]_vars => TableInv'
<1> SUFFICES ASSUME CliInv, DocumentInv, TableInv, [Next]_vars PROVE TableInv'
  OBVIOUS
<1>1. CASE Deserialize
  BY <1>1, DeserializeTable
<1>2. CASE Register
  BY <1>2, RegisterTable
<1>3. CASE ParseArgs \/ Validate \/ LoadFile \/ ApplyOverride
  <2>1. ~ Resolved'
    BY <1>3 DEF ParseArgs, Validate, LoadFile, ApplyOverride, Fail, Resolved
  <2> QED BY <2>1 DEF TableInv
<1>4. CASE EnsureKnown
  <2>1. UNCHANGED <<root, cli, step, table>> /\ Resolved /\ stage' \in {"display", "failed"}
    BY <1>4 DEF EnsureKnown, Fail, Resolved
  <2>2. UNCHANGED <<Global, Taken>>
    BY <2>1 DEF Global, Taken
  <2>3. stage' = "display" => DOMAIN table.sources = {} /\ step = Len(SourceOrder)
    BY <1>4 DEF EnsureKnown, Fail, SourcesAreKnown
  <2> QED BY <2>1, <2>2, <2>3 DEF TableInv, Resolved
<1>5. CASE \/ MakeDisplayer \/ Dispatch \/ ProfileFailsAtOnce \/ ProfileStarts
           \/ ProfileReturns \/ ListSensors \/ DisplayResults \/ DisplaySensors
           \/ Finished \/ UNCHANGED vars
  <2>1. /\ UNCHANGED <<root, cli, step, table>>
        /\ ((Resolved /\ stage # "register") \/ UNCHANGED vars)
    BY <1>5 DEF MakeDisplayer, Dispatch, ProfileFailsAtOnce, ProfileStarts,
       ProfileReturns, ListSensors, DisplayResults, DisplaySensors, Displayed, Finished, Resolved
  <2>2. UNCHANGED <<Global, Taken>>
    BY <2>1 DEF Global, Taken
  <2> QED BY <2>1, <2>2 DEF TableInv, Resolved
<1> QED BY <1>1, <1>2, <1>3, <1>4, <1>5 DEF Next

(* What became of the sources, when it is the turn of the next one. *)
LEMMA RegisterSources ==
    CliInv /\ TableInv /\ SourcesInv /\ Register => SourcesInv'
<1> SUFFICES ASSUME CliInv, TableInv, SourcesInv, Register PROVE SourcesInv'
  OBVIOUS
<1> DEFINE id     == SourceOrder[step + 1]
           result == BuildSource(table, id, id \notin unavailable)
           entry  == [id |-> id, config |-> SourceConfig(id, SectionOf(table, id)),
                      backend |-> IF id = "rapl" THEN table.profiler.rapl_backend
                                  ELSE Absent]
<1>1. /\ stage' = IF result = "error" THEN "failed" ELSE "register"
      /\ added' = IF result = "added" THEN Append(added, entry) ELSE added
      /\ skipped' = skipped \cup IF result = "skipped" THEN {id} ELSE {}
  BY DEF Register
<1>2. CASE result = "error"
  BY <1>1, <1>2 DEF SourcesInv, Resolved
<1>3. CASE result # "error"
  <2>1. /\ step \in 0 .. 5 /\ Resolved /\ Resolved'
        /\ UNCHANGED <<table.profiler, table.enabled, root, unavailable>>
        /\ Taken' = Taken \cup {id} /\ id \notin Taken
        /\ SectionOf(table, id) = Section(root, id) /\ step' = step + 1
    BY <1>1, <1>3, RegisterTakes DEF Register
  <2>2. root' = root
    BY <2>1
  <2> HIDE DEF id
  <2>3. /\ result = "disabled" <=> id \notin table.enabled
        /\ result = "added" <=> id \in table.enabled /\ id \notin unavailable
        /\ result = "skipped" <=> id \in table.enabled /\ id \in unavailable
        /\ id \in table.enabled => SectionReads(id, Section(root, id))
        /\ result = "skipped" => SourceConfig(id, Section(root, id)).ignore_on_failure = "true"
    BY <1>3, <2>1 DEF BuildSource
  <2> HIDE DEF result, entry
  <2>4. /\ added \in Seq(Range(added))
        /\ {added[i].id : i \in DOMAIN added} = (Taken \cap table.enabled) \ unavailable
        /\ skipped = (Taken \cap table.enabled) \cap unavailable
        /\ \A s \in Taken \cap table.enabled : SectionReads(s, Section(root, s))
        /\ \A s \in skipped : SourceConfig(s, Section(root, s)).ignore_on_failure = "true"
        /\ \A i \in DOMAIN added :
              /\ added[i].config = SourceConfig(added[i].id, Section(root, added[i].id))
              /\ added[i].id = "rapl" => added[i].backend = table.profiler.rapl_backend
        /\ \A i, j \in DOMAIN added :
              i < j => \E m, n \in 1 .. step :
                          /\ m < n
                          /\ added[i].id = SourceOrder[m] /\ added[j].id = SourceOrder[n]
    BY <2>1 DEF SourcesInv
  <2>5. skipped' = (Taken' \cap table'.enabled) \cap unavailable'
    BY <1>1, <2>1, <2>3, <2>4
  <2>6. \A s \in Taken' \cap table'.enabled : SectionReads(s, Section(root', s))
    BY <2>1, <2>2, <2>3, <2>4
  <2>7. \A s \in skipped' : SourceConfig(s, Section(root', s)).ignore_on_failure = "true"
    BY <1>1, <2>2, <2>3, <2>4
  <2>8. \A m \in 1 .. step : m \in 1 .. step + 1
    BY <2>1
  <2>9. CASE result # "added"
    <3>1. added' = added
      BY <1>1, <2>9
    <3>2. {added'[i].id : i \in DOMAIN added'} = (Taken' \cap table'.enabled) \ unavailable'
      BY <2>1, <2>3, <2>4, <2>9, <3>1
    <3>3. \A i \in DOMAIN added' :
             /\ added'[i].config = SourceConfig(added'[i].id, Section(root', added'[i].id))
             /\ added'[i].id = "rapl" => added'[i].backend = table'.profiler.rapl_backend
      BY <2>1, <2>2, <2>4, <3>1
    <3>4. \A i, j \in DOMAIN added' :
             i < j => \E m, n \in 1 .. step' :
                         /\ m < n
                         /\ added'[i].id = SourceOrder[m] /\ added'[j].id = SourceOrder[n]
      BY <2>1, <2>4, <2>8, <3>1
    <3> QED BY <2>1, <2>2, <2>4, <2>5, <2>6, <2>7, <3>1, <3>2, <3>3, <3>4 DEF SourcesInv
  <2>10. CASE result = "added"
    <3> DEFINE k == Len(added)
    <3>1. /\ added' = Append(added, entry)
          /\ added' \in Seq(Range(added'))
          /\ k \in Nat /\ DOMAIN added = 1 .. k /\ DOMAIN added' = 1 .. k + 1
          /\ \A i \in 1 .. k : added'[i] = added[i]
          /\ added'[k + 1] = entry
      BY <1>1, <2>4, <2>10, AppendFacts
    <3>2. \A i \in DOMAIN added' : i \in 1 .. k \/ i = k + 1
      BY <2>4, <3>1
    <3>3. entry.id = id /\ entry.config = SourceConfig(id, Section(root, id))
          /\ (id = "rapl" => entry.backend = table.profiler.rapl_backend)
      BY <2>1 DEF entry
    <3>4. {added'[i].id : i \in DOMAIN added'} = (Taken' \cap table'.enabled) \ unavailable'
      <4>1. {added'[i].id : i \in DOMAIN added'} = {added[i].id : i \in DOMAIN added} \cup {id}
        BY <2>4, <3>1, <3>2, <3>3
      <4> QED BY <2>1, <2>3, <2>4, <2>10, <4>1
    <3>5. \A i \in DOMAIN added' :
             /\ added'[i].config = SourceConfig(added'[i].id, Section(root', added'[i].id))
             /\ added'[i].id = "rapl" => added'[i].backend = table'.profiler.rapl_backend
      BY <2>1, <2>2, <2>4, <3>1, <3>2, <3>3
    <3>6. \A i, j \in DOMAIN added' :
             i < j => \E m, n \in 1 .. step' :
                         /\ m < n
                         /\ added'[i].id = SourceOrder[m] /\ added'[j].id = SourceOrder[n]
      <4> SUFFICES ASSUME NEW i \in DOMAIN added', NEW j \in DOMAIN added', i < j
                   PROVE  \E m, n \in 1 .. step' :
                             /\ m < n
                             /\ added'[i].id = SourceOrder[m] /\ added'[j].id = SourceOrder[n]
        OBVIOUS
      <4>1. i \in 1 .. k
        BY <2>4, <3>1
      <4>2. CASE j \in 1 .. k
        BY <2>1, <2>4, <2>8, <3>1, <4>1, <4>2
      <4>3. CASE j = k + 1
        <5>1. added[i].id \in Taken
          BY <2>4, <4>1
        <5>2. PICK m \in 1 .. step : added[i].id = SourceOrder[m]
          BY <5>1 DEF Taken
        <5>3. m \in 1 .. step' /\ step + 1 \in 1 .. step' /\ m < step + 1
          BY <2>1, <5>2
        <5>4. added'[i].id = SourceOrder[m] /\ added'[j].id = SourceOrder[step + 1]
          BY <3>1, <3>3, <4>1, <4>3, <5>2 DEF id
        <5> QED BY <5>3, <5>4
      <4> QED BY <3>2, <4>2, <4>3
    <3> QED BY <2>1, <2>2, <2>5, <2>6, <2>7, <3>1, <3>4, <3>5, <3>6 DEF SourcesInv
  <2> QED BY <2>9, <2>10
<1> QED BY <1>2, <1>3

(* The sources do not change otherwise. *)
LEMMA SourcesNext ==
    CliInv /\ TableInv /\ SourcesInv /\ [Next]_vars => SourcesInv'
<1> SUFFICES ASSUME CliInv, TableInv, SourcesInv, [Next]_vars PROVE SourcesInv'
  OBVIOUS
<1>1. CASE Register
  BY <1>1, RegisterSources
<1>2. CASE Deserialize
  <2>1. UNCHANGED <<added, skipped>> /\ added = <<>> /\ skipped = {}
    BY <1>2 DEF Deserialize, SourcesInv, Resolved
  <2>2. stage' = "failed" \/ (stage' = "register" /\ step' = 0)
    BY <1>2 DEF Deserialize, Fail
  <2>3. step' = 0 => Taken' = {}
    BY DEF Taken
  <2>4. DOMAIN added = {} /\ added \in Seq(Range(added))
    BY <2>1 DEF SourcesInv
  <2>5. {added[i].id : i \in DOMAIN added} = {}
    BY <2>4
  <2>6. CASE stage' = "failed"
    BY <2>1, <2>4, <2>6 DEF SourcesInv, Resolved
  <2>7. CASE stage' = "register" /\ Taken' = {}
    BY <2>1, <2>4, <2>5, <2>7 DEF SourcesInv, Resolved
  <2> QED BY <2>2, <2>3, <2>6, <2>7
<1>3. CASE ParseArgs \/ Validate \/ LoadFile \/ ApplyOverride
  <2>1. UNCHANGED <<added, skipped>> /\ added = <<>> /\ skipped = {} /\ ~ Resolved'
    BY <1>3 DEF ParseArgs, Validate, LoadFile, ApplyOverride, Fail, SourcesInv, Resolved
  <2> QED BY <2>1 DEF SourcesInv
<1>4. CASE \/ EnsureKnown \/ MakeDisplayer \/ Dispatch \/ ProfileFailsAtOnce
           \/ ProfileStarts \/ ProfileReturns \/ ListSensors \/ DisplayResults
           \/ DisplaySensors \/ Finished \/ UNCHANGED vars
  <2>1. UNCHANGED <<root, step, table, added, skipped, unavailable>>
    BY <1>4 DEF EnsureKnown, MakeDisplayer, Dispatch, ProfileFailsAtOnce, ProfileStarts,
       ProfileReturns, ListSensors, DisplayResults, DisplaySensors, Displayed, Finished
  <2>2. UNCHANGED Taken
    BY <2>1 DEF Taken
  <2>3. /\ Resolved' => Resolved
        /\ ~ Resolved' /\ stage' # "failed" => ~ Resolved /\ stage # "failed"
    BY <1>4 DEF EnsureKnown, MakeDisplayer, Dispatch, ProfileFailsAtOnce, ProfileStarts,
       ProfileReturns, ListSensors, DisplayResults, DisplaySensors, Displayed, Finished,
       Fail, Resolved
  <2>4. CASE Resolved'
    BY <2>1, <2>2, <2>3, <2>4 DEF SourcesInv
  <2>5. CASE ~ Resolved'
    BY <2>1, <2>3, <2>5 DEF SourcesInv
  <2> QED BY <2>4, <2>5
<1> QED BY <1>1, <1>2, <1>3, <1>4 DEF Next

(* Nothing is touched before the displayer is made. *)
LEMMA EarlyFiles ==
    ASSUME FilesInv, stage \in Early, UNCHANGED <<displayer, files, started>>,
           stage' \in Early \cup {"failed"}
    PROVE  FilesInv'
<1>1. displayer = NoDisplayer /\ Touched = {} /\ ~ started /\ files \in [Paths -> Contents]
  BY DEF FilesInv
<1>2. Touched' = {}
  BY <1>1 DEF Touched
<1>3. NoDisplayer.path = Absent
  BY DEF NoDisplayer
<1>4. stage' \notin {"start", "running", "results", "sensors", "done"}
  BY DEF Early
<1> QED BY <1>1, <1>2, <1>3, <1>4 DEF FilesInv

(* Steps after the displayer is made that touch no file. *)
LEMMA LateFiles ==
    ASSUME FilesInv, UNCHANGED <<displayer, files, started, table>>,
           stage \in {"start", "running", "results", "sensors"},
           stage' \in {"running", "results", "sensors", "done", "failed"},
           started => stage' \in {"running", "results", "done", "failed"},
           added' = added
    PROVE  FilesInv'
<1>1. UNCHANGED <<Touched, ResultsPath>>
  BY DEF Touched, ResultsPath
<1>2. stage' \notin Early /\ displayer # NoDisplayer
  BY DEF Early, FilesInv
<1> QED BY <1>1, <1>2 DEF FilesInv

(* The displayer creates its file, if it has one. *)
LEMMA MakeDisplayerFiles ==
    FilesInv /\ MakeDisplayer => FilesInv'
<1> SUFFICES ASSUME FilesInv, MakeDisplayer PROVE FilesInv'
  OBVIOUS
<1> DEFINE format == table.profiler.output_format
<1>1. /\ displayer = NoDisplayer /\ Touched = {} /\ ~ started /\ files \in [Paths -> Contents]
      /\ stage = "display" /\ UNCHANGED <<table, started, added>>
  BY DEF FilesInv, MakeDisplayer, Early
<1>2. ResultsPath' = ResultsPath
  BY <1>1 DEF ResultsPath
<1>3. CASE /\ format = "terminal" /\ displayer' = [format |-> format, path |-> Absent]
           /\ stage' = "start" /\ UNCHANGED files
  <2>1. Touched' = {}
    BY <1>1, <1>3 DEF Touched
  <2>2. displayer' # NoDisplayer /\ displayer'.path = Absent
    BY <1>3 DEF NoDisplayer
  <2> QED BY <1>1, <1>3, <2>1, <2>2 DEF FilesInv, Early
<1>4. CASE /\ format # "terminal" /\ ResultsPath \in Paths
           /\ displayer' = [format |-> format, path |-> ResultsPath]
           /\ files' = [files EXCEPT ![ResultsPath] = "empty"]
           /\ stage' = "start"
  <2>1. displayer'.path = ResultsPath /\ displayer' # NoDisplayer
    BY <1>4 DEF NoDisplayer, Absent, Paths
  <2>2. files' \in [Paths -> Contents]
    BY <1>1, <1>4 DEF Contents
  <2>3. Touched' \subseteq {ResultsPath}
    BY <1>1, <1>4 DEF Touched
  <2> QED BY <1>1, <1>2, <1>4, <2>1, <2>2, <2>3 DEF FilesInv, Early
<1>5. CASE stage' = "failed" /\ displayer' = displayer /\ CreateFileFails(ResultsPath)
           /\ format # "terminal"
  <2>1. NoDisplayer.path = Absent
    BY DEF NoDisplayer
  <2>2. files' \in [Paths -> Contents] /\ Touched' \subseteq {ResultsPath}
    BY <1>1, <1>5 DEF CreateFileFails, CreateFile, Touched, Contents
  <2> QED BY <1>1, <1>2, <1>5, <2>1, <2>2 DEF FilesInv, Early
<1> QED BY <1>3, <1>4, <1>5 DEF MakeDisplayer, Fail, CreateFile

(* The command's output goes to its file, if it has one. *)
LEMMA ProfileStartsFiles ==
    FilesInv /\ ProfileStarts => FilesInv'
<1> SUFFICES ASSUME FilesInv, ProfileStarts PROVE FilesInv'
  OBVIOUS
<1> DEFINE path == table.profiler.stdout_file
<1>1. /\ stage = "running" /\ added # <<>> /\ started' = TRUE
      /\ UNCHANGED <<table, added, displayer>> /\ ~ started
      /\ stage' \in {"running", "failed"}
  BY DEF ProfileStarts, Fail
<1>2. displayer # NoDisplayer /\ stage' \notin Early
  BY <1>1 DEF FilesInv, Early
<1>3. ResultsPath' = ResultsPath
  BY <1>1 DEF ResultsPath
<1>4. files' \in [Paths -> Contents] /\ Touched' \subseteq Touched \cup {path}
  <2>1. files \in [Paths -> Contents]
    BY DEF FilesInv
  <2>2. \/ files' = files
        \/ \E what \in {"empty", "stdout"} :
              path \in Paths /\ files' = [files EXCEPT ![path] = what]
    BY DEF ProfileStarts, CreateFileFails, CreateFile
  <2> QED BY <2>1, <2>2 DEF Touched, Contents
<1>5. Touched \subseteq IF table.profiler.output_format = "terminal" THEN {} ELSE {ResultsPath}
  BY <1>1 DEF FilesInv
<1> QED BY <1>1, <1>2, <1>3, <1>4, <1>5 DEF FilesInv

(* What is displayed goes to the file of the displayer, if it has one. *)
LEMMA DisplayedFiles ==
    ASSUME FilesInv, NEW what, what \in Contents, NEW rows, Displayed(what, rows),
           stage \in {"results", "sensors"}
    PROVE  FilesInv'
<1>1. /\ UNCHANGED <<table, added, displayer, started>>
      /\ stage' \in {"done", "failed"}
  BY DEF Displayed, Fail
<1>2. CASE files' = files
  BY <1>1, <1>2, LateFiles DEF FilesInv
<1>3. CASE /\ displayer.path # Absent
           /\ \E now \in {Written(displayer.path, what), "mixed"} :
                 files' = [files EXCEPT ![displayer.path] = now]
  <2>1. /\ displayer.path = ResultsPath /\ table.profiler.output_format # "terminal"
        /\ files \in [Paths -> Contents] /\ displayer # NoDisplayer
    BY <1>3 DEF FilesInv
  <2>2. Written(displayer.path, what) \in Contents /\ "mixed" \in Contents
    BY DEF Written, Contents
  <2>3. files' \in [Paths -> Contents] /\ Touched' \subseteq Touched \cup {ResultsPath}
    <3>1. PICK now \in Contents : files' = [files EXCEPT ![ResultsPath] = now]
      BY <1>3, <2>1, <2>2
    <3> QED BY <2>1, <3>1 DEF Touched
  <2>4. ResultsPath' = ResultsPath /\ stage' \notin Early
    BY <1>1 DEF ResultsPath, Early
  <2> QED BY <1>1, <2>1, <2>3, <2>4 DEF FilesInv
<1> QED BY <1>2, <1>3 DEF Displayed

(* No other file is touched by any step. *)
LEMMA FilesNext == FilesInv /\ [Next]_vars => FilesInv'
<1> SUFFICES ASSUME FilesInv, [Next]_vars PROVE FilesInv'
  OBVIOUS
<1>1. CASE ParseArgs \/ Validate \/ LoadFile \/ ApplyOverride \/ Deserialize \/ Register
           \/ EnsureKnown
  <2>1. /\ stage \in Early /\ UNCHANGED <<displayer, files, started>>
        /\ stage' \in Early \cup {"failed"}
    BY <1>1 DEF ParseArgs, Validate, LoadFile, ApplyOverride, Deserialize, Register,
       EnsureKnown, Fail, Early
  <2> QED BY <2>1, EarlyFiles
<1>2. CASE MakeDisplayer
  BY <1>2, MakeDisplayerFiles
<1>3. CASE ProfileStarts
  BY <1>3, ProfileStartsFiles
<1>4. CASE DisplayResults \/ DisplaySensors
  <2>1. "results" \in Contents /\ "sensors" \in Contents
    BY DEF Contents
  <2> QED BY <1>4, <2>1, DisplayedFiles DEF DisplayResults, DisplaySensors
<1>5. CASE Dispatch \/ ProfileFailsAtOnce \/ ProfileReturns \/ ListSensors
  <2>1. /\ stage \in {"start", "running", "sensors"}
        /\ UNCHANGED <<displayer, files, started, table, added>>
        /\ stage' \in {"running", "results", "sensors", "failed"}
        /\ stage \in {"start", "sensors"} \/ stage' \in {"running", "results", "failed"}
    BY <1>5 DEF Dispatch, ProfileFailsAtOnce, ProfileReturns, ListSensors, Fail
  <2>2. started => stage' \in {"running", "results", "failed"}
    BY <2>1 DEF FilesInv
  <2> QED BY <2>1, <2>2, LateFiles
<1>6. CASE Finished \/ UNCHANGED vars
  <2>1. UNCHANGED vars
    BY <1>6 DEF Finished
  <2>2. UNCHANGED <<Touched, ResultsPath>>
    BY <2>1 DEF Touched, ResultsPath
  <2> QED BY <2>1, <2>2 DEF FilesInv
<1> QED BY <1>1, <1>2, <1>3, <1>4, <1>5, <1>6 DEF Next

(***************************************************************************)
(* IInv is inductive: from the arguments on, the document is what was      *)
(* asked for so far, the table is what is left of it, the sources tried so *)
(* far are registered, failed or ignored, and the files are untouched      *)
(* until the displayer is made.                                            *)
(***************************************************************************)
THEOREM Invariant == Spec => []IInv
<1>1. Init => IInv
  BY CliInit, OthersInit DEF IInv
<1>2. IInv /\ [Next]_vars => IInv'
  BY CliNext, DocumentNext, TableNext, SourcesNext, FilesNext DEF IInv
<1> QED BY <1>1, <1>2, PTL DEF Spec

-----------------------------------------------------------------------------
(* What the files hold in the end                                           *)
-----------------------------------------------------------------------------

(* The file of the command's output. *)
LogPath == table.profiler.stdout_file

(***************************************************************************)
(* The file of the displayer stays empty until it is written, unless the   *)
(* output of the command goes into it; that output stays in its own file.  *)
(***************************************************************************)
ContentsInv ==
    /\ stage \in {"running", "results"} => args.command = "profile"
    /\ stage = "sensors" => args.command = "list"
    /\ stage = "results" => started
    /\ displayer.path # Absent => displayer.path \in Paths
    /\ /\ stage \in {"start", "running", "results", "sensors"}
       /\ displayer.path # Absent
       /\ started => displayer.path # LogPath
       => files[displayer.path] = "empty"
    /\ /\ started /\ stage \in {"running", "results"}
       /\ LogPath # Absent /\ displayer.path # LogPath
       => LogPath \in Paths /\ files[LogPath] = "stdout"

(* Initially there is no displayer. *)
LEMMA ContentsInit == Init => ContentsInv /\ FilesTellEverything
<1> SUFFICES ASSUME Init PROVE ContentsInv /\ FilesTellEverything
  OBVIOUS
<1>1. stage = "parse" /\ displayer = NoDisplayer
  BY DEF Init
<1>2. NoDisplayer.path = Absent
  BY DEF NoDisplayer
<1> QED BY <1>1, <1>2 DEF ContentsInv, FilesTellEverything

(* The displayer finds its file empty when it is made. *)
LEMMA MakeDisplayerContents ==
    IInv /\ MakeDisplayer => ContentsInv'
<1> SUFFICES ASSUME IInv, MakeDisplayer PROVE ContentsInv'
  OBVIOUS
<1>1. ~ started /\ started' = started /\ displayer = NoDisplayer
      /\ files \in [Paths -> Contents]
  BY DEF IInv, FilesInv, MakeDisplayer, Early
<1>2. stage' \in {"start", "failed"}
  BY DEF MakeDisplayer, Fail
<1>3. displayer'.path # Absent => displayer'.path \in Paths
  BY <1>1 DEF MakeDisplayer, NoDisplayer, CreateFile
<1>4. stage' = "start" /\ displayer'.path # Absent => files'[displayer'.path] = "empty"
  <2>1. CASE table.profiler.output_format = "terminal"
    BY <2>1 DEF MakeDisplayer
  <2>2. CASE table.profiler.output_format # "terminal"
    <3>1. ASSUME stage' = "start"
          PROVE  /\ ResultsPath \in Paths /\ displayer'.path = ResultsPath
                 /\ files' = [files EXCEPT ![ResultsPath] = "empty"]
      BY <2>2, <3>1 DEF MakeDisplayer, Fail, CreateFile
    <3> QED BY <1>1, <3>1
  <2> QED BY <2>1, <2>2
<1> QED BY <1>1, <1>2, <1>3, <1>4 DEF ContentsInv

(* The command writes to its file, and to no other. *)
LEMMA ProfileStartsContents ==
    IInv /\ ContentsInv /\ ProfileStarts => ContentsInv'
<1> SUFFICES ASSUME IInv, ContentsInv, ProfileStarts PROVE ContentsInv'
  OBVIOUS
<1>1. /\ stage = "running" /\ ~ started /\ started' = TRUE
      /\ UNCHANGED <<args, table, displayer, LogPath>>
      /\ stage' \in {"running", "failed"}
  BY DEF ProfileStarts, Fail, LogPath
<1>2. files \in [Paths -> Contents]
  BY DEF IInv, FilesInv
<1>3. /\ displayer.path # Absent => displayer.path \in Paths
      /\ displayer.path # Absent => files[displayer.path] = "empty"
      /\ args.command = "profile"
  BY <1>1 DEF ContentsInv
<1>4. CASE LogPath \in Paths /\ files' = [files EXCEPT ![LogPath] = "stdout"]
  BY <1>1, <1>2, <1>3, <1>4 DEF ContentsInv
<1>5. CASE LogPath = Absent /\ files' = files
  BY <1>1, <1>3, <1>5 DEF ContentsInv
<1>6. CASE stage' = "failed"
  BY <1>1, <1>3, <1>6 DEF ContentsInv
<1> QED BY <1>4, <1>5, <1>6 DEF ProfileStarts, LogPath, Fail

(* What is displayed is all that is in the file, if it was empty. *)
LEMMA DisplayedContents ==
    ASSUME IInv, ContentsInv, NEW what, NEW rows, Displayed(what, rows),
           \/ stage = "results" /\ what = "results"
           \/ stage = "sensors" /\ what = "sensors"
    PROVE  ContentsInv' /\ FilesTellEverything'
<1>1. /\ UNCHANGED <<args, table, displayer, started, LogPath>>
      /\ stage' \in {"done", "failed"}
  BY DEF Displayed, Fail, LogPath
<1>2. ContentsInv'
  BY <1>1 DEF ContentsInv
<1>3. files \in [Paths -> Contents]
  BY DEF IInv, FilesInv
<1>4. ASSUME stage' = "done"
      PROVE  files' = IF displayer.path = Absent THEN files
                      ELSE [files EXCEPT ![displayer.path] = Written(displayer.path, what)]
  BY <1>4 DEF Displayed, Fail
<1>5. /\ displayer.path # Absent => displayer.path \in Paths
      /\ displayer.path # Absent /\ (started => displayer.path # LogPath) =>
            files[displayer.path] = "empty"
  BY DEF ContentsInv
<1>6. ASSUME stage' = "done", displayer.path # Absent, started => displayer.path # LogPath
      PROVE  files'[displayer.path] = what
  BY <1>3, <1>4, <1>5, <1>6 DEF Written
<1>7. CASE stage = "results"
  <2>1. args.command = "profile" /\ started
    BY <1>7 DEF ContentsInv
  <2>2. LogPath # Absent /\ displayer.path # LogPath =>
            LogPath \in Paths /\ files[LogPath] = "stdout"
    BY <1>7, <2>1 DEF ContentsInv
  <2>3. ASSUME stage' = "done", displayer.path = Absent \/ displayer.path # LogPath
        PROVE  /\ displayer.path # Absent => files'[displayer.path] = "results"
               /\ LogPath # Absent => files'[LogPath] = "stdout"
    <3>1. displayer.path # Absent => files'[displayer.path] = "results"
      BY <1>6, <1>7, <2>3
    <3>2. ASSUME LogPath # Absent PROVE files'[LogPath] = "stdout"
      <4>1. displayer.path # LogPath
        BY <2>3, <3>2
      <4> QED BY <1>3, <1>4, <1>5, <2>2, <2>3, <3>2, <4>1
    <3> QED BY <3>1, <3>2
  <2>4. FilesTellEverything'
    BY <1>1, <2>1, <2>3 DEF FilesTellEverything, LogPath
  <2> QED BY <1>2, <2>4
<1>8. CASE stage = "sensors"
  <2>1. args.command = "list" /\ ~ started
    BY <1>8 DEF ContentsInv, IInv, FilesInv
  <2>2. stage' = "done" /\ displayer.path # Absent => files'[displayer.path] = "sensors"
    BY <1>6, <1>8, <2>1
  <2>3. FilesTellEverything'
    BY <1>1, <2>1, <2>2 DEF FilesTellEverything
  <2> QED BY <1>2, <2>3
<1> QED BY <1>7, <1>8

(* Every step keeps ContentsInv and FilesTellEverything. *)
LEMMA ContentsNext ==
    IInv /\ ContentsInv /\ FilesTellEverything /\ [Next]_vars =>
        ContentsInv' /\ FilesTellEverything'
<1> SUFFICES ASSUME IInv, ContentsInv, FilesTellEverything, [Next]_vars
             PROVE  ContentsInv' /\ FilesTellEverything'
  OBVIOUS
<1>1. CASE ParseArgs \/ Validate \/ LoadFile \/ ApplyOverride \/ Deserialize \/ Register
           \/ EnsureKnown
  <2>1. /\ stage \in Early /\ displayer' = displayer
        /\ stage' \in Early \cup {"failed"}
    BY <1>1 DEF ParseArgs, Validate, LoadFile, ApplyOverride, Deserialize, Register,
       EnsureKnown, Fail, Early
  <2>2. displayer = NoDisplayer /\ NoDisplayer.path = Absent
    BY <2>1 DEF IInv, FilesInv, NoDisplayer
  <2>3. stage' \notin {"start", "running", "results", "sensors", "done"}
    BY <2>1 DEF Early
  <2> QED BY <2>1, <2>2, <2>3 DEF ContentsInv, FilesTellEverything
<1>2. CASE MakeDisplayer
  <2>1. stage' # "done"
    BY <1>2 DEF MakeDisplayer, Fail
  <2> QED BY <1>2, <2>1, MakeDisplayerContents DEF FilesTellEverything
<1>3. CASE ProfileStarts
  <2>1. stage' # "done"
    BY <1>3 DEF ProfileStarts, Fail
  <2> QED BY <1>3, <2>1, ProfileStartsContents DEF FilesTellEverything
<1>4. CASE DisplayResults
  BY <1>4, DisplayedContents DEF DisplayResults
<1>5. CASE DisplaySensors
  BY <1>5, DisplayedContents DEF DisplaySensors
<1>6. CASE Dispatch \/ ProfileFailsAtOnce \/ ProfileReturns \/ ListSensors
  <2>1. /\ UNCHANGED <<args, cli, displayer, files, started, table, LogPath>>
        /\ stage' # "done" /\ stage \in {"start", "running", "sensors"}
        /\ stage' \in {"running", "results"} =>
              (cli.command = "profile" /\ stage = "start") \/ stage = "running"
        /\ stage' = "results" => started
        /\ stage' = "sensors" =>
              (cli.command # "profile" /\ stage = "start") \/ stage = "sensors"
        /\ stage' \in {"running", "results", "sensors", "failed"}
    BY <1>6 DEF Dispatch, ProfileFailsAtOnce, ProfileReturns, ListSensors, Fail, LogPath
  <2>2. stage = "start" => ~ started
    BY DEF IInv, FilesInv
  <2>3. cli.command = args.command /\ args.command \in {"profile", "list"}
    BY <2>1, ArgumentsAssumption DEF IInv, CliInv
  <2> QED BY <2>1, <2>2, <2>3 DEF ContentsInv, FilesTellEverything
<1>7. CASE Finished \/ UNCHANGED vars
  <2>1. UNCHANGED vars /\ UNCHANGED LogPath
    BY <1>7 DEF Finished, vars, LogPath
  <2> QED BY <2>1 DEF vars, ContentsInv, FilesTellEverything
<1> QED BY <1>1, <1>2, <1>3, <1>4, <1>5, <1>6, <1>7 DEF Next

(***************************************************************************)
(* The part of SuccessTellsEverything about files: when main() succeeds,   *)
(* the displayer's file holds the results (or the sensors) and nothing     *)
(* else, and the command's output is in the file of stdout_file, unless    *)
(* both are one file.                                                      *)
(***************************************************************************)
THEOREM FilesTellAll == Spec => []FilesTellEverything
<1>1. Init => IInv /\ ContentsInv /\ FilesTellEverything
  BY CliInit, OthersInit, ContentsInit DEF IInv
<1>2. IInv /\ ContentsInv /\ FilesTellEverything /\ [Next]_vars =>
          (IInv /\ ContentsInv /\ FilesTellEverything)'
  BY CliNext, DocumentNext, TableNext, SourcesNext, FilesNext, ContentsNext DEF IInv
<1> QED BY <1>1, <1>2, PTL DEF Spec

-----------------------------------------------------------------------------
(* What is asked for is what main() works with                              *)
-----------------------------------------------------------------------------

(* What the document of a resolved configuration is. *)
LEMMA ResolvedDocument ==
    ASSUME CliInv, DocumentInv, Resolved
    PROVE  /\ AsAsked(args.config.doc, cli.overrides, root, Len(cli.overrides))
           /\ DOMAIN root.of \subseteq {"profiler", "sources"}
           /\ ProfilerReads(NodeAt(root, <<"profiler">>))
           /\ IsTable(NodeAt(root, <<"sources">>))
           /\ Global.profiler = ProfilerConfig(NodeAt(root, <<"profiler">>))
           /\ Global.sources = NodeAt(root, <<"sources">>).of
<1>1. /\ AsAsked(args.config.doc, cli.overrides, root, Len(cli.overrides))
      /\ GlobalConfig(root) # <<>>
  BY DEF DocumentInv
<1>2. /\ DOMAIN root.of \subseteq {"profiler", "sources"}
      /\ ProfilerReads(NodeAt(root, <<"profiler">>))
      /\ IsTable(NodeAt(root, <<"sources">>))
      /\ GlobalConfig(root) =
           <<[profiler |-> ProfilerConfig(NodeAt(root, <<"profiler">>)),
              sources |-> NodeAt(root, <<"sources">>).of]>>
  BY <1>1 DEF GlobalConfig
<1>3. /\ Global.profiler = ProfilerConfig(NodeAt(root, <<"profiler">>))
      /\ Global.sources = NodeAt(root, <<"sources">>).of
  BY <1>2 DEF Global
<1> QED BY <1>1, <1>2, <1>3

(* The override that wrote a path last, if there is one. *)
LEMMA LastWriterFacts ==
    ASSUME CliInv, NEW q \in KeyPaths
    PROVE  /\ LastWriter(q) \in 0 .. Len(cli.overrides)
           /\ LastWriter(q) # 0 => /\ LastWriter(q) \in DOMAIN cli.overrides
                                   /\ IsPrefix(cli.overrides[LastWriter(q)].path, q)
           /\ \A i \in DOMAIN cli.overrides :
                 IsPrefix(cli.overrides[i].path, q) => i <= LastWriter(q)
<1> DEFINE os == cli.overrides
           n  == Len(os)
<1>1. n \in Nat /\ DOMAIN os = 1 .. n /\ OverridesTyped
  BY DEF CliInv, OverridesTyped, PathsTyped
<1>2. LastWriter(q) = LastUpTo(os, n, q)
  BY <1>1, AskedIsAll
<1>3. /\ LastUpTo(os, n, q) \in 0 .. n
      /\ LastUpTo(os, n, q) # 0 => LastUpTo(os, n, q) \in WritersUpTo(os, n, q)
      /\ \A i \in WritersUpTo(os, n, q) : i <= LastUpTo(os, n, q)
  BY <1>1, LastFacts
<1> QED BY <1>1, <1>2, <1>3 DEF WritersUpTo

(* What is written at a path is asked for there. *)
LEMMA AskedIfWritten ==
    ASSUME CliInv, NEW q \in KeyPaths, LastWriter(q) # 0,
           cli.overrides[LastWriter(q)].path = q
    PROVE  Asked(q) # <<>>
<1> DEFINE v == cli.overrides[LastWriter(q)].value
           r == RestOf(q, q)
<1>1. Asked(q) = Lookup(v, r)
  BY DEF Asked, RestOf
<1>2. r = <<>>
  BY RestOfSame
<1> HIDE DEF r, v
<1>3. Lookup(v, r) = <<v>>
  BY <1>2, NodeAtRoot DEF Lookup
<1> QED BY <1>1, <1>3

(***************************************************************************)
(* The document has a node exactly where something was asked for, or       *)
(* written below; and at a node that is not a table, what was asked for.   *)
(***************************************************************************)
LEMMA DocumentAsAsked ==
    ASSUME CliInv, DocumentInv, Resolved, NEW q \in KeyPaths
    PROVE  /\ HasNode(root, q) <=>
                 \/ Asked(q) # <<>>
                 \/ \E i \in DOMAIN cli.overrides :
                       i > LastWriter(q) /\ IsPrefix(q, cli.overrides[i].path)
           /\ (HasNode(root, q) => ~ IsTable(NodeAt(root, q))) => Asked(q) = Lookup(root, q)
           /\ IsTable(NodeAt(root, q)) /\ Asked(q) # <<>> => IsTable(Asked(q)[1])
<1> DEFINE os == cli.overrides
           n  == Len(os)
<1>1. AsAsked(args.config.doc, os, root, n) /\ OverridesTyped
  BY ResolvedDocument DEF CliInv
<1>2. /\ Asked(q) = AskedUpTo(args.config.doc, os, n, q)
      /\ BelowUpTo(os, n, q) <=>
            \E i \in DOMAIN os : i > LastWriter(q) /\ IsPrefix(q, os[i].path)
  BY <1>1, AskedIsAll
<1>3. HasNode(root, q) <=> Asked(q) # <<>> \/ BelowUpTo(os, n, q)
  BY <1>1, <1>2, ThereIfAsked
<1>4. /\ ~ BelowUpTo(os, n, q) => Lookup(root, q) = Asked(q)
      /\ BelowUpTo(os, n, q) =>
            /\ HasNode(root, q) /\ IsTable(NodeAt(root, q))
            /\ Asked(q) # <<>> => IsTable(Asked(q)[1])
  BY <1>1, <1>2 DEF AsAsked
<1>5. IsTable(NodeAt(root, q)) /\ Asked(q) # <<>> => IsTable(Asked(q)[1])
  BY <1>4 DEF Lookup
<1> QED BY <1>2, <1>3, <1>4, <1>5

(* The document itself is a table. *)
LEMMA DocumentIsTable ==
    ASSUME CliInv, DocumentInv, Resolved
    PROVE  IsTable(root)
<1>1. <<>> \in KeyPaths /\ Len(<<>>) = 0
  BY DEF KeyPaths
<1>2. ~ IsTable(root) => Asked(<<>>) = <<root>>
  BY <1>1, DocumentAsAsked, NodeAtRoot DEF Lookup
<1>3. LastWriter(<<>>) = 0
  <2>1. ASSUME LastWriter(<<>>) # 0 PROVE FALSE
    <3>1. PICK i \in DOMAIN cli.overrides : IsPrefix(cli.overrides[i].path, <<>>)
      BY <1>1, <2>1, LastWriterFacts
    <3>2. cli.overrides[i].path \in KeyPaths /\ cli.overrides[i].path # <<>>
      BY DEF CliInv, OverridesTyped, PathsTyped
    <3>3. Len(cli.overrides[i].path) <= 0
      BY <1>1, <3>1, <3>2, PrefixAgrees
    <3> QED BY <3>2, <3>3, EmptySeq DEF KeyPaths
  <2> QED BY <2>1
<1>4. Asked(<<>>) = <<args.config.doc>>
  BY <1>3, NodeAtRoot DEF Asked, Lookup
<1>5. IsTable(args.config.doc)
  BY ArgumentsAssumption DEF CliInv
<1> QED BY <1>2, <1>4, <1>5

(* A key of the profiler that the document has was asked for. *)
LEMMA ProfilerAsAsked ==
    ASSUME CliInv, DocumentInv, Resolved, NEW k \in ProfilerKeys
    PROVE  LET asked == Asked(<<"profiler", k>>)
           IN  /\ Global.profiler[k] =
                      IF asked = <<>> THEN ProfilerDefault[k] ELSE ValueFor(k, asked[1])
               /\ asked # <<>> => ReadsAs(k, asked[1])
<1> DEFINE v == NodeAt(root, <<"profiler">>)
           q == <<"profiler", k>>
<1>1. k \in Segments /\ "profiler" \in Segments
  BY DEF Segments
<1>2. /\ q \in KeyPaths
      /\ v = Entry(root, "profiler") /\ NodeAt(root, q) = Entry(v, k)
      /\ HasNode(root, q) <=> HasKey(root, "profiler") /\ HasKey(v, k)
  BY <1>1, TwoKeys
<1>3. IsTable(root) /\ ProfilerReads(v) /\ Global.profiler = ProfilerConfig(v)
  BY DocumentIsTable, ResolvedDocument
<1>4. HasNode(root, q) <=> k \in DOMAIN v.of
  <2>1. HasKey(root, "profiler") \/ v = EmptyTable
    BY <1>2, <1>3 DEF HasKey, Entry
  <2>2. HasKey(v, k) <=> k \in DOMAIN v.of
    BY <1>3 DEF ProfilerReads, HasKey
  <2>3. k \notin DOMAIN EmptyTable.of
    BY DEF EmptyTable, Table
  <2> QED BY <1>2, <2>1, <2>2, <2>3
<1>5. k \in DOMAIN v.of => NodeAt(root, q) = v.of[k] /\ ~ IsTable(v.of[k])
  BY <1>2, <1>3 DEF ProfilerReads, ReadsAs, Entry, IsTable
<1>6. Asked(q) = IF k \in DOMAIN v.of THEN <<v.of[k]>> ELSE <<>>
  <2>1. Asked(q) = Lookup(root, q)
    BY <1>2, <1>4, <1>5, DocumentAsAsked
  <2> QED BY <1>4, <1>5, <2>1 DEF Lookup
<1>7. Global.profiler[k] =
        IF k \in DOMAIN v.of THEN ValueFor(k, v.of[k]) ELSE ProfilerDefault[k]
  BY <1>3 DEF ProfilerConfig
<1>8. CASE k \in DOMAIN v.of
  <2>1. Asked(q) # <<>> /\ Asked(q)[1] = v.of[k]
    BY <1>6, <1>8
  <2>2. ReadsAs(k, v.of[k])
    BY <1>3, <1>8 DEF ProfilerReads
  <2> QED BY <1>7, <1>8, <2>1, <2>2
<1>9. CASE k \notin DOMAIN v.of
  BY <1>6, <1>7, <1>9
<1> QED BY <1>8, <1>9

(***************************************************************************)
(* Precedence: each key of the profiler comes from its flag, else from the *)
(* last -D that wrote it or a table above it, else from the file, else     *)
(* from the default; and root is kept if any of them asks.  That is what   *)
(* load_global_config(), ConfigTable::new() and apply_cli() add up to, for *)
(* any number of overrides, of whatever length and in whatever order.      *)
(***************************************************************************)
THEOREM PrecedenceHolds == Spec => []Precedence
<1>1. IInv => Precedence
  <2> SUFFICES ASSUME IInv, Resolved, NEW k \in ProfilerKeys
               PROVE  LET asked == Asked(<<"profiler", k>>)
                          below == IF asked = <<>> THEN ProfilerDefault[k]
                                   ELSE ValueFor(k, asked[1])
                      IN  table.profiler[k] =
                            IF k \in DOMAIN args.flags
                                 /\ (args.command = "profile"
                                       \/ k \in {"output_format", "output_file"})
                            THEN args.flags[k]
                            ELSE IF k = "use_root" /\ args.command = "profile" /\ args.use_root
                            THEN "true" ELSE below
    BY DEF Precedence
  <2>1. CliInv /\ DocumentInv /\ TableInv
    BY DEF IInv
  <2>2. /\ cli.command = args.command /\ cli.flags = args.flags
        /\ cli.use_root = args.use_root /\ args \in Arguments
    BY <2>1 DEF CliInv, Resolved
  <2>3. DOMAIN args.flags \subseteq {"output_format", "output_file", "stdout_file",
                                     "token_pattern", "init_timeout"}
    BY <2>2, ArgumentsAssumption
  <2>4. k \in FlagKeys(args.command) \cap DOMAIN args.flags <=>
          /\ k \in DOMAIN args.flags
          /\ args.command = "profile" \/ k \in {"output_format", "output_file"}
    BY <2>3 DEF FlagKeys
  <2>5. table.profiler[k] =
          IF k \in FlagKeys(args.command) \cap DOMAIN args.flags THEN args.flags[k]
          ELSE IF k = "use_root" /\ args.command = "profile" /\ args.use_root THEN "true"
          ELSE Global.profiler[k]
    BY <2>1, <2>2 DEF TableInv, ApplyCli, NewTable
  <2> QED BY <2>1, <2>4, <2>5, ProfilerAsAsked
<1> QED BY <1>1, Invariant, PTL

(* The sections that the document has. *)
LEMMA SectionsOfDocument ==
    ASSUME CliInv, DocumentInv, Resolved, NEW name \in Segments
    PROVE  /\ <<"sources", name>> \in KeyPaths
           /\ HasNode(root, <<"sources", name>>) <=> name \in DOMAIN Global.sources
           /\ NodeAt(root, <<"sources", name>>) = Section(root, name)
<1> DEFINE v == NodeAt(root, <<"sources">>)
           q == <<"sources", name>>
<1>1. "sources" \in Segments
  BY DEF Segments
<1>2. /\ q \in KeyPaths
      /\ v = Entry(root, "sources") /\ NodeAt(root, q) = Entry(v, name)
      /\ HasNode(root, q) <=> HasKey(root, "sources") /\ HasKey(v, name)
  BY <1>1, TwoKeys
<1>3. IsTable(root) /\ IsTable(v) /\ Global.sources = v.of
  BY DocumentIsTable, ResolvedDocument
<1>4. HasNode(root, q) <=> name \in DOMAIN v.of
  <2>1. HasKey(root, "sources") \/ v = EmptyTable
    BY <1>2, <1>3 DEF HasKey, Entry
  <2>2. HasKey(v, name) <=> name \in DOMAIN v.of
    BY <1>3 DEF HasKey
  <2>3. name \notin DOMAIN EmptyTable.of
    BY DEF EmptyTable, Table
  <2> QED BY <1>2, <2>1, <2>2, <2>3
<1>5. NodeAt(root, q) = Section(root, name)
  BY <1>2, <1>3 DEF Entry, Section, Global
<1> QED BY <1>2, <1>3, <1>4, <1>5

(* A section is there if it was asked for. *)
LEMMA SectionIfAsked ==
    ASSUME CliInv, DocumentInv, Resolved, NEW id \in SourceIds
    PROVE  SectionAsked(id) <=> id \in DOMAIN Global.sources
<1>1. id \in Segments
  BY DEF Segments
<1>2. /\ <<"sources", id>> \in KeyPaths
      /\ HasNode(root, <<"sources", id>>) <=> id \in DOMAIN Global.sources
  BY <1>1, SectionsOfDocument
<1> QED BY <1>2, DocumentAsAsked DEF SectionAsked

(* The keys that are modelled. *)
LEMMA SourceKeysFacts ==
    ASSUME NEW id
    PROVE  KeysOf(id) \subseteq {"ignore_on_failure"} \cup CgroupKeys \cup RaplKeys
BY DEF KeysOf

(* What a section that reads says is what was asked for. *)
LEMMA SectionAsAsked ==
    ASSUME CliInv, DocumentInv, Resolved, NEW id \in SourceIds, NEW k \in KeysOf(id),
           SectionReads(id, Section(root, id))
    PROVE  SourceConfig(id, Section(root, id))[k] = AskedOf(id, k)
<1> DEFINE s == Section(root, id)
           q == <<"sources", id, k>>
<1>1. id \in Segments /\ k \in Segments /\ "sources" \in Segments
  BY SourceKeysFacts DEF Segments
<1>2. /\ q \in KeyPaths
      /\ NodeAt(root, q) = Entry(NodeAt(root, <<"sources", id>>), k)
      /\ HasNode(root, q) <=>
            HasNode(root, <<"sources", id>>) /\ HasKey(NodeAt(root, <<"sources", id>>), k)
  BY <1>1, ThreeKeys
<1>3. /\ HasNode(root, <<"sources", id>>) <=> id \in DOMAIN Global.sources
      /\ NodeAt(root, <<"sources", id>>) = s
  BY <1>1, SectionsOfDocument
<1>4. HasNode(root, q) <=> k \in DOMAIN s.of
  <2>1. id \in DOMAIN Global.sources \/ s = EmptyTable
    BY DEF Section, Global
  <2>2. HasKey(s, k) <=> k \in DOMAIN s.of
    BY DEF SectionReads, HasKey
  <2>3. k \notin DOMAIN EmptyTable.of
    BY DEF EmptyTable, Table
  <2> QED BY <1>2, <1>3, <2>1, <2>2, <2>3
<1>5. k \in DOMAIN s.of => NodeAt(root, q) = s.of[k] /\ ~ IsTable(s.of[k])
  BY <1>2, <1>3 DEF SectionReads, KindOf, Entry, IsTable
<1>6. Asked(q) = IF k \in DOMAIN s.of THEN <<s.of[k]>> ELSE <<>>
  <2>1. Asked(q) = Lookup(root, q)
    BY <1>2, <1>4, <1>5, DocumentAsAsked
  <2> QED BY <1>4, <1>5, <2>1 DEF Lookup
<1>7. SourceConfig(id, s)[k] = IF k \in DOMAIN s.of THEN s.of[k].text
                               ELSE IF k = "ignore_on_failure" THEN "false" ELSE Absent
  BY DEF SourceConfig
<1>8. CASE k \in DOMAIN s.of
  <2>1. Asked(q) # <<>> /\ Asked(q)[1] = s.of[k]
    BY <1>6, <1>8
  <2> QED BY <1>7, <1>8, <2>1 DEF AskedOf
<1>9. CASE k \notin DOMAIN s.of
  BY <1>6, <1>7, <1>9 DEF AskedOf
<1> QED BY <1>8, <1>9

(* When every source had its turn, every section was taken. *)
LEMMA AllTaken ==
    ASSUME TableInv, Resolved, stage # "register"
    PROVE  Taken = SourceIds /\ DOMAIN Global.sources \subseteq SourceIds /\ step = 6
<1>1. step = 6 /\ DOMAIN table.sources = DOMAIN Global.sources \ Taken
      /\ DOMAIN table.sources = {}
  BY SourceOrderFacts DEF TableInv
<1>2. Taken = SourceIds
  BY <1>1, SourceOrderFacts DEF Taken
<1> QED BY <1>1, <1>2

(* The sources that are there follow from the invariant. *)
LEMMA SourcesFollow == IInv => SourcesAsAsked
<1> SUFFICES ASSUME IInv, Resolved, stage # "register"
             PROVE  SourcesAsAsked
  BY DEF SourcesAsAsked
<1>1. CliInv /\ DocumentInv /\ TableInv /\ SourcesInv
  BY DEF IInv
<1>2. Taken = SourceIds /\ step = 6
  BY <1>1, AllTaken
<1>3. unavailable \subseteq SourceIds
  BY <1>1, CommandLineAssumption DEF CliInv
<1>4. \A id \in SourceIds : id \in table.enabled <=> Wanted(id)
  <2>1. table.enabled = DOMAIN Global.sources \cup Range(cli.sources)
    BY <1>1 DEF TableInv
  <2> QED BY <1>1, <2>1, SectionIfAsked DEF Wanted
<1>5. {added[i].id : i \in DOMAIN added} =
        {id \in SourceIds : Wanted(id) /\ id \notin unavailable}
  <2>1. {added[i].id : i \in DOMAIN added} = (Taken \cap table.enabled) \ unavailable
    BY <1>1 DEF SourcesInv
  <2> QED BY <1>2, <1>4, <2>1
<1>6. skipped = {id \in unavailable : Wanted(id)}
  <2>1. skipped = (Taken \cap table.enabled) \cap unavailable
    BY <1>1 DEF SourcesInv
  <2> QED BY <1>2, <1>3, <1>4, <2>1
<1>7. \A i, j \in DOMAIN added :
        i < j => \E m, n \in DOMAIN SourceOrder :
                    /\ m < n
                    /\ added[i].id = SourceOrder[m] /\ added[j].id = SourceOrder[n]
  <2>1. DOMAIN SourceOrder = 1 .. step
    BY <1>2 DEF SourceOrder
  <2> QED BY <1>1, <2>1 DEF SourcesInv
<1>8. \A id \in SourceIds : Wanted(id) => SectionReads(id, Section(root, id))
  BY <1>1, <1>2, <1>4 DEF SourcesInv
<1>9. \A id \in skipped : AskedOf(id, "ignore_on_failure") = "true"
  <2> SUFFICES ASSUME NEW id \in skipped PROVE AskedOf(id, "ignore_on_failure") = "true"
    OBVIOUS
  <2>1. id \in SourceIds /\ SectionReads(id, Section(root, id))
    BY <1>3, <1>6, <1>8
  <2>2. "ignore_on_failure" \in KeysOf(id)
    BY DEF KeysOf
  <2>3. SourceConfig(id, Section(root, id))["ignore_on_failure"] = "true"
    BY <1>1 DEF SourcesInv
  <2> QED BY <1>1, <2>1, <2>2, <2>3, SectionAsAsked
<1>10. \A i \in DOMAIN added :
          LET id == added[i].id
          IN  /\ \A k \in KeysOf(id) : added[i].config[k] = AskedOf(id, k)
              /\ id = "rapl" => added[i].backend = table.profiler.rapl_backend
  <2> SUFFICES ASSUME NEW i \in DOMAIN added
               PROVE  /\ \A k \in KeysOf(added[i].id) :
                            added[i].config[k] = AskedOf(added[i].id, k)
                      /\ added[i].id = "rapl" =>
                            added[i].backend = table.profiler.rapl_backend
    OBVIOUS
  <2>1. /\ added[i].config = SourceConfig(added[i].id, Section(root, added[i].id))
        /\ added[i].id = "rapl" => added[i].backend = table.profiler.rapl_backend
    BY <1>1 DEF SourcesInv
  <2>2. added[i].id \in SourceIds /\ SectionReads(added[i].id, Section(root, added[i].id))
    BY <1>5, <1>8
  <2> QED BY <1>1, <2>1, <2>2, SectionAsAsked
<1> QED BY <1>5, <1>6, <1>7, <1>9, <1>10 DEF SourcesAsAsked

(***************************************************************************)
(* SourcesAsAsked: the sources are those asked for, in the order main()    *)
(* registers them, each with its own section of the document; the others   *)
(* failed to be built and were to be ignored, which build_source() reads   *)
(* in the section it has just taken out of the table.                      *)
(***************************************************************************)
THEOREM SourcesAreAsAsked == Spec => []SourcesAsAsked
BY SourcesFollow, Invariant, PTL

(* What writes at a key of the document, or at a table in it, is in it. *)
LEMMA WrittenIsThere ==
    ASSUME CliInv, DocumentInv, Resolved, NEW i \in DOMAIN cli.overrides
    PROVE  LET p == cli.overrides[i].path
           IN  /\ p[1] \in Segments /\ HasNode(root, <<p[1]>>)
               /\ Len(p) > 1 /\ LastWriter(<<p[1]>>) < i =>
                     p[2] \in Segments /\ HasNode(root, <<p[1], p[2]>>)
<1> DEFINE os == cli.overrides
           p == os[i].path
<1>1. /\ DOMAIN os = 1 .. Len(os) /\ Len(os) \in Nat
      /\ \A j \in DOMAIN os : os[j].path \in KeyPaths /\ os[j].path # <<>>
  BY DEF CliInv, OverridesTyped, PathsTyped
<1>2. p[1] \in Segments /\ IsPrefix(<<p[1]>>, p)
  BY <1>1, FirstKeys
<1>3. HasNode(root, <<p[1]>>)
  <2> DEFINE q == <<p[1]>>
  <2>1. q \in KeyPaths
    BY <1>2 DEF KeyPaths
  <2>2. CASE LastWriter(q) < i
    BY <1>2, <2>1, <2>2, DocumentAsAsked
  <2>3. CASE ~ (LastWriter(q) < i)
    <3>1. /\ LastWriter(q) # 0 /\ LastWriter(q) \in DOMAIN os
          /\ IsPrefix(os[LastWriter(q)].path, q)
      BY <1>1, <2>1, <2>3, LastWriterFacts
    <3>2. os[LastWriter(q)].path = q
      BY <1>1, <1>2, <3>1, PrefixOfOne
    <3> QED BY <2>1, <3>1, <3>2, AskedIfWritten, DocumentAsAsked
  <2> QED BY <2>2, <2>3
<1>4. ASSUME Len(p) > 1, LastWriter(<<p[1]>>) < i
      PROVE  p[2] \in Segments /\ HasNode(root, <<p[1], p[2]>>)
  <2> DEFINE q == <<p[1], p[2]>>
  <2>1. p[2] \in Segments /\ IsPrefix(q, p)
    BY <1>1, <1>4, FirstKeys
  <2>2. q \in KeyPaths /\ <<p[1]>> \in KeyPaths
    BY <1>2, <2>1 DEF KeyPaths
  <2>3. CASE LastWriter(q) < i
    BY <2>1, <2>2, <2>3, DocumentAsAsked
  <2>4. CASE ~ (LastWriter(q) < i)
    <3> DEFINE j == LastWriter(q)
    <3>1. j # 0 /\ j \in DOMAIN os /\ IsPrefix(os[j].path, q) /\ ~ (j < i)
      <4>1. j \in 0 .. Len(os) /\ (j # 0 => j \in DOMAIN os /\ IsPrefix(os[j].path, q))
        BY <2>2, LastWriterFacts
      <4>2. j # 0
        BY <1>1, <2>4, <4>1
      <4> QED BY <2>4, <4>1, <4>2
    <3> HIDE DEF j
    <3>2. os[j].path = <<p[1]>> \/ os[j].path = q
      BY <1>1, <1>2, <2>1, <3>1, PrefixOfTwo
    <3>3. os[j].path # <<p[1]>>
      <4>1. ASSUME os[j].path = <<p[1]>> PROVE FALSE
        <5>1. IsPrefix(os[j].path, <<p[1]>>)
          BY <4>1, <2>2 DEF IsPrefix
        <5>2. j <= LastWriter(<<p[1]>>) /\ LastWriter(<<p[1]>>) \in 0 .. Len(os)
          BY <2>2, <3>1, <5>1, LastWriterFacts
        <5> QED BY <1>1, <1>4, <3>1, <5>2
      <4> QED BY <4>1
    <3> QED BY <2>1, <2>2, <3>1, <3>2, <3>3, AskedIfWritten, DocumentAsAsked DEF j
  <2> QED BY <2>1, <2>3, <2>4
<1> QED BY <1>2, <1>3, <1>4

(* Keys of the file are in the document, or an override replaced them. *)
LEMMA FileKeysAreThere ==
    ASSUME CliInv, DocumentInv, Resolved, NEW a \in DOMAIN args.config.doc.of
    PROVE  a \in Segments /\ HasNode(root, <<a>>)
<1>1. IsTable(args.config.doc) /\ a \in Segments
  BY ArgumentsAssumption DEF CliInv, Segments
<1> DEFINE q == <<a>>
<1>2. q \in KeyPaths /\ HasNode(args.config.doc, q)
  BY <1>1, TwoKeys DEF HasKey
<1>3. CASE LastWriter(q) = 0
  <2>1. Asked(q) # <<>>
    BY <1>2, <1>3 DEF Asked, Lookup
  <2> QED BY <1>1, <1>2, <2>1, DocumentAsAsked
<1>4. CASE LastWriter(q) # 0
  <2> DEFINE p == cli.overrides[LastWriter(q)].path
  <2>1. LastWriter(q) \in DOMAIN cli.overrides /\ IsPrefix(p, q)
    BY <1>2, <1>4, LastWriterFacts
  <2>2. p \in KeyPaths /\ p # <<>>
    BY <2>1 DEF CliInv, OverridesTyped, PathsTyped
  <2>3. p = q
    BY <1>1, <2>1, <2>2, PrefixOfOne
  <2> QED BY <1>1, <1>2, <1>4, <2>3, AskedIfWritten, DocumentAsAsked
<1> QED BY <1>3, <1>4

(***************************************************************************)
(* So are the keys of a table that was asked for, whether it comes from    *)
(* the file or is the value of an override.                                *)
(***************************************************************************)
LEMMA AskedTable ==
    ASSUME CliInv, DocumentInv, Resolved, NEW name \in {"profiler", "sources"},
           Asked(<<name>>) # <<>>
    PROVE  /\ IsTable(Asked(<<name>>)[1]) /\ DOMAIN Asked(<<name>>)[1].of \subseteq Segments
           /\ LastWriter(<<name>>) = 0 => HasNode(args.config.doc, <<name>>)
           /\ LastWriter(<<name>>) = 0 =>
                 Asked(<<name>>)[1] = NodeAt(args.config.doc, <<name>>)
           /\ LastWriter(<<name>>) # 0 =>
                 /\ cli.overrides[LastWriter(<<name>>)].path = <<name>>
                 /\ Asked(<<name>>)[1] = cli.overrides[LastWriter(<<name>>)].value
<1> DEFINE q == <<name>>
           j == LastWriter(q)
           file == args.config.doc
           os == cli.overrides
           v == Asked(q)[1]
<1>1. name \in Segments
  BY DEF Segments
<1>2. q \in KeyPaths
  BY <1>1, TwoKeys
<1>3. IsTable(v)
  <2>1. IsTable(NodeAt(root, q))
    BY ResolvedDocument DEF ProfilerReads
  <2> QED BY <1>2, <2>1, DocumentAsAsked
<1>4. CASE j = 0
  <2>1. Asked(q) = Lookup(file, q)
    BY <1>4 DEF Asked
  <2>2. HasNode(file, q) /\ v = NodeAt(file, q)
    BY <2>1 DEF Lookup
  <2>3. IsTable(file) /\ args \in Arguments
    BY ArgumentsAssumption DEF CliInv
  <2>4. name \in DOMAIN file.of /\ v = file.of[name]
    BY <1>1, <2>2, <2>3, TwoKeys DEF HasKey, Entry
  <2>5. v \in Range(file.of)
    BY <2>4 DEF Range
  <2>6. DOMAIN v.of \subseteq STRING
    BY <1>3, <2>3, <2>5, ArgumentsAssumption
  <2>7. STRING \subseteq Segments
    BY DEF Segments
  <2> QED BY <1>3, <1>4, <2>2, <2>6, <2>7
<1>5. CASE j # 0
  <2>1. j \in DOMAIN os /\ IsPrefix(os[j].path, q)
    BY <1>2, <1>5, LastWriterFacts
  <2>2. os[j].path \in KeyPaths /\ os[j].path # <<>> /\ j \in 1 .. Len(os)
    BY <2>1 DEF CliInv, OverridesTyped, PathsTyped
  <2>3. os[j].path = q
    BY <1>1, <2>1, <2>2, PrefixOfOne
  <2>4. v = os[j].value
    <3>1. Asked(q) = Lookup(os[j].value, RestOf(q, q)) /\ RestOf(q, q) = <<>>
      BY <1>2, <1>5, <2>3, RestOfSame DEF Asked, RestOf
    <3> QED BY <3>1, NodeAtRoot DEF Lookup
  <2>5. DOMAIN v.of \subseteq Segments
    BY <1>3, <2>2, <2>4 DEF CliInv, OverridesTyped, ValuesTyped
  <2> QED BY <1>3, <1>5, <2>3, <2>4, <2>5
<1> QED BY <1>4, <1>5

LEMMA TableKeysAreThere ==
    ASSUME CliInv, DocumentInv, Resolved, NEW name \in {"profiler", "sources"},
           Asked(<<name>>) # <<>>, NEW k \in DOMAIN Asked(<<name>>)[1].of
    PROVE  k \in Segments /\ HasNode(root, <<name, k>>)
<1> DEFINE q == <<name>>
           r == <<name, k>>
           j == LastWriter(q)
           l == LastWriter(r)
           file == args.config.doc
           os == cli.overrides
           v == Asked(q)[1]
<1>1. name \in Segments /\ k \in Segments /\ HasKey(v, k)
  BY AskedTable DEF Segments, HasKey
<1>2. q \in KeyPaths /\ r \in KeyPaths
  BY <1>1, TwoKeys
<1>3. /\ j \in Nat /\ l \in Nat
      /\ l # 0 => /\ l \in DOMAIN os /\ IsPrefix(os[l].path, r)
                  /\ os[l].path \in KeyPaths /\ os[l].path # <<>>
  BY <1>2, LastWriterFacts DEF CliInv, OverridesTyped, PathsTyped
<1>4. j <= l
  <2>1. CASE j = 0
    BY <1>3, <2>1
  <2>2. CASE j # 0
    <3>1. j \in DOMAIN os /\ os[j].path = q
      BY <1>2, <2>2, LastWriterFacts, AskedTable
    <3>2. IsPrefix(q, r)
      BY <1>1, <1>2, FirstKeysOfTwo
    <3> QED BY <1>2, <3>1, <3>2, LastWriterFacts
  <2> QED BY <2>1, <2>2
<1>5. CASE l # 0 /\ os[l].path = r
  BY <1>1, <1>2, <1>5, AskedIfWritten, DocumentAsAsked
<1>6. CASE ~ (l # 0 /\ os[l].path = r)
  <2>1. l = j
    <3>1. CASE l = 0
      BY <1>3, <1>4, <3>1
    <3>2. CASE l # 0
      <4>1. os[l].path = q
        BY <1>1, <1>3, <1>6, <3>2, PrefixOfTwo
      <4>2. IsPrefix(os[l].path, q)
        BY <4>1 DEF IsPrefix
      <4>3. l <= j
        BY <1>2, <1>3, <3>2, <4>2, LastWriterFacts
      <4> QED BY <1>3, <1>4, <4>3
    <3> QED BY <3>1, <3>2
  <2>2. Asked(r) # <<>>
    <3>1. CASE j = 0
      <4>1. HasNode(file, q) /\ v = NodeAt(file, q)
        BY <3>1, AskedTable
      <4> HIDE DEF v
      <4>2. HasNode(file, r)
        BY <1>1, <4>1, TwoKeys
      <4> QED BY <2>1, <3>1, <4>2 DEF Asked, Lookup
    <3>2. CASE j # 0
      <4>1. Asked(r) = Lookup(v, RestOf(q, r))
        BY <2>1, <3>2, AskedTable DEF Asked, RestOf
      <4>2. RestOf(q, r) = <<k>>
        BY <1>1, RestOfTwo
      <4>3. HasNode(v, <<k>>)
        BY <1>1, TwoKeys
      <4> QED BY <4>1, <4>2, <4>3 DEF Lookup
    <3> QED BY <3>1, <3>2
  <2> QED BY <1>1, <1>2, <2>2, DocumentAsAsked
<1> QED BY <1>5, <1>6

(* Keys that the document has, or that are on a way through it, are known. *)
LEMMA KnownIfThere ==
    ASSUME IInv, Resolved, stage # "register", NEW name \in {"profiler", "sources"},
           NEW k \in Segments, HasNode(root, <<name, k>>)
    PROVE  k \in KnownIn(name)
<1>1. CliInv /\ DocumentInv /\ TableInv
  BY DEF IInv
<1>2. CASE name = "sources"
  <2>1. k \in DOMAIN Global.sources
    BY <1>1, <1>2, SectionsOfDocument
  <2> QED BY <1>1, <1>2, <2>1, AllTaken DEF KnownIn
<1>3. CASE name = "profiler"
  <2>1. name \in Segments
    BY DEF Segments
  <2>2. HasKey(NodeAt(root, <<"profiler">>), k)
    BY <1>3, <2>1, TwoKeys
  <2>3. k \in ProfilerKeys
    BY <1>1, <2>2, ResolvedDocument DEF ProfilerReads, HasKey
  <2> QED BY <1>3, <2>3 DEF KnownIn
<1> QED BY <1>2, <1>3

(* So everything that was written has a known key. *)
LEMMA KnownFollows == IInv /\ Resolved /\ stage # "register" => KnownKeys
<1> SUFFICES ASSUME IInv, Resolved, stage # "register"
             PROVE  KnownKeys
  OBVIOUS
<1>1. CliInv /\ DocumentInv /\ TableInv
  BY DEF IInv
<1>2. ASSUME NEW a \in Segments, HasNode(root, <<a>>)
      PROVE  a \in {"profiler", "sources"}
  <2>1. HasKey(root, a)
    BY <1>2, TwoKeys
  <2> QED BY <1>1, <2>1, ResolvedDocument DEF HasKey
<1>3. DOMAIN args.config.doc.of \subseteq {"profiler", "sources"}
  BY <1>1, <1>2, FileKeysAreThere
<1>4. \A i \in DOMAIN cli.overrides : cli.overrides[i].path[1] \in {"profiler", "sources"}
  BY <1>1, <1>2, WrittenIsThere
<1>5. ASSUME NEW name \in {"profiler", "sources"}, Asked(<<name>>) # <<>>
      PROVE  /\ IsTable(Asked(<<name>>)[1])
             /\ DOMAIN Asked(<<name>>)[1].of \subseteq KnownIn(name)
  BY <1>1, <1>5, AskedTable, TableKeysAreThere, KnownIfThere
<1>6. ASSUME NEW name \in {"profiler", "sources"}, NEW i \in DOMAIN cli.overrides,
             cli.overrides[i].path[1] = name, Len(cli.overrides[i].path) > 1,
             LastWriter(<<name>>) < i
      PROVE  cli.overrides[i].path[2] \in KnownIn(name)
  BY <1>1, <1>6, WrittenIsThere, KnownIfThere
<1> QED BY <1>3, <1>4, <1>5, <1>6 DEF KnownKeys

(***************************************************************************)
(* UnknownKeysStop: once the sources are known, every key of the document, *)
(* of its profiler and of its sources is one that the program reads,       *)
(* wherever it was written: in the file, in a table that is the value of   *)
(* an override, or on the path of one; only what a later override replaced *)
(* is excepted.  deny_unknown_fields stops the keys of the profiler and    *)
(* ensure_sources_are_known() the names of the sources, however many       *)
(* sources took their section before.                                      *)
(***************************************************************************)
THEOREM UnknownKeysAlwaysStop == Spec => []UnknownKeysStop
<1>1. IInv => UnknownKeysStop
  BY KnownFollows DEF UnknownKeysStop
<1> QED BY <1>1, Invariant, PTL

-----------------------------------------------------------------------------
(* Which files are touched                                                 *)
-----------------------------------------------------------------------------

(* After the sources are registered, the configuration is accepted. *)
LEMMA AcceptedFollows == IInv /\ Resolved /\ stage # "register" => Accepted
<1> SUFFICES ASSUME IInv, Resolved, stage # "register"
             PROVE  Accepted
  OBVIOUS
<1>1. KnownKeys
  BY KnownFollows
<1>2. IsInjective(cli.sources)
  BY DEF IInv, CliInv, Resolved
<1>3. \A k \in ProfilerKeys :
        LET asked == Asked(<<"profiler", k>>) IN asked # <<>> => ReadsAs(k, asked[1])
  BY ProfilerAsAsked DEF IInv
<1>4. SourcesAsAsked
  BY SourcesFollow
<1>5. ASSUME NEW id \in SourceIds, Wanted(id)
      PROVE  \/ id \in {added[i].id : i \in DOMAIN added}
             \/ id \in skipped /\ AskedOf(id, "ignore_on_failure") = "true"
  <2>1. CASE id \in unavailable
    <3>1. id \in skipped
      BY <1>4, <1>5, <2>1 DEF SourcesAsAsked
    <3> QED BY <1>4, <3>1 DEF SourcesAsAsked
  <2>2. CASE id \notin unavailable
    BY <1>4, <1>5, <2>2 DEF SourcesAsAsked
  <2> QED BY <2>1, <2>2
<1> QED BY <1>1, <1>2, <1>3, <1>5 DEF Accepted

(* It stays so: what it is about is not changed any more. *)
LEMMA AcceptedStays ==
    ASSUME Accepted, UNCHANGED <<args, cli, added, skipped>>
    PROVE  Accepted'
<1>1. \A q : LastWriter(q)' = LastWriter(q)
  BY DEF LastWriter
<1>2. \A q : Asked(q)' = Asked(q)
  BY <1>1 DEF Asked
<1>3. \A id : Wanted(id)' = Wanted(id)
  BY <1>1, <1>2 DEF Wanted, SectionAsked
<1>4. \A id, k : AskedOf(id, k)' = AskedOf(id, k)
  BY <1>2 DEF AskedOf
<1>5. KnownKeys'
  BY <1>1, <1>2 DEF Accepted, KnownKeys
<1> QED BY <1>2, <1>3, <1>4, <1>5 DEF Accepted

(* Every step keeps it that nothing is touched before. *)
LEMMA TouchedNext ==
    ASSUME IInv, Touched # {} \/ started => Accepted, [Next]_vars
    PROVE  (Touched # {} \/ started => Accepted)'
<1>1. CASE stage \in Early \ {"display"} /\ ~ UNCHANGED vars
  <2>1. UNCHANGED <<files, started>>
    BY <1>1 DEF Next, ParseArgs, Validate, LoadFile, ApplyOverride, Deserialize, Register,
       EnsureKnown, MakeDisplayer, Dispatch, ProfileFailsAtOnce, ProfileStarts,
       ProfileReturns, ListSensors, DisplayResults, DisplaySensors, Finished, Early
  <2>2. Touched = {} /\ ~ started
    BY <1>1 DEF IInv, FilesInv
  <2>3. Touched' = {} /\ ~ started'
    BY <2>1, <2>2 DEF Touched
  <2> QED BY <2>3
<1>2. CASE stage \notin Early \ {"display"} \/ UNCHANGED vars
  <2>1. UNCHANGED <<args, cli, added, skipped>>
    BY <1>2 DEF Next, ParseArgs, Validate, LoadFile, ApplyOverride, Deserialize, Register,
       EnsureKnown, MakeDisplayer, Dispatch, ProfileFailsAtOnce, ProfileStarts,
       ProfileReturns, ListSensors, DisplayResults, DisplaySensors, Displayed, Finished, Early
  <2>2. CASE Accepted
    BY <2>1, <2>2, AcceptedStays
  <2>3. CASE ~ Accepted
    <3>1. ~ Resolved \/ stage = "register"
      BY <2>3, AcceptedFollows
    <3>2. UNCHANGED vars
      BY <1>2, <3>1 DEF Next, ParseArgs, Validate, LoadFile, ApplyOverride, Deserialize,
         Register, EnsureKnown, MakeDisplayer, Dispatch, ProfileFailsAtOnce, ProfileStarts,
         ProfileReturns, ListSensors, DisplayResults, DisplaySensors, Finished, Early, Resolved
    <3>3. Touched' = {} /\ ~ started'
      BY <2>3, <3>2 DEF Touched
    <3> QED BY <3>3
  <2> QED BY <2>2, <2>3
<1> QED BY <1>1, <1>2

(***************************************************************************)
(* OnlyNamedFilesTouched: no file is created or emptied, and the command   *)
(* is not started, unless arguments, file, overrides and sources were all  *)
(* accepted; and then only the result file of a displayer that has one and *)
(* the file of the command's output are touched, even if creating one of   *)
(* them fails half-way.                                                    *)
(***************************************************************************)
THEOREM FilesOnlyAsNamed == Spec => []OnlyNamedFilesTouched
<1> DEFINE Before == Touched # {} \/ started => Accepted
<1>1. Init => IInv /\ Before
  <2>1. Init => IInv
    BY CliInit, OthersInit DEF IInv
  <2>2. Init => Touched = {} /\ ~ started
    BY DEF Init, Touched
  <2> QED BY <2>1, <2>2
<1>2. IInv /\ Before /\ [Next]_vars => (IInv /\ Before)'
  BY CliNext, DocumentNext, TableNext, SourcesNext, FilesNext, TouchedNext DEF IInv
<1>3. IInv /\ Before => OnlyNamedFilesTouched
  BY DEF IInv, FilesInv, OnlyNamedFilesTouched
<1> QED BY <1>1, <1>2, <1>3, PTL DEF Spec

-----------------------------------------------------------------------------
(* Types                                                                    *)
-----------------------------------------------------------------------------

(* The part of TypeOK about the table. *)
TableTyped ==
    /\ DOMAIN table.profiler = ProfilerKeys
    /\ table.profiler["output_format"] \in OutputFormats

(* The part of TypeOK that IInv does not have. *)
TypeInv ==
    /\ stage \in Stages
    /\ TableTyped
    /\ {added[i].id : i \in DOMAIN added} \cap skipped = {}
    /\ started \/ stage = "running" => cli.command = "profile"

(* A name or an alias of a format is the name of one. *)
LEMMA FormatNamedFacts ==
    ASSUME NEW x \in DOMAIN FormatNamed
    PROVE  FormatNamed[x] \in OutputFormats
<1>1. DOMAIN FormatNamed = UNION {NamesOf[f] : f \in OutputFormats}
  BY DEF FormatNamed
<1>2. PICK f \in OutputFormats : x \in NamesOf[f]
  BY <1>1
<1>3. FormatNamed[x] = CHOOSE g \in OutputFormats : x \in NamesOf[g]
  BY <1>1 DEF FormatNamed
<1> QED BY <1>2, <1>3

(* The table is typed when the document becomes it. *)
LEMMA DeserializeTyped ==
    ASSUME CliInv, DocumentInv, TypeInv, Deserialize
    PROVE  TableTyped'
<1>1. CASE GlobalConfig(root) = <<>>
  BY <1>1 DEF Deserialize, TypeInv, TableTyped
<1>2. CASE GlobalConfig(root) # <<>>
  <2> DEFINE v == NodeAt(root, <<"profiler">>)
  <2>1. ProfilerReads(v) /\ Global.profiler = ProfilerConfig(v)
    <3>1. /\ ProfilerReads(v)
          /\ GlobalConfig(root) =
               <<[profiler |-> ProfilerConfig(v), sources |-> NodeAt(root, <<"sources">>).of]>>
      BY <1>2 DEF GlobalConfig
    <3> QED BY <3>1 DEF Global
  <2>2. table'.profiler =
          [k \in ProfilerKeys |->
              IF k \in FlagKeys(cli.command) \cap DOMAIN cli.flags THEN cli.flags[k]
              ELSE IF k = "use_root" /\ cli.command = "profile" /\ cli.use_root THEN "true"
              ELSE Global.profiler[k]]
    BY <1>2 DEF Deserialize, ApplyCli, NewTable, Global
  <2>3. "output_format" \in ProfilerKeys
    BY ProfilerKeysFacts
  <2>4. "output_format" \in DOMAIN cli.flags => cli.flags["output_format"] \in OutputFormats
    <3>1. cli.flags = args.flags /\ args \in Arguments
      BY DEF CliInv, Deserialize
    <3> QED BY <3>1, ArgumentsAssumption
  <2>5. Global.profiler["output_format"] \in OutputFormats
    <3>1. CASE "output_format" \in DOMAIN v.of
      <4>1. v.of["output_format"].text \in DOMAIN FormatNamed
        BY <2>1, <3>1 DEF ProfilerReads, ReadsAs
      <4>2. Global.profiler["output_format"] = FormatNamed[v.of["output_format"].text]
        BY <2>1, <2>3, <3>1 DEF ProfilerConfig, ValueFor
      <4> QED BY <4>1, <4>2, FormatNamedFacts
    <3>2. CASE "output_format" \notin DOMAIN v.of
      <4>1. Global.profiler["output_format"] = ProfilerDefault["output_format"]
        BY <2>1, <2>3, <3>2 DEF ProfilerConfig
      <4> QED BY <4>1 DEF ProfilerDefault, OutputFormats
    <3> QED BY <3>1, <3>2
  <2>6. table'.profiler["output_format"] \in OutputFormats
    BY <2>2, <2>3, <2>4, <2>5
  <2> QED BY <2>2, <2>6 DEF TableTyped
<1> QED BY <1>1, <1>2

(* A source that has its turn is not one of those that had theirs. *)
LEMMA RegisterTyped ==
    ASSUME CliInv, TableInv, SourcesInv, TypeInv, Register
    PROVE  TypeInv'
<1> DEFINE id     == SourceOrder[step + 1]
           result == BuildSource(table, id, id \notin unavailable)
           entry  == [id |-> id, config |-> SourceConfig(id, SectionOf(table, id)),
                      backend |-> IF id = "rapl" THEN table.profiler.rapl_backend
                                  ELSE Absent]
<1>1. /\ stage = "register" /\ Resolved
      /\ stage' = IF result = "error" THEN "failed" ELSE "register"
      /\ added' = IF result = "added" THEN Append(added, entry) ELSE added
      /\ skipped' = skipped \cup IF result = "skipped" THEN {id} ELSE {}
      /\ table' = IF result = "disabled" THEN table ELSE TakeSection(table, id)
      /\ UNCHANGED <<started, cli>>
  BY DEF Register, Resolved
<1>2. stage' \in Stages /\ (started' => cli'.command = "profile") /\ stage' # "running"
  BY <1>1 DEF TypeInv, Stages
<1>3. TableTyped'
  <2>1. table'.profiler = table.profiler
    BY <1>1 DEF TableInv, TakeSection
  <2> QED BY <2>1 DEF TypeInv, TableTyped
<1>4. {added'[i].id : i \in DOMAIN added'} \cap skipped' = {}
  <2>1. /\ {added[i].id : i \in DOMAIN added} \cap skipped = {}
        /\ {added[i].id : i \in DOMAIN added} \subseteq Taken /\ skipped \subseteq Taken
    BY <1>1 DEF TypeInv, SourcesInv
  <2>2. id \notin Taken
    <3>1. step \in 0 .. 5 /\ step' = step + 1
      BY <1>1, SourceOrderFacts DEF TableInv, Register
    <3> QED BY <3>1, TurnTakes
  <2> HIDE DEF id
  <2>3. CASE result # "added"
    <3>1. added' = added
      BY <1>1, <2>3
    <3> QED BY <1>1, <2>1, <2>2, <3>1
  <2>4. CASE result = "added"
    <3> HIDE DEF entry
    <3>1. added' = Append(added, entry) /\ skipped' = skipped
      BY <1>1, <2>4
    <3>2. /\ Len(added) \in Nat /\ DOMAIN added = 1 .. Len(added)
          /\ DOMAIN added' = 1 .. Len(added) + 1
          /\ \A i \in 1 .. Len(added) : added'[i] = added[i]
          /\ added'[Len(added) + 1] = entry
      BY <3>1, AppendFacts DEF SourcesInv
    <3>3. \A i \in DOMAIN added' : i \in 1 .. Len(added) \/ i = Len(added) + 1
      BY <3>2
    <3>4. entry.id = id
      BY DEF entry
    <3> QED BY <2>1, <2>2, <3>1, <3>2, <3>3, <3>4
  <2> QED BY <2>3, <2>4
<1> QED BY <1>2, <1>3, <1>4 DEF TypeInv

(* TypeInv holds initially. *)
LEMMA TypeInit == Init => TypeInv
<1> SUFFICES ASSUME Init PROVE TypeInv
  OBVIOUS
<1>1. stage \in Stages /\ stage # "running" /\ ~ started /\ skipped = {}
  BY DEF Init, Stages
<1>2. TableTyped
  <2>1. table.profiler = ProfilerDefault
    BY DEF Init, NoTable
  <2>2. ProfilerDefault["output_format"] \in OutputFormats
    BY DEF ProfilerDefault, OutputFormats
  <2> QED BY <2>1, <2>2 DEF TableTyped, ProfilerKeys
<1> QED BY <1>1, <1>2 DEF TypeInv

(* Every step keeps it. *)
LEMMA TypeNext == IInv /\ TypeInv /\ [Next]_vars => TypeInv'
<1> SUFFICES ASSUME IInv, TypeInv, [Next]_vars PROVE TypeInv'
  OBVIOUS
<1>0. CliInv /\ DocumentInv /\ TableInv /\ SourcesInv
  BY DEF IInv
<1>1. CASE Register
  BY <1>0, <1>1, RegisterTyped
<1>2. CASE Deserialize
  <2>1. TableTyped'
    BY <1>0, <1>2, DeserializeTyped
  <2>2. /\ UNCHANGED <<added, skipped, started, cli>>
        /\ stage' \in Stages /\ stage' # "running"
    BY <1>2 DEF Deserialize, Fail, Stages
  <2> QED BY <2>1, <2>2 DEF TypeInv
<1>3. CASE ParseArgs
  <2>1. UNCHANGED <<table, added, skipped, started>> /\ stage = "parse"
        /\ stage' \in {"validate", "failed"}
    BY <1>3 DEF ParseArgs, Fail
  <2>2. ~ started
    BY <2>1 DEF IInv, FilesInv, Early
  <2> QED BY <2>1, <2>2 DEF TypeInv, TableTyped, Stages
<1>4. CASE \/ Validate \/ LoadFile \/ ApplyOverride \/ EnsureKnown \/ MakeDisplayer
           \/ Dispatch \/ ProfileFailsAtOnce \/ ProfileReturns \/ ListSensors
           \/ DisplayResults \/ DisplaySensors \/ Finished \/ UNCHANGED vars
  <2>1. /\ UNCHANGED <<table, added, skipped, started, cli>>
        /\ stage' = "running" => stage = "running" \/ cli.command = "profile"
        /\ stage' \in Stages \/ stage' = stage
    BY <1>4 DEF Validate, LoadFile, ApplyOverride, EnsureKnown, MakeDisplayer, Dispatch,
       ProfileFailsAtOnce, ProfileReturns, ListSensors, DisplayResults, DisplaySensors,
       Displayed, Finished, Fail, Stages
  <2> QED BY <2>1 DEF TypeInv, TableTyped
<1>5. CASE ProfileStarts
  <2>1. /\ UNCHANGED <<table, added, skipped, cli>> /\ stage = "running"
        /\ stage' \in Stages
    BY <1>5 DEF ProfileStarts, Fail, Stages
  <2> QED BY <2>1 DEF TypeInv, TableTyped
<1> QED BY <1>1, <1>2, <1>3, <1>4, <1>5 DEF Next

(* Type correctness of CommandLine: TypeInv is what is to be added to IInv. *)
THEOREM TypeCorrect == Spec => []TypeOK
<1>1. Init => IInv /\ TypeInv
  BY CliInit, OthersInit, TypeInit DEF IInv
<1>2. IInv /\ TypeInv /\ [Next]_vars => (IInv /\ TypeInv)'
  BY CliNext, DocumentNext, TableNext, SourcesNext, FilesNext, TypeNext DEF IInv
<1>3. IInv /\ TypeInv => TypeOK
  BY DEF IInv, CliInv, FilesInv, TypeInv, TableTyped, TypeOK
<1> QED BY <1>1, <1>2, <1>3, PTL DEF Spec

=============================================================================
