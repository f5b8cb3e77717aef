---------------------------- MODULE PackageProofs ---------------------------
(***************************************************************************)
(* What happens to a package, for any files and any debs.  `check --fix`:  *)
(* what it places is where the check looks, exit code zero means that      *)
(* nothing is missing, and a fixed copy is signed.  The converters: no     *)
(* conversion, and no chain of them, loses a binary's entitlements.        *)
(***************************************************************************)
EXTENDS CheckFix, Convert, FiniteSetTheorems, SequenceTheorems, WellFoundedInduction, TLAPS

(* A reference the check may report, of an item that is in the bundle. *)
RefOk(m, items) ==
  /\ m.via \in Vias \cup {"dlopen"}
  /\ m.name \in DOMAIN Holds
  /\ m.via = "dlopen" => Holds[m.name].kind = "framework"
  /\ \E i \in items : i.dir = m.from.dir /\ i.name = m.from.name

Landed(m, items) == Exists(items, Append(FixTarget(m), m.name))

AllSigned(items) == \A i \in executables(items) : Signable(i) => i.signed

(* The references the command works on stay references of the app. *)
RefInv ==
  /\ \A m \in report : RefOk(m, app)
  /\ pc \in {"debs", "found"} => search.ref \in report
  /\ pc \in {"start", "check"} => report = {}

(* The app is a bundle, and its own until something is placed. *)
AppInv ==
  /\ BundleOk(app)
  /\ placed = {} /\ pc \notin {"start", "failed"} => app = cmd.app
  /\ \A m \in placed : Landed(m, app)

(* What has been signed, and when there is an output. *)
OutputInv ==
  /\ pc \in {"sign", "write", "writing"} => placed # {}
  /\ pc \in {"recheck", "write", "writing"} /\ placed # {} => AllSigned(app)
  /\ files.output = "new" => pc \in {"ok", "failed"} /\ placed # {}

FixInv ==
  /\ TypeOK /\ RefInv /\ AppInv /\ OutputInv
  /\ SuccessMeansResolved /\ OutputSigned

-----------------------------------------------------------------------------
(* Lemmas about paths. *)

Names == DOMAIN Holds

(* A set of positions has a first one. *)
LEMMA FirstPosition ==
  ASSUME NEW n \in Nat, NEW S, S \subseteq 1..n, S # {}
  PROVE  \E k \in S : \A l \in S : k <= l
<1> DEFINE T == {1..k : k \in S}
           R == StrictSubsetOrdering(1..n)
<1>1. IsFiniteSet(1..n)
  BY FS_Interval
<1>2. IsWellFoundedOn(R, SUBSET (1..n))
  BY <1>1, FS_FiniteSubsetsOfFinite, FS_StrictSubsetOrderingWellFounded, Zenon
<1>3. T \subseteq SUBSET (1..n) /\ T # {}
  <2>1. \A k \in S : (1..k) \in SUBSET (1..n)
    OBVIOUS
  <2>2. \E k \in S : (1..k) \in T
    OBVIOUS
  <2> QED
    BY <2>1, <2>2
<1>4. PICK x \in T : \A y \in T : ~(<<y, x>> \in R)
  <2> HIDE DEF T, R
  <2> QED
    BY <1>2, <1>3, WFMin, Zenon
<1>5. PICK k \in S : x = 1..k
  BY <1>4
<1>6. ASSUME NEW l \in S, l < k PROVE FALSE
  <2>1. (1..l) \in T
    OBVIOUS
  <2>2. (1..l) \subseteq 1..k /\ 1..l # 1..k /\ (1..l) \in SUBSET (1..n) /\ x \in SUBSET (1..n)
    <3>1. k \in 1..k /\ k \notin 1..l
      BY <1>6
    <3> QED
      BY <1>3, <1>4, <1>6, <3>1
  <2>3. <<1..l, x>> \in R
    BY <1>5, <2>2 DEF StrictSubsetOrdering
  <2> QED
    BY <1>4, <2>1, <2>3
<1> QED
  BY <1>6

(* What a reference resolves to is told by the place of its item. *)
LEMMA SamePlace ==
  ASSUME NEW i, NEW j, i.dir = j.dir, i.name = j.name, NEW via
  PROVE  resolveBundleRef(via, i) = resolveBundleRef(via, j)
<1>1. PathOf(i) = PathOf(j) /\ Kind(i) = Kind(j)
  BY DEF PathOf, Kind
<1>2. BinDir(i) = BinDir(j)
  BY <1>1 DEF BinDir
<1>3. contextDir(i) = contextDir(j)
  BY <1>1 DEF contextDir
<1> QED
  BY <1>2, <1>3, Zenon DEF resolveBundleRef

LEMMA PathProperties ==
  ASSUME NEW i \in Items
  PROVE  /\ i.dir \in Seq(Names) /\ i.name \in Names
         /\ PathOf(i) \in Seq(Names)
         /\ Len(PathOf(i)) = Len(i.dir) + 1
         /\ \A k \in 1..Len(i.dir) : PathOf(i)[k] = i.dir[k]
         /\ PathOf(i)[Len(i.dir) + 1] = i.name
  BY AppendProperties DEF Items, PathOf, Names

(* Every directory a reference resolves to is Frameworks or leads to the   *)
(* item it is in.                                                          *)
LEMMA ContextIsPrefix ==
  ASSUME NEW i \in Items
  PROVE  \E l \in 0..Len(i.dir) : contextDir(i) = SubSeq(PathOf(i), 1, l)
<1> DEFINE p == PathOf(i)
           in == {k \in DOMAIN p : Holds[p[k]].kind = "appex"}
           foremost == CHOOSE k \in in : \A l \in in : k <= l
<1>1. p \in Seq(Names) /\ Len(p) = Len(i.dir) + 1 /\ Len(i.dir) \in Nat
  BY PathProperties
<1>2. DOMAIN p = 1..Len(p)
  BY <1>1
<1>3. contextDir(i) = IF in = {} THEN <<>> ELSE SubSeq(p, 1, foremost - 1)
  BY DEF contextDir
<1>4. CASE in = {}
  <2>1. SubSeq(p, 1, 0) = <<>>
    BY SubSeqEmpty
  <2>2. 0 \in 0..Len(i.dir)
    BY <1>1
  <2>3. contextDir(i) = SubSeq(p, 1, 0)
    BY <1>3, <1>4, <2>1
  <2> QED
    BY <2>2, <2>3
<1>5. CASE in # {}
  <2>1. in \subseteq 1..Len(p) /\ Len(p) \in Nat
    BY <1>1, <1>2
  <2> HIDE DEF in
  <2>2. \E k \in in : \A l \in in : k <= l
    BY <1>5, <2>1, FirstPosition
  <2>3. foremost \in in
    BY <2>2
  <2> HIDE DEF foremost, p
  <2>4. foremost - 1 \in 0..Len(i.dir)
    BY <1>1, <2>1, <2>3
  <2>5. contextDir(i) = SubSeq(p, 1, foremost - 1)
    BY <1>3, <1>5
  <2> QED
    BY <2>4, <2>5 DEF p
<1> QED
  BY <1>4, <1>5

LEMMA TargetIsPrefix ==
  ASSUME NEW i \in Items, NEW via \in Vias
  PROVE  \/ resolveBundleRef(via, i) = <<"Frameworks">>
         \/ \E l \in 0..Len(PathOf(i)) :
              resolveBundleRef(via, i) = SubSeq(PathOf(i), 1, l)
<1> DEFINE p == PathOf(i)
<1>1. p \in Seq(Names) /\ Len(p) = Len(i.dir) + 1 /\ Len(i.dir) \in Nat
      /\ i.dir \in Seq(Names) /\ \A k \in 1..Len(i.dir) : p[k] = i.dir[k]
  BY PathProperties
<1>2. CASE via \in {"@rpath", "@executable_path/Frameworks"}
  BY <1>2 DEF resolveBundleRef
<1>3. CASE via = "@executable_path"
  <2>1. resolveBundleRef(via, i) = contextDir(i)
    BY <1>3 DEF resolveBundleRef
  <2> QED
    BY <1>1, <2>1, ContextIsPrefix
<1>4. CASE via = "@loader_path"
  <2>1. resolveBundleRef(via, i) = BinDir(i)
    BY <1>4 DEF resolveBundleRef
  <2>2. SubSeq(p, 1, Len(p)) = p
    BY <1>1, SubSeqFull
  <2>3. SubSeq(p, 1, Len(i.dir)) = i.dir
    <3> HIDE DEF p
    <3>1. SubSeq(p, 1, Len(i.dir)) \in Seq(Names)
          /\ Len(SubSeq(p, 1, Len(i.dir))) = Len(i.dir)
          /\ \A k \in 1..Len(i.dir) : SubSeq(p, 1, Len(i.dir))[k] = p[k]
      BY <1>1
    <3> QED
      BY <1>1, <3>1, SeqEqual
  <2>4. Len(p) \in 0..Len(p) /\ Len(i.dir) \in 0..Len(p)
    BY <1>1
  <2> QED
    BY <2>1, <2>2, <2>3, <2>4 DEF BinDir
<1> QED
  BY <1>2, <1>3, <1>4 DEF Vias

LEMMA EqualPrefixes ==
  ASSUME NEW p \in Seq(Names), NEW q \in Seq(Names), NEW l \in Nat,
         l <= Len(p), l <= Len(q), \A k \in 1..l : p[k] = q[k]
  PROVE  SubSeq(p, 1, l) = SubSeq(q, 1, l)
<1>1. /\ SubSeq(p, 1, l) \in Seq(Names) /\ Len(SubSeq(p, 1, l)) = l
      /\ \A k \in 1..l : SubSeq(p, 1, l)[k] = p[k]
  OBVIOUS
<1>2. /\ SubSeq(q, 1, l) \in Seq(Names) /\ Len(SubSeq(q, 1, l)) = l
      /\ \A k \in 1..l : SubSeq(q, 1, l)[k] = q[k]
  OBVIOUS
<1> QED
  BY <1>1, <1>2, SeqEqual

(* A framework on the path of an item is an item. *)
LEMMA FrameworkOnPath ==
  ASSUME NEW items, items \subseteq Items, BundleOk(items), NEW i \in items,
         NEW k \in 1..Len(PathOf(i)), Holds[PathOf(i)[k]].kind = "framework"
  PROVE  \E f \in items : /\ f.dir = SubSeq(PathOf(i), 1, k - 1)
                          /\ f.name = PathOf(i)[k]
<1> DEFINE p == PathOf(i)
<1>1. /\ p \in Seq(Names) /\ Len(p) = Len(i.dir) + 1 /\ Len(i.dir) \in Nat
      /\ i.dir \in Seq(Names) /\ \A l \in 1..Len(i.dir) : p[l] = i.dir[l]
      /\ p[Len(i.dir) + 1] = i.name
  BY PathProperties
<1> HIDE DEF p
<1>2. CASE k <= Len(i.dir)
  <2>1. k \in DOMAIN i.dir /\ Holds[i.dir[k]].kind = "framework" /\ p[k] = i.dir[k]
    BY <1>1, <1>2 DEF p
  <2>2. PICK f \in items : f.dir = SubSeq(i.dir, 1, k - 1) /\ f.name = i.dir[k]
    BY <2>1 DEF BundleOk
  <2>3. SubSeq(i.dir, 1, k - 1) = SubSeq(p, 1, k - 1)
    BY <1>1, <1>2, EqualPrefixes
  <2> QED
    BY <2>1, <2>2, <2>3 DEF p
<1>3. CASE k = Len(i.dir) + 1
  <2>1. SubSeq(p, 1, Len(i.dir)) = SubSeq(i.dir, 1, Len(i.dir))
    BY <1>1, EqualPrefixes
  <2>2. SubSeq(i.dir, 1, Len(i.dir)) = i.dir
    BY <1>1, SubSeqFull
  <2>3. k - 1 = Len(i.dir)
    BY <1>1, <1>3
  <2> QED
    BY <1>1, <1>3, <2>1, <2>2, <2>3 DEF p
<1> QED
  BY <1>1, <1>2, <1>3 DEF p

(* What lies in Frameworks under the name of a framework is that framework. *)
LEMMA InFrameworks ==
  ASSUME NEW items, items \subseteq Items, BundleOk(items),
         NEW n \in Names, Holds[n].kind = "framework",
         Exists(items, Append(<<"Frameworks">>, n))
  PROVE  \E f \in items : f.dir = <<"Frameworks">> /\ f.name = n
<1> DEFINE q == Append(<<"Frameworks">>, n)
<1>1. q \in Seq(Names) /\ Len(q) = 2 /\ q[1] = "Frameworks" /\ q[2] = n
  <2>1. "Frameworks" \in Names
    BY HoldsAssumption DEF Names
  <2>2. /\ <<"Frameworks">> \in Seq(Names) /\ Len(<<"Frameworks">>) = 1
        /\ <<"Frameworks">>[1] = "Frameworks"
    BY <2>1
  <2> QED
    BY <2>2, AppendProperties
<1> HIDE DEF q
<1>2. PICK i \in items : 2 <= Len(PathOf(i)) /\ SubSeq(PathOf(i), 1, 2) = q
  BY <1>1 DEF Exists, q
<1>3. PathOf(i) \in Seq(Names)
  BY PathProperties
<1>4. PathOf(i)[1] = "Frameworks" /\ PathOf(i)[2] = n
  <2>1. /\ SubSeq(PathOf(i), 1, 2)[1] = PathOf(i)[1]
        /\ SubSeq(PathOf(i), 1, 2)[2] = PathOf(i)[2]
    BY <1>2, <1>3
  <2> QED
    BY <1>1, <1>2, <2>1
<1>5. SubSeq(PathOf(i), 1, 1) = <<"Frameworks">>
  <2> DEFINE one == SubSeq(PathOf(i), 1, 1)
             two == <<"Frameworks">>
  <2>1. one \in Seq(Names) /\ Len(one) = 1 /\ one[1] = "Frameworks"
    BY <1>2, <1>3, <1>4
  <2>2. two \in Seq(Names) /\ Len(two) = 1 /\ two[1] = "Frameworks"
    BY HoldsAssumption DEF Names
  <2> HIDE DEF one, two
  <2>3. one = two
    BY <2>1, <2>2, SeqEqual
  <2> QED
    BY <2>3 DEF one, two
<1>6. PICK f \in items : f.dir = SubSeq(PathOf(i), 1, 2 - 1) /\ f.name = PathOf(i)[2]
  BY <1>2, <1>3, <1>4, FrameworkOnPath
<1> QED
  BY <1>4, <1>5, <1>6

(* What the reference names is where it is placed: it is not missing. *)
LEMMA LandedIsResolved ==
  ASSUME NEW items, items \subseteq Items, BundleOk(items), NEW m,
         RefOk(m, items), Landed(m, items)
  PROVE  m \notin CheckReferences(items)
<1> SUFFICES ASSUME m \in CheckReferences(items) PROVE FALSE
  OBVIOUS
<1>1. \/ \E i \in items : \E d \in Holds[i.name].deps :
           /\ ~Exists(items, Append(resolveBundleRef(d.via, i), d.name))
           /\ m = Ref(i, d.via, d.name)
      \/ \E i \in items : \E n \in Holds[i.name].dlopens :
           /\ n \notin reachable(items, tweakFamily(i))
           /\ m = Ref(i, "dlopen", n)
  <2>1. \/ \E i \in items : m \in missingDeps(i, items)
        \/ \E i \in items : m \in suspected(i, items)
    BY DEF CheckReferences, executables, machoFiles
  <2>2. ASSUME NEW i \in items, m \in missingDeps(i, items)
        PROVE  \E d \in Holds[i.name].deps :
                 /\ ~Exists(items, Append(resolveBundleRef(d.via, i), d.name))
                 /\ m = Ref(i, d.via, d.name)
    BY <2>2 DEF missingDeps
  <2>3. ASSUME NEW i \in items, m \in suspected(i, items)
        PROVE  \E n \in Holds[i.name].dlopens :
                 n \notin reachable(items, tweakFamily(i)) /\ m = Ref(i, "dlopen", n)
    BY <2>3 DEF suspected
  <2> QED
    BY <2>1, <2>2, <2>3
<1>2. ASSUME NEW i \in items, NEW d \in Holds[i.name].deps,
             ~Exists(items, Append(resolveBundleRef(d.via, i), d.name)),
             m = Ref(i, d.via, d.name)
      PROVE  FALSE
  <2>1. d.via \in Vias
    BY HoldsAssumption DEF Items
  <2>2. m.via = d.via /\ m.name = d.name /\ m.from.dir = i.dir /\ m.from.name = i.name
    BY <1>2 DEF Ref
  <2>3. m.via # "dlopen"
    BY <2>1, <2>2 DEF Vias
  <2> DEFINE j == [dir |-> m.from.dir, name |-> m.from.name]
  <2>4. j.dir = i.dir /\ j.name = i.name
    BY <2>2
  <2>5. FixTarget(m) = resolveBundleRef(m.via, j)
    BY <2>3, Zenon DEF FixTarget
  <2> HIDE DEF j
  <2>6. FixTarget(m) = resolveBundleRef(d.via, i)
    <3>1. resolveBundleRef(m.via, j) = resolveBundleRef(m.via, i)
      BY <2>4, SamePlace
    <3> QED
      BY <2>2, <2>5, <3>1, Zenon
  <2> QED
    BY <1>2, <2>2, <2>6, Zenon DEF Landed
<1>3. ASSUME NEW i \in items, NEW n \in Holds[i.name].dlopens,
             n \notin reachable(items, tweakFamily(i)), m = Ref(i, "dlopen", n)
      PROVE  FALSE
  <2>1. m.via = "dlopen" /\ m.name = n
    BY <1>3 DEF Ref
  <2>2. n \in Names /\ Holds[n].kind = "framework"
    BY <2>1 DEF RefOk, Names
  <2>3. Exists(items, Append(<<"Frameworks">>, n))
    BY <2>1 DEF Landed, FixTarget
  <2>4. PICK f \in items : f.dir = <<"Frameworks">> /\ f.name = n
    BY <2>2, <2>3, InFrameworks
  <2>5. Kind(f) = "framework" /\ Head(f.dir) = "Frameworks"
    BY <2>2, <2>4 DEF Kind
  <2>6. f.name \in reachable(items, tweakFamily(i))
    BY <2>5, Zenon DEF reachable
  <2> QED
    BY <1>3, <2>4, <2>6
<1> QED
  BY <1>1, <1>2, <1>3

-----------------------------------------------------------------------------
(* Lemmas about the steps that change the app. *)

(* What is in its place stays so as long as items only come. *)
LEMMA NothingMoves ==
  ASSUME NEW items, NEW later,
         \A i \in items : \E j \in later : j.dir = i.dir /\ j.name = i.name
  PROVE  \A m : /\ RefOk(m, items) => RefOk(m, later)
                /\ Landed(m, items) => Landed(m, later)
<1>1. \A m : RefOk(m, items) => RefOk(m, later)
  BY DEF RefOk
<1>2. ASSUME NEW m, Landed(m, items) PROVE Landed(m, later)
  <2> DEFINE path == Append(FixTarget(m), m.name)
  <2>1. PICK i \in items : /\ Len(path) <= Len(PathOf(i))
                           /\ SubSeq(PathOf(i), 1, Len(path)) = path
    BY <1>2 DEF Landed, Exists
  <2>2. PICK j \in later : j.dir = i.dir /\ j.name = i.name
    OBVIOUS
  <2>3. PathOf(j) = PathOf(i)
    BY <2>2 DEF PathOf
  <2> HIDE DEF path
  <2>4. Exists(later, path)
    BY <2>1, <2>2, <2>3 DEF Exists
  <2> QED
    BY <2>4 DEF Landed, path
<1> QED
  BY <1>1, <1>2

(* Where a reference of the app is placed. *)
LEMMA TargetOfRef ==
  ASSUME NEW items, items \subseteq Items, NEW m, RefOk(m, items)
  PROVE  \/ FixTarget(m) = <<"Frameworks">>
         \/ \E i \in items : \E l \in 0..Len(PathOf(i)) :
              FixTarget(m) = SubSeq(PathOf(i), 1, l)
<1>1. CASE m.via = "dlopen"
  BY <1>1 DEF FixTarget
<1>2. CASE m.via # "dlopen"
  <2> DEFINE j == [dir |-> m.from.dir, name |-> m.from.name]
  <2>1. PICK i \in items : i.dir = m.from.dir /\ i.name = m.from.name
    BY DEF RefOk
  <2>2. j.dir = i.dir /\ j.name = i.name
    BY <2>1
  <2>3. FixTarget(m) = resolveBundleRef(m.via, j)
    BY <1>2, Zenon DEF FixTarget
  <2> HIDE DEF j
  <2>4. FixTarget(m) = resolveBundleRef(m.via, i)
    BY <2>2, <2>3, SamePlace
  <2>5. m.via \in Vias
    BY <1>2 DEF RefOk
  <2> QED
    BY <2>4, <2>5, TargetIsPrefix
<1> QED
  BY <1>1, <1>2

(* An item placed where a reference wants it leaves the app a bundle. *)
LEMMA PlacedIsBundle ==
  ASSUME app \subseteq Items, BundleOk(app), NEW m, RefOk(m, app),
         NEW x \in Items, x.dir = FixTarget(m)
  PROVE  BundleOk(app \cup {x})
<1> SUFFICES ASSUME NEW k \in DOMAIN x.dir, Holds[x.dir[k]].kind = "framework"
             PROVE  \E f \in app : f.dir = SubSeq(x.dir, 1, k - 1) /\ f.name = x.dir[k]
  BY DEF BundleOk
<1>1. x.dir \in Seq(Names) /\ k \in 1..Len(x.dir)
  BY DEF Items, Names
<1>2. CASE x.dir = <<"Frameworks">>
  <2>1. x.dir[k] = "Frameworks"
    BY <1>1, <1>2
  <2> QED
    BY <2>1, HoldsAssumption
<1>3. ASSUME NEW i \in app, NEW l \in 0..Len(PathOf(i)),
             x.dir = SubSeq(PathOf(i), 1, l)
      PROVE  \E f \in app : f.dir = SubSeq(x.dir, 1, k - 1) /\ f.name = x.dir[k]
  <2>1. PathOf(i) \in Seq(Names)
    BY PathProperties
  <2>2. Len(x.dir) = l /\ \A n \in 1..l : x.dir[n] = PathOf(i)[n]
    BY <1>3, <2>1
  <2>3. k \in 1..Len(PathOf(i)) /\ PathOf(i)[k] = x.dir[k]
    BY <1>1, <2>1, <2>2
  <2>4. PICK f \in app : f.dir = SubSeq(PathOf(i), 1, k - 1) /\ f.name = PathOf(i)[k]
    <3>1. Holds[PathOf(i)[k]].kind = "framework" /\ k \in 1..Len(PathOf(i))
      BY <2>3
    <3> QED
      BY <3>1, FrameworkOnPath, Zenon
  <2>5. SubSeq(PathOf(i), 1, k - 1) = SubSeq(x.dir, 1, k - 1)
    BY <1>1, <2>1, <2>2, EqualPrefixes
  <2> QED
    BY <2>3, <2>4, <2>5
<1>4. \/ x.dir = <<"Frameworks">>
      \/ \E i \in app : \E l \in 0..Len(PathOf(i)) : x.dir = SubSeq(PathOf(i), 1, l)
  <2>1. \/ FixTarget(m) = <<"Frameworks">>
        \/ \E i \in app : \E l \in 0..Len(PathOf(i)) :
             FixTarget(m) = SubSeq(PathOf(i), 1, l)
    BY TargetOfRef
  <2> QED
    BY <2>1, Zenon
<1> QED
  BY <1>2, <1>3, <1>4, Zenon

(* What a torn copy or a signature leaves of an item. *)
LEMMA FieldSet ==
  ASSUME NEW i \in Items, NEW b \in BOOLEAN
  PROVE  /\ [i EXCEPT !.whole = b] \in Items
         /\ [i EXCEPT !.whole = b].dir = i.dir
         /\ [i EXCEPT !.whole = b].name = i.name
         /\ [i EXCEPT !.signed = b] \in Items
         /\ [i EXCEPT !.signed = b].dir = i.dir
         /\ [i EXCEPT !.signed = b].name = i.name
         /\ [i EXCEPT !.signed = b].whole = i.whole
         /\ [i EXCEPT !.signed = b].signed = b
  BY DEF Items

LEMMA CopyLands ==
  ASSUME app \subseteq Items, BundleOk(app), NEW m, RefOk(m, app), NEW state
  PROVE  LET after == copyArtifact(FixTarget(m), m.name, state) IN
         /\ after \subseteq Items /\ BundleOk(after)
         /\ app \subseteq after /\ Landed(m, after)
<1> DEFINE dst == FixTarget(m)
           after == copyArtifact(dst, m.name, state)
           x == [Item(dst, m.name) EXCEPT !.whole = (state = "whole")]
<1>1. CASE Exists(app, Append(dst, m.name))
  <2>1. after = app
    BY <1>1 DEF copyArtifact
  <2> QED
    BY <1>1, <2>1 DEF Landed
<1>2. CASE ~Exists(app, Append(dst, m.name))
  <2>1. after = app \cup {x}
    BY <1>2 DEF copyArtifact
  <2>2. dst \in Seq(Names)
    <3>1. CASE dst = <<"Frameworks">>
      BY <3>1, HoldsAssumption DEF Names
    <3>2. ASSUME NEW i \in app, NEW l \in 0..Len(PathOf(i)), dst = SubSeq(PathOf(i), 1, l)
          PROVE  dst \in Seq(Names)
      <4>1. PathOf(i) \in Seq(Names)
        BY PathProperties
      <4> QED
        BY <3>2, <4>1
    <3> QED
      BY <3>1, <3>2, TargetOfRef
  <2>3. m.name \in Names
    BY DEF RefOk, Names
  <2> DEFINE whole == (state = "whole")
             new == Item(dst, m.name)
  <2>4. new \in Items /\ new.dir = dst /\ new.name = m.name
    <3> HIDE DEF dst
    <3> QED
      BY <2>2, <2>3 DEF Item, Items, Names
  <2>5. x \in Items /\ x.dir = dst /\ x.name = m.name
    <3>1. x = [new EXCEPT !.whole = whole] /\ whole \in BOOLEAN
      BY Zenon
    <3> HIDE DEF x, dst, new, whole
    <3> QED
      BY <2>4, <3>1, FieldSet
  <2> HIDE DEF x, dst
  <2>6. BundleOk(app \cup {x})
    BY <2>5, PlacedIsBundle DEF dst
  <2>7. Landed(m, app \cup {x})
    <3>1. PathOf(x) \in Seq(Names) /\ PathOf(x) = Append(dst, m.name)
      BY <2>5, PathProperties DEF PathOf
    <3>2. SubSeq(PathOf(x), 1, Len(PathOf(x))) = PathOf(x)
      BY <3>1, SubSeqFull
    <3>3. Len(PathOf(x)) <= Len(PathOf(x))
      BY <3>1
    <3> QED
      BY <3>1, <3>2, <3>3 DEF Landed, Exists, dst
  <2> QED
    BY <2>1, <2>5, <2>6, <2>7 DEF dst
<1> QED
  BY <1>1, <1>2


(* Signing moves nothing, and signs what can be signed. *)
LEMMA SigningKeeps ==
  ASSUME NEW items, items \subseteq Items, BundleOk(items)
  PROVE  LET after == FakesignAll(items) IN
         /\ after \subseteq Items /\ BundleOk(after) /\ AllSigned(after)
         /\ \A i \in items : \E j \in after : j.dir = i.dir /\ j.name = i.name
<1> DEFINE Signed(i) == i \in executables(items) /\ Signable(i)
           After(i) == IF Signed(i) THEN [i EXCEPT !.signed = TRUE] ELSE i
           after == FakesignAll(items)
<1>1. after = {After(i) : i \in items}
  BY Zenon DEF FakesignAll
<1>2. ASSUME NEW i \in items
      PROVE  /\ After(i) \in Items /\ After(i).dir = i.dir /\ After(i).name = i.name
             /\ After(i).whole = i.whole /\ Signed(i) => After(i).signed
  BY FieldSet, Zenon
<1>3. ASSUME NEW i \in items, After(i) \in executables(after), Signable(After(i))
      PROVE  After(i).signed
  <2>1. Signed(i)
    BY <1>2, <1>3 DEF executables, Signable, Kind
  <2> QED
    BY <1>2, <2>1
<1> HIDE DEF After, Signed, after
<1>4. after \subseteq Items
  BY <1>1, <1>2
<1>5. \A i \in items : \E j \in after : j.dir = i.dir /\ j.name = i.name
  BY <1>1, <1>2
<1>6. BundleOk(after)
  <2> SUFFICES ASSUME NEW j \in after, NEW k \in DOMAIN j.dir,
                      Holds[j.dir[k]].kind = "framework"
               PROVE  \E f \in after : f.dir = SubSeq(j.dir, 1, k - 1) /\ f.name = j.dir[k]
    BY DEF BundleOk
  <2>1. PICK i \in items : j.dir = i.dir
    BY <1>1, <1>2
  <2>2. PICK g \in items : g.dir = SubSeq(i.dir, 1, k - 1) /\ g.name = i.dir[k]
    BY <2>1 DEF BundleOk
  <2>3. PICK f \in after : f.dir = g.dir /\ f.name = g.name
    BY <1>5
  <2> QED
    BY <2>1, <2>2, <2>3
<1>7. AllSigned(after)
  BY <1>1, <1>3 DEF AllSigned, executables
<1> QED
  BY <1>4, <1>5, <1>6, <1>7 DEF after

-----------------------------------------------------------------------------
(* The invariant is inductive. *)

LEMMA FixInit == Init => FixInv
  BY DEF Init, FixInv, TypeOK, RefInv, AppInv, OutputInv, SuccessMeansResolved,
         OutputSigned, BundleOk, Idle, Items

(* The loop goes on, and nothing is placed. *)
LEMMA SearchGoesOn ==
  ASSUME FixInv, pc \in {"loop", "debs", "found"},
         pc' \in {"loop", "debs", "found"},
         UNCHANGED <<cmd, app, report, placed, files>>,
         todo' \subseteq todo,
         pc' \in {"debs", "found"} => search'.ref \in report,
         DOMAIN search' = {"ref", "debs", "asked", "found"},
         search'.found \in {"nothing", "whole", "torn"},
         \A n \in DOMAIN staged' : staged'[n] \in {"whole", "torn"}
  PROVE  FixInv'
<1>1. TypeOK'
  BY DEF FixInv, TypeOK
<1>2. RefInv' /\ AppInv' /\ OutputInv'
  BY DEF FixInv, RefInv, AppInv, OutputInv
<1> QED
  BY <1>1, <1>2 DEF FixInv, OutputInv, SuccessMeansResolved, OutputSigned

(* The command fails before there is an output. *)
LEMMA FailsEarly ==
  ASSUME FixInv, pc \notin {"ok", "failed"}, pc' = "failed",
         UNCHANGED <<cmd, app, report, todo, placed, files, staged>>,
         search' = search \/ search' = Idle
  PROVE  FixInv'
<1>1. TypeOK'
  BY DEF FixInv, TypeOK, Idle
<1>2. RefInv' /\ AppInv' /\ OutputInv'
  BY DEF FixInv, RefInv, AppInv, OutputInv
<1> QED
  BY <1>1, <1>2 DEF FixInv, OutputInv, SuccessMeansResolved, OutputSigned

(* What the first check reports are references of the app. *)
LEMMA ReportedRefs ==
  ASSUME NEW items, items \subseteq Items
  PROVE  \A m \in CheckReferences(items) : RefOk(m, items)
<1> SUFFICES ASSUME NEW m \in CheckReferences(items) PROVE RefOk(m, items)
  OBVIOUS
<1>1. \/ \E i \in items : m \in missingDeps(i, items)
      \/ \E i \in items : m \in suspected(i, items)
  BY DEF CheckReferences, executables, machoFiles
<1>2. ASSUME NEW i \in items, m \in missingDeps(i, items)
      PROVE  RefOk(m, items)
  <2>1. PICK d \in Holds[i.name].deps : d.name \notin Shims /\ m = Ref(i, d.via, d.name)
    BY <1>2 DEF missingDeps
  <2>2. d.via \in Vias /\ d.name \in DOMAIN Holds
    BY <2>1, HoldsAssumption DEF Items
  <2>3. m.via = d.via /\ m.name = d.name /\ m.from.dir = i.dir /\ m.from.name = i.name
    BY <2>1 DEF Ref
  <2>4. m.via # "dlopen"
    BY <2>2, <2>3 DEF Vias
  <2> QED
    BY <2>2, <2>3, <2>4 DEF RefOk
<1>3. ASSUME NEW i \in items, m \in suspected(i, items)
      PROVE  RefOk(m, items)
  <2>1. PICK n \in Holds[i.name].dlopens \ Shims : m = Ref(i, "dlopen", n)
    BY <1>3 DEF suspected
  <2>2. n \in DOMAIN Holds /\ Holds[n].kind = "framework"
    BY <2>1, HoldsAssumption DEF Items
  <2>3. m.via = "dlopen" /\ m.name = n /\ m.from.dir = i.dir /\ m.from.name = i.name
    BY <2>1 DEF Ref
  <2> QED
    BY <2>2, <2>3 DEF RefOk
<1> QED
  BY <1>1, <1>2, <1>3

(* The app is copied, then checked. *)
LEMMA StartInv == FixInv /\ Start => FixInv'
<1> SUFFICES ASSUME FixInv, Start PROVE FixInv'
  OBVIOUS
<1>1. CASE pc' = "failed" /\ app' = app
  BY <1>1, FailsEarly DEF Start
<1>2. CASE pc' = "check" /\ app' = cmd.app
  <2>1. TypeOK' /\ BundleOk(app')
    BY <1>2, CommandsAssumption DEF Start, FixInv, TypeOK
  <2>2. report = {} /\ placed = {} /\ files.output # "new"
    BY DEF Start, FixInv, RefInv, TypeOK, OutputInv
  <2> QED
    BY <1>2, <2>1, <2>2
    DEF Start, FixInv, RefInv, AppInv, OutputInv, SuccessMeansResolved, OutputSigned
<1> QED
  BY <1>1, <1>2 DEF Start, Go, Fail

LEMMA CheckInv == FixInv /\ Check => FixInv'
<1> SUFFICES ASSUME FixInv, Check PROVE FixInv'
  OBVIOUS
<1>1. /\ pc = "check" /\ report' = CheckReferences(app) /\ todo' = report'
      /\ pc' = IF report' = {} THEN "ok" ELSE "loop"
      /\ UNCHANGED <<cmd, app, search, staged, placed, files>>
      /\ app \subseteq Items /\ BundleOk(app)
      /\ placed = {} /\ app = cmd.app /\ files.output # "new"
  BY DEF Check, Go, FixInv, RefInv, AppInv, OutputInv, TypeOK
<1>2. \A m \in report' : RefOk(m, app)
  BY <1>1, ReportedRefs
<1>3. TypeOK'
  BY <1>1 DEF FixInv, TypeOK
<1>4. SuccessMeansResolved'
  BY <1>1 DEF SuccessMeansResolved
<1> QED
  BY <1>1, <1>2, <1>3, <1>4 DEF FixInv, RefInv, AppInv, OutputInv, OutputSigned

(* Something is placed for the reference that was found. *)
LEMMA PlaceInv == FixInv /\ Place => FixInv'
<1> SUFFICES ASSUME FixInv, Place PROVE FixInv'
  OBVIOUS
<1> DEFINE m == search.ref
<1>1. CASE pc' = "failed" /\ UNCHANGED <<app, placed>>
  BY <1>1, FailsEarly DEF Place
<1>2. CASE /\ app' = copyArtifact(FixTarget(m), m.name, search.found)
           /\ placed' = placed \cup {m} /\ pc' = "loop"
  <2>1. /\ m \in report /\ RefOk(m, app) /\ app \subseteq Items /\ BundleOk(app)
        /\ files.output # "new"
    BY DEF Place, FixInv, RefInv, AppInv, OutputInv, TypeOK
  <2>2. /\ app' \subseteq Items /\ BundleOk(app')
        /\ app \subseteq app' /\ Landed(m, app')
    BY <1>2, <2>1, CopyLands
  <2>3. \A r : (RefOk(r, app) => RefOk(r, app')) /\ (Landed(r, app) => Landed(r, app'))
    BY <2>2, NothingMoves
  <2>4. TypeOK'
    BY <1>2, <2>1, <2>2 DEF Place, FixInv, TypeOK, Idle
  <2>5. RefInv'
    BY <1>2, <2>3 DEF Place, FixInv, RefInv
  <2>6. AppInv'
    BY <1>2, <2>2, <2>3 DEF FixInv, AppInv
  <2> QED
    BY <1>2, <2>1, <2>4, <2>5, <2>6
    DEF Place, FixInv, OutputInv, SuccessMeansResolved, OutputSigned
<1> QED
  BY <1>1, <1>2 DEF Place, Go, Fail

LEMMA SignInv == FixInv /\ Sign => FixInv'
<1> SUFFICES ASSUME FixInv, Sign PROVE FixInv'
  OBVIOUS
<1>1. /\ pc = "sign" /\ pc' = "recheck" /\ app' = FakesignAll(app)
      /\ UNCHANGED <<cmd, report, todo, search, staged, placed, files>>
      /\ app \subseteq Items /\ BundleOk(app) /\ placed # {} /\ files.output # "new"
  BY DEF Sign, Go, FixInv, TypeOK, AppInv, OutputInv
<1>2. /\ app' \subseteq Items /\ BundleOk(app') /\ AllSigned(app')
      /\ \A i \in app : \E j \in app' : j.dir = i.dir /\ j.name = i.name
  BY <1>1, SigningKeeps
<1>3. \A r : (RefOk(r, app) => RefOk(r, app')) /\ (Landed(r, app) => Landed(r, app'))
  BY <1>2, NothingMoves
<1>4. TypeOK'
  BY <1>1, <1>2 DEF FixInv, TypeOK
<1>5. RefInv' /\ AppInv'
  BY <1>1, <1>2, <1>3 DEF FixInv, RefInv, AppInv
<1> QED
  BY <1>1, <1>2, <1>4, <1>5 DEF FixInv, OutputInv, SuccessMeansResolved, OutputSigned

(* The end of the loop, the second check and the output. *)
LEMMA OutcomeInv ==
  FixInv /\ (LoopEnds \/ Recheck \/ BeginOutput \/ EndOutput) => FixInv'
<1> SUFFICES ASSUME FixInv, LoopEnds \/ Recheck \/ BeginOutput \/ EndOutput
             PROVE  FixInv'
  OBVIOUS
<1>1. CASE LoopEnds
  <2>1. TypeOK'
    BY <1>1 DEF LoopEnds, Go, FixInv, TypeOK
  <2> QED
    BY <1>1, <2>1 DEF LoopEnds, Go, FixInv, RefInv, AppInv, OutputInv,
                      SuccessMeansResolved, OutputSigned
<1>2. CASE Recheck
  <2>1. /\ pc = "recheck" /\ pc' = IF placed = {} THEN Result ELSE "write"
        /\ UNCHANGED <<cmd, app, report, todo, search, staged, placed, files>>
        /\ files.output # "new"
    BY <1>2 DEF Recheck, Go, FixInv, OutputInv
  <2>2. Result \in {"ok", "failed"} /\ (Result = "ok" => CheckReferences(app) = {})
    BY DEF Result, Remaining
  <2>3. TypeOK' /\ RefInv' /\ AppInv' /\ OutputInv'
    BY <2>1, <2>2 DEF FixInv, TypeOK, RefInv, AppInv, OutputInv
  <2>4. SuccessMeansResolved'
    BY <2>1, <2>2 DEF FixInv, AppInv, SuccessMeansResolved
  <2> QED
    BY <2>1, <2>3, <2>4 DEF FixInv, OutputSigned
<1>3. CASE BeginOutput
  <2>1. CASE pc' = "failed" /\ UNCHANGED files
    BY <1>3, <2>1, FailsEarly DEF BeginOutput
  <2>2. CASE pc' = "writing" /\ files' = Became("torn", "none")
    <3>1. files'.output = "torn" /\ files'.input \in {"old", "none", "torn", "new"}
      BY <2>2 DEF Became, FixInv, TypeOK
    <3>2. TypeOK'
      BY <1>3, <2>2, <3>1 DEF BeginOutput, Became, FixInv, TypeOK
    <3> QED
      BY <1>3, <2>2, <3>1, <3>2 DEF BeginOutput, FixInv, RefInv, AppInv, OutputInv,
                                    SuccessMeansResolved, OutputSigned
  <2> QED
    BY <1>3, <2>1, <2>2 DEF BeginOutput, Go, Fail
<1>4. CASE EndOutput
  <2>1. CASE pc' = "failed" /\ UNCHANGED files
    BY <1>4, <2>1, FailsEarly DEF EndOutput
  <2>2. CASE pc' = Result /\ files' = Became("new", files.input)
    <3>1. /\ files'.output = "new" /\ placed # {} /\ AllSigned(app)
          /\ pc' \in {"ok", "failed"} /\ (pc' = "ok" => CheckReferences(app) = {})
      BY <1>4, <2>2 DEF EndOutput, Became, FixInv, OutputInv, Result, Remaining
    <3>2. files' \in [input : {"old", "none", "torn", "new"},
                      output : {"old", "none", "torn", "new"}]
      BY <2>2 DEF Became, FixInv, TypeOK
    <3>3. TypeOK'
      BY <1>4, <3>1, <3>2 DEF EndOutput, FixInv, TypeOK
    <3> QED
      BY <1>4, <3>1, <3>3 DEF EndOutput, FixInv, RefInv, AppInv, OutputInv, AllSigned,
                              SuccessMeansResolved, OutputSigned
  <2> QED
    BY <1>4, <2>1, <2>2 DEF EndOutput, Go, Fail
<1> QED
  BY <1>1, <1>2, <1>3, <1>4

LEMMA SearchInv ==
  FixInv /\ ((\E m \in todo : Take(m)) \/ SearchDeb \/ SearchRepos
             \/ NotFound \/ Decline) => FixInv'
<1> SUFFICES ASSUME FixInv,
                    (\E m \in todo : Take(m)) \/ SearchDeb \/ SearchRepos
                      \/ NotFound \/ Decline
             PROVE  FixInv'
  OBVIOUS
<1>1. /\ todo \subseteq report
      /\ pc \in {"debs", "found"} => search.ref \in report
      /\ DOMAIN search = {"ref", "debs", "asked", "found"}
      /\ search.found \in {"nothing", "whole", "torn"}
      /\ \A n \in DOMAIN staged : staged[n] \in {"whole", "torn"}
  BY DEF FixInv, TypeOK, RefInv
<1>2. ASSUME NEW m \in todo, Take(m) PROVE FixInv'
  <2>1. /\ pc = "loop" /\ pc' \in {"loop", "debs", "found"} /\ todo' \subseteq todo
        /\ UNCHANGED <<cmd, app, report, placed, files, staged>>
    BY <1>2 DEF Take, Go
  <2>2. /\ pc' \in {"debs", "found"} => search'.ref \in report
        /\ DOMAIN search' = {"ref", "debs", "asked", "found"}
        /\ search'.found \in {"nothing", "whole", "torn"}
    BY <1>1, <1>2 DEF Take, Go
  <2> QED
    BY <1>1, <2>1, <2>2, SearchGoesOn
<1>3. CASE SearchDeb
  <2>1. \E debs, found :
          /\ search' = [[search EXCEPT !.debs = debs] EXCEPT !.found = found]
          /\ found \in {search.found, "whole"} \cup {staged[n] : n \in DOMAIN staged}
    <3>1. CASE NextDeb
      <4>1. search' = [[search EXCEPT !.debs = Tail(search.debs)] EXCEPT !.found = search.found]
        BY <1>1, <3>1 DEF NextDeb
      <4> QED
        BY <4>1
    <3>2. ASSUME NEW state \in {"whole"} \cup {staged[n] : n \in DOMAIN staged}, Hit(state)
          PROVE  \E debs, found :
                   /\ search' = [[search EXCEPT !.debs = debs] EXCEPT !.found = found]
                   /\ found \in {search.found, "whole"} \cup {staged[n] : n \in DOMAIN staged}
      <4>1. search' = [[search EXCEPT !.debs = search.debs] EXCEPT !.found = state]
        BY <1>1, <3>2 DEF Hit
      <4> QED
        BY <4>1
    <3> QED
      BY <1>3, <3>1, <3>2 DEF SearchDeb
  <2>2. /\ search'.ref = search.ref
        /\ DOMAIN search' = DOMAIN search
        /\ search'.found \in {search.found, "whole"} \cup {staged[n] : n \in DOMAIN staged}
    BY <1>1, <2>1
  <2>3. /\ pc = "debs" /\ pc' \in {"debs", "found"}
        /\ UNCHANGED <<cmd, app, report, todo, placed, files>>
    BY <1>3 DEF SearchDeb, Hit, NextDeb, Go
  <2>4. \A n \in DOMAIN staged' : staged'[n] \in {"whole", "torn"}
    BY <1>1, <1>3 DEF SearchDeb, StagedAs
  <2> QED
    BY <1>1, <2>2, <2>3, <2>4, SearchGoesOn
<1>4. CASE SearchRepos
  <2>1. PICK debs : search' = [[search EXCEPT !.asked = TRUE] EXCEPT !.debs = debs]
    BY <1>1, <1>4, Zenon DEF SearchRepos
  <2>2. /\ search'.ref = search.ref /\ search'.found = search.found
        /\ DOMAIN search' = DOMAIN search
    BY <1>1, <2>1
  <2>3. /\ pc = "debs" /\ pc' = "debs"
        /\ UNCHANGED <<cmd, app, report, todo, placed, files, staged>>
    BY <1>4 DEF SearchRepos
  <2> QED
    BY <1>1, <2>2, <2>3, SearchGoesOn
<1>5. CASE NotFound \/ Decline
  <2>1. /\ pc \in {"debs", "found"} /\ pc' = "loop" /\ search' = Idle
        /\ UNCHANGED <<cmd, app, report, todo, placed, files, staged>>
    BY <1>5 DEF NotFound, Decline, Go
  <2> QED
    BY <1>1, <2>1, SearchGoesOn DEF Idle
<1> QED
  BY <1>2, <1>3, <1>4, <1>5

LEMMA FixStep == FixInv /\ [Next]_vars => FixInv'
<1> SUFFICES ASSUME FixInv, [Next]_vars PROVE FixInv'
  OBVIOUS
<1>1. CASE UNCHANGED vars
  BY <1>1 DEF vars, FixInv, TypeOK, RefInv, AppInv, OutputInv,
              SuccessMeansResolved, OutputSigned
<1> QED
  BY <1>1, StartInv, CheckInv, SearchInv, PlaceInv, SignInv, OutcomeInv DEF Next

THEOREM FixInvAlways == Spec => []FixInv
  BY FixInit, FixStep, PTL DEF Spec

(* The types, with the items placed in the app. *)
THEOREM TypeCorrect == Spec => []TypeOK
<1>1. FixInv => TypeOK
  BY DEF FixInv
<1> QED
  BY <1>1, FixInvAlways, PTL

(* FixTarget (check.go 182-202) and the check (124-173) agree on every    *)
(* reference something was placed for, inside an extension as well.       *)
THEOREM FixLandsAlways == Spec => []FixLandsWhereChecked
<1>1. FixInv => FixLandsWhereChecked
  <2> SUFFICES ASSUME FixInv, NEW m \in placed PROVE m \notin CheckReferences(app)
    BY DEF FixLandsWhereChecked
  <2> QED
    BY LandedIsResolved DEF FixInv, TypeOK, RefInv, AppInv
<1> QED
  BY <1>1, FixInvAlways, PTL

(* CheckAndFix (checkfix.go 37-147) returns success only for an app       *)
(* whose references all resolve, the ones of placed artifacts included.   *)
THEOREM SuccessMeansResolvedAlways == Spec => []SuccessMeansResolved
<1>1. FixInv => SuccessMeansResolved
  BY DEF FixInv
<1> QED
  BY <1>1, FixInvAlways, PTL

(* The fixed copy is signed as far as it can be (checkfix.go 119-124).    *)
THEOREM OutputSignedAlways == Spec => []OutputSigned
<1>1. FixInv => OutputSigned
  BY DEF FixInv
<1> QED
  BY <1>1, FixInvAlways, PTL

-----------------------------------------------------------------------------
(***************************************************************************)
(* The package converters: entitlements.  Every file of every tree, the    *)
(* mirror's copies among them, still has what the file it stands for came  *)
(* with; the invariant is the property, at every step and at every place.  *)
(***************************************************************************)

(* An edited binary is the same file, and carries its entitlements over. *)
Carried(f, g) ==
  /\ IsFile(g) /\ g.who = f.who /\ g.kind = f.kind
  /\ f.kind = "exec" /\ f.sig = "good" => g.sig = "good" /\ f.ents \subseteq g.ents
  /\ f.kind = "dylib" => g.ents \subseteq f.ents

(* What a file has kept of the one it was in the first package. *)
Kept(f) ==
  /\ IsFile(f)
  /\ \A p \in Files(first.tree) : LET o == first.tree[p] IN
        f.who = o.who => Carried(o, f)

AllKept(t) == \A q \in Files(t) : Kept(t[q])

KeptInv ==
  /\ first \in Packages
  /\ AllKept(tree) /\ AllKept(out.tree) /\ AllKept(given.tree)
  /\ chain \in Seq(Range(chain)) /\ (status = "busy" => chain # <<>>)
  /\ \A i \in DOMAIN chain : AllKept(chain[i].extra)

(* Edits in a row: what each carries over, all of them do. *)
LEMMA CarriedOn ==
  ASSUME NEW f, NEW g, Kept(f), Carried(f, g)
  PROVE  Kept(g)
<1> SUFFICES ASSUME NEW p \in Files(first.tree), g.who = first.tree[p].who
             PROVE  Carried(first.tree[p], g)
  BY DEF Kept, Carried
<1>1. Carried(first.tree[p], f)
  BY DEF Kept, Carried
<1> QED
  BY <1>1 DEF Carried

(* The load commands and strings of a file, however they are rewritten, are  *)
(* not what it is.                                                           *)
SameBut(f, g) ==
  /\ IsFile(g) /\ g.who = f.who /\ g.kind = f.kind /\ g.sig = f.sig /\ g.ents = f.ents

(* An added rpath is one of those rewrites. *)
LEMMA RpathAdded ==
  ASSUME NEW f, NEW g, SameBut(f, g), NEW r
  PROVE  SameBut(f, AddRpath(g, r))
  BY DEF SameBut, IsFile, AddRpath

(* RemoveSignature takes the entitlements with the signature ... *)
LEMMA SignatureRemoved ==
  ASSUME NEW f, IsFile(f)
  PROVE  LET g == RemoveSignature(f) IN
         IsFile(g) /\ g.who = f.who /\ g.kind = f.kind /\ g.sig = "none" /\ g.ents = {}
  BY DEF RemoveSignature, IsFile

(* ... and SignWithEntitlements writes those it is given. *)
LEMMA SignedAgain ==
  ASSUME NEW f, IsFile(f), NEW ents
  PROVE  LET g == SignWithEntitlements(f, ents) IN
         /\ IsFile(g) /\ g.who = f.who /\ g.kind = f.kind /\ g.sig = "good"
         /\ g.ents = IF ents = {} THEN ExtractEntitlements(f) ELSE ents
  BY DEF SignWithEntitlements, IsFile

(* Stripped, edited and signed with what it had, with or without the *)
(* platform's entitlements.                                          *)
LEMMA SignedWithItsOwn ==
  ASSUME NEW f, IsFile(f), NEW g, SameBut(RemoveSignature(f), g)
  PROVE  Carried(f, SignWithEntitlements(g, ExtractEntitlements(f)))
  BY SignatureRemoved, SignedAgain DEF SameBut, Carried, ExtractEntitlements

(* The same for the edits that merge the platform entitlements in. *)
LEMMA SignedForThePlatform ==
  ASSUME NEW f, IsFile(f), NEW g,
         SameBut(RemoveSignature(f), g)
  PROVE  Carried(f, signMachOWithPlatformEnts(g, ExtractEntitlements(f)))
<1>1. /\ IsFile(g) /\ g.who = f.who /\ g.kind = f.kind /\ g.sig = "none" /\ g.ents = {}
  BY SignatureRemoved DEF SameBut
<1> DEFINE ents == IF g.kind = "exec" THEN mergedPlatformEntitlements(g, ExtractEntitlements(f)) ELSE {}
<1>2. f.kind = "exec" => ents = {PLATFORM} \cup ExtractEntitlements(f)
  BY <1>1 DEF mergedPlatformEntitlements, ExtractEntitlements
<1>3. f.kind = "dylib" => ents = {}
  BY <1>1
<1>4. signMachOWithPlatformEnts(g, ExtractEntitlements(f)) = SignWithEntitlements(g, ents)
  BY DEF signMachOWithPlatformEnts
<1> HIDE DEF ents
<1> QED
  BY <1>1, <1>2, <1>3, <1>4, SignedAgain DEF Carried, ExtractEntitlements

(* The rootless edit of a Mach-O file carries its entitlements over. *)
LEMMA RootlessCarries ==
  ASSUME NEW f, IsFile(f), NEW ti PROVE Carried(f, ConvertMachO(f, ti))
<1> DEFINE bare == RemoveSignature(f)
           edited == [bare EXCEPT !.deps = MapRefs(@, LAMBDA r : RootlessDep(r, ti)),
                                  !.id = IF @ = <<>> THEN @ ELSE RootlessId(@, ti),
                                  !.strs = MapRefs(@, RootlessString)]
           linked == IF ti THEN AddRpath(AddRpath(edited, Abs(<<"usr", "lib">>)), Abs(Jb \o <<"usr", "lib">>)) ELSE edited
<1>1. SameBut(bare, edited)
  BY SignatureRemoved DEF SameBut, IsFile
<1>2. SameBut(bare, linked)
  BY <1>1, RpathAdded
<1>3. ConvertMachO(f, ti) = signMachOWithPlatformEnts(linked, ExtractEntitlements(f))
  BY DEF ConvertMachO
<1> HIDE DEF linked
<1> QED
  BY <1>2, <1>3, SignedForThePlatform

(* Xina's edit does, bytes replaced after the load commands included. *)
LEMMA XinaCarries ==
  ASSUME NEW f, IsFile(f) PROVE Carried(f, patchMachOForXina(f))
<1> DEFINE bare == RemoveSignature(f)
           edited == [bare EXCEPT !.id = IF @ = <<>> THEN @ ELSE <<"@rpath", Last(@)>>,
                                  !.deps = MapRefs(@, XinaDep)]
           linked == AddRpath(AddRpath(edited, Abs(Jb \o <<"Library", "Frameworks">>)), Abs(Jb \o <<"usr", "lib">>))
           sedded == [linked EXCEPT !.deps = MapRefs(@, XinaBytes), !.rpaths = MapRefs(@, XinaBytes),
                                    !.strs = MapRefs(@, XinaBytes)]
<1>1. SameBut(bare, edited)
  BY SignatureRemoved DEF SameBut, IsFile
<1> HIDE DEF bare, edited
<1>2. SameBut(bare, linked)
  BY <1>1, RpathAdded
<1> HIDE DEF linked
<1>3. SameBut(bare, sedded)
  BY <1>2 DEF SameBut, IsFile
<1>4. patchMachOForXina(f) = SignWithEntitlements(sedded, ExtractEntitlements(f))
  BY DEF patchMachOForXina, bare, edited, linked
<1> HIDE DEF sedded
<1> QED
  BY <1>3, <1>4, SignedWithItsOwn DEF bare

(* The edit back to rootful does. *)
LEMMA RootfulCarries ==
  ASSUME NEW f, IsFile(f), NEW found PROVE Carried(f, patchMachOForRootful(f, found))
<1> DEFINE bytes(r) == applySeds(rootfulByteSeds, r)
           bare == RemoveSignature(f)
           edited == [bare EXCEPT
              !.deps = MapRefs(@, LAMBDA r : bytes(rootfulDependency(r, found))),
              !.id = IF @ = <<>> THEN @ ELSE bytes(rootfulDependency(@, found)),
              !.rpaths = MapRefs(SelectSeq(@, LAMBDA r : ~InJb(r)), bytes),
              !.strs = MapRefs(@, LAMBDA r : rootfulString(bytes(r)))]
<1>1. SameBut(bare, edited)
  BY SignatureRemoved DEF SameBut, IsFile
<1>2. patchMachOForRootful(f, found) = SignWithEntitlements(edited, ExtractEntitlements(f))
  BY DEF patchMachOForRootful
<1> HIDE DEF edited
<1> QED
  BY <1>1, <1>2, SignedWithItsOwn

(* roothide does not strip: the signature is replaced. *)
LEMMA RoothideCarries ==
  ASSUME NEW f, IsFile(f) PROVE Carried(f, patchMachOForRoothide(f))
<1> DEFINE edited == [f EXCEPT !.deps = MapRefs(@, jbrootReplace), !.rpaths = MapRefs(@, jbrootReplace)]
           ents == IF edited.kind = "exec" THEN mergedPlatformEntitlements(edited, {}) ELSE {}
<1>1. SameBut(f, edited)
  BY DEF SameBut, IsFile
<1>2. patchMachOForRoothide(f) = SignWithEntitlements(edited, ents)
  BY DEF patchMachOForRoothide, signMachOWithPlatformEnts
<1> HIDE DEF edited
<1>3. f.kind = "exec" => ents = {PLATFORM} \cup ExtractEntitlements(f)
  BY <1>1 DEF SameBut, mergedPlatformEntitlements, ExtractEntitlements
<1>4. f.kind = "dylib" => ents = {}
  BY <1>1 DEF SameBut
<1> HIDE DEF ents
<1> QED
  BY <1>1, <1>2, <1>3, <1>4, SignedAgain DEF SameBut, Carried, ExtractEntitlements

(* An edited text has no entitlements to lose. *)
LEMMA TextCarries ==
  ASSUME NEW f, IsFile(f), NEW strs PROVE Carried(f, [f EXCEPT !.strs = strs])
  BY DEF IsFile, Carried

(* A file that is left alone carries its own. *)
LEMMA CarriesItself ==
  ASSUME NEW f, IsFile(f) PROVE Carried(f, f)
  BY DEF Carried

-----------------------------------------------------------------------------
(* Trees. *)

(* A tree whose files are a kept tree's, wherever they are now. *)
LEMMA SameFiles ==
  ASSUME NEW t, NEW u, AllKept(t), \A q \in Files(u) : \E p \in Files(t) : u[q] = t[p]
  PROVE  AllKept(u)
  BY DEF AllKept

(* A tree whose files have been edited where they are. *)
LEMMA EditedFiles ==
  ASSUME NEW t, NEW u, AllKept(t), Files(u) = Files(t), \A q \in Files(t) : Carried(t[q], u[q])
  PROVE  AllKept(u)
  BY CarriedOn DEF AllKept

(* Whatever is moved, what is at a place was somewhere before. *)
LEMMA MovedFiles ==
  ASSUME NEW t, NEW moves, AllKept(t)
  PROVE  AllKept(Moved(t, moves))
<1> DEFINE u == Moved(t, moves)
           places == {NewPlace(moves, p) : p \in Files(t)}
           from(q) == {p \in Files(t) : NewPlace(moves, p) = q}
           gone(q) == {p \in from(q) : p # q}
           pick(q) == CHOOSE p \in from(q) : gone(q) # {} => p \in gone(q)
<1>1. u = [q \in places |-> t[pick(q)]]
  BY DEF Moved
<1>2. ASSUME NEW q \in places PROVE pick(q) \in Files(t)
  <2>1. from(q) # {} /\ gone(q) \subseteq from(q)
    OBVIOUS
  <2>2. \E p \in from(q) : gone(q) # {} => p \in gone(q)
    BY <2>1
  <2> QED
    BY <2>2
<1> HIDE DEF u, places, pick
<1>3. \A q \in Files(u) : pick(q) \in Files(t) /\ u[q] = t[pick(q)]
  BY <1>1, <1>2 DEF Files
<1> QED
  BY <1>3, SameFiles DEF u

-----------------------------------------------------------------------------
(* The steps of a conversion. *)

(* A package on disk has one file per name, so each is kept as it is. *)
LEMMA InitKept == ConvertInit => KeptInv
<1> SUFFICES ASSUME ConvertInit PROVE KeptInv
  OBVIOUS
<1>1. /\ first \in Packages /\ chain \in Chains /\ PackageOk(first) /\ ChainOk(chain)
      /\ tree = first.tree /\ out = first /\ given = first /\ status = "idle"
  BY PackagesAssumption, ChainsAssumption DEF ConvertInit
<1>2. AllKept(first.tree)
  <2> SUFFICES ASSUME NEW q \in Files(first.tree) PROVE Kept(first.tree[q])
    BY DEF AllKept
  <2>1. IsFile(first.tree[q])
    BY <1>1 DEF PackageOk, Files
  <2>2. \A p \in Files(first.tree) : first.tree[q].who = first.tree[p].who => p = q
    BY <1>1 DEF PackageOk, Files
  <2> QED
    BY <2>1, <2>2, CarriesItself DEF Kept
<1>3. \A i \in DOMAIN chain : AllKept(chain[i].extra)
  BY <1>1 DEF ChainOk, AllKept, Kept, Files
<1>4. chain \in Seq(Range(chain))
  BY <1>1 DEF ChainOk
<1> QED
  BY <1>1, <1>2, <1>3, <1>4 DEF KeptInv

(* A step that changes the scratch directory only. *)
LEMMA TreeStep ==
  ASSUME KeptInv, AllKept(tree'), UNCHANGED <<first, given, chain, out>>,
         status' = "busy" => status = "busy"
  PROVE  KeptInv'
  BY DEF KeptInv, AllKept, Kept

(* A step that moves files, or fails. *)
LEMMA RelocateStep ==
  ASSUME KeptInv, NEW moves, Relocate(moves)
  PROVE  KeptInv'
<1>1. /\ UNCHANGED <<first, given, chain, out>> /\ (status' = "busy" => status = "busy")
      /\ tree' = tree \/ tree' = Moved(tree, moves)
  BY DEF Relocate, Proceed, FailWith
<1>2. AllKept(tree')
  BY <1>1, MovedFiles DEF KeptInv
<1> QED
  BY <1>1, <1>2, TreeStep

(* The mirror holds copies. *)
LEMMA MirrorStep == KeptInv /\ MakePkgMirror => KeptInv'
<1> SUFFICES ASSUME KeptInv, MakePkgMirror PROVE KeptInv'
  OBVIOUS
<1> DEFINE copied == {p \in Files(tree) : Head(p) # "var"}
           place(p) == pkgmirror \o (IF Head(p) = "DEBIAN" THEN <<"DEBIAN." \o ctl.pkg>> \o Tail(p) ELSE p)
           source(q) == CHOOSE p \in copied : place(p) = q
<1>1. /\ tree' = [q \in Files(tree) \cup {place(p) : p \in copied} |->
                     IF q \in Files(tree) THEN tree[q] ELSE tree[source(q)]]
      /\ UNCHANGED <<first, given, chain, out, status>>
  BY DEF MakePkgMirror, Proceed
<1>2. copied \subseteq Files(tree)
  OBVIOUS
<1> HIDE DEF copied, place
<1>3. \A q \in {place(p) : p \in copied} : source(q) \in copied
  OBVIOUS
<1> HIDE DEF source
<1>4. \A q \in Files(tree') : \E p \in Files(tree) : tree'[q] = tree[p]
  BY <1>1, <1>2, <1>3 DEF Files
<1>5. AllKept(tree')
  BY <1>4, SameFiles DEF KeptInv
<1> QED
  BY <1>1, <1>5, TreeStep

(* What debify adds is none of the package's files. *)
LEMMA DebifyStep == KeptInv /\ Debify => KeptInv'
<1> SUFFICES ASSUME KeptInv, Debify PROVE KeptInv'
  OBVIOUS
<1> DEFINE single == given.layout = "dylib"
           one == CHOOSE q \in Files(tree) : TRUE
           payload == IF single THEN [p \in {OldTweakDir \o <<Last(q)>> : q \in Files(tree)} |-> tree[one]]
                      ELSE tree
           extra == Job.extra
<1>1. /\ tree' = CopiedOver(payload, extra) /\ status = "busy"
      /\ UNCHANGED <<first, given, chain, out, status>>
  BY DEF Debify, Proceed, At
<1>2. AllKept(extra)
  <2>1. chain \in Seq(Range(chain)) /\ chain # <<>>
    BY <1>1 DEF KeptInv
  <2>2. 1 \in DOMAIN chain /\ Head(chain) = chain[1]
    BY <2>1
  <2> QED
    BY <2>2 DEF KeptInv, Job
<1>3. AllKept(payload)
  <2>1. CASE single
    <3>1. payload = [p \in {OldTweakDir \o <<Last(q)>> : q \in Files(tree)} |-> tree[one]]
      BY <2>1
    <3>2. \A q \in Files(payload) : one \in Files(tree) /\ payload[q] = tree[one]
      <4> HIDE DEF payload
      <4> SUFFICES ASSUME NEW q \in Files(payload) PROVE one \in Files(tree) /\ payload[q] = tree[one]
        OBVIOUS
      <4>1. Files(tree) # {}
        BY <3>1 DEF Files
      <4>2. one \in Files(tree)
        BY <4>1
      <4> QED
        BY <3>1, <4>2 DEF Files
    <3> HIDE DEF payload, one
    <3> QED
      BY <3>2, SameFiles DEF KeptInv
  <2>2. CASE ~single
    BY <2>2 DEF KeptInv
  <2> QED
    BY <2>1, <2>2
<1> HIDE DEF payload, extra
<1>4. AllKept(tree')
  <2>1. /\ Files(tree') = Files(extra) \cup Files(payload)
        /\ \A q \in Files(extra) : tree'[q] = extra[q]
        /\ \A q \in Files(payload) \ Files(extra) : tree'[q] = payload[q]
    BY <1>1 DEF CopiedOver, Files
  <2> QED
    BY <1>2, <1>3, <2>1 DEF AllKept
<1> QED
  BY <1>1, <1>4, TreeStep

(* A step that edits files where they are. *)
LEMMA EditStep ==
  ASSUME KeptInv, Files(tree') = Files(tree), \A q \in Files(tree) : Carried(tree[q], tree'[q]),
         UNCHANGED <<first, given, chain, out, status>>
  PROVE  KeptInv'
<1>1. AllKept(tree')
  BY EditedFiles DEF KeptInv
<1> QED
  BY <1>1, TreeStep

(* What lies in the tree are files, of every kind. *)
LEMMA FilesAreFiles == KeptInv => \A q \in Files(tree) : IsFile(tree[q])
  BY DEF KeptInv, AllKept, Kept

(* convertMachOs edits the files under /var/jb, where they are. *)
LEMMA ConvertMachOsStep == KeptInv /\ ConvertMachOs => KeptInv'
<1> SUFFICES ASSUME KeptInv, ConvertMachOs PROVE KeptInv'
  OBVIOUS
<1> DEFINE places == {p \in Under(tree, Jb) : MachO(tree[p])}
           ti == Job.ti
<1>1. /\ tree' = [p \in Files(tree) |-> IF p \in places THEN ConvertMachO(tree[p], ti) ELSE tree[p]]
      /\ UNCHANGED <<first, given, chain, out, status>>
  BY DEF ConvertMachOs, Proceed, Edit
<1> HIDE DEF places, ti
<1>2. Files(tree') = Files(tree)
  BY <1>1 DEF Files
<1>3. \A q \in Files(tree) : Carried(tree[q], tree'[q])
  BY <1>1, FilesAreFiles, RootlessCarries, CarriesItself
<1> QED
  BY <1>1, <1>2, <1>3, EditStep

(* convertScripts changes the text of the scripts. *)
LEMMA ConvertScriptsStep == KeptInv /\ ConvertScripts => KeptInv'
<1> SUFFICES ASSUME KeptInv, ConvertScripts PROVE KeptInv'
  OBVIOUS
<1> DEFINE places == {p \in Files(tree) : tree[p].kind = "script"}
           patched(f) == [f EXCEPT !.strs = patchScriptForRootless(@)]
<1>1. /\ tree' = [p \in Files(tree) |-> IF p \in places THEN patched(tree[p]) ELSE tree[p]]
      /\ UNCHANGED <<first, given, chain, out, status>>
  BY DEF ConvertScripts, Proceed, Edit
<1>2. \A f : IsFile(f) => Carried(f, patched(f))
  BY TextCarries
<1> HIDE DEF places, patched
<1>3. Files(tree') = Files(tree)
  BY <1>1 DEF Files
<1>4. \A q \in Files(tree) : Carried(tree[q], tree'[q])
  BY <1>1, <1>2, FilesAreFiles, CarriesItself
<1> QED
  BY <1>1, <1>3, <1>4, EditStep

(* The Mach-O files first, then the text files of the same tree. *)
LEMMA PatchedText ==
  ASSUME NEW t, NEW u, NEW rules, Files(u) = Files(t),
         \A q \in Files(t) : IsFile(t[q]) /\ Carried(t[q], u[q])
  PROVE  LET w == PatchText(u, rules) IN
         Files(w) = Files(t) /\ \A q \in Files(t) : Carried(t[q], w[q])
<1> DEFINE places == {p \in Files(u) : u[p].kind = "plist" \/ (Head(p) = "DEBIAN" /\ Last(p) \in xinaControlScriptNames)}
           w == PatchText(u, rules)
<1>1. w = [p \in Files(u) |-> IF p \in places THEN TextWith(rules, u[p]) ELSE u[p]]
  BY DEF PatchText, Edit
<1> HIDE DEF places, w
<1>2. \A f : IsFile(f) => Carried(f, TextWith(rules, f))
  BY TextCarries DEF TextWith
<1>3. Files(w) = Files(t)
  BY <1>1 DEF Files
<1>4. ASSUME NEW q \in Files(t) PROVE Carried(t[q], w[q])
  <2>1. Carried(t[q], u[q]) /\ IsFile(u[q])
    BY DEF Carried
  <2>2. w[q] = u[q] \/ w[q] = TextWith(rules, u[q])
    BY <1>1
  <2>3. Carried(u[q], w[q])
    BY <1>2, <2>1, <2>2, CarriesItself
  <2> QED
    BY <2>1, <2>3 DEF Carried
<1> QED
  BY <1>3, <1>4 DEF w

(* patchPayloadForXina edits all of the tree, the mirror included. *)
LEMMA PatchXinaStep == KeptInv /\ PatchPayloadForXina => KeptInv'
<1> SUFFICES ASSUME KeptInv, PatchPayloadForXina PROVE KeptInv'
  OBVIOUS
<1> DEFINE places == {p \in Files(tree) : MachO(tree[p])}
           u == [p \in Files(tree) |-> IF p \in places THEN patchMachOForXina(tree[p]) ELSE tree[p]]
<1>1. tree' = PatchText(u, xinaTextSeds) /\ UNCHANGED <<first, given, chain, out, status>>
  BY DEF PatchPayloadForXina, Proceed, Edit
<1> HIDE DEF places
<1>2. Files(u) = Files(tree) /\ \A q \in Files(tree) : IsFile(tree[q]) /\ Carried(tree[q], u[q])
  BY FilesAreFiles, XinaCarries, CarriesItself DEF Files
<1> HIDE DEF u
<1> QED
  BY <1>1, <1>2, PatchedText, EditStep

(* patchPayloadForRootful edits all of the tree. *)
LEMMA PatchRootfulStep == KeptInv /\ PatchPayloadForRootful => KeptInv'
<1> SUFFICES ASSUME KeptInv, PatchPayloadForRootful PROVE KeptInv'
  OBVIOUS
<1> DEFINE places == {p \in Files(tree) : MachO(tree[p])}
           u(found) == [p \in Files(tree) |-> IF p \in places THEN patchMachOForRootful(tree[p], found) ELSE tree[p]]
<1>1. /\ \E found : tree' = PatchText(u(found), rootfulTextSeds)
      /\ UNCHANGED <<first, given, chain, out, status>>
  BY DEF PatchPayloadForRootful, Proceed, Edit
<1>2. PICK found : tree' = PatchText(u(found), rootfulTextSeds)
  BY <1>1
<1> HIDE DEF places
<1>3. Files(u(found)) = Files(tree)
      /\ \A q \in Files(tree) : IsFile(tree[q]) /\ Carried(tree[q], u(found)[q])
  BY FilesAreFiles, RootfulCarries, CarriesItself DEF Files
<1> HIDE DEF u
<1> QED
  BY <1>1, <1>2, <1>3, PatchedText, EditStep

(* A link is nobody's file. *)
LEMMA PatchRoothideStep == KeptInv /\ PatchPayloadForRoothide => KeptInv'
<1> SUFFICES ASSUME KeptInv, PatchPayloadForRoothide PROVE KeptInv'
  OBVIOUS
<1> DEFINE patched == RoothidePatched(tree)
           machos == {p \in patched : MachO(tree[p])}
           daemons == {p \in patched : tree[p].kind = "plist" /\ \E i \in 1..Len(p) - 2 : SubSeq(p, i, i + 1) = <<"Library", "LaunchDaemons">>}
           texts == {p \in patched \ daemons :
                    \/ tree[p].kind = "script" /\ Last(p) \in {"preinst", "prerm", "postinst", "postrm", "extrainst_"}
                    \/ tree[p].kind = "plist" /\ \E i \in 1..Len(p) - 2 : SubSeq(p, i, i + 1) = <<"Library", "libSandy">>}
           links == IF Job.mode = "auto" THEN {Sibling(p) : p \in machos} ELSE {}
           edited(p) == IF p \in machos THEN patchMachOForRoothide(tree[p])
                        ELSE IF p \in daemons THEN [tree[p] EXCEPT !.strs = MapRefs(@, LaunchDaemonPlist)]
                        ELSE IF p \in texts THEN [tree[p] EXCEPT !.strs = MapRefs(@, patchScriptPaths)]
                        ELSE tree[p]
<1>1. \/ UNCHANGED tree
      \/ tree' = [p \in Files(tree) \cup links |-> IF p \in links THEN Link ELSE edited(p)]
  BY DEF PatchPayloadForRoothide, FailWith
<1>2. UNCHANGED <<first, given, chain, out>> /\ (status' = "busy" => status = "busy")
  BY DEF PatchPayloadForRoothide, FailWith, Proceed
<1>3. ASSUME NEW p \in Files(tree) PROVE Carried(tree[p], edited(p))
  <2>1. IsFile(tree[p])
    BY FilesAreFiles
  <2> HIDE DEF machos, daemons, texts
  <2>2. CASE p \in machos
    BY <2>1, <2>2, RoothideCarries
  <2>3. CASE p \notin machos /\ p \in daemons
    BY <2>1, <2>3, TextCarries
  <2>4. CASE p \notin machos /\ p \notin daemons /\ p \in texts
    BY <2>1, <2>4, TextCarries
  <2>5. CASE p \notin machos /\ p \notin daemons /\ p \notin texts
    BY <2>1, <2>5, CarriesItself
  <2> QED
    BY <2>2, <2>3, <2>4, <2>5
<1> HIDE DEF edited, links
<1>4. ASSUME NEW p \in Files(tree) PROVE Kept(edited(p))
  BY <1>3, CarriedOn DEF KeptInv, AllKept
<1>5. Kept(Link)
  <2>1. IsFile(Link) /\ Link.who = AutoPatches
    BY DEF IsFile, Link
  <2>2. \A p \in Files(first.tree) : first.tree[p].who # AutoPatches
    BY PackagesAssumption DEF KeptInv, PackageOk, Files
  <2> QED
    BY <2>1, <2>2 DEF Kept
<1>6. AllKept(tree')
  <2>1. CASE UNCHANGED tree
    BY <2>1 DEF KeptInv
  <2>2. CASE tree' = [p \in Files(tree) \cup links |-> IF p \in links THEN Link ELSE edited(p)]
    BY <1>4, <1>5, <2>2 DEF AllKept, Files
  <2> QED
    BY <1>1, <2>1, <2>2
<1> QED
  BY <1>2, <1>6, TreeStep

(* A job that begins has the package it was handed in the scratch directory. *)
LEMMA UnpackStep == KeptInv /\ Unpack => KeptInv'
<1> SUFFICES ASSUME KeptInv, Unpack PROVE KeptInv'
  OBVIOUS
<1>1. /\ UNCHANGED <<first, chain, out>> /\ chain # <<>>
      /\ given' \in {given, out} /\ tree' = given'.tree
  BY DEF Unpack
<1>2. AllKept(tree') /\ AllKept(given'.tree)
  BY <1>1 DEF KeptInv
<1> QED
  BY <1>1, <1>2 DEF KeptInv, AllKept, Kept

(* A package that is built is the scratch directory, and its job is done. *)
LEMMA BuildStep == KeptInv /\ Build => KeptInv'
<1> SUFFICES ASSUME KeptInv, Build PROVE KeptInv'
  OBVIOUS
<1>1. /\ UNCHANGED <<first, given, tree>> /\ chain # <<>> /\ chain' = Tail(chain)
      /\ out'.tree = tree /\ status' = "written"
  BY DEF Build, At, KeptInv
<1>2. /\ chain' \in Seq(Range(chain'))
      /\ \A i \in DOMAIN chain' : \E j \in DOMAIN chain : chain'[i] = chain[j]
  <2> DEFINE X == Range(chain)
             t == Tail(chain)
  <2>1. chain \in Seq(X) /\ chain # <<>>
    BY <1>1 DEF KeptInv
  <2> HIDE DEF X
  <2>2. t \in Seq(X) /\ DOMAIN t = 1..Len(t) /\ Len(t) \in Nat
        /\ \A i \in DOMAIN t : t[i] = chain[i + 1] /\ i + 1 \in DOMAIN chain
    BY <2>1
  <2> HIDE DEF t
  <2>3. t = [i \in 1..Len(t) |-> t[i]] /\ \A i \in 1..Len(t) : t[i] \in Range(t)
    BY <2>2 DEF Range
  <2>4. t \in Seq(Range(t))
    BY <2>2, <2>3
  <2> QED
    BY <1>1, <2>2, <2>4 DEF t
<1>3. \A i \in DOMAIN chain' : AllKept(chain'[i].extra)
  BY <1>2 DEF KeptInv
<1> QED
  BY <1>1, <1>2, <1>3 DEF KeptInv, AllKept, Kept

(* Every step of every conversion keeps the invariant. *)
LEMMA NextKept == KeptInv /\ [ConvertNext]_convertVars => KeptInv'
<1> SUFFICES ASSUME KeptInv, [ConvertNext]_convertVars PROVE KeptInv'
  OBVIOUS
<1>1. CASE Unpack
  BY <1>1, UnpackStep
<1>2. CASE Refuse \/ StepFails \/ CheckRootlessArch \/ EditControl
           \/ WarnFixedPaths \/ WarnRoothideFixedPaths \/ UNCHANGED convertVars
  <2>1. UNCHANGED <<tree, first, given, chain, out>> /\ (status' = "busy" => status = "busy")
    BY <1>2 DEF Refuse, FailWith, StepFails, CheckRootlessArch, EditControl, WarnFixedPaths,
                WarnRoothideFixedPaths, Proceed, convertVars
  <2>2. AllKept(tree')
    BY <2>1 DEF KeptInv
  <2> QED
    BY <2>1, <2>2, TreeStep
<1>3. CASE RepackRootless
  <2>1. CASE IsDir(tree, Jb) \/ IsDir(tree, <<"var">>)
    <3>1. UNCHANGED <<tree, first, given, chain, out>> /\ (status' = "busy" => status = "busy")
      BY <1>3, <2>1 DEF RepackRootless, Proceed, FailWith
    <3>2. AllKept(tree')
      BY <3>1 DEF KeptInv
    <3> QED
      BY <3>1, <3>2, TreeStep
  <2>2. CASE ~IsDir(tree, Jb) /\ ~IsDir(tree, <<"var">>)
    BY <1>3, <2>2, RelocateStep DEF RepackRootless
  <2> QED
    BY <2>1, <2>2
<1>4. CASE ApplyTweakInjectLayout \/ HoistRootlessPayload
  BY <1>4, RelocateStep DEF ApplyTweakInjectLayout, HoistRootlessPayload
<1>5. CASE HoistRootless
  <2>1. UNCHANGED <<first, given, chain, out>> /\ (status' = "busy" => status = "busy")
    BY <1>5 DEF HoistRootless, Proceed, FailWith
  <2>2. tree' = tree \/ \E m1, m2, m3, m4 : tree' = Moved(Moved(Moved(Moved(tree, m1), m2), m3), m4)
    BY <1>5 DEF HoistRootless, FailWith
  <2>3. AllKept(tree')
    BY <2>2, MovedFiles DEF KeptInv
  <2> QED
    BY <2>1, <2>3, TreeStep
<1>6. CASE RemoveDSStore
  <2>1. /\ UNCHANGED <<first, given, chain, out, status>>
        /\ tree' = [p \in {q \in Files(tree) : Last(q) # ".DS_Store"} |-> tree[p]]
    BY <1>6 DEF RemoveDSStore, Proceed
  <2>2. \A q \in Files(tree') : \E p \in Files(tree) : tree'[q] = tree[p]
    BY <2>1 DEF Files
  <2>3. AllKept(tree')
    BY <2>2, SameFiles DEF KeptInv
  <2> QED
    BY <2>1, <2>3, TreeStep
<1> QED
  BY <1>1, <1>2, <1>3, <1>4, <1>5, <1>6, MirrorStep, DebifyStep, ConvertMachOsStep,
     ConvertScriptsStep, PatchXinaStep, PatchRootfulStep, PatchRoothideStep, BuildStep
  DEF ConvertNext

(* Every tree of every chain of conversions has it. *)
THEOREM KeptInvAlways == ConvertSpec => []KeptInv
  BY InitKept, NextKept, PTL DEF ConvertSpec

(* Through any chain of conversions an executable keeps the entitlements it *)
(* came with, and no library gets any (rootless.go 508-515, roothide.go     *)
(* 594-643): every converter strips the signature before it edits.          *)
THEOREM EntitlementsKeptAlways == ConvertSpec => []EntitlementsKept
<1>1. KeptInv => EntitlementsKept
  <2> SUFFICES ASSUME KeptInv, NEW p \in Binaries(first)
               PROVE  LET f == first.tree[p] IN
                      /\ f.kind = "exec" /\ f.sig = "good" => f.ents \subseteq Now(f).ents
                      /\ f.kind = "dylib" => Now(f).ents \subseteq f.ents
    BY DEF EntitlementsKept
  <2> DEFINE f == first.tree[p]
             h == Home(out, f.who)
  <2>1. p \in Files(first.tree) /\ \E q \in Files(out.tree) : out.tree[q].who = f.who /\ ~InMirror(q)
    BY DEF Binaries
  <2>2. h \in Files(out.tree) /\ out.tree[h].who = f.who
    BY <2>1 DEF Home
  <2>3. Carried(f, out.tree[h])
    BY <2>1, <2>2 DEF KeptInv, AllKept, Kept
  <2> QED
    BY <2>3 DEF Carried, Now
<1> QED
  BY <1>1, KeptInvAlways, PTL
=============================================================================
