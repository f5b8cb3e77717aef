----------------------------- MODULE FetchProofs -----------------------------
(***************************************************************************)
(* For any packages, repositories and requests, and whatever fails: what a *)
(* run returns is closed under dependencies, and a file of a known hash is *)
(* that file.                                                              *)
(***************************************************************************)
EXTENDS Fetch, FiniteSetTheorems, SequenceTheorems, WellFoundedInduction, TLAPS

Running == pc \notin {"idle", "ended"}

(* An id has been begun and its file is not resolved yet. *)
Begun == {"sources", "canister", "pin", "repo", "index", "sweep", "cached",
          "download", "write"}

(* Where something has been found for it. *)
Known == {"pin", "repo", "index", "cached", "download", "write"}

(* The innermost frame is of the one id that is begun and not resolved. *)
WalkInv ==
  /\ pc = "next" => stack = <<>>
  /\ pc \in Begun \cup {"depends"} => stack # <<>>
  /\ pc \in Known => found # <<>>
  /\ OutIds \subseteq visited
  /\ pc \in {"next", "depends"} => visited = OutIds
  /\ pc \in Begun => /\ visited = OutIds \cup {Top.id} /\ Top.id \notin OutIds
                     /\ Top.groups = <<>>

(* What is being written has the hash it is asked to have. *)
FileInv ==
  /\ HashedIsRight
  /\ pc = "write" => \E f \in Under(CacheName) :
                       /\ f.ver = Head(found).of
                       /\ Head(found).sha => f.build = Head(found).build

(* A dependency is met by an id that has been begun, or a frame still has  *)
(* to look at it.                                                          *)
Waits(group) == \E k \in DOMAIN stack : \E j \in DOMAIN stack[k].groups :
                  stack[k].groups[j] = group

Followed(group) == MetBy(group, visited) \/ Waits(group)

ClosedInv ==
  /\ Running => result = "none"
  /\ Running => \A i \in DOMAIN request.ids :
       \/ request.ids[i] \in visited
       \/ \E j \in DOMAIN todo : todo[j] = request.ids[i]
  /\ Running /\ ~request.noRecurse =>
       \A i \in DOMAIN out : \A g \in DOMAIN out[i].from.depends :
         Followed(out[i].from.depends[g])
  /\ Closed

FetchInv == TypeOK /\ WalkInv /\ FileInv /\ ClosedInv
-----------------------------------------------------------------------------
(* Lemmas about what is looked up. *)

(* A finite strict order has a minimal element. *)
LEMMA Minimal ==
  ASSUME NEW S, IsFiniteSet(S), S # {}, NEW R,
         \A i \in S : <<i, i>> \notin R,
         \A i, j, k \in S : <<i, j>> \in R /\ <<j, k>> \in R => <<i, k>> \in R
  PROVE  \E i \in S : \A j \in S : <<j, i>> \notin R
<1> DEFINE Below(i) == {j \in S : <<j, i>> \in R}
           T == {Below(i) : i \in S}
           Smaller == StrictSubsetOrdering(S)
<1>1. IsWellFoundedOn(Smaller, SUBSET S)
  <2>1. FiniteSubsetsOf(S) = SUBSET S
    BY FS_FiniteSubsetsOfFinite, Zenon
  <2>2. IsWellFoundedOn(StrictSubsetOrdering(S), FiniteSubsetsOf(S))
    BY FS_StrictSubsetOrderingWellFounded, Zenon
  <2> QED
    BY <2>1, <2>2, Zenon
<1>2. T \subseteq SUBSET S /\ T # {}
  <2>1. \A i \in S : Below(i) \in SUBSET S /\ Below(i) \in T
    OBVIOUS
  <2>2. ASSUME NEW x \in T PROVE x \in SUBSET S
    <3>1. PICK i \in S : x = Below(i)
      BY <2>2
    <3> HIDE DEF Below
    <3> QED
      BY <2>1, <3>1
  <2>3. T # {}
    BY <2>1
  <2> QED
    BY <2>2, <2>3
<1>3. PICK x \in T : \A y \in T : ~(<<y, x>> \in Smaller)
  <2> HIDE DEF T, Smaller
  <2> QED
    BY <1>1, <1>2, WFMin, Zenon
<1>4. PICK i \in S : x = Below(i)
  BY <1>3
<1>5. ASSUME NEW j \in S, <<j, i>> \in R PROVE FALSE
  <2>1. Below(j) \in T
    BY <1>5
  <2>2. /\ Below(j) \in SUBSET S /\ x \in SUBSET S
        /\ Below(j) \subseteq x
        /\ j \in x /\ j \notin Below(j)
    BY <1>4, <1>5
  <2>3. <<Below(j), x>> \in Smaller
    <3> HIDE DEF Below
    <3> QED
      BY <2>2 DEF StrictSubsetOrdering
  <2> QED
    BY <1>3, <2>1, <2>3
<1> QED
  BY <1>5

(* The first of some positions. *)
LEMMA FirstProperty ==
  ASSUME NEW n \in Nat, NEW S \in SUBSET (1..n), S # {}
  PROVE  FirstOf(S) \in S
<1> DEFINE R == {p \in (1..n) \X (1..n) : p[1] < p[2]}
<1>1. IsFiniteSet(S)
  <2>1. IsFiniteSet(1..n)
    BY FS_Interval
  <2> QED
    BY <2>1, FS_Subset
<1>2. \A i, j \in 1..n : <<i, j>> \in R <=> i < j
  OBVIOUS
<1>3. \E i \in S : \A j \in S : <<j, i>> \notin R
  <2>1. \A i \in S : <<i, i>> \notin R
    BY <1>2
  <2>2. \A i, j, k \in S : <<i, j>> \in R /\ <<j, k>> \in R => <<i, k>> \in R
    BY <1>2
  <2> HIDE DEF R
  <2> QED
    BY <1>1, <2>1, <2>2, Minimal
<1>4. \E i \in S : \A j \in S : i <= j
  <2>1. PICK i \in S : \A j \in S : <<j, i>> \notin R
    BY <1>3
  <2> HIDE DEF R
  <2>2. ASSUME NEW j \in S PROVE i <= j
    <3>1. i \in 1..n /\ j \in 1..n /\ <<j, i>> \notin R
      BY <2>1
    <3>2. ~(j < i)
      BY <1>2, <3>1
    <3> QED
      BY <3>1, <3>2
  <2> QED
    BY <2>2
<1> QED
  BY <1>4, Zenon DEF FirstOf

(* Canister's choice among the records of a package. *)
LEMMA BestProperty ==
  ASSUME NEW records \in Seq(Record), records # <<>>
  PROVE  Best(records) \in Record
<1> DEFINE Before(i, j) == \/ Better(records[i], records[j])
                           \/ ~Better(records[j], records[i]) /\ i < j
           R == {p \in (DOMAIN records) \X (DOMAIN records) :
                   \E i, j \in DOMAIN records : p = <<i, j>> /\ Before(i, j)}
<1>1. /\ DOMAIN records = 1..Len(records) /\ Len(records) \in Nat \ {0}
      /\ \A i \in DOMAIN records : /\ records[i] \in Record
                                   /\ records[i].latest \in BOOLEAN
                                   /\ records[i].quality \in Nat
  <2>1. DOMAIN records = 1..Len(records) /\ Len(records) \in Nat \ {0}
    BY EmptySeq
  <2>2. \A i \in DOMAIN records : records[i] \in Record
    OBVIOUS
  <2>3. \A r \in Record : r.latest \in BOOLEAN /\ r.quality \in Nat
    BY DEF Record
  <2> QED
    BY <2>1, <2>2, <2>3
<1>2. \A i, j \in DOMAIN records : <<i, j>> \in R <=> Before(i, j)
  <2>1. SUFFICES ASSUME NEW i \in DOMAIN records, NEW j \in DOMAIN records
                 PROVE  <<i, j>> \in R <=> Before(i, j)
    OBVIOUS
  <2> HIDE DEF Before
  <2>2. ASSUME Before(i, j) PROVE <<i, j>> \in R
    <3>1. <<i, j>> \in (DOMAIN records) \X (DOMAIN records)
      BY <2>1
    <3>2. \E k, l \in DOMAIN records : <<i, j>> = <<k, l>> /\ Before(k, l)
      BY <2>2, Zenon
    <3> QED
      BY <3>1, <3>2, Zenon
  <2>3. ASSUME <<i, j>> \in R PROVE Before(i, j)
    <3>1. PICK k \in DOMAIN records, l \in DOMAIN records : <<i, j>> = <<k, l>> /\ Before(k, l)
      BY <2>3, Zenon
    <3>2. i = k /\ j = l
      BY <3>1
    <3> QED
      BY <3>1, <3>2
  <2> QED
    BY <2>2, <2>3
<1>3. \A i \in DOMAIN records : <<i, i>> \notin R
  BY <1>1, <1>2 DEF Better
<1>4. ASSUME NEW i \in DOMAIN records, NEW j \in DOMAIN records, NEW k \in DOMAIN records,
             Before(i, j), Before(j, k)
      PROVE  Before(i, k)
  BY <1>1, <1>4 DEF Better
<1>5. \A i, j, k \in DOMAIN records : <<i, j>> \in R /\ <<j, k>> \in R => <<i, k>> \in R
  BY <1>2, <1>4
<1>6. IsFiniteSet(DOMAIN records) /\ DOMAIN records # {}
  <2>1. IsFiniteSet(1..Len(records)) /\ 1 \in 1..Len(records)
    BY <1>1, FS_Interval
  <2> QED
    BY <1>1, <2>1
<1>7. \E i \in DOMAIN records : \A j \in DOMAIN records : <<j, i>> \notin R
  <2> HIDE DEF R
  <2> QED
    BY <1>3, <1>5, <1>6, Minimal
<1>8. \E i \in DOMAIN records : \A j \in DOMAIN records :
        \/ Better(records[i], records[j])
        \/ ~Better(records[j], records[i]) /\ i <= j
  <2>1. PICK i \in DOMAIN records : \A j \in DOMAIN records : ~Before(j, i)
    BY <1>2, <1>7
  <2>2. ASSUME NEW j \in DOMAIN records
        PROVE  \/ Better(records[i], records[j])
               \/ ~Better(records[j], records[i]) /\ i <= j
    BY <1>1, <2>1
  <2> QED
    BY <2>2
<1> DEFINE b == CHOOSE i \in DOMAIN records : \A j \in DOMAIN records :
                  \/ Better(records[i], records[j])
                  \/ ~Better(records[j], records[i]) /\ i <= j
<1>9. b \in DOMAIN records
  BY <1>8, Zenon
<1>10. Best(records) = records[b]
  BY DEF Best
<1> HIDE DEF b
<1> QED
  BY <1>1, <1>9, <1>10

(* What a repository's index holds of a package. *)
LEMMA StanzaType ==
  ASSUME TypeOK, NEW repo \in Repos, NEW id, Lists(repo, id)
  PROVE  Stanza(repo, id) \in Located
<1> DEFINE index == world.index[repo]
           arm64 == {i \in Stanzas(repo, id) : index[i].arm64}
           S == IF arm64 # {} THEN arm64 ELSE Stanzas(repo, id)
<1>1. index \in Seq(Entry)
  BY FetchAssumption DEF TypeOK
<1>2. DOMAIN index = 1..Len(index) /\ Len(index) \in Nat
  BY <1>1
<1>3. S \in SUBSET (1..Len(index)) /\ S # {}
  BY <1>2 DEF Lists, Stanzas
<1>4. FirstOf(S) \in 1..Len(index)
  <2> HIDE DEF S
  <2> QED
    BY <1>2, <1>3, FirstProperty
<1>5. FindEntry(repo, id) = index[FirstOf(S)]
  BY DEF FindEntry
<1> HIDE DEF S
<1>6. FindEntry(repo, id) \in Entry
  BY <1>1, <1>4, <1>5
<1> QED
  BY <1>6 DEF Stanza, Entry, Located

(* Frames of the walk. *)
Frames == [id : Ids, groups : Groups]

LEMMA Pushed ==
  ASSUME NEW x \in Frames, NEW s \in Seq(Frames)
  PROVE  /\ Push(x, s) \in Seq(Frames) /\ Push(x, s) # <<>>
         /\ Head(Push(x, s)) = x
         /\ DOMAIN Push(x, s) = 1..(Len(s) + 1)
         /\ Push(x, s)[1] = x
         /\ \A k \in 1..Len(s) : Push(x, s)[k + 1] = s[k]
BY DEF Push

LEMMA GroupsTail ==
  ASSUME NEW g \in Groups, g # <<>>
  PROVE  /\ Head(g) \in Seq(Ids \cup Core) /\ Tail(g) \in Groups
         /\ \A j \in DOMAIN g : g[j] = Head(g) \/ \E i \in DOMAIN Tail(g) : Tail(g)[i] = g[j]
<1>1. /\ Head(g) \in Seq(Ids \cup Core) /\ Tail(g) \in Groups /\ Head(g) = g[1]
      /\ DOMAIN g = 1..Len(g) /\ Len(g) \in Nat
      /\ DOMAIN Tail(g) = 1..(Len(g) - 1)
      /\ \A i \in 1..(Len(g) - 1) : Tail(g)[i] = g[i + 1]
  BY DEF Groups
<1>2. ASSUME NEW j \in DOMAIN g, j # 1
      PROVE  \E i \in DOMAIN Tail(g) : Tail(g)[i] = g[j]
  <2>1. j - 1 \in 1..(Len(g) - 1) /\ (j - 1) + 1 = j
    BY <1>1, <1>2
  <2> QED
    BY <1>1, <2>1
<1> QED
  BY <1>1, <1>2

LEMMA LeftFrame ==
  ASSUME NEW x \in Frames, NEW g \in Groups
  PROVE  /\ [x EXCEPT !.groups = g] \in Frames
         /\ [x EXCEPT !.groups = g].id = x.id
         /\ [x EXCEPT !.groups = g].groups = g
BY DEF Frames
-----------------------------------------------------------------------------
(* Lemmas about the frames and what is resolved. *)

LEMMA Innermost ==
  ASSUME TypeOK, stack # <<>>
  PROVE  /\ Top \in Frames /\ Top.id \in Ids /\ Top.groups \in Groups
         /\ Tail(stack) \in Seq(Frames)
         /\ DOMAIN stack = 1..Len(stack) /\ Len(stack) \in Nat \ {0}
         /\ Len(Tail(stack)) = Len(stack) - 1 /\ stack[1] = Top
         /\ \A k \in 1..(Len(stack) - 1) : Tail(stack)[k] = stack[k + 1]
<1>1. stack \in Seq(Frames)
  BY DEF TypeOK, Frames
<1>2. Top = stack[1] /\ Top \in Frames
  BY <1>1 DEF Top
<1>3. Top.id \in Ids /\ Top.groups \in Groups
  BY <1>2 DEF Frames
<1> QED
  BY <1>1, <1>2, <1>3

LEMMA KnownFound ==
  ASSUME TypeOK, found # <<>>
  PROVE  /\ Head(found) \in Located
         /\ Head(found).repo \in Repos /\ Head(found).ver \in Versions
         /\ Head(found).of \in Versions
         /\ Head(found).build \in Builds /\ Head(found).depends \in Groups
<1>1. Head(found) \in Located
  BY DEF TypeOK
<1> QED
  BY <1>1 DEF Located

(* The innermost frame is left with other groups. *)
LEMMA Replaced ==
  ASSUME TypeOK, stack # <<>>, NEW g \in Groups
  PROVE  LET s == Push(Left(g), Tail(stack))
         IN  /\ s \in Seq(Frames) /\ s # <<>>
             /\ Left(g) \in Frames
             /\ Head(s).id = Top.id /\ Head(s).groups = g
             /\ DOMAIN s = DOMAIN stack /\ s[1].groups = g
             /\ \A k \in DOMAIN stack : k # 1 => s[k] = stack[k]
<1> DEFINE s == Push(Left(g), Tail(stack))
           n == Len(stack)
<1>1. Top \in Frames /\ Tail(stack) \in Seq(Frames)
  BY Innermost
<1>2. Left(g) \in Frames /\ Left(g).id = Top.id /\ Left(g).groups = g
  BY <1>1, LeftFrame DEF Left
<1>3. /\ s \in Seq(Frames) /\ s # <<>> /\ Head(s) = Left(g)
      /\ DOMAIN s = 1..(Len(Tail(stack)) + 1)
      /\ s[1] = Left(g)
      /\ \A k \in 1..Len(Tail(stack)) : s[k + 1] = Tail(stack)[k]
  BY <1>1, <1>2, Pushed
<1>4. /\ DOMAIN stack = 1..n /\ n \in Nat \ {0} /\ Len(Tail(stack)) = n - 1
      /\ \A k \in 1..(n - 1) : Tail(stack)[k] = stack[k + 1]
  BY Innermost
<1> HIDE DEF s, n
<1>5. ASSUME NEW k \in DOMAIN stack, k # 1 PROVE s[k] = stack[k]
  <2>1. k - 1 \in 1..(n - 1) /\ (k - 1) + 1 = k
    BY <1>4, <1>5
  <2>2. s[(k - 1) + 1] = Tail(stack)[k - 1]
    BY <1>3, <1>4, <2>1
  <2>3. Tail(stack)[k - 1] = stack[(k - 1) + 1]
    BY <1>4, <2>1
  <2> QED
    BY <2>1, <2>2, <2>3
<1>6. DOMAIN s = DOMAIN stack
  BY <1>3, <1>4
<1> QED
  BY <1>2, <1>3, <1>5, <1>6 DEF s

(* A package is resolved. *)
Out == [id : Ids, from : Located]

LEMMA OutGrows ==
  ASSUME TypeOK, stack # <<>>, found # <<>>,
         out' = Append(out, [id |-> Top.id, from |-> Head(found)])
  PROVE  /\ out' \in Seq([id : Ids, from : Located])
         /\ OutIds' = OutIds \cup {Top.id}
         /\ DOMAIN out' = DOMAIN out \cup {Len(out) + 1}
         /\ \A i \in DOMAIN out : i # Len(out) + 1 /\ out'[i] = out[i]
         /\ out'[Len(out) + 1] = [id |-> Top.id, from |-> Head(found)]
<1> DEFINE x == [id |-> Top.id, from |-> Head(found)]
<1>1. x \in Out /\ out \in Seq(Out)
  BY Innermost, KnownFound DEF TypeOK, Out
<1>2. x.id = Top.id
  OBVIOUS
<1> HIDE DEF x
<1>3. /\ out' \in Seq(Out)
      /\ DOMAIN out' = DOMAIN out \cup {Len(out) + 1}
      /\ \A i \in DOMAIN out : i # Len(out) + 1 /\ out'[i] = out[i]
      /\ out'[Len(out) + 1] = x
  BY <1>1 DEF x
<1>4. OutIds' = OutIds \cup {Top.id}
  BY <1>2, <1>3 DEF OutIds
<1> QED
  BY <1>3, <1>4 DEF x, Out

(* More ids meet more. *)
LEMMA MetByMore ==
  ASSUME NEW S, NEW T, S \subseteq T, NEW group, MetBy(group, S)
  PROVE  MetBy(group, T)
BY DEF MetBy

(* A name is of one id. *)
LEMMA NamesDiffer ==
  ASSUME NEW i, NEW j, i # j, NEW v, NEW w
  PROVE  Name(i, v) # Name(j, w)
BY DEF Name
-----------------------------------------------------------------------------
(* locate: every step of it looks further for the same id. *)

(* What one of them changes. *)
LocateStep ==
  /\ pc \in Begun \ {"write"} /\ pc' \in Begun \ {"write"}
  /\ UNCHANGED <<world, files, runs, request, walkVars, out, result>>
  /\ found' \in Seq(Located) /\ Len(found') <= 1
  /\ pc' \in Known => found' # <<>>
  /\ indexed' \in SUBSET Repos
  /\ scan' \in Nat \ {0}

LEMMA OneFound ==
  ASSUME NEW l \in Located
  PROVE  <<l>> \in Seq(Located) /\ Len(<<l>>) <= 1 /\ <<l>> # <<>>
OBVIOUS

LEMMA FoundKept ==
  ASSUME FetchInv, UNCHANGED found
  PROVE  /\ found' \in Seq(Located) /\ Len(found') <= 1
         /\ pc \in Known => found' # <<>>
BY DEF FetchInv, TypeOK, WalkInv

LEMMA LookUp ==
  ASSUME FetchInv, pc \in Begun, NEW repo \in Repos
  PROVE  /\ FoundIn(repo) => /\ found' \in Seq(Located) /\ Len(found') <= 1
                             /\ found' # <<>> /\ indexed' \in SUBSET Repos
         /\ NotFoundIn(repo) => UNCHANGED found /\ indexed' \in SUBSET Repos
<1>1. TypeOK /\ indexed \in SUBSET Repos
  BY DEF FetchInv, TypeOK
<1>2. ASSUME FoundIn(repo)
      PROVE  /\ found' \in Seq(Located) /\ Len(found') <= 1
             /\ found' # <<>> /\ indexed' \in SUBSET Repos
  <2>1. Lists(repo, Top.id) /\ found' = <<Stanza(repo, Top.id)>>
        /\ indexed' = indexed \cup {repo}
    BY <1>2 DEF FoundIn, HasIndex
  <2>2. Stanza(repo, Top.id) \in Located
    BY <1>1, <2>1, StanzaType
  <2>3. <<Stanza(repo, Top.id)>> \in Seq(Located) /\ Len(<<Stanza(repo, Top.id)>>) <= 1
        /\ <<Stanza(repo, Top.id)>> # <<>>
    BY <2>2, OneFound
  <2> QED
    BY <1>1, <2>1, <2>3
<1>3. ASSUME NotFoundIn(repo) PROVE UNCHANGED found /\ indexed' \in SUBSET Repos
  BY <1>1, <1>3 DEF NotFoundIn, HasIndex, NoIndex
<1> QED
  BY <1>2, <1>3

LEMMA Records ==
  ASSUME FetchInv, pc \in Begun
  PROVE  Free(Top.id) \in Seq(Record)
<1>1. Top.id \in Ids
  BY Innermost DEF FetchInv, WalkInv
<1>2. world.catalogue \in [Ids -> Seq(Record)]
  BY FetchAssumption DEF FetchInv, TypeOK
<1> QED
  BY <1>1, <1>2 DEF Free

LEMMA ListedType ==
  ASSUME NEW r \in Record
  PROVE  <<Listed(r)>> \in Seq(Located) /\ Len(<<Listed(r)>>) <= 1 /\ <<Listed(r)>> # <<>>
<1>1. Listed(r) \in Located
  BY DEF Listed, Located, Record, Groups
<1> QED
  BY <1>1, OneFound

LEMMA LocateSteps ==
  ASSUME FetchInv,
         \/ LookInSource \/ SourcesDone \/ CanisterKnows \/ CanisterFails
         \/ PinFound \/ RepoKnown \/ RepoIndex \/ Sweep \/ CacheMiss
  PROVE  LocateStep
<1> USE DEF Begun, Known, Locating, locateVars
<1>1. TypeOK /\ indexed \in SUBSET Repos /\ scan \in Nat \ {0} /\ scan + 1 \in Nat \ {0}
      /\ 1 \in Nat \ {0}
  BY DEF FetchInv, TypeOK
<1>2. pc \in Known => found # <<>>
  BY DEF FetchInv, WalkInv
<1>3. CASE LookInSource
  <2>1. Sources[scan] \in Repos
    BY <1>1, <1>3, FetchAssumption DEF LookInSource
  <2>2. CASE FoundIn(Sources[scan]) /\ pc' = "cached" /\ UNCHANGED scan
    BY <1>1, <1>3, <2>1, <2>2, LookUp DEF LookInSource, LocateStep
  <2>3. CASE NotFoundIn(Sources[scan]) /\ scan' = scan + 1 /\ UNCHANGED pc
    <3>1. UNCHANGED found /\ indexed' \in SUBSET Repos
      BY <1>3, <2>1, <2>3, LookUp DEF LookInSource
    <3> QED
      BY <1>1, <1>3, <2>3, <3>1, FoundKept DEF LookInSource, LocateStep
  <2> QED
    BY <1>3, <2>2, <2>3 DEF LookInSource
<1>4. CASE SourcesDone
  BY <1>1, <1>4, FoundKept DEF SourcesDone, LocateStep
<1>5. CASE CanisterKnows
  <2>1. Best(Free(Top.id)) \in Record
    BY <1>5, Records, BestProperty DEF CanisterKnows
  <2> DEFINE f == <<Listed(Best(Free(Top.id)))>>
  <2>2. f \in Seq(Located) /\ Len(f) <= 1 /\ f # <<>>
    BY <2>1, ListedType
  <2>3. found' = f
    BY <1>5 DEF CanisterKnows
  <2> HIDE DEF f
  <2>4. pc' \in {"repo", "pin"} /\ UNCHANGED <<indexed, scan>>
    BY <1>5 DEF CanisterKnows
  <2> QED
    BY <1>1, <1>5, <2>2, <2>3, <2>4 DEF CanisterKnows, LocateStep
<1>6. CASE CanisterFails
  BY <1>1, <1>6, FoundKept DEF CanisterFails, LocateStep
<1>7. CASE PinFound
  <2>1. Free(Top.id) \in Seq(Record)
    BY <1>7, Records DEF PinFound
  <2>2. OfPin \in SUBSET (1..Len(Free(Top.id))) /\ OfPin # {} /\ Len(Free(Top.id)) \in Nat
    BY <1>7, <2>1 DEF PinFound, OfPin
  <2>3. FirstOf(OfPin) \in 1..Len(Free(Top.id))
    BY <2>2, FirstProperty
  <2>4. Free(Top.id)[FirstOf(OfPin)] \in Record
    BY <2>1, <2>3
  <2> DEFINE f == <<Listed(Free(Top.id)[FirstOf(OfPin)])>>
  <2>5. f \in Seq(Located) /\ Len(f) <= 1 /\ f # <<>>
    BY <2>4, ListedType
  <2>6. found' = f
    BY <1>7 DEF PinFound
  <2> HIDE DEF f
  <2> QED
    BY <1>1, <1>7, <2>5, <2>6 DEF PinFound, LocateStep
<1>8. CASE RepoKnown
  BY <1>1, <1>8, FoundKept DEF RepoKnown, LocateStep
<1>9. CASE RepoIndex
  <2>1. Head(found).repo \in Repos
    BY <1>1, <1>2, <1>9, KnownFound DEF RepoIndex
  <2> DEFINE e == Stanza(Head(found).repo, Top.id)
             f == <<Completed(e, Head(found))>>
  <2>2. CASE HasIndex(Head(found).repo) /\ Lists(Head(found).repo, Top.id) /\ found' = f
    <3>1. e \in Located /\ Head(found) \in Located
      BY <1>1, <1>2, <1>9, <2>1, <2>2, StanzaType, KnownFound DEF RepoIndex
    <3> HIDE DEF e
    <3>2. Completed(e, Head(found)) \in Located
      BY <3>1 DEF Completed, Located
    <3>3. f \in Seq(Located) /\ Len(f) <= 1 /\ f # <<>>
      BY <3>2, OneFound
    <3> HIDE DEF f
    <3>4. indexed' \in SUBSET Repos
      BY <1>1, <2>1, <2>2 DEF HasIndex
    <3> QED
      BY <1>1, <1>9, <2>2, <3>3, <3>4 DEF RepoIndex, LocateStep
  <2>3. CASE NotFoundIn(Head(found).repo)
    <3>1. UNCHANGED found /\ indexed' \in SUBSET Repos
      BY <1>9, <2>1, <2>3, LookUp DEF RepoIndex
    <3> QED
      BY <1>1, <1>9, <3>1, FoundKept DEF RepoIndex, LocateStep
  <2> QED
    BY <1>9, <2>2, <2>3 DEF RepoIndex
<1>10. CASE Sweep
  <2>1. Defaults[scan] \in Repos
    BY <1>1, <1>10, FetchAssumption DEF Sweep
  <2>2. CASE scan' = scan + 1 /\ UNCHANGED <<indexed, found, pc>>
    BY <1>1, <1>10, <2>2, FoundKept DEF Sweep, LocateStep
  <2>3. CASE FoundIn(Defaults[scan]) /\ pc' = "cached" /\ UNCHANGED scan
    BY <1>1, <1>10, <2>1, <2>3, LookUp DEF Sweep, LocateStep
  <2>4. CASE NotFoundIn(Defaults[scan]) /\ scan' = scan + 1 /\ UNCHANGED pc
    <3>1. UNCHANGED found /\ indexed' \in SUBSET Repos
      BY <1>10, <2>1, <2>4, LookUp DEF Sweep
    <3> QED
      BY <1>1, <1>10, <2>4, <3>1, FoundKept DEF Sweep, LocateStep
  <2> QED
    BY <1>10, <2>2, <2>3, <2>4 DEF Sweep
<1>11. CASE CacheMiss
  BY <1>1, <1>11, FoundKept DEF CacheMiss, LocateStep
<1> QED
  BY <1>3, <1>4, <1>5, <1>6, <1>7, <1>8, <1>9, <1>10, <1>11

LEMMA LocateKeeps ==
  ASSUME FetchInv, LocateStep
  PROVE  FetchInv'
<1>1. TypeOK'
  BY DEF FetchInv, LocateStep, TypeOK, Begun, walkVars
<1>2. WalkInv'
  BY DEF FetchInv, LocateStep, WalkInv, Begun, walkVars, OutIds, Top
<1>3. FileInv'
  BY DEF FetchInv, LocateStep, FileInv, HashedIsRight, Resolving, Under, Begun
<1>4. \A g : Followed(g) => Followed(g)'
  BY DEF LocateStep, Followed, Waits, MetBy, walkVars
<1>5. Running /\ Running'
  BY DEF LocateStep, Running, Begun
<1>6. ClosedInv'
  BY <1>4, <1>5 DEF FetchInv, LocateStep, ClosedInv, Closed, walkVars
<1> QED
  BY <1>1, <1>2, <1>3, <1>6 DEF FetchInv
-----------------------------------------------------------------------------
(* A run begins, takes the next id, and returns. *)

LEMMA InitInv ==
  ASSUME Init
  PROVE  FetchInv
<1>1. <<>> \in Seq(Ids) /\ <<>> \in Seq([id : Ids, groups : Groups])
      /\ <<>> \in Seq(Located) /\ Len(<<>>) = 0
      /\ <<>> \in Seq([id : Ids, from : Located]) /\ DOMAIN <<>> = {}
  OBVIOUS
<1>2. TypeOK
  BY <1>1, FetchAssumption DEF Init, TypeOK
<1>3. WalkInv /\ FileInv /\ ClosedInv
  BY <1>1 DEF Init, WalkInv, FileInv, ClosedInv, Begun, Known, OutIds, Closed,
     HashedIsRight, Resolving, Running
<1> QED
  BY <1>2, <1>3 DEF FetchInv

(* A run that has returned nothing keeps the rest. *)
LEMMA NotRunning ==
  ASSUME FetchInv, TypeOK',
         \/ pc' = "idle" /\ UNCHANGED <<out, visited>>
         \/ pc' = "ended" /\ out' = <<>> /\ result' # "nil"
  PROVE  FetchInv'
<1>1. CASE pc' = "idle" /\ UNCHANGED <<out, visited>>
  <2>1. WalkInv'
    BY <1>1 DEF FetchInv, WalkInv, OutIds, Begun, Known
  <2>2. FileInv' /\ ClosedInv'
    BY <1>1 DEF FileInv, ClosedInv, Closed, HashedIsRight, Resolving, Running
  <2> QED
    BY <2>1, <2>2 DEF FetchInv
<1>2. CASE pc' = "ended" /\ out' = <<>> /\ result' # "nil"
  <2>1. DOMAIN out' = {}
    BY <1>2, EmptySeq
  <2>2. WalkInv'
    BY <1>2, <2>1 DEF WalkInv, OutIds, Begun, Known
  <2>3. FileInv' /\ ClosedInv'
    BY <1>2, <2>1 DEF FileInv, ClosedInv, Closed, HashedIsRight, Running
  <2> QED
    BY <2>2, <2>3 DEF FetchInv
<1> QED
  BY <1>1, <1>2

LEMMA StartKeeps ==
  ASSUME FetchInv, Start
  PROVE  FetchInv'
<1> USE DEF Start
<1>1. <<>> \in Seq(Ids) /\ <<>> \in Seq([id : Ids, groups : Groups])
      /\ <<>> \in Seq(Located) /\ Len(<<>>) = 0
      /\ <<>> \in Seq([id : Ids, from : Located]) /\ DOMAIN <<>> = {}
  OBVIOUS
<1>2. request' \in Requests /\ request'.ids \in Seq(Ids)
  BY FetchAssumption
<1>3. files' \subseteq files /\ runs' \in 0..MaxRuns
  BY FetchAssumption DEF FetchInv, TypeOK
<1>4. TypeOK'
  BY <1>1, <1>2, <1>3 DEF FetchInv, TypeOK
<1>5. WalkInv' /\ FileInv'
  BY <1>1 DEF WalkInv, FileInv, Begun, Known, OutIds, HashedIsRight
<1>6. ClosedInv'
  BY <1>1 DEF ClosedInv, Closed, Running
<1> QED
  BY <1>4, <1>5, <1>6 DEF FetchInv

LEMMA ReturnKeeps ==
  ASSUME FetchInv, NEW r \in {"network", "notLocated", "noVersion", "noFile", "mismatch", "disk"},
         result' = r, out' = <<>>, pc' = "ended",
         UNCHANGED <<world, files, found, runs, request, walkVars, indexed, scan>>
  PROVE  FetchInv'
<1>1. <<>> \in Seq([id : Ids, from : Located])
  OBVIOUS
<1>2. TypeOK'
  BY <1>1 DEF FetchInv, TypeOK, walkVars
<1> QED
  BY <1>2, NotRunning

LEMMA AllResolvedKeeps ==
  ASSUME FetchInv, AllResolved
  PROVE  FetchInv'
<1>1. /\ pc = "next" /\ todo = <<>> /\ pc' = "ended" /\ result' = "nil"
      /\ UNCHANGED <<world, files, found, runs, request, walkVars, indexed, scan, out>>
  BY DEF AllResolved, Return
<1>2. stack = <<>> /\ visited = OutIds
  BY <1>1 DEF FetchInv, WalkInv
<1>3. DOMAIN stack = {} /\ DOMAIN todo = {}
  BY <1>1, <1>2, EmptySeq
<1>4. TypeOK'
  BY <1>1 DEF FetchInv, TypeOK, walkVars
<1>5. WalkInv' /\ FileInv'
  BY <1>1 DEF FetchInv, WalkInv, FileInv, Begun, Known, OutIds, HashedIsRight, walkVars,
     Under, Resolving
<1>6. Running /\ ~Running'
  BY <1>1 DEF Running
<1>7. Closed'
  <2>1. \A i \in DOMAIN request.ids : request.ids[i] \in OutIds
    BY <1>2, <1>3, <1>6 DEF FetchInv, ClosedInv
  <2>2. \A g : Followed(g) => MetBy(g, OutIds)
    BY <1>2, <1>3 DEF Followed, Waits
  <2>3. ~request.noRecurse =>
          \A i \in DOMAIN out : \A g \in DOMAIN out[i].from.depends :
            MetBy(out[i].from.depends[g], OutIds)
    BY <1>6, <2>2 DEF FetchInv, ClosedInv
  <2> QED
    BY <1>1, <2>1, <2>3 DEF Closed, MetBy, OutIds
<1>8. ClosedInv'
  BY <1>6, <1>7 DEF ClosedInv
<1> QED
  BY <1>4, <1>5, <1>8 DEF FetchInv

(* An id that is not begun is entered above some frames. *)
LEMMA EnterFrame ==
  ASSUME NEW id \in Ids, NEW frames \in Seq(Frames)
  PROVE  LET s == Push([id |-> id, groups |-> <<>>], frames)
         IN  /\ s \in Seq(Frames) /\ s # <<>>
             /\ Head(s).id = id /\ Head(s).groups = <<>>
             /\ \A k \in DOMAIN frames : k + 1 \in DOMAIN s /\ s[k + 1] = frames[k]
<1>1. [id |-> id, groups |-> <<>>] \in Frames
  BY DEF Frames, Groups
<1> DEFINE s == Push([id |-> id, groups |-> <<>>], frames)
<1>2. /\ s \in Seq(Frames) /\ s # <<>> /\ Head(s) = [id |-> id, groups |-> <<>>]
      /\ DOMAIN s = 1..(Len(frames) + 1)
      /\ \A k \in 1..Len(frames) : s[k + 1] = frames[k]
  BY <1>1, Pushed
<1>3. DOMAIN frames = 1..Len(frames) /\ Len(frames) \in Nat
  OBVIOUS
<1> HIDE DEF s
<1>4. Head(s).id = id /\ Head(s).groups = <<>>
  BY <1>2
<1>5. \A k \in DOMAIN frames : k + 1 \in DOMAIN s /\ s[k + 1] = frames[k]
  BY <1>2, <1>3
<1> QED
  BY <1>2, <1>4, <1>5 DEF s

LEMMA EnterKeeps ==
  ASSUME FetchInv, pc \in {"next", "depends"},
         NEW id \in Ids, id \notin visited, NEW frames \in Seq(Frames),
         stack' = Push([id |-> id, groups |-> <<>>], frames),
         visited' = visited \cup {id}, pc' = "sources", scan' = 1,
         UNCHANGED <<world, files, runs, request, indexed, found, out, result>>,
         todo' \in Seq(Ids)
  PROVE  TypeOK' /\ WalkInv' /\ FileInv'
<1>1. /\ stack' \in Seq(Frames) /\ stack' # <<>>
      /\ Top'.id = id /\ Top'.groups = <<>>
  BY EnterFrame DEF Top
<1>2. TypeOK'
  BY <1>1 DEF FetchInv, TypeOK, Frames
<1>3. WalkInv'
  BY <1>1 DEF FetchInv, WalkInv, Begun, Known, OutIds
<1>4. FileInv'
  BY DEF FetchInv, FileInv, HashedIsRight, Resolving, Under
<1> QED
  BY <1>2, <1>3, <1>4

LEMMA NextIdKeeps ==
  ASSUME FetchInv, NextId
  PROVE  FetchInv'
<1>1. /\ pc = "next" /\ todo # <<>> /\ todo' = Tail(todo)
      /\ UNCHANGED <<world, files, runs, request, indexed, found, out, result>>
  BY DEF NextId
<1>2. /\ Head(todo) \in Ids /\ Tail(todo) \in Seq(Ids)
      /\ \A j \in DOMAIN todo : \/ todo[j] = Head(todo)
                                \/ \E i \in DOMAIN Tail(todo) : Tail(todo)[i] = todo[j]
  <2>1. /\ todo \in Seq(Ids) /\ todo # <<>>
        /\ DOMAIN todo = 1..Len(todo) /\ Len(todo) \in Nat \ {0}
    BY <1>1, EmptySeq DEF FetchInv, TypeOK
  <2>2. /\ Head(todo) \in Ids /\ Head(todo) = todo[1] /\ Tail(todo) \in Seq(Ids)
        /\ DOMAIN Tail(todo) = 1..(Len(todo) - 1)
        /\ \A i \in 1..(Len(todo) - 1) : Tail(todo)[i] = todo[i + 1]
    BY <2>1
  <2>3. ASSUME NEW j \in DOMAIN todo, j # 1
        PROVE  \E i \in DOMAIN Tail(todo) : Tail(todo)[i] = todo[j]
    <3>1. j - 1 \in 1..(Len(todo) - 1) /\ (j - 1) + 1 = j
      BY <2>1, <2>3
    <3> QED
      BY <2>2, <3>1
  <2> QED
    BY <2>2, <2>3
<1>3. stack = <<>> /\ visited = OutIds /\ DOMAIN stack = {}
  BY <1>1, EmptySeq DEF FetchInv, WalkInv
<1>4. visited \subseteq visited' /\ Head(todo) \in visited' /\ Running /\ Running'
  BY <1>1 DEF NextId, Enter, Running
<1>5. ClosedInv'
  <2>1. \A x : (x \in visited \/ \E j \in DOMAIN todo : todo[j] = x)
               => (x \in visited' \/ \E j \in DOMAIN todo' : todo'[j] = x)
    BY <1>1, <1>2, <1>4
  <2>2. \A g : Followed(g) => Followed(g)'
    BY <1>3, <1>4 DEF Followed, Waits, MetBy
  <2>3. result' = "none"
    BY <1>1, <1>4 DEF FetchInv, ClosedInv
  <2> QED
    BY <1>1, <1>4, <2>1, <2>2, <2>3 DEF FetchInv, ClosedInv, Closed
<1>6. TypeOK' /\ WalkInv' /\ FileInv'
  <2>1. CASE Head(todo) \in visited /\ UNCHANGED <<stack, visited, pc, scan>>
    <3>1. TypeOK'
      BY <1>1, <1>2, <2>1 DEF FetchInv, TypeOK
    <3>2. WalkInv'
      BY <1>1, <1>3, <2>1 DEF FetchInv, WalkInv, OutIds, Begun, Known
    <3>3. FileInv'
      BY <1>1, <2>1 DEF FetchInv, FileInv, HashedIsRight, Resolving, Under
    <3> QED
      BY <3>1, <3>2, <3>3
  <2>2. CASE Head(todo) \notin visited /\ Enter(Head(todo), <<>>)
    <3>1. <<>> \in Seq(Frames)
      OBVIOUS
    <3> QED
      BY <1>1, <1>2, <2>2, <3>1, EnterKeeps DEF Enter
  <2> QED
    BY <2>1, <2>2 DEF NextId
<1> QED
  BY <1>5, <1>6 DEF FetchInv
-----------------------------------------------------------------------------
(* Files are served and written. *)

LEMMA DownloadKeeps ==
  ASSUME FetchInv, Download
  PROVE  FetchInv'
<1>1. PICK b \in Builds :
        /\ Head(found).sha => b = Head(found).build
        /\ files' = (files \ Under(CacheName)) \cup
                      {[name |-> CacheName, ver |-> Head(found).of,
                        build |-> b, whole |-> FALSE, stale |-> FALSE]}
  BY DEF Download
<1>2. /\ pc = "download" /\ pc' = "write"
      /\ UNCHANGED <<world, runs, request, walkVars, locateVars, out, result>>
  BY DEF Download
<1>3. /\ TypeOK /\ stack # <<>> /\ found # <<>> /\ Top.id \notin OutIds
  BY <1>2 DEF FetchInv, WalkInv, Begun, Known
<1> DEFINE new == [name |-> CacheName, ver |-> Head(found).of,
                   build |-> b, whole |-> FALSE, stale |-> FALSE]
<1>4. new \in File /\ new.name = CacheName /\ new.ver = Head(found).of /\ new.build = b
  <2>1. CacheName \in Names
    BY <1>3, Innermost, KnownFound, FetchAssumption DEF CacheName, Name, Names
  <2> QED
    BY <1>3, <2>1, KnownFound DEF File
<1>5. files' = (files \ Under(CacheName)) \cup {new}
  BY <1>1
<1> HIDE DEF new
<1>6. TypeOK'
  <2>1. files' \in SUBSET File /\ \A f, g \in files' : f.name = g.name => f = g
    BY <1>3, <1>4, <1>5 DEF TypeOK, Under
  <2> QED
    BY <1>2, <1>3, <2>1 DEF TypeOK, walkVars, locateVars
<1>7. WalkInv'
  BY <1>2, <1>3 DEF FetchInv, WalkInv, Begun, Known, OutIds, Top, walkVars, locateVars
<1>8. FileInv'
  <2>1. ASSUME NEW i \in DOMAIN out, out[i].from.sha
        PROVE  \E f \in Under(Name(out[i].id, out[i].from.ver))' : Matches(f, out[i].from)
    <3>1. PICK f \in Under(Name(out[i].id, out[i].from.ver)) : Matches(f, out[i].from)
      BY <1>2, <2>1 DEF FetchInv, FileInv, HashedIsRight, Resolving
    <3>2. out[i].id # Top.id
      BY <1>3 DEF OutIds
    <3>3. f \in files /\ f.name # CacheName
      BY <3>1, <3>2, NamesDiffer DEF Under, CacheName
    <3>4. f \in files' /\ f.name = Name(out[i].id, out[i].from.ver)
      BY <1>5, <3>1, <3>3 DEF Under
    <3>5. Name(out[i].id, out[i].from.ver)' = Name(out[i].id, out[i].from.ver)
      BY <1>2 DEF Name
    <3> QED
      BY <3>1, <3>4, <3>5 DEF Under
  <2>2. HashedIsRight'
    BY <1>2, <2>1 DEF HashedIsRight, Matches, Under
  <2>3. new \in Under(CacheName)'
    BY <1>2, <1>4, <1>5 DEF Under, CacheName, Name, Top, walkVars, locateVars
  <2>4. new.ver = Head(found').of /\ (Head(found').sha => new.build = Head(found').build)
    BY <1>1, <1>2, <1>4 DEF locateVars
  <2> QED
    BY <2>2, <2>3, <2>4 DEF FileInv
<1>9. \A g : Followed(g) => Followed(g)'
  BY <1>2 DEF Followed, Waits, MetBy, walkVars
<1>10. ClosedInv'
  BY <1>2, <1>9 DEF FetchInv, ClosedInv, Closed, Running, walkVars
<1> QED
  BY <1>6, <1>7, <1>8, <1>10 DEF FetchInv

(* A package is resolved: its file is served or has been written. *)
LEMMA ResolvedKeeps ==
  ASSUME FetchInv, pc \in {"cached", "write"}, Resolved,
         files' \in SUBSET File,
         \A f, g \in files' : f.name = g.name => f = g,
         \A f \in files : f.name # CacheName => f \in files',
         Head(found).sha => \E f \in files' : f.name = CacheName /\ Matches(f, Head(found))
  PROVE  FetchInv'
<1>1. /\ out' = Append(out, [id |-> Top.id, from |-> Head(found)])
      /\ stack' = Push(Left(ToFollow), Tail(stack))
      /\ pc' = "depends"
      /\ UNCHANGED <<world, runs, request, todo, visited, locateVars, result>>
  BY DEF Resolved
<1>2. /\ TypeOK /\ stack # <<>> /\ found # <<>> /\ Top.id \notin OutIds
      /\ visited = OutIds \cup {Top.id} /\ Top.groups = <<>>
  BY DEF FetchInv, WalkInv, Begun, Known
<1>3. ToFollow \in Groups /\ (~request.noRecurse => ToFollow = Head(found).depends)
  BY <1>2, KnownFound DEF ToFollow, Groups
<1>4. /\ stack' \in Seq(Frames) /\ stack' # <<>>
      /\ DOMAIN stack' = DOMAIN stack /\ stack'[1].groups = ToFollow
      /\ \A k \in DOMAIN stack : k # 1 => stack'[k] = stack[k]
  BY <1>1, <1>2, <1>3, Replaced
<1>5. /\ out' \in Seq([id : Ids, from : Located])
      /\ OutIds' = OutIds \cup {Top.id}
      /\ DOMAIN out' = DOMAIN out \cup {Len(out) + 1}
      /\ \A i \in DOMAIN out : i # Len(out) + 1 /\ out'[i] = out[i]
      /\ out'[Len(out) + 1] = [id |-> Top.id, from |-> Head(found)]
  BY <1>1, <1>2, OutGrows
<1>6. TypeOK'
  BY <1>1, <1>2, <1>4, <1>5 DEF TypeOK, locateVars, Frames
<1>7. WalkInv'
  BY <1>1, <1>2, <1>4, <1>5 DEF WalkInv, Begun, Known
<1>8. FileInv'
  <2>1. ASSUME NEW i \in DOMAIN out, out[i].from.sha
        PROVE  \E f \in files' : /\ f.name = Name(out[i].id, out[i].from.ver)
                                 /\ Matches(f, out[i].from)
    <3>1. PICK f \in Under(Name(out[i].id, out[i].from.ver)) : Matches(f, out[i].from)
      BY <2>1 DEF FetchInv, FileInv, HashedIsRight, Resolving
    <3>2. out[i].id # Top.id
      BY <1>2 DEF OutIds
    <3>3. f \in files /\ f.name # CacheName
      BY <3>1, <3>2, NamesDiffer DEF Under, CacheName
    <3> QED
      BY <3>1, <3>3 DEF Under
  <2> DEFINE new == [id |-> Top.id, from |-> Head(found)]
  <2>2. new.id = Top.id /\ new.from = Head(found)
    OBVIOUS
  <2> HIDE DEF new
  <2>3. out'[Len(out) + 1] = new
    BY <1>5 DEF new
  <2>4. ASSUME NEW i \in DOMAIN out', out'[i].from.sha
        PROVE  \E f \in files' : /\ f.name = Name(out'[i].id, out'[i].from.ver)
                                 /\ Matches(f, out'[i].from)
    <3>1. CASE i \in DOMAIN out
      BY <1>5, <2>1, <2>4, <3>1
    <3>2. CASE i = Len(out) + 1
      BY <2>2, <2>3, <2>4, <3>2 DEF CacheName
    <3> QED
      BY <1>5, <3>1, <3>2
  <2>5. HashedIsRight'
    BY <2>4 DEF HashedIsRight, Under, Matches, Name
  <2> QED
    BY <1>1, <2>5 DEF FileInv
<1>9. \A g : Followed(g) => Followed(g)'
  <2>1. ASSUME NEW g, Waits(g) PROVE Waits(g)'
    <3>1. PICK k \in DOMAIN stack : \E j \in DOMAIN stack[k].groups : stack[k].groups[j] = g
      BY <2>1 DEF Waits
    <3>2. k # 1
      <4>1. stack[1].groups = <<>>
        BY <1>2, Innermost
      <4> QED
        BY <3>1, <4>1, EmptySeq
    <3> QED
      BY <1>4, <3>1, <3>2 DEF Waits
  <2> QED
    BY <1>1, <2>1 DEF Followed, MetBy
<1>10. ClosedInv'
  <2>1. /\ Running /\ result = "none" /\ result' = "none" /\ request' = request
        /\ visited' = visited /\ todo' = todo
    BY <1>1 DEF FetchInv, ClosedInv, Running
  <2>2. ASSUME ~request.noRecurse, NEW i \in DOMAIN out',
               NEW g \in DOMAIN out'[i].from.depends,
               NEW h, h = out'[i].from.depends[g]
        PROVE  Followed(h)'
    <3>1. CASE i \in DOMAIN out
      <4>1. out'[i] = out[i]
        BY <1>5, <3>1
      <4>2. Followed(h)
        BY <2>1, <2>2, <3>1, <4>1 DEF FetchInv, ClosedInv
      <4> QED
        BY <1>9, <4>2
    <3>2. CASE i = Len(out) + 1
      <4>1. out'[i].from = Head(found)
        BY <1>5, <3>2
      <4>2. out'[i].from.depends = ToFollow
        BY <1>3, <2>2, <4>1
      <4>3. 1 \in DOMAIN stack'
        BY <1>2, <1>4, Innermost
      <4>4. \E j \in DOMAIN stack'[1].groups : stack'[1].groups[j] = h
        BY <1>4, <2>2, <4>2
      <4> QED
        BY <4>3, <4>4 DEF Followed, Waits
    <3> QED
      BY <1>5, <2>2, <3>1, <3>2
  <2>3. ~request.noRecurse =>
          \A i \in DOMAIN out' : \A g \in DOMAIN out'[i].from.depends :
            \/ MetBy(out'[i].from.depends[g], visited')
            \/ \E k \in DOMAIN stack' : \E j \in DOMAIN stack'[k].groups :
                 stack'[k].groups[j] = out'[i].from.depends[g]
    BY <2>2 DEF Followed, Waits
  <2>4. \A i \in DOMAIN request'.ids :
          \/ request'.ids[i] \in visited'
          \/ \E j \in DOMAIN todo' : todo'[j] = request'.ids[i]
    BY <2>1 DEF FetchInv, ClosedInv
  <2> QED
    BY <2>1, <2>3, <2>4 DEF ClosedInv, Closed, Followed, Waits, MetBy
<1> QED
  BY <1>6, <1>7, <1>8, <1>10 DEF FetchInv

LEMMA UseCachedKeeps ==
  ASSUME FetchInv, UseCached
  PROVE  FetchInv'
<1>1. PICK f \in Under(CacheName) : Serves(f)
  BY DEF UseCached
<1>2. /\ pc = "cached" /\ Resolved /\ files' = files
  BY DEF UseCached
<1>3. /\ files \in SUBSET File /\ \A g, h \in files : g.name = h.name => g = h
  BY DEF FetchInv, TypeOK
<1>4. Head(found).sha => \E g \in files : g.name = CacheName /\ Matches(g, Head(found))
  BY <1>1 DEF Serves, Under
<1> QED
  BY <1>2, <1>3, <1>4, ResolvedKeeps

LEMMA WrittenKeeps ==
  ASSUME FetchInv, Written
  PROVE  FetchInv'
<1>1. /\ pc = "write" /\ Resolved
      /\ files' = (files \ Under(CacheName)) \cup
                    {[f EXCEPT !.whole = TRUE] : f \in Under(CacheName)}
  BY DEF Written
<1>2. PICK f \in Under(CacheName) : /\ f.ver = Head(found).of
                                    /\ Head(found).sha => f.build = Head(found).build
  BY <1>1 DEF FetchInv, FileInv
<1>3. /\ files \in SUBSET File /\ \A g, h \in files : g.name = h.name => g = h
  BY DEF FetchInv, TypeOK
<1> DEFINE whole == [f EXCEPT !.whole = TRUE]
<1>4. /\ whole \in File /\ whole.name = f.name /\ whole.ver = f.ver
      /\ whole.build = f.build /\ whole.whole
  BY <1>2, <1>3 DEF Under, File
<1>5. f \in files /\ f.name = CacheName /\ Under(CacheName) = {f}
  BY <1>2, <1>3 DEF Under
<1>6. files' = (files \ {f}) \cup {whole}
  BY <1>1, <1>5
<1> HIDE DEF whole
<1>7. /\ files' \in SUBSET File
      /\ \A g, h \in files' : g.name = h.name => g = h
      /\ \A g \in files : g.name # CacheName => g \in files'
  BY <1>3, <1>4, <1>5, <1>6
<1>8. Head(found).sha => \E g \in files' : g.name = CacheName /\ Matches(g, Head(found))
  BY <1>2, <1>4, <1>5, <1>6 DEF Matches
<1> QED
  BY <1>1, <1>7, <1>8, ResolvedKeeps
-----------------------------------------------------------------------------
(* The dependencies of the innermost frame. *)

(* Its first group is taken off. *)
LEMMA GroupTaken ==
  ASSUME TypeOK, stack # <<>>, Top.groups # <<>>
  PROVE  LET s == Push(Rest, Tail(stack))
         IN  /\ s \in Seq(Frames) /\ s # <<>>
             /\ Head(s).groups \in Groups
             /\ Head(Top.groups) \in Seq(Ids \cup Core)
             /\ \A g : Waits(g) =>
                  \/ g = Head(Top.groups)
                  \/ \E k \in DOMAIN s : \E j \in DOMAIN s[k].groups : s[k].groups[j] = g
<1> DEFINE s == Push(Rest, Tail(stack))
           rest == Tail(Top.groups)
<1>1. /\ Head(Top.groups) \in Seq(Ids \cup Core) /\ rest \in Groups
      /\ \A j \in DOMAIN Top.groups :
           Top.groups[j] = Head(Top.groups) \/ \E i \in DOMAIN rest : rest[i] = Top.groups[j]
  BY Innermost, GroupsTail
<1>2. /\ s \in Seq(Frames) /\ s # <<>>
      /\ Head(s).groups = rest
      /\ DOMAIN s = DOMAIN stack /\ s[1].groups = rest
      /\ \A k \in DOMAIN stack : k # 1 => s[k] = stack[k]
  BY <1>1, Replaced DEF Rest
<1> HIDE DEF s, rest
<1>3. ASSUME NEW g, Waits(g), g # Head(Top.groups)
      PROVE  \E k \in DOMAIN s : \E j \in DOMAIN s[k].groups : s[k].groups[j] = g
  <2>1. PICK k \in DOMAIN stack : \E j \in DOMAIN stack[k].groups : stack[k].groups[j] = g
    BY <1>3 DEF Waits
  <2>2. CASE k = 1
    <3>1. \E j \in DOMAIN Top.groups : Top.groups[j] = g
      BY <2>1, <2>2, Innermost
    <3>2. \E i \in DOMAIN rest : rest[i] = g
      BY <1>1, <1>3, <3>1
    <3> QED
      BY <1>2, <2>1, <2>2, <3>2
  <2>3. CASE k # 1
    BY <1>2, <2>1, <2>3
  <2> QED
    BY <2>2, <2>3
<1> QED
  BY <1>1, <1>2, <1>3 DEF s

LEMMA SkipGroupKeeps ==
  ASSUME FetchInv, SkipGroup
  PROVE  FetchInv'
<1>1. /\ pc = "depends" /\ Top.groups # <<>> /\ Satisfied(Head(Top.groups))
      /\ stack' = Push(Rest, Tail(stack))
      /\ UNCHANGED <<world, files, runs, pc, request, todo, visited, locateVars,
                     out, result>>
  BY DEF SkipGroup
<1>2. TypeOK /\ stack # <<>> /\ visited = OutIds
  BY <1>1 DEF FetchInv, WalkInv
<1>3. /\ stack' \in Seq(Frames) /\ stack' # <<>>
      /\ \A g : Waits(g) => g = Head(Top.groups) \/ Waits(g)'
  BY <1>1, <1>2, GroupTaken DEF Waits
<1>4. TypeOK'
  BY <1>1, <1>2, <1>3 DEF TypeOK, Frames, locateVars
<1>5. WalkInv'
  BY <1>1, <1>2, <1>3 DEF FetchInv, WalkInv, Begun, Known, OutIds
<1>6. FileInv'
  BY <1>1 DEF FetchInv, FileInv, HashedIsRight, Resolving, Under
<1>7. \A g : Followed(g) => Followed(g)'
  <2>1. MetBy(Head(Top.groups), visited)
    BY <1>1 DEF Satisfied, Fetchable, MetBy
  <2>2. \A g : MetBy(g, visited) => MetBy(g, visited')
    BY <1>1
  <2> QED
    BY <1>3, <2>1, <2>2 DEF Followed, MetBy
<1>8. ClosedInv'
  BY <1>1, <1>7 DEF FetchInv, ClosedInv, Closed, Running
<1> QED
  BY <1>4, <1>5, <1>6, <1>8 DEF FetchInv

LEMMA FollowGroupKeeps ==
  ASSUME FetchInv, FollowGroup
  PROVE  FetchInv'
<1> DEFINE group == Head(Top.groups)
           id == group[FirstOf(Fetchable(group))]
           frames == Push(Rest, Tail(stack))
<1>1. /\ pc = "depends" /\ Top.groups # <<>> /\ ~Satisfied(group)
      /\ stack' = Push([id |-> id, groups |-> <<>>], frames)
      /\ visited' = visited \cup {id} /\ pc' = "sources" /\ scan' = 1
      /\ UNCHANGED <<world, files, runs, request, todo, indexed, found, out, result>>
  BY DEF FollowGroup, Enter
<1>2. TypeOK /\ stack # <<>> /\ visited = OutIds
  BY <1>1 DEF FetchInv, WalkInv
<1>3. /\ frames \in Seq(Frames) /\ group \in Seq(Ids \cup Core)
      /\ \A g : Waits(g) =>
           \/ g = group
           \/ \E k \in DOMAIN frames : \E j \in DOMAIN frames[k].groups :
                frames[k].groups[j] = g
  BY <1>1, <1>2, GroupTaken
<1> HIDE DEF group, frames
<1>4. FirstOf(Fetchable(group)) \in Fetchable(group)
  <2>1. DOMAIN group = 1..Len(group) /\ Len(group) \in Nat
    BY <1>3
  <2>2. Fetchable(group) \in SUBSET (1..Len(group)) /\ Fetchable(group) # {}
    BY <1>1, <2>1 DEF Satisfied, Fetchable
  <2> QED
    BY <2>1, <2>2, FirstProperty
<1>5. id \in Ids /\ id \notin visited /\ \E i \in DOMAIN group : group[i] = id
  <2> DEFINE k == FirstOf(Fetchable(group))
  <2>1. k \in DOMAIN group /\ group[k] \notin Core
    BY <1>4 DEF Fetchable
  <2>2. \A i \in DOMAIN group : group[i] \in Ids \cup Core /\ group[i] \notin visited
    BY <1>1, <1>3 DEF Satisfied
  <2>3. id = group[k]
    OBVIOUS
  <2> HIDE DEF k, id
  <2> QED
    BY <2>1, <2>2, <2>3
<1> HIDE DEF id
<1>6. TypeOK' /\ WalkInv' /\ FileInv'
  BY <1>1, <1>2, <1>3, <1>5, EnterKeeps DEF TypeOK
<1>7. \A g : Followed(g) => Followed(g)'
  <2>1. \A k \in DOMAIN frames : k + 1 \in DOMAIN stack' /\ stack'[k + 1] = frames[k]
    BY <1>1, <1>3, <1>5, EnterFrame
  <2>2. ASSUME NEW g, Waits(g), g # group PROVE Waits(g)'
    <3>1. PICK k \in DOMAIN frames : \E j \in DOMAIN frames[k].groups :
                 frames[k].groups[j] = g
      BY <1>3, <2>2
    <3>2. k + 1 \in DOMAIN stack' /\ stack'[k + 1] = frames[k]
      BY <2>1
    <3> QED
      BY <3>1, <3>2 DEF Waits
  <2>3. MetBy(group, visited')
    BY <1>1, <1>5 DEF MetBy
  <2>4. \A g : MetBy(g, visited) => MetBy(g, visited')
    BY <1>1 DEF MetBy
  <2> QED
    BY <2>2, <2>3, <2>4 DEF Followed, MetBy
<1>8. ClosedInv'
  <2>1. /\ Running /\ result = "none" /\ result' = "none" /\ request' = request
        /\ visited \subseteq visited' /\ todo' = todo /\ out' = out
    BY <1>1 DEF FetchInv, ClosedInv, Running
  <2> QED
    BY <1>7, <2>1 DEF FetchInv, ClosedInv, Closed
<1> QED
  BY <1>6, <1>8 DEF FetchInv

LEMMA WalkReturnsKeeps ==
  ASSUME FetchInv, WalkReturns
  PROVE  FetchInv'
<1>1. /\ pc = "depends" /\ Top.groups = <<>> /\ stack' = Tail(stack)
      /\ pc' = IF Tail(stack) = <<>> THEN "next" ELSE "depends"
      /\ UNCHANGED <<world, files, runs, request, todo, visited, locateVars, out, result>>
  BY DEF WalkReturns
<1>2. TypeOK /\ stack # <<>> /\ visited = OutIds
  BY <1>1 DEF FetchInv, WalkInv
<1>3. /\ stack' \in Seq(Frames) /\ DOMAIN stack = 1..Len(stack) /\ Len(stack) \in Nat \ {0}
      /\ Len(stack') = Len(stack) - 1 /\ stack[1] = Top
      /\ \A k \in 1..(Len(stack) - 1) : stack'[k] = stack[k + 1]
  BY <1>1, <1>2, Innermost
<1>4. TypeOK'
  BY <1>1, <1>2, <1>3 DEF TypeOK, Frames, locateVars
<1>5. WalkInv'
  BY <1>1, <1>2 DEF FetchInv, WalkInv, Begun, Known, OutIds
<1>6. FileInv'
  BY <1>1 DEF FetchInv, FileInv, HashedIsRight, Resolving, Under
<1>7. \A g : Followed(g) => Followed(g)'
  <2>1. ASSUME NEW g, Waits(g) PROVE Waits(g)'
    <3>1. PICK k \in DOMAIN stack : \E j \in DOMAIN stack[k].groups : stack[k].groups[j] = g
      BY <2>1 DEF Waits
    <3>2. k # 1
      BY <1>1, <1>3, <3>1, EmptySeq
    <3>3. k - 1 \in 1..(Len(stack) - 1) /\ (k - 1) + 1 = k
      BY <1>3, <3>2
    <3>4. k - 1 \in DOMAIN stack' /\ stack'[k - 1] = stack[k]
      BY <1>3, <3>3
    <3> QED
      BY <3>1, <3>4 DEF Waits
  <2> QED
    BY <1>1, <2>1 DEF Followed, MetBy
<1>8. ClosedInv'
  BY <1>1, <1>7 DEF FetchInv, ClosedInv, Closed, Running
<1> QED
  BY <1>4, <1>5, <1>6, <1>8 DEF FetchInv
-----------------------------------------------------------------------------
(* Every step. *)

LEMMA FailureKeeps ==
  ASSUME FetchInv,
         PinUnknown \/ RequestFails \/ SweepFails \/ NoDownload \/ WrongHash \/ WriteFails
  PROVE  FetchInv'
<1>1. PICK r \in {"network", "notLocated", "noVersion", "noFile", "mismatch", "disk"} :
        /\ result' = r /\ out' = <<>> /\ pc' = "ended"
        /\ UNCHANGED <<world, files, found, runs, request, walkVars, indexed, scan>>
  BY DEF PinUnknown, RequestFails, SweepFails, NoDownload, WrongHash, WriteFails, Return
<1> QED
  BY <1>1, ReturnKeeps

LEMMA AroundKeeps ==
  ASSUME FetchInv,
         \/ Collect \/ Crash
         \/ ReposChange \/ FilesExpire \/ ClearCache \/ PruneExpired
  PROVE  FetchInv'
<1>1. /\ pc' = "idle"
      /\ UNCHANGED <<runs, request, walkVars, locateVars, out, result>>
      /\ world' \in Worlds
  BY DEF FetchInv, TypeOK, Collect, Crash, Between, ReposChange, FilesExpire,
     ClearCache, PruneExpired
<1>2. files' \in SUBSET File /\ \A f, g \in files' : f.name = g.name => f = g
  <2>1. files \in SUBSET File /\ \A f, g \in files : f.name = g.name => f = g
    BY DEF FetchInv, TypeOK
  <2>2. CASE files' \subseteq files
    BY <2>1, <2>2
  <2>3. CASE files' = {[f EXCEPT !.stale = TRUE] : f \in files}
    <3>1. \A f \in File : /\ [f EXCEPT !.stale = TRUE] \in File
                          /\ [f EXCEPT !.stale = TRUE].name = f.name
      BY DEF File
    <3>2. files' \in SUBSET File
      BY <2>1, <2>3, <3>1
    <3>3. ASSUME NEW g \in files', NEW h \in files', g.name = h.name PROVE g = h
      <4>1. PICK x \in files : g = [x EXCEPT !.stale = TRUE]
        BY <2>3
      <4>2. PICK y \in files : h = [y EXCEPT !.stale = TRUE]
        BY <2>3
      <4>3. g.name = x.name /\ h.name = y.name
        BY <2>1, <3>1, <4>1, <4>2
      <4> QED
        BY <2>1, <3>3, <4>1, <4>2, <4>3
    <3> QED
      BY <3>2, <3>3
  <2> QED
    BY <2>2, <2>3 DEF Collect, Crash, ReposChange, FilesExpire, ClearCache, PruneExpired
<1>3. TypeOK'
  BY <1>1, <1>2 DEF FetchInv, TypeOK, walkVars, locateVars
<1> QED
  BY <1>1, <1>3, NotRunning DEF walkVars

LEMMA StepKeeps ==
  ASSUME FetchInv, [Next]_vars
  PROVE  FetchInv'
<1>1. CASE UNCHANGED vars
  <2>1. TypeOK' /\ WalkInv'
    BY <1>1 DEF FetchInv, TypeOK, WalkInv, vars, OutIds, Top
  <2>2. FileInv'
    BY <1>1 DEF FetchInv, FileInv, HashedIsRight, Resolving, Under, vars, CacheName, Top
  <2>3. \A g : Followed(g) => Followed(g)'
    BY <1>1 DEF Followed, Waits, MetBy, vars
  <2>4. ClosedInv'
    BY <1>1, <2>3 DEF FetchInv, ClosedInv, Closed, Running, Resolving, OutIds, MetBy, vars
  <2> QED
    BY <2>1, <2>2, <2>4 DEF FetchInv
<1>2. CASE Start
  BY <1>2, StartKeeps
<1>3. CASE NextId
  BY <1>3, NextIdKeeps
<1>4. CASE AllResolved
  BY <1>4, AllResolvedKeeps
<1>5. CASE \/ LookInSource \/ SourcesDone \/ CanisterKnows \/ CanisterFails
           \/ PinFound \/ RepoKnown \/ RepoIndex \/ Sweep \/ CacheMiss
  BY <1>5, LocateSteps, LocateKeeps
<1>6. CASE PinUnknown \/ RequestFails \/ SweepFails \/ NoDownload \/ WrongHash \/ WriteFails
  BY <1>6, FailureKeeps
<1>7. CASE UseCached
  BY <1>7, UseCachedKeeps
<1>8. CASE Download
  BY <1>8, DownloadKeeps
<1>9. CASE Written
  BY <1>9, WrittenKeeps
<1>10. CASE SkipGroup
  BY <1>10, SkipGroupKeeps
<1>11. CASE FollowGroup
  BY <1>11, FollowGroupKeeps
<1>12. CASE WalkReturns
  BY <1>12, WalkReturnsKeeps
<1>13. CASE \/ Collect \/ Crash
            \/ ReposChange \/ FilesExpire \/ ClearCache \/ PruneExpired
  BY <1>13, AroundKeeps
<1> QED
  BY <1>1, <1>2, <1>3, <1>4, <1>5, <1>6, <1>7, <1>8, <1>9, <1>10, <1>11, <1>12,
     <1>13 DEF Next, Resolve

LEMMA FetchInvAlways == Spec => []FetchInv
<1>1. Init => FetchInv
  BY InitInv
<1>2. FetchInv /\ [Next]_vars => FetchInv'
  BY StepKeeps
<1> QED
  BY <1>1, <1>2, PTL DEF Spec

-----------------------------------------------------------------------------

(* The resolver's state keeps its types: in particular the cache directory *)
(* never holds two files of one name.                                      *)
THEOREM TypeCorrect == Spec => []TypeOK
<1>1. FetchInv => TypeOK
  BY DEF FetchInv
<1> QED
  BY <1>1, FetchInvAlways, PTL

(* A run that succeeds returns what it was asked for and an alternative of *)
(* every dependency, however the dependencies lie: in cycles, shared, or   *)
(* met by what is still under way (walk, resolveDeps).                     *)
THEOREM ClosedAlways == Spec => []Closed
<1>1. FetchInv => Closed
  BY DEF FetchInv, ClosedInv
<1> QED
  BY <1>1, FetchInvAlways, PTL

(* What is returned for a package with a hash is the file of that hash,    *)
(* after any crashes, failures, expiries and changes of the repositories   *)
(* (download).                                                             *)
THEOREM HashedIsRightAlways == Spec => []HashedIsRight
<1>1. FetchInv => HashedIsRight
  BY DEF FetchInv, FileInv
<1> QED
  BY <1>1, FetchInvAlways, PTL
=============================================================================
