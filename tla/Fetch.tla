-------------------------------- MODULE Fetch --------------------------------
(***************************************************************************)
(* The tweak resolver of internal/fetch: package ids to .deb files in the  *)
(* persistent cache.  Each id is looked for in the explicit sources, then  *)
(* in the Canister catalogue and the index of the repository it names,     *)
(* then in the default repositories; its file is served from the cache or  *)
(* downloaded; its dependencies are resolved in turn.                      *)
(*                                                                         *)
(* The user makes one run of Resolve after another.  A run may crash       *)
(* anywhere, in the middle of writing a file too; any request may fail;    *)
(* between runs the repositories change and cached files expire or are     *)
(* cleared.  A file is what its hash tells apart: package, version, build. *)
(***************************************************************************)
EXTENDS Naturals, Sequences, FiniteSets

CONSTANTS Ids,         \* package ids
          Core,        \* the ids that are never fetched (deps.go)
          Versions,    \* version strings
          SafeVersion, \* [Versions -> Versions]: what a file name can hold
          Builds,      \* what distinguishes two files of one version
          Repos,       \* repositories
          Sources,     \* Seq(Repos): --apt-source
          Defaults,    \* Seq(Repos): defaultRepos
          Worlds,      \* possible contents of the repositories and Canister
          Requests,    \* what a run may be asked for
          NoPin,       \* not a version
          MaxRuns      \* runs of the session (bounds the state space)

\* A stanza of an index.  Depends is a sequence of groups of alternatives; sha
\* says whether the stanza has a SHA256, file whether it has a Filename.
Groups == Seq(Seq(Ids \cup Core))
Entry  == [id : Ids, ver : Versions, arm64 : BOOLEAN, build : Builds,
           sha : BOOLEAN, file : BOOLEAN, depends : Groups]

\* A free and visible record of Canister.
Record == [repo : Repos, ver : Versions, build : Builds, sha : BOOLEAN,
           file : BOOLEAN, latest : BOOLEAN, quality : Nat]

ASSUME FetchAssumption ==
  /\ Ids \cap Core = {}
  /\ NoPin \notin Versions
  /\ SafeVersion \in [Versions -> Versions]
  /\ Sources \in Seq(Repos)
  /\ Defaults \in Seq(Repos)
  /\ \A w \in Worlds : /\ w.index \in [Repos -> Seq(Entry)]
                       /\ w.catalogue \in [Ids -> Seq(Record)]
  /\ \A r \in Requests : /\ r.ids \in Seq(Ids)
                         /\ r.pins \in [Ids -> Versions \cup {NoPin}]
                         /\ r.noRecurse \in BOOLEAN
  /\ MaxRuns \in Nat

VARIABLES
  world,    \* what the repositories and Canister serve
  files,    \* the cache directory
  runs,     \* runs started
  pc,       \* where the run stands
  request,  \* what it was asked for
  todo,     \* top-level ids it has not begun
  stack,    \* walk's frames, the innermost first
  visited,  \* ids already begun
  indexed,  \* the repositories whose index the run holds
  scan,     \* the source or default repository looked at next
  found,    \* what locate found for the id of the innermost frame
  out,      \* the files resolved so far, in order
  result    \* nil, or what Resolve's error says

locateVars == <<indexed, scan, found>>
walkVars   == <<todo, stack, visited>>
vars == <<world, files, runs, pc, request, todo, stack, visited, indexed, scan,
          found, out, result>>

-----------------------------------------------------------------------------
(* The repositories and the cache directory *)

FirstOf(positions) == CHOOSE i \in positions : \A j \in positions : i <= j

Stanzas(repo, id) == {i \in DOMAIN world.index[repo] : world.index[repo][i].id = id}
Lists(repo, id)   == Stanzas(repo, id) # {}

\* findEntry: the first arm64 stanza, else the first.
FindEntry(repo, id) ==
  LET all   == Stanzas(repo, id)
      arm64 == {i \in all : world.index[repo][i].arm64}
  IN  world.index[repo][FirstOf(IF arm64 # {} THEN arm64 ELSE all)]

\* What locate returns.  The file, and the hash where there is one, are those of
\* build `build' of version `of'; ver is the version it goes by.
Located == [repo : Repos, ver : Versions, of : Versions, build : Builds,
            sha : BOOLEAN, file : BOOLEAN, depends : Groups]

Stanza(repo, id) ==
  LET e == FindEntry(repo, id)
  IN  [repo |-> repo, ver |-> e.ver, of |-> e.ver, build |-> e.build,
       sha |-> e.sha, file |-> e.file, depends |-> e.depends]

Listed(r) == [repo |-> r.repo, ver |-> r.ver, of |-> r.ver, build |-> r.build,
              sha |-> r.sha, file |-> r.file, depends |-> <<>>]

\* A stanza without a Filename takes Canister's file, and its hash if it has none
\* of its own.
Completed(e, l) ==
  CASE e.file -> e
    [] e.sha /\ ~e.file -> [e EXCEPT !.file = l.file]
    [] OTHER -> [e EXCEPT !.file = l.file, !.sha = l.sha, !.of = l.of,
                          !.build = l.build]

\* canisterLookup: the latest version, then the higher quality, then the first.
Better(a, b) == IF a.latest # b.latest THEN a.latest ELSE a.quality > b.quality

Best(records) ==
  records[CHOOSE i \in DOMAIN records : \A j \in DOMAIN records :
            \/ Better(records[i], records[j])
            \/ ~Better(records[j], records[i]) /\ i <= j]

\* cacheFileName: two versions may share a name.
Name(id, ver) == <<id, SafeVersion[ver]>>
Names == Ids \X Versions
File  == [name : Names, ver : Versions, build : Builds, whole : BOOLEAN,
          stale : BOOLEAN]

Under(name) == {f \in files : f.name = name}

\* A file is the one a hash was computed of.
Matches(f, l) == f.whole /\ f.ver = l.of /\ f.build = l.build

\* A dependency group is satisfied without fetching when it has core packages
\* only, or when an alternative has been begun.  Otherwise the first
\* alternative that is not a core package is fetched.
Fetchable(group) == {i \in DOMAIN group : group[i] \notin Core}

\* Deliberately wrong variant of the next definition: a core alternative
\* satisfies the group.
SatisfiedByCore(group) == \E i \in DOMAIN group : group[i] \in visited \cup Core

Satisfied(group) == \/ Fetchable(group) = {}
                    \/ \E i \in DOMAIN group : group[i] \in visited

Top == Head(stack)
Push(frame, frames) == <<frame>> \o frames
Left(groups) == [Top EXCEPT !.groups = groups]
ToFollow == IF request.noRecurse THEN <<>> ELSE Head(found).depends

-----------------------------------------------------------------------------

TypeOK ==
  /\ world \in Worlds
  /\ files \in SUBSET File
  /\ \A f, g \in files : f.name = g.name => f = g
  /\ runs \in 0..MaxRuns
  /\ pc \in {"idle", "next", "sources", "canister", "pin", "repo", "index",
             "sweep", "cached", "download", "write", "depends", "ended"}
  /\ request \in Requests
  /\ todo \in Seq(Ids)
  /\ stack \in Seq([id : Ids, groups : Groups])
  /\ visited \in SUBSET Ids
  /\ indexed \in SUBSET Repos
  /\ scan \in Nat \ {0}
  /\ found \in Seq(Located) /\ Len(found) <= 1
  /\ out \in Seq([id : Ids, from : Located])
  /\ result \in {"none", "nil", "network", "notLocated", "noVersion",
                 "noFile", "mismatch", "disk"}

Init ==
  /\ world \in Worlds
  /\ files = {}
  /\ runs = 0
  /\ pc = "idle"
  /\ request \in Requests
  /\ todo = <<>>
  /\ stack = <<>>
  /\ visited = {}
  /\ indexed = {}
  /\ scan = 1
  /\ found = <<>>
  /\ out = <<>>
  /\ result = "none"

-----------------------------------------------------------------------------
(* Deliberately wrong variants of actions below. *)

\* A cached file is served without looking at its hash.
TrustCache ==
  /\ pc = "cached"
  /\ Head(found).file
  /\ Under(Name(Top.id, Head(found).ver)) # {}
  /\ out' = Append(out, [id |-> Top.id, from |-> Head(found)])
  /\ pc' = "depends"
  /\ stack' = Push(Left(ToFollow), Tail(stack))
  /\ UNCHANGED <<world, files, runs, request, todo, visited, locateVars, result>>

\* A repository of the sweep that is already indexed is not passed over.
SweepStuck ==
  /\ pc = "sweep"
  /\ scan <= Len(Defaults)
  /\ Defaults[scan] \in indexed
  /\ UNCHANGED vars

-----------------------------------------------------------------------------
(* Resolve and walk *)

\* Resolve prunes what has expired, then takes the ids one by one.
Start ==
  /\ pc = "idle"
  /\ runs < MaxRuns
  /\ runs' = runs + 1
  /\ files' = {f \in files : ~f.stale}
  /\ request' \in Requests
  /\ todo' = request'.ids
  /\ stack' = <<>>
  /\ visited' = {}
  /\ indexed' = {}
  /\ out' = <<>>
  /\ found' = <<>>
  /\ result' = "none"
  /\ pc' = "next"
  /\ UNCHANGED <<world, scan>>

\* Resolve returns; an error returns no file.
Return(r) == /\ result' = r
             /\ out' = IF r = "nil" THEN out ELSE <<>>
             /\ pc' = "ended"
             /\ UNCHANGED <<world, runs, request, walkVars, indexed, scan>>

\* walk(id) is entered: the id counts as resolved from here on.
Enter(id, frames) == /\ stack' = Push([id |-> id, groups |-> <<>>], frames)
                     /\ visited' = visited \cup {id}
                     /\ pc' = "sources"
                     /\ scan' = 1

NextId ==
  /\ pc = "next"
  /\ todo # <<>>
  /\ todo' = Tail(todo)
  /\ IF Head(todo) \in visited THEN UNCHANGED <<stack, visited, pc, scan>>
                               ELSE Enter(Head(todo), <<>>)
  /\ UNCHANGED <<world, files, runs, request, indexed, found, out, result>>

AllResolved == /\ pc = "next"
               /\ todo = <<>>
               /\ Return("nil")
               /\ UNCHANGED <<files, found>>

-----------------------------------------------------------------------------
(* locate *)

\* indexFor: an index is fetched once a run; a failure is not remembered.
HasIndex(repo) == /\ repo \in indexed \/ world.index[repo] # <<>>
                  /\ indexed' = indexed \cup {repo}

NoIndex(repo) == repo \notin indexed /\ UNCHANGED indexed

FoundIn(repo) == /\ HasIndex(repo)
                 /\ Lists(repo, Top.id)
                 /\ found' = <<Stanza(repo, Top.id)>>

NotFoundIn(repo) == /\ \/ HasIndex(repo) /\ ~Lists(repo, Top.id)
                       \/ NoIndex(repo)
                    /\ UNCHANGED found

Locating == UNCHANGED <<world, files, runs, request, walkVars, out, result>>

LookInSource ==
  /\ pc = "sources"
  /\ scan <= Len(Sources)
  /\ \/ FoundIn(Sources[scan]) /\ pc' = "cached" /\ UNCHANGED scan
     \/ NotFoundIn(Sources[scan]) /\ scan' = scan + 1 /\ UNCHANGED pc
  /\ Locating

SourcesDone ==
  /\ pc = "sources"
  /\ scan > Len(Sources)
  /\ pc' = "canister"
  /\ UNCHANGED locateVars
  /\ Locating

\* Canister knows the package; a pin that is not its best version needs a look
\* at the other versions.
Pin == request.pins[Top.id]
Free(id) == world.catalogue[id]

CanisterKnows ==
  /\ pc = "canister"
  /\ Free(Top.id) # <<>>
  /\ found' = <<Listed(Best(Free(Top.id)))>>
  /\ pc' = IF Pin \in {NoPin, Best(Free(Top.id)).ver} THEN "repo" ELSE "pin"
  /\ UNCHANGED <<indexed, scan>>
  /\ Locating

\* It does not, or does not answer.
CanisterFails ==
  /\ pc = "canister"
  /\ pc' = "sweep"
  /\ scan' = 1
  /\ UNCHANGED <<indexed, found>>
  /\ Locating

OfPin == {i \in DOMAIN Free(Top.id) : Free(Top.id)[i].ver = Pin}

PinFound ==
  /\ pc = "pin"
  /\ OfPin # {}
  /\ found' = <<Listed(Free(Top.id)[FirstOf(OfPin)])>>
  /\ pc' = "repo"
  /\ UNCHANGED <<indexed, scan>>
  /\ Locating

PinUnknown == /\ pc = "pin"
              /\ OfPin = {}
              /\ Return("noVersion")
              /\ UNCHANGED <<files, found>>

RepoKnown ==
  /\ pc = "repo"
  /\ pc' = "index"
  /\ UNCHANGED locateVars
  /\ Locating

RequestFails == /\ pc \in {"pin", "repo", "download"}
                /\ Return("network")
                /\ UNCHANGED <<files, found>>

\* The index of the hosting repository overrides what Canister said.
RepoIndex ==
  /\ pc = "index"
  /\ \/ /\ HasIndex(Head(found).repo)
        /\ Lists(Head(found).repo, Top.id)
        /\ found' = <<Completed(Stanza(Head(found).repo, Top.id), Head(found))>>
     \/ NotFoundIn(Head(found).repo)
  /\ pc' = "cached"
  /\ UNCHANGED scan
  /\ Locating

\* The sweep passes over a repository whose index the run holds.
Sweep ==
  /\ pc = "sweep"
  /\ scan <= Len(Defaults)
  /\ LET repo == Defaults[scan]
     IN  \/ /\ repo \in indexed
            /\ scan' = scan + 1
            /\ UNCHANGED <<indexed, found, pc>>
         \/ /\ repo \notin indexed
            /\ \/ FoundIn(repo) /\ pc' = "cached" /\ UNCHANGED scan
               \/ NotFoundIn(repo) /\ scan' = scan + 1 /\ UNCHANGED pc
  /\ Locating

SweepFails == /\ pc = "sweep"
              /\ scan > Len(Defaults)
              /\ Return("notLocated")
              /\ UNCHANGED <<files, found>>

-----------------------------------------------------------------------------
(* download *)

\* Neither the index nor Canister names a file.
NoDownload == /\ pc = "cached"
              /\ ~Head(found).file
              /\ Return("noFile")
              /\ UNCHANGED <<files, found>>

\* A cached file of that name serves, if its hash is right or none is known.
Serves(f) == ~Head(found).sha \/ Matches(f, Head(found))

Resolved ==
  /\ out' = Append(out, [id |-> Top.id, from |-> Head(found)])
  /\ stack' = Push(Left(ToFollow), Tail(stack))
  /\ pc' = "depends"
  /\ UNCHANGED <<world, runs, request, todo, visited, locateVars, result>>

CacheName == Name(Top.id, Head(found).ver)

UseCached == /\ pc = "cached"
             /\ Head(found).file
             /\ \E f \in Under(CacheName) : Serves(f)
             /\ Resolved
             /\ UNCHANGED files

CacheMiss ==
  /\ pc = "cached"
  /\ Head(found).file
  /\ \A f \in Under(CacheName) : ~Serves(f)
  /\ pc' = "download"
  /\ UNCHANGED locateVars
  /\ Locating

\* The repository serves a file, which need not be the one its index hashed.
\* WriteFile truncates what was there.
Download ==
  /\ pc = "download"
  /\ \E b \in Builds :
       /\ Head(found).sha => b = Head(found).build
       /\ files' = (files \ Under(CacheName)) \cup
                     {[name |-> CacheName, ver |-> Head(found).of,
                       build |-> b, whole |-> FALSE, stale |-> FALSE]}
  /\ pc' = "write"
  /\ UNCHANGED <<world, runs, request, walkVars, locateVars, out, result>>

WrongHash == /\ pc = "download"
             /\ Head(found).sha
             /\ Cardinality(Builds) > 1
             /\ Return("mismatch")
             /\ UNCHANGED <<files, found>>

Written == /\ pc = "write"
           /\ files' = (files \ Under(CacheName)) \cup
                         {[f EXCEPT !.whole = TRUE] : f \in Under(CacheName)}
           /\ Resolved

WriteFails == /\ pc = "write"
              /\ Return("disk")
              /\ UNCHANGED <<files, found>>

-----------------------------------------------------------------------------
(* The dependencies of the innermost frame *)

Rest == Left(Tail(Top.groups))

SkipGroup ==
  /\ pc = "depends"
  /\ Top.groups # <<>>
  /\ Satisfied(Head(Top.groups))
  /\ stack' = Push(Rest, Tail(stack))
  /\ UNCHANGED <<world, files, runs, pc, request, todo, visited, locateVars,
                 out, result>>

FollowGroup ==
  /\ pc = "depends"
  /\ Top.groups # <<>>
  /\ ~Satisfied(Head(Top.groups))
  /\ LET group == Head(Top.groups)
     IN  Enter(group[FirstOf(Fetchable(group))], Push(Rest, Tail(stack)))
  /\ UNCHANGED <<world, files, runs, request, todo, indexed, found, out, result>>

WalkReturns ==
  /\ pc = "depends"
  /\ Top.groups = <<>>
  /\ stack' = Tail(stack)
  /\ pc' = IF Tail(stack) = <<>> THEN "next" ELSE "depends"
  /\ UNCHANGED <<world, files, runs, request, todo, visited, locateVars, out,
                 result>>

-----------------------------------------------------------------------------
(* Around the runs *)

\* The caller has used the files.
Collect == /\ pc = "ended"
           /\ pc' = "idle"
           /\ UNCHANGED <<world, files, runs, request, walkVars, locateVars, out,
                          result>>

Crash == /\ pc \notin {"idle", "ended"}
         /\ pc' = "idle"
         /\ UNCHANGED <<world, files, runs, request, walkVars, locateVars, out,
                        result>>

Between == /\ pc = "idle"
           /\ runs \in 1..(MaxRuns - 1)
           /\ UNCHANGED <<runs, pc, request, walkVars, locateVars, out, result>>

ReposChange == Between /\ world' \in Worlds /\ UNCHANGED files

FilesExpire == /\ Between
               /\ files' = {[f EXCEPT !.stale = TRUE] : f \in files}
               /\ UNCHANGED world

\* ClearCache, and PruneExpired of `xkvm cache`.
ClearCache == Between /\ files' = {} /\ UNCHANGED world

PruneExpired == /\ Between
                /\ files' = {f \in files : ~f.stale}
                /\ UNCHANGED world

Resolve == \/ NextId \/ AllResolved
           \/ LookInSource \/ SourcesDone \/ CanisterKnows \/ CanisterFails
           \/ PinFound \/ PinUnknown \/ RepoKnown \/ RequestFails \/ RepoIndex
           \/ Sweep \/ SweepFails
           \/ NoDownload \/ UseCached \/ CacheMiss \/ Download \/ WrongHash
           \/ Written \/ WriteFails
           \/ SkipGroup \/ FollowGroup \/ WalkReturns

Next == \/ Start \/ Resolve \/ Collect \/ Crash
        \/ ReposChange \/ FilesExpire \/ ClearCache \/ PruneExpired

Spec == Init /\ [][Next]_vars

\* Requests are answered or time out, so a run that has started goes on.
FairSpec == Spec /\ WF_vars(Resolve)

-----------------------------------------------------------------------------
(* Correctness *)

Resolving == pc # "idle"
OutIds    == {out[i].id : i \in DOMAIN out}

\* Success is a closed set: the ids asked for and, with recursion, an
\* alternative of every dependency that has one to fetch.
MetBy(group, ids) ==
  \/ \A i \in DOMAIN group : group[i] \in Core
  \/ \E i \in DOMAIN group : group[i] \in ids

Closed ==
  result = "nil" /\ Resolving =>
    /\ \A i \in DOMAIN request.ids : request.ids[i] \in OutIds
    /\ ~request.noRecurse =>
         \A i \in DOMAIN out : \A g \in DOMAIN out[i].from.depends :
           MetBy(out[i].from.depends[g], OutIds)

\* A file returned for a package whose hash is known is that very file, whole,
\* whatever earlier runs, crashes and changes left in the cache.
HashedIsRight ==
  Resolving => \A i \in DOMAIN out : out[i].from.sha =>
    \E f \in Under(Name(out[i].id, out[i].from.ver)) : Matches(f, out[i].from)

\* A run ends: no cycle of dependencies, and no list of repositories, keeps it.
RunEnds == pc = "next" ~> pc \in {"idle", "ended"}

\* The comment of locate: "a package neither knows about triggers the smart
\* fallback sweep over the built-in default repo list": a package that is given
\* up is in none of the default indexes the run holds.
\* Not checked by a run: the code violates it, see the README.
SweepFindsListed ==
  result = "notLocated" =>
    \A i \in DOMAIN Defaults :
      Defaults[i] \in indexed => ~Lists(Defaults[i], Top.id)

==============================================================================
