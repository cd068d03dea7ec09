--------------------------- MODULE SolvContainers ---------------------------
(***************************************************************************)
(* The containers of libdnf's rpm API over libsolv: PackageSet on SolvMap  *)
(* (libdnf/rpm/package_set.cpp, solv/solv_map.hpp, solv/map_iterator.hpp), *)
(* ReldepList on IdQueue (reldep_list.cpp, solv/id_queue.hpp,              *)
(* solv/queue_iterator.hpp), and what a Package reads from its solvable:   *)
(* its dependencies and the parts of its evr (solv/package_private.hpp).   *)
(*                                                                         *)
(* A caller walks over a container with an iterator while it goes on       *)
(* changing containers, as a range-for over a set that its body edits.  An *)
(* iterator points into the memory of its container: an operation that     *)
(* reallocates or frees that memory leaves it `lost'.                      *)
(*                                                                         *)
(* Abstractions: a map is the set of ids whose bit is 1, with its length   *)
(* in bytes of ByteBits bits (8 in the code); an evr is a sequence of      *)
(* characters, an abstract one standing for each class the code tells      *)
(* apart.  libsolv's map and queue functions are external.                 *)
(***************************************************************************)
EXTENDS Integers, Sequences, FiniteSets, SequencesExt, FiniteSetsExt

CONSTANTS
    ByteBits,       \* bits of a byte of a map
    MapNames,       \* the PackageSets the caller has
    PoolSizes,      \* values pool->nsolvables takes as repositories load
    ListNames,      \* the ReldepLists the caller has
    DepStrings,     \* dependency strings that Reldep::get_reldep_id parses
    BadDeps,        \* strings that it does not
    GlobDeps,       \* GlobDeps[pattern]: what the strings of the pool match, in order
    PkgDeps,        \* PkgDeps[type]: a solvable's dependencies; "marker" in the requires
    Evrs,           \* the evrs of the solvables, as their epoch, version and release
    MaxListLen,     \* bound: length of a list
    MaxMapOps       \* bound: changes of containers in a behaviour

ASSUME SolvContainersAssumption ==
    /\ ByteBits \in Nat \ {0} /\ MaxListLen \in Nat /\ MaxMapOps \in Nat
    /\ PoolSizes \subseteq Nat \ {0} /\ PoolSizes # {} /\ MapNames # {} /\ ListNames # {}
    /\ \A g \in DOMAIN GlobDeps : GlobDeps[g] \in Seq(ToSet(GlobDeps[g]))
    /\ \A t \in DOMAIN PkgDeps : PkgDeps[t] \in Seq(ToSet(PkgDeps[t]))
    /\ "requires" \in DOMAIN PkgDeps
    /\ \A i, j \in DOMAIN PkgDeps["requires"] :
          PkgDeps["requires"][i] = "marker" /\ PkgDeps["requires"][j] = "marker" => i = j
    /\ Evrs # {} /\ Evrs \subseteq [epoch : Seq(STRING), version : Seq(STRING) \ {<< >>}, release : Seq(STRING)]
    /\ \A p \in Evrs : (ToSet(p.epoch) \cup ToSet(p.version)) \cap {":", "-"} = {}

VARIABLES
    nsolvables,     \* pool->nsolvables
    smap,           \* smap[s]: its bytes and the ids whose bit is 1
    mapWalk,        \* the SolvMapIterator and what it has returned
    deps,           \* deps[l]: the ReldepList's queue
    depWalk,        \* the IdQueueIterator and what it has returned
    evr,            \* the evr of the package the caller holds
    mapOps          \* operations done (bound)

mapVars == <<nsolvables, smap, mapWalk>>
depVars == <<deps, depWalk>>
contVars == <<mapVars, depVars, evr, mapOps>>

BEGIN == 0 - 1
END == 0 - 2

NoWalk == [on |-> FALSE, of |-> CHOOSE s \in MapNames : TRUE, at |-> 0, end |-> 0, value |-> END, lost |-> FALSE,
           seen |-> << >>, stable |-> {}, ever |-> {}, rewound |-> FALSE]

NoDepWalk == [on |-> FALSE, of |-> CHOOSE l \in ListNames : TRUE, index |-> 0,
              end |-> TRUE, seen |-> << >>, steady |-> TRUE]

ContTypeOK ==
    /\ nsolvables \in PoolSizes
    /\ \A s \in DOMAIN smap : smap[s].bits \subseteq 0 .. (smap[s].bytes * ByteBits - 1)
    /\ mapWalk.value \in {END} \cup 0 .. Max(PoolSizes) + ByteBits
    /\ \A l \in ListNames : Len(deps[l]) <= MaxListLen
    /\ depWalk.index \in 0 .. MaxListLen + 1

-----------------------------------------------------------------------------
\* SolvMap(int size): map_init rounds the size up to bytes.
Bytes(n) == (n + ByteBits - 1) \div ByteBits

NewMap == [bytes |-> Bytes(nsolvables), bits |-> {}]

InRange(m, id) == id >= 0 /\ id < m.bytes * ByteBits

ByteOf(m, b) == {id \in m.bits : id \div ByteBits = b}
IsEmpty(m) == \A b \in 0 .. m.bytes - 1 : ByteOf(m, b) = {}
MapSize(m) ==
    LET count[b \in 0 .. m.bytes] == IF b = 0 THEN 0 ELSE count[b - 1] + Cardinality(ByteOf(m, b - 1))
    IN count[m.bytes]

\* External: map_or grows the target, map_subtract and map_and stop at the
\* shorter map, so what lies beyond it stays.
MapOr(m, o) == [bytes |-> Max({m.bytes, o.bytes}), bits |-> m.bits \cup o.bits]
MapSubtract(m, o) == [m EXCEPT !.bits = @ \ o.bits]
MapAnd(m, o) == [m EXCEPT !.bits = {id \in @ : id \in o.bits \/ ~ InRange(o, id)}]

-----------------------------------------------------------------------------
\* SolvMapIterator::operator++ from byte b on: the first bit of the first byte
\* that is not zero.
Scan(m, it, b) ==
    LET bytes == {c \in b .. it.end - 1 : ByteOf(m, c) # {}} IN
    IF bytes = {}
    THEN [it EXCEPT !.at = Max({b, it.end}), !.value = END]
    ELSE [it EXCEPT !.at = Min(bytes), !.value = Min(ByteOf(m, Min(bytes)))]

RestSlip(m, it) == {id \in ByteOf(m, it.at) : id % ByteBits > (it.value % ByteBits) + 1}

\* The bits of the current byte that shifting out the seen ones leaves.
Rest(m, it) == {id \in ByteOf(m, it.at) : id % ByteBits > it.value % ByteBits}

\* SolvMapIterator::operator++.
Increment(m, it) ==
    IF it.value < 0 THEN Scan(m, it, it.at)
    ELSE IF Rest(m, it) # {} THEN [it EXCEPT !.value = Min(Rest(m, it))]
    ELSE Scan(m, it, it.at + 1)

\* SolvMapIterator::begin keeps its place in the map.
Begin(m, it) == Increment(m, [it EXCEPT !.value = BEGIN])

\* SolvMapIterator's constructor.
IteratorOf(m) == Begin(m, [NoWalk EXCEPT !.end = m.bytes])

-----------------------------------------------------------------------------
\* The caller's record of a walk: what it got, what was in the container all
\* the time and what was in it at some time.
Returned(it) == IF it.value < 0 THEN it ELSE [it EXCEPT !.seen = Append(@, it.value)]

Watched(w, m, s) ==
    IF w.on /\ w.of = s
    THEN [w EXCEPT !.stable = @ \cap m.bits, !.ever = @ \cup m.bits]
    ELSE w

\* A change of set s in place.
Change(s, m) ==
    /\ smap' = [smap EXCEPT ![s] = m]
    /\ mapWalk' = Watched(mapWalk, m, s)

\* A change that gives sets new memory: an iterator into it is lost.
Reallocate(new) ==
    /\ smap' = [s \in MapNames |-> IF s \in DOMAIN new THEN new[s] ELSE smap[s]]
    /\ mapWalk' = [mapWalk EXCEPT !.lost = @ \/ (mapWalk.on /\ mapWalk.of \in DOMAIN new)]

MapOp ==
    /\ mapOps < MaxMapOps /\ mapOps' = mapOps + 1
    /\ UNCHANGED <<depVars, evr>>

\* A repository is loaded: the pool grows, sets made earlier do not.
PoolGrows(n) ==
    /\ MapOp
    /\ n > nsolvables /\ nsolvables' = n
    /\ UNCHANGED <<smap, mapWalk>>

\* PackageSet(sack), and a copy made with a SolvMap or another PackageSet.
NewSet(s) == MapOp /\ Reallocate([x \in {s} |-> NewMap]) /\ UNCHANGED nsolvables

\* SolvMap's copy assignment (from itself it would clone freed memory).
AssignMap(s, o) ==
    /\ MapOp /\ s # o
    /\ Reallocate([x \in {s} |-> smap[o]])
    /\ UNCHANGED nsolvables

\* SolvMap's move assignment swaps.
SwapMap(s, o) ==
    /\ MapOp /\ s # o
    /\ Reallocate([x \in {s, o} |-> IF x = s THEN smap[o] ELSE smap[s]])
    /\ UNCHANGED nsolvables

\* add and remove throw out_of_range beyond the map.
AddId(s, id) ==
    /\ MapOp /\ InRange(smap[s], id)
    /\ Change(s, [smap[s] EXCEPT !.bits = @ \cup {id}]) /\ UNCHANGED nsolvables

RemoveId(s, id) ==
    /\ MapOp /\ InRange(smap[s], id)
    /\ Change(s, [smap[s] EXCEPT !.bits = @ \ {id}]) /\ UNCHANGED nsolvables

ClearMap(s) == MapOp /\ Change(s, [smap[s] EXCEPT !.bits = {}]) /\ UNCHANGED nsolvables

Union(s, o) ==
    /\ MapOp
    /\ LET m == MapOr(smap[s], smap[o]) IN
       IF m.bytes > smap[s].bytes THEN Reallocate([x \in {s} |-> m]) ELSE Change(s, m)
    /\ UNCHANGED nsolvables

Difference(s, o) == MapOp /\ Change(s, MapSubtract(smap[s], smap[o])) /\ UNCHANGED nsolvables
Intersection(s, o) == MapOp /\ Change(s, MapAnd(smap[s], smap[o])) /\ UNCHANGED nsolvables

-----------------------------------------------------------------------------
Started(s, it) ==
    Returned([it EXCEPT !.on = TRUE, !.of = s, !.seen = << >>,
                        !.stable = smap[s].bits, !.ever = smap[s].bits])

\* PackageSet::begin: the constructor, then begin() again.
WalkBegin(s) ==
    /\ mapWalk' = Started(s, Begin(smap[s], IteratorOf(smap[s])))
    /\ UNCHANGED <<nsolvables, smap, depVars, evr, mapOps>>

\* PackageSetIterator::operator++.
WalkNext ==
    /\ mapWalk.on /\ mapWalk.value >= 0 /\ ~ mapWalk.lost
    /\ mapWalk' = Returned(Increment(smap[mapWalk.of], mapWalk))
    /\ UNCHANGED <<nsolvables, smap, depVars, evr, mapOps>>

\* PackageSetIterator::begin of an iterator in use.
Rewind ==
    /\ mapWalk.on /\ ~ mapWalk.rewound /\ ~ mapWalk.lost
    /\ mapWalk' = [Started(mapWalk.of, Begin(smap[mapWalk.of], mapWalk)) EXCEPT !.rewound = TRUE]
    /\ UNCHANGED <<nsolvables, smap, depVars, evr, mapOps>>

-----------------------------------------------------------------------------
\* IdQueueIterator: constructor, begin and operator++.
DepStep(l, it, i) ==
    IF i > Len(deps[l]) THEN [it EXCEPT !.index = i, !.end = TRUE]
    ELSE [it EXCEPT !.index = i, !.end = FALSE, !.seen = Append(@, deps[l][i])]

DepWalkBegin(l) ==
    /\ depWalk' = DepStep(l, [NoDepWalk EXCEPT !.on = TRUE, !.of = l], 1)
    /\ UNCHANGED <<mapVars, deps, evr, mapOps>>

DepWalkNext ==
    /\ depWalk.on /\ ~ depWalk.end
    /\ depWalk' = DepStep(depWalk.of, depWalk, depWalk.index + 1)
    /\ UNCHANGED <<mapVars, deps, evr, mapOps>>

DepOp(new, appended) ==
    /\ mapOps < MaxMapOps /\ mapOps' = mapOps + 1
    /\ \A l \in ListNames : Len(new[l]) <= MaxListLen
    /\ deps' = new
    /\ depWalk' = [depWalk EXCEPT !.on = @ /\ (~ depWalk.end \/ new[depWalk.of] = deps[depWalk.of]),
                                  !.steady = @ /\ (appended \/ new[depWalk.of] = deps[depWalk.of])]
    /\ UNCHANGED <<mapVars, evr>>

\* ReldepList::append, and the assignments of IdQueue: a copy (nothing when it
\* is from itself) and a move, which swaps.
AppendList(l, k) == l # k /\ DepOp([deps EXCEPT ![l] = @ \o deps[k]], TRUE)
AssignList(l, k) == DepOp([deps EXCEPT ![l] = deps[k]], l = k)
MoveList(l, k) == l # k /\ DepOp([deps EXCEPT ![l] = deps[k], ![k] = deps[l]], FALSE)

\* Reldep::get_reldep_id throws on a string that neither parser takes.
DepParses(d) == d \notin BadDeps

\* ReldepList::add_reldep: a string that does not parse adds nothing.
AddReldep(l, d) ==
    DepOp([deps EXCEPT ![l] = IF DepParses(d) THEN Append(@, d) ELSE @], TRUE)

\* ReldepList::add_reldep_with_glob: one entry for each match.
AddReldepWithGlob(l, g) == DepOp([deps EXCEPT ![l] = @ \o GlobDeps[g]], TRUE)

IsMarker(d) == d = "marker"

\* reldeps_for: the array of requires has a marker before the pre-requires.
RegularRequires ==
    LET m == SelectInSeq(PkgDeps["requires"], IsMarker) IN
    IF m = 0 THEN PkgDeps["requires"] ELSE SubSeq(PkgDeps["requires"], 1, m - 1)

RequiresPre ==
    LET m == SelectInSeq(PkgDeps["requires"], IsMarker) IN
    IF m = 0 THEN << >> ELSE SubSeq(PkgDeps["requires"], m + 1, Len(PkgDeps["requires"]))

\* Package::get_requires and its kin.
PackageDeps(type) ==
    CASE type = "requires" -> RegularRequires \o RequiresPre
      [] type = "regular_requires" -> RegularRequires
      [] type = "requires_pre" -> RequiresPre
      [] OTHER -> PkgDeps[type]

GetDeps(l, type) == DepOp([deps EXCEPT ![l] = PackageDeps(type)], FALSE)

-----------------------------------------------------------------------------
\* External: libsolv joins the parts it reads into an evr.
Joined(p) == (IF p.epoch = << >> THEN << >> ELSE p.epoch \o <<":">>)
             \o p.version \o (IF p.release = << >> THEN << >> ELSE <<"-">> \o p.release)

\* The first place from i on where e has one of cs, past the end when none.
Seek(e, i, cs) == Min({j \in i .. Len(e) : e[j] \in cs} \cup {Len(e) + 1})

\* pool_split_evr: an epoch only before a colon that no dash precedes.
SplitEvr(e) ==
    LET k == Seek(e, 2, {":", "-"})
        r == Seek(e, k + 2, {"-"})
    IN  IF k <= Len(e) /\ e[k] = ":"
        THEN [epoch |-> SubSeq(e, 1, k - 1), version |-> SubSeq(e, k + 1, r - 1),
              release |-> SubSeq(e, r + 1, Len(e))]
        ELSE [epoch |-> << >>, version |-> SubSeq(e, 1, k - 1), release |-> SubSeq(e, k + 1, Len(e))]

\* get_full_nevra writes the epoch 0 that the evr leaves out.
FullEvr(e) ==
    LET k == Seek(e, 2, {":", "-"}) IN
    IF k <= Len(e) /\ e[k] = ":" THEN e ELSE <<"0", ":">> \o e

\* get_epoch_cstring: BASE_EPOCH when there is none.
EpochString(e) == IF SplitEvr(e).epoch = << >> THEN <<"0">> ELSE SplitEvr(e).epoch

\* The caller looks at another package.
LookAt(p) == evr' = p /\ UNCHANGED <<mapVars, depVars, mapOps>>

-----------------------------------------------------------------------------
ContInit ==
    /\ nsolvables = Min(PoolSizes)
    /\ smap = [s \in MapNames |-> [bytes |-> Bytes(Min(PoolSizes)), bits |-> {}]]
    /\ mapWalk = NoWalk
    /\ deps = [l \in ListNames |-> << >>]
    /\ depWalk = NoDepWalk
    /\ evr = CHOOSE p \in Evrs : TRUE
    /\ mapOps = 0

MapNext ==
    \/ \E n \in PoolSizes : PoolGrows(n)
    \/ \E s \in MapNames : NewSet(s) \/ ClearMap(s) \/ WalkBegin(s)
    \/ \E s, o \in MapNames : AssignMap(s, o) \/ SwapMap(s, o) \/ Union(s, o)
                             \/ Difference(s, o) \/ Intersection(s, o)
    \/ \E s \in MapNames, id \in UNION {0 .. n : n \in PoolSizes} : AddId(s, id) \/ RemoveId(s, id)
    \/ WalkNext
    \/ Rewind

DepNext ==
    \/ \E l \in ListNames : DepWalkBegin(l)
    \/ DepWalkNext
    \/ \E l, k \in ListNames : AppendList(l, k) \/ AssignList(l, k) \/ MoveList(l, k)
    \/ \E l \in ListNames, d \in DepStrings \cup BadDeps : AddReldep(l, d)
    \/ \E l \in ListNames, g \in DOMAIN GlobDeps : AddReldepWithGlob(l, g)
    \/ \E l \in ListNames, t \in DOMAIN PkgDeps \cup {"regular_requires", "requires_pre"} : GetDeps(l, t)

PkgNext == \E p \in Evrs : LookAt(p)

ContSpec == ContInit /\ [][MapNext \/ DepNext \/ PkgNext]_contVars

-----------------------------------------------------------------------------
\* A walk over a PackageSet returns ids in ascending order, each once, only ids
\* the set held at some time, and by its end every id the set held all the
\* time, although the loop adds, removes and combines while it runs; when
\* nothing changed it agrees with size() and empty().  A walk over a
\* ReldepList to which the loop only adds ends having returned all of it.
WalkVisitsContent ==
    /\ (mapWalk.on /\ ~ mapWalk.lost) =>
        LET m == smap[mapWalk.of] IN
        /\ \A i, j \in DOMAIN mapWalk.seen : i < j => mapWalk.seen[i] < mapWalk.seen[j]
        /\ ToSet(mapWalk.seen) \subseteq mapWalk.ever
        /\ (mapWalk.value = END /\ ~ mapWalk.rewound) =>
              /\ mapWalk.stable \subseteq ToSet(mapWalk.seen)
              /\ mapWalk.ever = mapWalk.stable =>
                    Len(mapWalk.seen) = MapSize(m) /\ (mapWalk.seen = << >> <=> IsEmpty(m))
    /\ (depWalk.on /\ depWalk.steady) =>
        /\ IsPrefix(depWalk.seen, deps[depWalk.of])
        /\ depWalk.end => depWalk.seen = deps[depWalk.of]

\* got is what is left of all without its markers, in the same order.
WithoutMarkers(got, all) ==
    LET before(i) == Cardinality({j \in 1 .. i : IsMarker(all[j])}) IN
    /\ Len(got) = Len(all) - before(Len(all))
    /\ \A i \in DOMAIN all : ~ IsMarker(all[i]) => got[i - before(i)] = all[i]

\* What a Package reads of its evr are the parts it was joined from, and its
\* full nevra is its epoch, 0 when it has none, its version and its release;
\* get_requires leaves out no requirement, and only the marker.
PackageReadsWhole ==
    /\ SplitEvr(Joined(evr)) = evr
    /\ FullEvr(Joined(evr)) = Joined([evr EXCEPT !.epoch = EpochString(Joined(evr))])
    /\ WithoutMarkers(PackageDeps("requires"), PkgDeps["requires"])

\* Nothing is lost on the way out of a container or a package: walks visit what
\* a map and a list hold, and accessors return the parts a package is made of
\* (map_iterator.hpp, reldep_list.cpp, package.cpp).
ReadsAreWhole == WalkVisitsContent /\ PackageReadsWhole
=============================================================================
