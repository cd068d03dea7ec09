----------------------------- MODULE CommonSack -----------------------------
(***************************************************************************)
(* The generic sack and its queries (include/libdnf/common/sack,           *)
(* libdnf/common/sack, include/libdnf/utils/set.hpp) with the filters of   *)
(* rpm::RepoQuery.  A query is a set of weak pointers taken from the sack  *)
(* when it is made; a filter walks over it, erases what does not match and *)
(* may throw on the way.  Items change after a query was made, and the     *)
(* sack may go away before its queries.                                    *)
(*                                                                         *)
(* Abstractions: strings are atoms, with constants for what lower case,    *)
(* globs and regular expressions say of them; the order of a query (of     *)
(* addresses in the code) is the order of CsItems.                         *)
(***************************************************************************)
EXTENDS Naturals, Sequences, SequencesExt

CONSTANTS
    CsItems,        \* the items the sack may get, in the order of a query
    CsAttr,         \* CsAttr[i]: what the getters id, tags and num give, as sequences
    CsLower,        \* CsLower[s]: s in lower case
    CsGlob,         \* CsGlob[p]: the strings pattern p matches, as glob or regex
    CsFilters,      \* filters callers use: getter, cmp, patterns
    CsQueries,      \* variables of type Query
    MaxCsOps        \* bound: operations

\* An item has one id, a filter a list of patterns (one for a flag), and the
\* name that stands for no query is none of a query.
ASSUME CommonSackAssumption ==
    /\ CsItems \in Seq(ToSet(CsItems))
    /\ \A i \in ToSet(CsItems) : CsAttr[i].id \in Seq(ToSet(CsAttr[i].id)) /\ Len(CsAttr[i].id) = 1
    /\ \A f \in CsFilters : /\ f.patterns \in Seq(ToSet(f.patterns))
                            /\ f.getter = "enabled" => Len(f.patterns) = 1
    /\ "none" \notin CsQueries

VARIABLES
    csData,         \* the items of the sack, in order of insertion
    csAlive,        \* the sack exists
    csExcludes, csIncludes, csUseIncludes,
    csEnabled,      \* csEnabled[i]: the item's flag, which anyone may change
    csQuery,        \* csQuery[q]
    csLast,         \* the last filter: query, filter, the set before, threw
    csOps

csVars == <<csData, csAlive, csExcludes, csIncludes, csUseIncludes, csEnabled, csQuery, csLast, csOps>>

NoFilterYet == [q |-> "none"]

CsTypeOK ==
    /\ ToSet(csData) \subseteq ToSet(CsItems)
    /\ csExcludes \cup csIncludes \subseteq ToSet(CsItems)
    /\ csQuery \in [CsQueries -> SUBSET ToSet(CsItems)]
    /\ csAlive \in BOOLEAN /\ csUseIncludes \in BOOLEAN
    /\ csOps \in 0 .. MaxCsOps

-----------------------------------------------------------------------------
Truth(b) == IF b THEN "yes" ELSE "no"

\* match_string of one value and one pattern; an operator that is not
\* implemented, not supported or only a flag throws.
MatchString(v, cmp, p) ==
    CASE cmp = "EXACT" -> Truth(v = p)
      [] cmp = "NEQ" -> Truth(v # p)
      [] cmp = "IEXACT" -> Truth(CsLower[v] = CsLower[p])
      [] cmp \in {"GLOB", "REGEX"} -> Truth(v \in CsGlob[p])
      [] cmp \in {"IGLOB", "IREGEX"} -> Truth(\E w \in CsGlob[p] : CsLower[w] = CsLower[v])
      [] OTHER -> "throw"

\* match_int64 of one value and one pattern.
MatchInt(v, cmp, p) ==
    CASE cmp = "EXACT" -> Truth(v = p)
      [] cmp = "NEQ" -> Truth(v # p)
      [] cmp = "LT" -> Truth(v < p)
      [] cmp = "LTE" -> Truth(v <= p)
      [] cmp = "GT" -> Truth(v > p)
      [] cmp = "GTE" -> Truth(v >= p)
      [] OTHER -> "throw"

\* The first answer that is not no, in the order the loops ask.
FirstAnswer(answers) ==
    LET k == SelectInSeq(answers, LAMBDA a : a # "no") IN
    IF k = 0 THEN "no" ELSE answers[k]

\* match_string of several values and several patterns: values outside.
MatchStrings(vs, cmp, ps) ==
    FirstAnswer([k \in 1 .. Len(vs) * Len(ps) |->
        MatchString(vs[((k - 1) \div Len(ps)) + 1], cmp, ps[((k - 1) % Len(ps)) + 1])])

\* match_int64, likewise.
MatchInts(vs, cmp, ps) ==
    FirstAnswer([k \in 1 .. Len(vs) * Len(ps) |->
        MatchInt(vs[((k - 1) \div Len(ps)) + 1], cmp, ps[((k - 1) % Len(ps)) + 1])])

\* ifilter with a bool getter takes every operator but EQ for a mismatch.
MatchBool(v, cmp, p) == Truth(cmp = "EXACT" /\ v = p)

\* What the getter and the match say of an item; a getter throws on a weak
\* pointer whose sack is gone.
Answer(i, f) ==
    IF ~ csAlive THEN "throw"
    ELSE CASE f.getter = "enabled" -> MatchBool(csEnabled[i], f.cmp, f.patterns[1])
           [] f.getter \in {"id", "tags"} -> MatchStrings(CsAttr[i][f.getter], f.cmp, f.patterns)
           [] OTHER -> MatchInts(CsAttr[i][f.getter], f.cmp, f.patterns)

-----------------------------------------------------------------------------
\* Where the items of a query are in the order of its walk.
Walk(q) == {k \in DOMAIN CsItems : CsItems[k] \in csQuery[q]}

FilteredSlip(q, f) ==
    LET throws == {k \in Walk(q) : Answer(CsItems[k], f) = "throw"}
        seen == {k \in Walk(q) : \A t \in throws : k <= t}
    IN  [threw |-> throws # {},
         set |-> csQuery[q] \ {CsItems[k] : k \in {j \in seen : Answer(CsItems[j], f) # "yes"}}]

\* Query<T>::ifilter: the items are erased one by one until one throws.
CsFiltered(q, f) ==
    LET throws == {k \in Walk(q) : Answer(CsItems[k], f) = "throw"}
        seen == {k \in Walk(q) : \A t \in throws : k < t}
    IN  [threw |-> throws # {},
         set |-> csQuery[q] \ {CsItems[k] : k \in {j \in seen : Answer(CsItems[j], f) = "no"}}]

CsOp == csOps < MaxCsOps /\ csOps' = csOps + 1

IFilter(q, f) ==
    /\ CsOp
    /\ csQuery' = [csQuery EXCEPT ![q] = CsFiltered(q, f).set]
    /\ csLast' = [q |-> q, f |-> f, before |-> csQuery[q], threw |-> CsFiltered(q, f).threw]
    /\ UNCHANGED <<csData, csAlive, csExcludes, csIncludes, csUseIncludes, csEnabled>>

\* Sack::new_query: the includes when they are used, else all items; less the
\* excludes.
NewCsQuery(q) ==
    /\ CsOp /\ csAlive
    /\ csQuery' = [csQuery EXCEPT
           ![q] = (IF csUseIncludes THEN csIncludes ELSE ToSet(csData)) \ csExcludes]
    /\ csLast' = NoFilterYet
    /\ UNCHANGED <<csData, csAlive, csExcludes, csIncludes, csUseIncludes, csEnabled>>

\* Set's operators, on queries of the sack.
Combine(q, r) ==
    /\ CsOp /\ csAlive
    /\ \E s \in {csQuery[q] \cup csQuery[r], csQuery[q] \cap csQuery[r], csQuery[q] \ csQuery[r],
                 (csQuery[q] \ csQuery[r]) \cup (csQuery[r] \ csQuery[q])} :
           csQuery' = [csQuery EXCEPT ![q] = s]
    /\ csLast' = NoFilterYet
    /\ UNCHANGED <<csData, csAlive, csExcludes, csIncludes, csUseIncludes, csEnabled>>

\* Sack::add_item, add_item_with_return.
SackAddItem(i) ==
    /\ CsOp /\ csAlive /\ i \notin ToSet(csData)
    /\ csData' = Append(csData, i)
    /\ csLast' = NoFilterYet
    /\ UNCHANGED <<csAlive, csExcludes, csIncludes, csUseIncludes, csEnabled, csQuery>>

\* add_, remove_ and set_ of excludes and includes with the items of a query.
SetLimits(q) ==
    /\ CsOp /\ csAlive
    /\ \/ /\ csExcludes' \in {csExcludes \cup csQuery[q], csExcludes \ csQuery[q], csQuery[q]}
          /\ UNCHANGED <<csIncludes, csUseIncludes>>
       \/ /\ csIncludes' \in {csIncludes \cup csQuery[q], csIncludes \ csQuery[q], csQuery[q]}
          /\ csUseIncludes' \in BOOLEAN
          /\ UNCHANGED csExcludes
    /\ csLast' = NoFilterYet
    /\ UNCHANGED <<csData, csAlive, csEnabled, csQuery>>

\* The item changes: the repository is enabled or disabled.
SetEnabled(i) ==
    /\ CsOp /\ csAlive
    /\ csEnabled' = [csEnabled EXCEPT ![i] = ~ @]
    /\ csLast' = NoFilterYet
    /\ UNCHANGED <<csData, csAlive, csExcludes, csIncludes, csUseIncludes, csQuery>>

\* The sack is destroyed: its guard clears every weak pointer.
DropSack ==
    /\ CsOp /\ csAlive /\ csAlive' = FALSE
    /\ csLast' = NoFilterYet
    /\ UNCHANGED <<csData, csExcludes, csIncludes, csUseIncludes, csEnabled, csQuery>>

CsInit ==
    /\ csData = << >> /\ csAlive = TRUE
    /\ csExcludes = {} /\ csIncludes = {} /\ csUseIncludes = FALSE
    /\ csEnabled = [i \in ToSet(CsItems) |-> TRUE]
    /\ csQuery = [q \in CsQueries |-> {}]
    /\ csLast = NoFilterYet
    /\ csOps = 0

CsNext ==
    \/ \E q \in CsQueries : NewCsQuery(q) \/ SetLimits(q)
    \/ \E q \in CsQueries, f \in CsFilters : IFilter(q, f)
    \/ \E q, r \in CsQueries : Combine(q, r)
    \/ \E i \in ToSet(CsItems) : SackAddItem(i) \/ SetEnabled(i)
    \/ DropSack

CsSpec == CsInit /\ [][CsNext]_csVars

-----------------------------------------------------------------------------
\* The getters of rpm::RepoQuery: one value for each item.
RepoGetters == {"id", "enabled"}

\* A filter of RepoQuery answers for the whole query or not at all: when it
\* throws (an operator that is not implemented, a sack that is gone) the query
\* is as it was, and when it does not, what is left is every item, as it is
\* now, for which some pattern holds.
FilterAllOrNothing ==
    (csLast.q \in CsQueries /\ csLast.f.getter \in RepoGetters) =>
        IF csLast.threw THEN csQuery[csLast.q] = csLast.before
        ELSE csQuery[csLast.q] =
             {i \in csLast.before :
                 /\ csAlive
                 /\ \E k \in DOMAIN csLast.f.patterns :
                        LET p == csLast.f.patterns[k] IN
                        IF csLast.f.getter = "enabled" THEN MatchBool(csEnabled[i], csLast.f.cmp, p) = "yes"
                        ELSE MatchString(CsAttr[i].id[1], csLast.f.cmp, p) = "yes"}
=============================================================================
