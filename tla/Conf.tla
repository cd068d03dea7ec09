--------------------------------- MODULE Conf ---------------------------------
(***************************************************************************)
(* Options and where their values come from: libdnf/conf/option*.cpp and   *)
(* option_child.hpp (one option), option_binds.cpp with config_main.cpp    *)
(* and config_repo.cpp (options by name), base.cpp and repo_sack.cpp       *)
(* (loading the main configuration and the repositories from files).       *)
(*                                                                         *)
(* A text is a record: the word it is, the number it starts with and what  *)
(* follows the number, the items it splits into, the variable it refers to *)
(* and whether a path is absolute.  A file is a sequence of sections.      *)
(***************************************************************************)
EXTENDS Integers, Sequences, FiniteSets, SequencesExt

CONSTANTS ConfTable,     \* option -> its kind, parent, default and limits
          RepoOptions,   \* the options that each repository has of its own
          ConfBinds,     \* key of a file -> option
          ConfTexts,     \* texts that a program sets
          ConfFiles,     \* configuration files: [good, sections]
          ConfVarDirs,   \* variables that a directory or the environment gives
          ConfGlobs,     \* the words in the files that a glob: item matches
          BadIds,        \* repository ids with a character that is not allowed
          UintRange,     \* 2^w for the width w of an unsigned option
          MaxConfSteps, MaxRepos    \* bounds

VARIABLES confMain,   \* option of ConfigMain -> [prio, value]
          confRepos,  \* RepoSack: sequence of [id, opt]
          confVars,   \* Base's variables
          confSets,   \* history: values that were accepted or outranked
          confSteps   \* bound

confAll == <<confMain, confRepos, confVars, confSets, confSteps>>

EMPTY == 0
DEFAULT == 10
MAINCONFIG == 20
REPOCONFIG == 40
COMMANDLINE == 70
RUNTIME == 80

\* The number a text starts with, as a set of at most one.
NoNum == {}
NumOf(t) == CHOOSE n \in t.num : TRUE
NoParent == "no parent"
COpt == ConfTable
IsChild(o) == COpt[o].parent # NoParent
MainOptions == DOMAIN COpt \ RepoOptions

\* Every text that a program sets or a file holds.
AllTexts ==
  ConfTexts \cup UNION {{s.items[n][2] : n \in DOMAIN s.items} : s \in UNION {ToSet(f.sections) : f \in ConfFiles}}

\* An option of ConfigMain is no child and starts with a default or with none.
ASSUME ConfAssumption ==
  /\ \A o \in MainOptions :
       /\ ~ IsChild(o) /\ COpt[o].prio \in {EMPTY, DEFAULT}
       /\ COpt[o].kind = "append" => COpt[o].dflt \in Seq(ToSet(COpt[o].dflt))
  /\ \A t \in AllTexts : t.items \in Seq(ToSet(t.items))
  /\ \A f \in ConfFiles : \A k \in DOMAIN f.sections : f.sections[k].items \in Seq(ToSet(f.sections[k].items))

\* An option without a value of its own uses the kind and limits of its parent.
Base(o) == IF IsChild(o) THEN COpt[o].parent ELSE o
Kind(o) == COpt[Base(o)].kind

-----------------------------------------------------------------------------
(* from_string: "value", or the exception: "invalid" is an                  *)
(* Option::Exception, "std" one of the standard library.                    *)

Parses(v) == [how |-> "value", v |-> v]
Fails(how) == [how |-> how]

FalseWords == {"0", "no", "false", "off"}
TrueWords == {"1", "yes", "true", "on"}

BoolFromString(t) ==
  IF t.lower \in FalseWords THEN Parses(FALSE)
  ELSE IF t.lower \in TrueWords THEN Parses(TRUE) ELSE Fails("invalid")

\* The stream stops at the first character that is no digit and does not mind
\* what follows; a minus sign before an unsigned number wraps around.
NumberFromString(t, unsigned) ==
  IF t.num = NoNum THEN Fails("invalid") ELSE Parses(IF unsigned THEN NumOf(t) % UintRange ELSE NumOf(t))

\* stod, and at most one character after the number, which must be a unit.
Scaled(t, units) ==
  IF t.word = "" THEN Fails("invalid")
  ELSE IF t.num = NoNum THEN Fails("std")
  ELSE IF NumOf(t) < 0 THEN Fails("invalid")
  ELSE IF t.rest = "" THEN Parses(NumOf(t))
  ELSE IF t.rest \in DOMAIN units THEN Parses(NumOf(t) * units[t.rest]) ELSE Fails("invalid")

\* str_to_bytes
BytesFromString(t) == Scaled(t, [k |-> 1024, m |-> 1024 * 1024])

SecondsFromString(t) ==
  IF t.word \in {"-1", "never"} THEN Parses(-1)
  ELSE Scaled(t, [s |-> 1, m |-> 60, h |-> 3600, d |-> 86400])

\* installonly_limit: whatever cannot be read is 0.
LimitFromString(t) == Parses(IF t.word = "<off>" \/ t.num = NoNum THEN 0 ELSE NumOf(t) % UintRange)

EnumFromString(o, t) ==
  Parses(IF t.lower \in DOMAIN COpt[o].alias THEN COpt[o].alias[t.lower] ELSE t.word)

ListFromString(t) == Parses(t.items)

\* resolve_globs: a glob: item stands for the words in the files it matches.
ResolveGlobs(items) ==
  FlattenSeq([i \in DOMAIN items |->
                IF items[i] \in DOMAIN ConfGlobs THEN ConfGlobs[items[i]] ELSE <<items[i]>>])

FromString(o, t) ==
  LET b == Base(o)
  IN CASE Kind(o) = "bool" -> BoolFromString(t)
       [] Kind(o) = "int" -> NumberFromString(t, FALSE)
       [] Kind(o) = "uint" -> NumberFromString(t, TRUE)
       [] Kind(o) = "bytes" -> BytesFromString(t)
       [] Kind(o) = "seconds" -> SecondsFromString(t)
       [] Kind(o) = "limit" -> LimitFromString(t)
       [] Kind(o) = "enum" -> EnumFromString(b, t)
       [] Kind(o) \in {"list", "append", "globs"} -> ListFromString(t)
       [] Kind(o) \in {"string", "path"} -> Parses(t.word)    \* a path without file://

\* test
Allowed(o, t, v) ==
  CASE Kind(o) \in {"int", "uint", "bytes", "seconds", "limit"} -> COpt[Base(o)].min <= v /\ v <= COpt[Base(o)].max
    [] Kind(o) = "enum" -> v \in COpt[Base(o)].values
    [] Kind(o) = "path" -> COpt[Base(o)].abs => t.abs
    [] OTHER -> TRUE

-----------------------------------------------------------------------------
(* One option: its priority and value, and how the call ended.              *)

Result(st, how) == [st |-> st, how |-> how]

StoreSlip(st, p, v) == IF p > st.prio THEN [prio |-> p, value |-> v] ELSE st

\* The end of every set: a value of lower priority is ignored.
Store(st, p, v) == IF p >= st.prio THEN [prio |-> p, value |-> v] ELSE st

\* set: a plain option reads the text before it looks at the priority, a child
\* only if it will store the value.
SetParsed(o, st, p, t, r) ==
  CASE r.how # "value" -> Result(st, r.how)
    [] r.how = "value" /\ p >= st.prio /\ ~Allowed(o, t, r.v) -> Result(st, "invalid")
    [] OTHER -> Result(Store(st, p, r.v), "value")

SetOption(o, st, p, t) ==
  IF IsChild(o) /\ p < st.prio THEN Result(st, "value")
  ELSE SetParsed(o, st, p, t, FromString(o, t))

KeepItem(kept, item) == IF item = "" THEN kept ELSE Append(kept, item)

NonEmpty(items) ==
  LET kept[n \in 0 .. Len(items)] == IF n = 0 THEN << >> ELSE KeepItem(kept[n - 1], items[n])
  IN kept[Len(items)]

\* option_T_list_append: an empty first item clears the list, if the priority
\* suffices; the others are added whatever the priority.
AppendItems(st, p, items) ==
  LET add == IF p < st.prio THEN st.prio ELSE p
      start == IF items # <<>> /\ items[1] = "" THEN Store(st, p, <<>>) ELSE st
      new == NonEmpty(items)
  IN IF new = <<>> THEN start ELSE [prio |-> add, value |-> start.value \o new]

\* OptionBinds::Item::new_string with the functions bound in ConfigMain and
\* ConfigRepo.
NewString(o, st, p, t) ==
  CASE Kind(o) = "append" /\ t.word # "" -> Result(AppendItems(st, p, t.items), "value")
    [] Kind(o) = "globs" /\ ~IsChild(o) ->
         Result(IF p >= st.prio THEN Store(st, p, ResolveGlobs(t.items)) ELSE st, "value")
    [] Kind(o) = "string" /\ IsChild(o) /\ t.lower = "_none_" -> Result(Store(st, p, ""), "value")
    [] OTHER -> SetOption(o, st, p, t)

\* get_value: of a child that has none, the parent's.
Own(st) == st.prio # EMPTY
Effective(st, parentSt) == IF Own(st) THEN st.value ELSE parentSt.value

-----------------------------------------------------------------------------
(* Loading.  load_config_from_parser goes on after an Option::Exception;    *)
(* any other exception leaves it, with the options set so far.              *)

AfterItem(acc, o, p, t, r) ==
  [opts |-> [acc.opts EXCEPT ![o] = r.st],
   sets |-> Append(acc.sets, [opt |-> o, prio |-> p, text |-> t, how |-> r.how]),
   how |-> IF r.how = "std" THEN "std" ELSE "value"]

LoadItem(acc, o, p, t) == AfterItem(acc, o, p, t, NewString(o, acc.opts[o], p, t))

LoadNext(acc, item, p) ==
  IF acc.how = "value" /\ item[1] \in DOMAIN ConfBinds /\ ConfBinds[item[1]] \in DOMAIN acc.opts
  THEN LoadItem(acc, ConfBinds[item[1]], p, item[2]) ELSE acc

LoadSection(opts, items, p) ==
  LET acc[n \in 0 .. Len(items)] ==
        IF n = 0 THEN [opts |-> opts, sets |-> << >>, how |-> "value"] ELSE LoadNext(acc[n - 1], items[n], p)
  IN acc[Len(items)]

\* ConfigParser::substitute: a reference to a known variable, if its bracket is
\* closed; what it is replaced by is not looked at again.
Substituted(t) ==
  IF t.ref \in {"$", "${}"} /\ t.var \in DOMAIN confVars THEN confVars[t.var] ELSE t

FreshRepo(id) ==
  [id |-> id, opt |-> [o \in RepoOptions |-> [prio |-> IF IsChild(o) THEN EMPTY ELSE DEFAULT, value |-> COpt[o].dflt]]]

\* new_repos_from_file, section by section.  With a bad id the value of
\* skip_if_unavailable is read as it stands in the file, before substitution.
SkipBad(items) ==
  LET given == SelectSeq(items, LAMBDA x : x[1] = "skip_if_unavailable")
  IN IF given = <<>> THEN Parses(confMain["skip_if_unavailable"].value)
     ELSE BoolFromString(given[1][2])

AfterBadId(acc, skip) ==
  CASE skip.how # "value" -> [acc EXCEPT !.how = skip.how]
    [] skip.how = "value" -> IF skip.v THEN acc ELSE [acc EXCEPT !.how = "std"]

\* A repository without a name of its own is named after its id.
Named(id, loaded) ==
  IF loaded.how = "value" /\ loaded.opts["name"].prio = DEFAULT
  THEN [loaded.opts EXCEPT !["name"] = [prio |-> REPOCONFIG, value |-> id]] ELSE loaded.opts

WithRepo(acc, id, loaded) ==
  [repos |-> Append(acc.repos, [id |-> id, opt |-> Named(id, loaded)]), how |-> loaded.how]

NewRepo(acc, section) ==
  LET id == Substituted(section.id).word
      items == [i \in DOMAIN section.items |-> <<section.items[i][1], Substituted(section.items[i][2])>>]
  IN IF acc.how # "value" \/ section.id.word = "main" THEN acc
     ELSE IF id \in BadIds THEN AfterBadId(acc, SkipBad(section.items))
     ELSE WithRepo(acc, id, LoadSection(FreshRepo(id).opt, items, REPOCONFIG))

-----------------------------------------------------------------------------

Step == confSteps < MaxConfSteps /\ confSteps' = confSteps + 1

\* A program or the command line sets an option.
MainSet(o, p, t) ==
  /\ Step
  /\ \E r \in {NewString(o, confMain[o], p, t)} :
       /\ confMain' = [confMain EXCEPT ![o] = r.st]
       /\ confSets' = Append(confSets, [opt |-> o, prio |-> p, text |-> t, how |-> r.how])
  /\ UNCHANGED <<confRepos, confVars>>

RepoSet(i, o, p, t) ==
  /\ Step
  /\ confRepos' = [confRepos EXCEPT ![i].opt[o] = NewString(o, @, p, t).st]
  /\ UNCHANGED <<confMain, confVars, confSets>>

\* load_config_from_file, and load_config_from_dir file by file: a file that
\* cannot be parsed changes nothing.
MainSection(f, k) ==
  f.sections[k].id.word = "main" /\ \A j \in 1 .. k - 1 : f.sections[j].id.word # "main"
LoadConfigFromFile(f) ==
  /\ Step
  /\ f.good
  /\ \E k \in DOMAIN f.sections :
       /\ MainSection(f, k)
       /\ \E r \in {LoadSection(confMain, f.sections[k].items, MAINCONFIG)} :
            confMain' = r.opts /\ confSets' = confSets \o r.sets
  /\ UNCHANGED <<confRepos, confVars>>

NewReposFromFile(f) ==
  /\ Step
  /\ f.good /\ Len(confRepos) + Len(f.sections) <= MaxRepos
  /\ confRepos' = FoldLeft(NewRepo, [repos |-> confRepos, how |-> "value"], f.sections).repos
  /\ UNCHANGED <<confMain, confVars, confSets>>

\* add_vars_from_env and add_vars_from_dir: what comes later replaces.
AddVars(d) ==
  /\ Step
  /\ confVars' = [v \in DOMAIN confVars \cup DOMAIN d |-> IF v \in DOMAIN d THEN d[v] ELSE confVars[v]]
  /\ UNCHANGED <<confMain, confRepos, confSets>>


ConfInit ==
  /\ confMain = [o \in MainOptions |-> [prio |-> COpt[o].prio, value |-> COpt[o].dflt]]
  /\ confRepos = <<>>
  /\ confVars = [v \in {} |-> v]
  /\ confSets = <<>>
  /\ confSteps = 0

ConfNext ==
  \/ \E o \in MainOptions, p \in {COMMANDLINE, RUNTIME}, t \in ConfTexts : MainSet(o, p, t)
  \/ \E i \in DOMAIN confRepos, o \in RepoOptions, p \in {MAINCONFIG, RUNTIME}, t \in ConfTexts : RepoSet(i, o, p, t)
  \/ \E f \in ConfFiles : LoadConfigFromFile(f) \/ NewReposFromFile(f)
  \/ \E d \in ConfVarDirs : AddVars(d)

ConfSpec == ConfInit /\ [][ConfNext]_confAll

-----------------------------------------------------------------------------

\* A set of option o that was read without error, with a value that is allowed.
Accepted(o, s) == s.opt = o /\ s.how = "value" /\ Allowed(o, s.text, FromString(o, s.text).v)

\* Among the sets of sets, the i-th has the highest priority, of equals the last.
Wins(i, those, sets) ==
  \A j \in those : sets[j].prio < sets[i].prio \/ (sets[j].prio = sets[i].prio /\ j <= i)

\* The value a text stands for.
Meaning(o, t) == IF Kind(o) = "globs" THEN ResolveGlobs(t.items) ELSE FromString(o, t).v

(* Whatever the order in which files, command line and program set an       *)
(* option: of the values that were read without error the one with the      *)
(* highest priority holds, among equals the last; and an option that adds to*)
(* a list never loses an item to a call that did not clear it.              *)
HighestPriorityWins ==
  \A o \in MainOptions :
    LET sets == {i \in DOMAIN confSets : Accepted(o, confSets[i])}
        text(i) == confSets[i].text
    IN IF Kind(o) = "append"
       THEN (\A i \in sets : text(i).word # "" /\ text(i).items[1] # "") =>
              \A i \in sets : ToSet(text(i).items) \subseteq ToSet(confMain[o].value) \cup {""}
       ELSE /\ sets = {} => confMain[o] = [prio |-> COpt[o].prio, value |-> COpt[o].dflt]
            /\ \A i \in sets : Wins(i, sets, confSets) =>
                 confMain[o] = [prio |-> confSets[i].prio, value |-> Meaning(o, text(i))]

(* Repositories have ids that are allowed, and every option, a repository's *)
(* inherited ones too, a value within its limits.                           *)
ConfTypeOK ==
  LET fits(o, v) == Kind(o) \in {"int", "uint", "bytes", "seconds", "limit", "enum"} => Allowed(o, "", v)
  IN /\ \A o \in MainOptions : fits(o, confMain[o].value)
     /\ \A i \in DOMAIN confRepos :
          /\ confRepos[i].id \notin BadIds
          /\ \A o \in RepoOptions :
               IsChild(o) => fits(o, Effective(confRepos[i].opt[o], confMain[Base(o)]))
===============================================================================
