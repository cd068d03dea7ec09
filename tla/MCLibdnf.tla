------------------------------ MODULE MCLibdnf ------------------------------
(***************************************************************************)
(* Instances, for TLC, of the parts of libdnf and microdnf that share no   *)
(* state with each other.  One run explores them side by side: the first   *)
(* state picks the part at work, and the variables of the others keep      *)
(* their initial values.                                                   *)
(***************************************************************************)
EXTENDS WeakPtr, MemoryBufferLogger, Countme, SolvContainers, CommonSack,
        RepoHandle, SolvQuery, ConfigParser, Conf, Microdnf

VARIABLE focus

Parts == {"weak_ptr", "logger", "countme", "map", "reldep", "package", "sack",
          "handle", "librepo_log", "query", "parser", "conf", "microdnf"}

Init ==
    /\ focus \in Parts
    /\ WpInit /\ LogInit /\ CmInit /\ ContInit /\ CsInit /\ RhInit /\ LrInit
    /\ SqInit /\ CpInit /\ ConfInit /\ UdInit
    /\ focus # "handle" => rhConf = CHOOSE c \in RhConfs : TRUE
    /\ focus # "microdnf" => parse.rest = << >>

Next ==
    \/ focus = "weak_ptr" /\ WpNext /\ UNCHANGED <<focus, logVars, cmVars, contVars, csVars, rhVars, lrVars, sqVars, cpVars, confAll, udVars, tsVars>>
    \/ focus = "logger" /\ LogNext /\ UNCHANGED <<focus, wpVars, cmVars, contVars, csVars, rhVars, lrVars, sqVars, cpVars, confAll, udVars, tsVars>>
    \/ focus = "countme" /\ CmNext /\ UNCHANGED <<focus, wpVars, logVars, contVars, csVars, rhVars, lrVars, sqVars, cpVars, confAll, udVars, tsVars>>
    \/ focus = "map" /\ MapNext /\ UNCHANGED <<focus, wpVars, logVars, cmVars, csVars, rhVars, lrVars, sqVars, cpVars, confAll, udVars, tsVars>>
    \/ focus = "reldep" /\ DepNext /\ UNCHANGED <<focus, wpVars, logVars, cmVars, csVars, rhVars, lrVars, sqVars, cpVars, confAll, udVars, tsVars>>
    \/ focus = "package" /\ PkgNext /\ UNCHANGED <<focus, wpVars, logVars, cmVars, csVars, rhVars, lrVars, sqVars, cpVars, confAll, udVars, tsVars>>
    \/ focus = "sack" /\ CsNext /\ UNCHANGED <<focus, wpVars, logVars, cmVars, contVars, rhVars, lrVars, sqVars, cpVars, confAll, udVars, tsVars>>
    \/ focus = "handle" /\ RhNext /\ UNCHANGED <<focus, wpVars, logVars, cmVars, contVars, csVars, lrVars, sqVars, cpVars, confAll, udVars, tsVars>>
    \/ focus = "librepo_log" /\ LrNext /\ UNCHANGED <<focus, wpVars, logVars, cmVars, contVars, csVars, rhVars, sqVars, cpVars, confAll, udVars, tsVars>>
    \/ focus = "query" /\ SqNext /\ UNCHANGED <<focus, wpVars, logVars, cmVars, contVars, csVars, rhVars, lrVars, cpVars, confAll, udVars, tsVars>>
    \/ focus = "parser" /\ CpNext /\ UNCHANGED <<focus, wpVars, logVars, cmVars, contVars, csVars, rhVars, lrVars, sqVars, confAll, udVars, tsVars>>
    \/ focus = "conf" /\ ConfNext /\ UNCHANGED <<focus, wpVars, logVars, cmVars, contVars, csVars, rhVars, lrVars, sqVars, cpVars, udVars, tsVars>>
    \/ focus = "microdnf" /\ UdNext /\ UNCHANGED <<focus, wpVars, logVars, cmVars, contVars, csVars, rhVars, lrVars, sqVars, cpVars, confAll>>

Spec ==
    Init /\ [][Next]_<<focus, wpVars, logVars, cmVars, contVars, csVars, rhVars,
                       lrVars, sqVars, cpVars, confAll, udVars, tsVars>>

\* The two queries of a sack are interchangeable.
LibdnfSymmetry == Permutations(SqQueries)

-----------------------------------------------------------------------------
\* countme: two short buckets.
ShortBuckets == <<1, 3>>

\* SolvContainers: a glob that two dependencies match, a package whose list of
\* requires has the marker in it, and versions with and without an epoch.
TwoDepsGlob == [g1 |-> <<"a", "b">>]

MarkedRequires == [requires |-> <<"a", "marker", "b">>, provides |-> <<"a">>]

ManyEvrs == [epoch : {<< >>, <<"2">>, <<"1", "2">>}, version : {<<"1">>, <<"1", "a">>},
             release : {<<"1">>, <<"a", "2">>}]

-----------------------------------------------------------------------------
\* CommonSack: two items whose ids differ in case.
TwoItems == <<"i1", "i2">>

ItemAttr == [i1 |-> [id |-> <<"a">>, tags |-> << >>, num |-> <<1>>],
             i2 |-> [id |-> <<"A">>, tags |-> <<"a", "b">>, num |-> <<2>>]]

ItemLower == [a |-> "a", A |-> "a", b |-> "b"]

ItemGlob == [a |-> {"a"}, A |-> {"A"}, b |-> {"a", "b"}]

ItemFilter(g, c, p) == [getter |-> g, cmp |-> c, patterns |-> p]

ItemFilters ==
    {ItemFilter("id", "EXACT", <<"a", "A">>), ItemFilter("id", "NEQ", <<"a">>),
     ItemFilter("id", "IEXACT", <<"b", "a">>), ItemFilter("id", "IGLOB", <<"b">>),
     ItemFilter("id", "CONTAINS", <<"a">>), ItemFilter("tags", "GLOB", <<"a", "b">>),
     ItemFilter("tags", "NOT_GLOB", <<"a">>), ItemFilter("num", "GTE", <<2>>),
     ItemFilter("num", "GLOB", <<2>>)}
      \cup {[getter |-> "enabled", cmp |-> c, patterns |-> <<TRUE>>] : c \in {"EXACT", "NEQ"}}

-----------------------------------------------------------------------------
\* RepoHandle: every source of metadata, alone and together.
PlainConf == [metalink |-> "none", mirrorlist |-> "none", looksLikeMetalink |-> FALSE,
              baseurlSet |-> FALSE, baseurl |-> << >>, isFile |-> FALSE, throttle |-> 0,
              bandwidth |-> 0, minrate |-> 1, timeout |-> 0, auth |-> "odd", type |-> ""]

HandleConfs ==
    {[PlainConf EXCEPT !.metalink = "m1"],
     [PlainConf EXCEPT !.metalink = "m1", !.mirrorlist = "l1"],
     [PlainConf EXCEPT !.mirrorlist = "l1", !.looksLikeMetalink = TRUE, !.baseurlSet = TRUE,
                       !.baseurl = <<"b1">>, !.isFile = TRUE],
     [PlainConf EXCEPT !.baseurlSet = TRUE, !.baseurl = <<"b1">>, !.isFile = TRUE],
     [PlainConf EXCEPT !.baseurlSet = TRUE],
     [PlainConf EXCEPT !.type = "apt"],
     [PlainConf EXCEPT !.mirrorlist = "l1", !.baseurlSet = TRUE, !.baseurl = <<"b1">>,
                       !.throttle = 5, !.bandwidth = 1, !.timeout = 30, !.auth = "basic"]}

-----------------------------------------------------------------------------
\* SolvQuery: two versions of "a", the older one in both repositories, a source
\* package "A", "b" that obsoletes the older "a", and an advisory.
Lower(base) == <<base, "l">>

QueryPkg(name, case, ver, arch, repo, advisory) ==
    [name |-> <<name, case>>, arch |-> Lower(arch), repo |-> Lower(repo),
     sourcerpm |-> IF arch = "src" THEN << >> ELSE Lower(name), location |-> Lower(repo),
     version |-> Lower(ver), release |-> Lower(1), epoch_str |-> Lower(0), evr |-> ver,
     nevra |-> <<<<name, ver, arch>>, case>>, advisory |-> advisory,
     data |-> [k \in StringKeys |-> {Lower(name)}],
     deps |-> [k \in DepKeys |->
                 CASE k = "requires" -> {[name |-> "b", evr |-> 0, cmp |-> {}]}
                   [] k = "obsoletes" /\ name = "b" -> {[name |-> "a", evr |-> 2, cmp |-> LT]}
                   [] OTHER -> {}],
     provides |-> {[name |-> name, evr |-> ver, cmp |-> EQ]}]

QueryPkgs ==
    [a1 |-> QueryPkg("a", "l", 1, "x", "r1", FALSE), a2 |-> QueryPkg("a", "l", 2, "x", "r2", FALSE),
     c1 |-> QueryPkg("a", "l", 1, "x", "r2", FALSE), ua |-> QueryPkg("a", "u", 1, "src", "r1", FALSE), b1 |-> QueryPkg("b", "l", 1, "x", "r2", FALSE),
     adv |-> QueryPkg("v", "l", 1, "x", "r1", TRUE)]

QueryRepos == [r1 |-> <<"a1", "ua", "adv">>, r2 |-> <<"b1", "a2", "c1">>]

QueryIds ==
    LET known == <<Lower("x"), Lower("src"), Lower("b"), <<"a", "u">>, Lower("v"), Lower("a")>>
    IN [s \in Range(known) |-> CHOOSE i \in DOMAIN known : known[i] = s]

Pattern(str, glob, inside) ==
    [str |-> str, glob |-> glob, inside |-> inside, rel |-> "none", evr |-> 0]

Word(base) == Pattern(Lower(base), {}, {})

NevraPattern(name, ver, arch) ==
    [str |-> <<<<name, ver, arch>>, "l">>, glob |-> {}, inside |-> {},
     nevra |-> [name |-> Lower(name), arch |-> Lower(arch), evr |-> ver], rel |-> "none", evr |-> 0]

NevraForm(name, arch, ver) ==
    [name |-> name, arch |-> arch, epoch_str |-> NoPat, version |-> ver, release |-> NoPat]

FilterCall(key, cmp, pats) == [key |-> key, cmp |-> cmp, pats |-> pats]

QueryCalls ==
    {FilterCall("name", GLOB, {Word("a")}),
     FilterCall("name", {"NOT"} \cup IGLOB, {Pattern(Lower("a*"), {"a"}, {})}),
     FilterCall("name", GT, {Word("a")}),
     FilterCall("arch", {"NOT"} \cup EQ, {Word("src")}), FilterCall("version", EQ, {Word(1)}),
     FilterCall("release", {"NOT"} \cup EQ, {Word(1)}), FilterCall("version", GT, {Word(1)}),
     FilterCall("evr", GTE, {Word(2)}),
     FilterCall("epoch", LTE, {Word(1)}),
     FilterCall("reponame", EQ, {Word("r2")}),
     FilterCall("file", GLOB, {Pattern(Lower("*"), {"a", "b"}, {})}),
     FilterCall("nevra", EQ, {NevraPattern("a", 1, "x")}),
     FilterCall("nevra", {"NOT"} \cup GT, {NevraPattern("a", 1, "x")}),
     FilterCall("provides", EQ, {[Word("a") EXCEPT !.rel = ">", !.evr = 1], [Word("b") EXCEPT !.rel = "?"]}),
     FilterCall("requires", EQ, {Word("b")}),
     FilterCall("obsoletes", GLOB, {Pattern(Lower("*"), {"a"}, {})}),
     [key |-> "reldep_of", dep |-> "requires", cmp |-> EQ, pkgs |-> {"b1"}],
     [key |-> "obsoletes_of", cmp |-> {"NOT"} \cup EQ, pkgs |-> {"a1", "ua"}],
     [key |-> "nevra_obj", cmp |-> EQ, nevra |-> NevraForm(Word("a"), Anything, Word(1))]}

QuerySpecs ==
    {[forms |-> <<NevraForm(Word("a"), NoPat, NoPat), NevraForm(NoPat, NoPat, Word(2))>>,
      given |-> FALSE, pat |-> NevraPattern("a", 2, "x"), provides |-> TRUE, file |-> TRUE,
      icase |-> FALSE, src |-> FALSE],
     [forms |-> <<NevraForm(Word("v"), NoPat, NoPat)>>, given |-> TRUE, pat |-> Word("b"),
      provides |-> TRUE, file |-> TRUE, icase |-> TRUE, src |-> FALSE]}

-----------------------------------------------------------------------------
\* ConfigParser: a good file, one with a repeated key and an unclosed section,
\* one that starts with a continuation line, and two without a final newline.
CommentLine(text) == [t |-> "comment", c |-> text]

GoodFile ==
    <<CommentLine("h"), SectLine("m"), KeyLine("a", "1"), ContLine("2"), BlankLine,
      CommentLine("c1"), KeyLine("b", "q1"), EmptyLine, SectLine("r"), KeyLine("a", ""), BlankLine>>

RepeatingFile ==
    <<EmptyLine, [SectLine("m") EXCEPT !.tail = "char"], KeyLine("a", "2"), CommentLine("c2"),
      EmptyLine, KeyLine("a", "1"), [SectLine("s") EXCEPT !.closed = FALSE], KeyLine("b", "1")>>

\* One whose last line, here a value or a comment, has no delimiter.
UnendedFiles == {<<SectLine("r"), CommentLine("c3"), AtEof(KeyLine("b", "2"))>>, <<AtEof(CommentLine("c4"))>>}

WholeFiles == {GoodFile, RepeatingFile, <<SectLine("r"), ContLine("1")>>}
IniFiles == WholeFiles \cup UnendedFiles

\* Values; in the first column the second line of one is an option.
PlainValues == {<<"1">>}
IniValues == PlainValues \cup {<<"q1">>, <<"1", "2">>, <<"1", "b=3">>}
IniFirst == [x \in {"b=3"} |-> KeyLine("b", "3")]

IniUnquoted == [q1 |-> "1"]

-----------------------------------------------------------------------------
\* Conf: an option of each kind, two of which repositories inherit.
OptionOf(kind, default) ==
    [kind |-> kind, parent |-> NoParent, prio |-> DEFAULT, dflt |-> default, min |-> 0, max |-> 15,
     values |-> {"auto", "never", "always"}, alias |-> [yes |-> "always"], abs |-> TRUE]

ChildOf(parent) == [parent |-> parent, prio |-> EMPTY, dflt |-> ""]

OptionTable ==
    [skip_if_unavailable |-> OptionOf("bool", FALSE),
     retries |-> [OptionOf("uint", 3) EXCEPT !.min = 1],
     exclude |-> OptionOf("append", << >>),
     timeout |-> [OptionOf("seconds", 4) EXCEPT !.min = -1, !.max = 9999],
     color |-> OptionOf("enum", "auto"), name |-> OptionOf("string", ""),
     r_skip |-> ChildOf("skip_if_unavailable"), r_retries |-> ChildOf("retries")]

OptionBinds ==
    [skip_if_unavailable |-> "skip_if_unavailable", retries |-> "retries", exclude |-> "exclude",
     excludepkgs |-> "exclude", timeout |-> "timeout", name |-> "name", color |-> "color"]

Text(w) == [word |-> w, lower |-> w, num |-> NoNum, rest |-> "", items |-> <<w>>, ref |-> "none",
            var |-> "", abs |-> FALSE]

NumberText(w, n, rest) == [Text(w) EXCEPT !.num = {n}, !.rest = rest]

VarText(v, form) == [Text(v) EXCEPT !.ref = form, !.var = v]

OptionTexts ==
    {Text("yes"), NumberText("0", 0, ""), NumberText("2m", 2, "m"),
     [Text(",b") EXCEPT !.items = <<"", "b">>], Text("")}

ConfSection(id, items_) == [id |-> id, items |-> items_]

MainAndRepoFiles ==
    {[good |-> TRUE, sections |->
        <<ConfSection(Text("main"),
            <<<<"retries", NumberText("5", 5, "")>>, <<"exclude", Text("a")>>, <<"color", Text("no")>>,
              <<"timeout", Text("x")>>, <<"skip_if_unavailable", Text("yes")>>>>)>>],
     [good |-> TRUE, sections |->
        <<ConfSection(VarText("id", "${}"), <<<<"retries", NumberText("0", 0, "")>>, <<"unknown", Text("a")>>>>),
          ConfSection(Text("r2"), <<<<"name", Text("n")>>>>),
          ConfSection(Text("r#"), <<<<"skip_if_unavailable", VarText("v", "$")>>>>)>>]}

VarDirs == {[id |-> Text("r1"), v |-> Text("yes")], [id |-> Text("r#")]}

IdGlobs == [g |-> <<"a", "b">>]

-----------------------------------------------------------------------------
\* Microdnf: A1 is installed, A2 upgrades it, B1 is new; command lines of every
\* command, with options that clash, are unknown, repeated or lack a value.
LongArg(name, value) == [dashes |-> 2, name |-> name, value |-> value, letters |-> << >>]

ShortArg(name, letters) == [dashes |-> 1, name |-> name, value |-> "", letters |-> letters]

WordArg(name) == [dashes |-> 0, name |-> name, value |-> "", letters |-> << >>]

TsNames == "A1" :> "A" @@ "A2" :> "A" @@ "B1" :> "B"

TsVersions == "A1" :> 1 @@ "A2" :> 2 @@ "B1" :> 1

SpecMatches == "A" :> {"A1", "A2"} @@ "B" :> {"B1"}

SetoptNames == "cachedir" :> "global" @@ "r.enabled" :> "repo" @@ "nokey" :> "bad"

CommandLines ==
    {<<WordArg(c), WordArg("A")>> : c \in {"upgrade", "reinstall", "remove", "download", "repoquery"}}
      \cup
    {<<WordArg("install"), WordArg("A"), WordArg("B")>>, << >>,
     <<ShortArg("-h", <<"h">>)>>,
     <<ShortArg("-hx", <<"h", "h", "x">>), ShortArg("-h", <<"h">>), WordArg("repolist")>>,
     <<LongArg("setopt", "cachedir"), LongArg("unknown", ""), WordArg("repolist"), LongArg("all", "")>>,
     <<LongArg("setopt", ""), WordArg("r.enabled"), WordArg("repolist"), LongArg("all", ""),
       LongArg("all", ""), LongArg("disabled", "")>>,
     <<WordArg("repoinfo"), LongArg("enabled", "")>>,
     <<WordArg("repoquery"), LongArg("installed", ""), LongArg("available", ""), LongArg("info", ""),
       WordArg("A")>>,
     <<WordArg("repoquery"), LongArg("info", ""), LongArg("nevra", "")>>,
     <<WordArg("repoquery"), LongArg("info", "x")>>, <<LongArg("setopt", "")>>,
     <<LongArg("setopt", "nokey"), WordArg("repolist")>>,
     <<WordArg("install"), LongArg("help", ""), WordArg("A")>>}
=============================================================================
