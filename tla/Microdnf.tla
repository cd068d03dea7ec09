------------------------------ MODULE Microdnf ------------------------------
(***************************************************************************)
(* microdnf from its arguments to its exit status: the argument parser     *)
(* (microdnf/argument_parser.cpp), main() and the commands that download   *)
(* packages and run an rpm transaction.  Loading the repositories is       *)
(* modelled by SackLoader, the options by Conf and the queries by          *)
(* SolvQuery; here each of them only succeeds or throws.                   *)
(*                                                                         *)
(* An argument is a token [dashes, name, value, letters]: "--name=value",  *)
(* a group of short options "-abc", or a word.                             *)
(***************************************************************************)
EXTENDS RpmTransaction

CONSTANTS
    Argvs,          \* command lines
    SetoptKinds,    \* value of --setopt -> what it is
    Matching,       \* pattern -> packages resolve_pkg_spec() selects
    RepoPkgs,       \* packages of the enabled repositories
    Root            \* am_i_root()

None == "none"

Tokens == UNION {Range(argv) : argv \in Argvs}

ASSUME MicrodnfAssumption ==
    /\ Argvs \subseteq Seq(Tokens)
    /\ \A token \in Tokens : token.letters \in Seq(STRING) /\ None \notin Range(token.letters)
    /\ RepoPkgs \subseteq TsPkgs

VARIABLES
    pc,             \* step of main()
    parse,          \* ArgumentParser::Command::parse at work
    counts,         \* parse_count of the named arguments
    opts,           \* values set on the command line
    patterns,       \* values of the positional argument
    setopts,        \* repository options to apply later
    command,        \* selected_command
    result,         \* result_pset of the command
    files,          \* packages downloaded
    downloads,      \* PkgDownloadCB: state of each package's download
    dirs,           \* where the log and the cache are
    status          \* exit status

udVars == <<pc, parse, counts, opts, patterns, setopts, command, result, files, downloads, dirs, status>>

-----------------------------------------------------------------------------
(* The arguments each command declares.                                    *)

NamedArg(name, short, hasArg, opt, const, conflicts) ==
    [name |-> name, short |-> short, hasArg |-> hasArg, opt |-> opt, const |-> const, conflicts |-> conflicts]

\* parse_args().
RootArgs == {NamedArg("help", "h", FALSE, None, "", {}), NamedArg("setopt", None, TRUE, None, "", {})}

\* CmdRepolist: three values of one option that exclude each other.
RepolistArgs ==
    {NamedArg(v, None, FALSE, "enable_disable", v, {"all", "enabled", "disabled"}) :
        v \in {"all", "enabled", "disabled"}}

\* CmdRepoquery.
RepoqueryArgs ==
    {NamedArg("available", None, FALSE, "available", "true", {}),
     NamedArg("installed", None, FALSE, "installed", "true", {}),
     NamedArg("info", None, FALSE, "info", "true", {"info", "nevra"}),
     NamedArg("nevra", None, FALSE, "nevra", "true", {"info", "nevra"})}

\* A command: its named arguments, whether it loads the system and the
\* repositories, what it does with the packages of its patterns, and the
\* operation of the rpm transaction.
Cmd(args, system, repos, then, op) ==
    [args |-> args, system |-> system, repos |-> repos, then |-> then, op |-> op]

CmdInstall == Cmd({}, FALSE, TRUE, "download", "install")
CmdUpgrade == Cmd({}, FALSE, TRUE, "download", "upgrade")
CmdReinstall == Cmd({}, FALSE, TRUE, "download", "reinstall")
CmdDownload == Cmd({}, FALSE, TRUE, "download", None)
CmdRemove == Cmd({}, TRUE, FALSE, "add", "erase")
CmdRepolist == Cmd(RepolistArgs, FALSE, FALSE, "printed", None)

\* It reads the system when asked for installed packages, and the
\* repositories when asked for available ones or not for installed ones.
CmdRepoquery ==
    Cmd(RepoqueryArgs, opts["installed"] = "true",
        opts["available"] = "true" \/ opts["installed"] # "true", "printed", None)

CommandOf ==
    [install |-> CmdInstall, upgrade |-> CmdUpgrade, reinstall |-> CmdReinstall,
     download |-> CmdDownload, remove |-> CmdRemove, repolist |-> CmdRepolist,
     repoinfo |-> CmdRepolist, repoquery |-> CmdRepoquery]

Commands == DOMAIN CommandOf

ArgsOf(cmd) == IF cmd = "microdnf" THEN RootArgs ELSE CommandOf[cmd].args

\* Every command but the root has one unlimited positional argument.
PositionalArgs(cmd) == IF cmd = "microdnf" THEN 0 ELSE 1

-----------------------------------------------------------------------------
(* Command::parse().  "rest" is argv from i on; an exception ends it.      *)

Parsing == pc = "parse" /\ parse.rest # <<>>
Token == Head(parse.rest)
Throw == pc' = "parsed" /\ UNCHANGED <<parse, command>>

Drop(n) == SubSeq(parse.rest, n + 1, Len(parse.rest))
Went(n, short) == parse' = [parse EXCEPT !.rest = Drop(n), !.short = short]

\* get_conflict_argument(): another argument of the group was given.
Conflict(arg) == \E other \in arg.conflicts \ {arg.name} : counts[other] > 0

\* The hook of --setopt: a global option is applied at once, a repository
\* option is kept; anything else throws.
Setopt(value) ==
    CASE SetoptKinds[value] = "repo" -> setopts' = Append(setopts, value) /\ UNCHANGED opts
      [] SetoptKinds[value] = "global" -> opts' = [opts EXCEPT !["global"] = value] /\ UNCHANGED setopts

\* The value is stored, the argument counted and the hook called.  A hook
\* that throws leaves the count.
Take(arg, value, consumed, short) ==
    /\ counts' = [counts EXCEPT ![arg.name] = @ + 1]
    /\ \/ /\ arg.name = "setopt" /\ SetoptKinds[value] \in {"repo", "global"}
          /\ Setopt(value) /\ Went(consumed, short) /\ UNCHANGED <<pc, command>>
       \/ /\ arg.name = "setopt" /\ SetoptKinds[value] \notin {"repo", "global"}
          /\ Throw /\ UNCHANGED <<opts, setopts>>
       \/ /\ arg.name # "setopt"
          /\ opts' = IF arg.opt = None THEN opts ELSE [opts EXCEPT ![arg.opt] = arg.const]
          /\ Went(consumed, short) /\ UNCHANGED <<pc, command, setopts>>

LongMatches(arg) == Token.dashes = 2 /\ arg.name = Token.name

\* parse_long().
ParseLong ==
    /\ Parsing
    /\ \E arg \in ArgsOf(parse.cmd) :
        /\ LongMatches(arg)
        /\ \/ /\ Conflict(arg) \/ (arg.hasArg /\ Token.value = "" /\ Len(parse.rest) < 2)
                  \/ (~ arg.hasArg /\ Token.value # "")
              /\ Throw /\ UNCHANGED <<counts, opts, setopts>>
           \/ /\ ~ Conflict(arg) /\ arg.hasArg
              /\ \/ Token.value # "" /\ Take(arg, Token.value, 1, parse.short)
                 \/ /\ Token.value = "" /\ Len(parse.rest) >= 2
                    /\ Take(arg, parse.rest[2].name, 2, parse.short)
           \/ ~ Conflict(arg) /\ ~ arg.hasArg /\ Token.value = "" /\ Take(arg, "", 1, parse.short)
    /\ UNCHANGED <<patterns, result, files, downloads, dirs, status>>

\* The letter at short_option_idx.  The index is not reset when a group ends
\* in an unknown letter, and may then lie behind the next group: beyond its
\* terminator the letter is whatever follows in memory.
ShortLetters ==
    CASE Token.dashes # 1 -> {}
      [] parse.short < Len(Token.letters) -> {Token.letters[parse.short + 1]}
      [] parse.short = Len(Token.letters) -> {"NUL"}
      [] OTHER -> {"NUL", "h"}

\* parse_short(): no short option of microdnf takes a value.
ParseShort ==
    /\ Parsing
    /\ \E arg \in ArgsOf(parse.cmd), letter \in ShortLetters :
        /\ arg.short = letter
        /\ IF parse.short + 1 < Len(Token.letters)
           THEN Take(arg, "", 0, parse.short + 1)
           ELSE Take(arg, "", 1, 0)
    /\ UNCHANGED <<patterns, result, files, downloads, dirs, status>>

Unused ==
    /\ ~ \E arg \in ArgsOf(parse.cmd) : LongMatches(arg)
    /\ Token.dashes = 1 => \E letter \in ShortLetters : \A arg \in ArgsOf(parse.cmd) : arg.short # letter

\* A command of the root parses the arguments that are left.
EnterCommand ==
    /\ Parsing /\ Unused
    /\ parse.cmd = "microdnf" /\ Token.dashes = 0 /\ Token.name \in Commands
    /\ parse' = [cmd |-> Token.name, rest |-> Drop(1), short |-> 0, used |-> 0]
    /\ UNCHANGED <<pc, counts, opts, patterns, setopts, command, result, files, downloads, dirs, status>>

\* PositionalArg::parse(): unlimited, it stores all the arguments left, those
\* that look like options too.
ParsePositional ==
    /\ Parsing /\ Unused
    /\ parse.used < PositionalArgs(parse.cmd)
    /\ patterns' = [i \in DOMAIN parse.rest |-> parse.rest[i].name]
    /\ parse' = [parse EXCEPT !.rest = <<>>, !.used = 1]
    /\ UNCHANGED <<pc, counts, opts, setopts, command, result, files, downloads, dirs, status>>

\* An argument the root does not know is skipped.
SkipArgument ==
    /\ Parsing /\ Unused
    /\ parse.cmd = "microdnf" /\ ~ (Token.dashes = 0 /\ Token.name \in Commands)
    /\ Went(1, parse.short)
    /\ UNCHANGED <<pc, counts, opts, patterns, setopts, command, result, files, downloads, dirs, status>>

\* The hook of a command, when all its arguments are parsed: it selects the
\* command; repoinfo is not implemented and throws.
SelectCommand(cmd) == IF cmd \in Commands \ {"repoinfo"} THEN cmd ELSE None

ParseEnd ==
    /\ pc = "parse" /\ parse.rest = <<>>
    /\ command' = SelectCommand(parse.cmd)
    /\ pc' = "parsed"
    /\ UNCHANGED <<parse, counts, opts, patterns, setopts, result, files, downloads, dirs, status>>

-----------------------------------------------------------------------------
(* main().                                                                 *)

udParsed == <<parse, counts, opts, patterns, setopts, command>>

\* Without a command: help has been printed (0) or is printed now (1).
NoCommand ==
    /\ pc = "parsed" /\ command = None
    /\ status' = IF counts["help"] > 0 THEN 0 ELSE 1
    /\ pc' = "end"
    /\ UNCHANGED <<udParsed, result, files, downloads, dirs>>

\* load_config_from_file(), the directories of the user or of the system,
\* new_repos_from_file(); an exception here ends the program.
Configure ==
    /\ pc = "parsed" /\ command # None
    /\ \/ /\ pc' = "configured"
          /\ dirs' = [log |-> IF Root THEN "system" ELSE "user",
                      cache |-> IF opts["global"] = "cachedir" THEN "given"
                                ELSE IF Root THEN "system" ELSE "user"]
          /\ UNCHANGED status
       \/ pc' = "end" /\ status' = 134 /\ UNCHANGED dirs
    /\ UNCHANGED <<udParsed, result, files, downloads>>

\* An exception of the command is logged; the status is 0 all the same.
CommandFails ==
    /\ pc' = "end" /\ status' = 0

Selected(from) ==
    from \cap UNION {Matching[patterns[k]] : k \in {j \in DOMAIN patterns : patterns[j] \in DOMAIN Matching}}

\* The command loads what it needs and selects the packages of its patterns.
RunCommand ==
    LET cmd == CommandOf[command]
    IN /\ pc = "configured"
       /\ \/ /\ result' = Selected((IF cmd.system THEN TsInstalled ELSE {}) \cup
                                   (IF cmd.repos THEN RepoPkgs ELSE {}))
             /\ pc' = cmd.then
             /\ UNCHANGED status
          \/ cmd.repos /\ CommandFails /\ UNCHANGED result      \* load_rpm_repos() throws
       /\ downloads' = [p \in TsPkgs |-> "READY"]
       /\ UNCHANGED <<udParsed, files, dirs>>

\* download_packages(): each target ends well, is there already or fails,
\* and its bar tells so; the exception of a failed download is printed and
\* the command goes on.
DownloadEnds(p) ==
    /\ pc = "download" /\ p \in result /\ downloads[p] = "READY"
    /\ \/ downloads' = [downloads EXCEPT ![p] = "SUCCESS"] /\ files' = files \cup {p}
       \/ downloads' = [downloads EXCEPT ![p] = "ERROR"] /\ UNCHANGED files
    /\ UNCHANGED <<pc, udParsed, result, dirs, status>>

DownloadsEnd ==
    /\ pc = "download"
    /\ \A p \in result : downloads[p] # "READY"
    /\ pc' = IF CommandOf[command].op = None THEN "printed" ELSE "add"
    /\ UNCHANGED <<udParsed, result, files, downloads, dirs, status>>

Printed ==
    /\ pc = "printed"
    /\ CommandFails
    /\ UNCHANGED <<udParsed, result, files, downloads, dirs>>

\* One package of the set becomes an item of the transaction; it is marked
\* "added" then.
AddItem(p) ==
    /\ pc = "add" /\ p \in result /\ downloads[p] # "added"
    /\ \E rc \in IF p \in files THEN {"OK", "NOKEY", "FAIL"} ELSE {"FAIL"}, accepted \in BOOLEAN :
        LET op == CommandOf[command].op
            ok == IF op = "erase" THEN TsEraseOk(p, accepted) ELSE TsAddOk(rc, accepted)
        IN /\ IF op = "erase" THEN TsErase(p, accepted) ELSE TsAdd(op, p, rc, accepted)
           /\ IF ok THEN UNCHANGED <<pc, status>> ELSE CommandFails
           /\ downloads' = [downloads EXCEPT ![p] = "added"]
    /\ UNCHANGED <<udParsed, result, files, dirs>>

\* run_transaction(); "scriptlet.out" may fail to open.
RunTransaction ==
    /\ pc = "add"
    /\ \A p \in result : downloads[p] = "added"
    /\ \/ TsRun /\ pc' = "run" /\ UNCHANGED status
       \/ CommandFails /\ UNCHANGED tsVars
    /\ UNCHANGED <<udParsed, result, files, downloads, dirs>>

TransactionEnds ==
    /\ pc = "run" /\ rpm.stage = "ended"
    /\ TsDestroyed
    /\ CommandFails
    /\ UNCHANGED <<udParsed, result, files, downloads, dirs>>

-----------------------------------------------------------------------------
NamedArgs == RootArgs \cup RepolistArgs \cup RepoqueryArgs

UdInit ==
    /\ TsInit
    /\ pc = "parse"
    /\ \E argv \in Argvs : parse = [cmd |-> "microdnf", rest |-> argv, short |-> 0, used |-> 0]
    /\ counts = [name \in {arg.name : arg \in NamedArgs} |-> 0]
    /\ opts = [o \in {arg.opt : arg \in NamedArgs} \cup {"global"} |-> ""]
    /\ patterns = <<>> /\ setopts = <<>> /\ command = None
    /\ result = {} /\ files = {} /\ downloads = [p \in TsPkgs |-> "READY"]
    /\ dirs = [log |-> None, cache |-> None] /\ status = 0

ParseStep ==
    /\ ParseLong \/ ParseShort \/ EnterCommand \/ ParsePositional \/ SkipArgument \/ ParseEnd
    /\ UNCHANGED tsVars

MainStep ==
    /\ NoCommand \/ Configure \/ RunCommand \/ DownloadsEnd \/ Printed
         \/ \E p \in TsPkgs : DownloadEnds(p)
    /\ UNCHANGED tsVars

UdNext ==
    \/ ParseStep \/ MainStep
    \/ \E p \in TsPkgs : AddItem(p)
    \/ RunTransaction
    \/ pc = "run" /\ RpmStep /\ UNCHANGED udVars
    \/ TransactionEnds

UdSpec == UdInit /\ [][UdNext]_<<udVars, tsVars>>

-----------------------------------------------------------------------------
\* Types of the program's state (microdnf/context.hpp).
UdTypeOK ==
    /\ TsTypeOK
    /\ command \in Commands \cup {None} /\ status \in {0, 1, 134}
    /\ result \subseteq TsPkgs /\ files \subseteq TsPkgs
    /\ \A name \in DOMAIN counts : counts[name] \in Nat

\* A transaction that rpm runs stands for the whole command: every package
\* its patterns selected is in it, or a newer one of its name, although a
\* failed download does not stop the command (context.cpp:412-416).
RunsWhole ==
    pc = "run" /\ rpm.stage # "ended" =>
        \A p \in result : \E e \in Range(elements) : SameName(e.pkg, p) /\ TsVersion[e.pkg] >= TsVersion[p]

\* A command is only started with options that agree: of the arguments that
\* exclude each other one was given, and its value is the one that counts.
OptionsAgree ==
    command # None => \A arg \in ArgsOf(command) : \A other \in arg.conflicts \ {arg.name} :
        ~ (counts[arg.name] > 0 /\ counts[other] > 0)

\* A command starts only with options that agree, and what its transaction
\* then does is the whole of what was asked (argument_parser.cpp, context.cpp
\* Context::download_and_run, transaction.cpp).
RequestedIsDone == OptionsAgree /\ RunsWhole
=============================================================================
