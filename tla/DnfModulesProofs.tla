-------------------------- MODULE DnfModulesProofs --------------------------
(***************************************************************************)
(* The container of module packages, for any catalogs, settings files,     *)
(* defaults and platforms: what save() leaves on disk is what the next     *)
(* reader gets, a resolution respects the settings, and the fail-safe file *)
(* of a stream outlives its use.                                           *)
(*                                                                         *)
(* ModInv ties the three copies of the settings together: the parser holds *)
(* what the file says unless a write of it failed, the configuration is    *)
(* what the parser holds after a save, and the active packages are those   *)
(* of a resolution under the present configuration while it is fresh.      *)
(* TidyInv, needed for isChanged() alone, says that a stream is set        *)
(* exactly when a module is enabled; a call that throws may break it.      *)
(*                                                                         *)
(* The history database, for any packages, groups and history of yum:      *)
(* HsInv says what the database tells of each package while a transaction  *)
(* is at work, and of the groups; the items put together so far repeat it. *)
(***************************************************************************)
EXTENDS DnfModules, DnfHistory, WellFoundedInduction, FiniteSetTheorems, TLAPS

-----------------------------------------------------------------------------
(* The settings of modules.                                                *)

\* The streams and profiles that settings may name.
AnyStream ==
    {""} \cup AllStreams \cup UNION {{files[n].stream : n \in ModNames} : files \in ModOldFiles}
AnyProfile ==
    ModProfiles \cup UNION {UNION {Range(files[n].profiles) : n \in ModNames} : files \in ModOldFiles}

Settings(states) == [stream : AnyStream, profiles : Seq(AnyProfile), state : states]
FileRecs == Settings({"none", "torn"} \cup StateTexts)
ParserRecs == Settings(StateTexts)
ConfigRecs == Settings({"ENABLED", "DISABLED", "DEFAULT", "UNKNOWN"})

\* A module package, whatever repository it is from.
ModuleRecs ==
    [name : ModNames, stream : AllStreams \ {""}, version : {m.version : m \in AllModPackages},
     arch : {m.arch : m \in AllModPackages},
     repo : {m.repo : m \in AllModPackages} \cup {TornYaml, FailSafeRepo},
     requires : {m.requires : m \in AllModPackages}, artifacts : {m.artifacts : m \in AllModPackages}]

LEMMA PublishedModules ==
    ASSUME NEW C \in ModCatalogs, NEW m \in C
    PROVE  m \in ModuleRecs /\ m.repo \notin {TornYaml, FailSafeRepo}
<1>1. m \in AllModPackages
  BY DEF AllModPackages
<1>2. /\ m = [name |-> m.name, stream |-> m.stream, version |-> m.version, arch |-> m.arch,
              repo |-> m.repo, requires |-> m.requires, artifacts |-> m.artifacts]
      /\ m.name \in ModNames /\ m.stream # "" /\ m.repo \notin {"torn", "@modulefailsafe"}
  BY DnfModulesAssumption
<1>3. m.stream \in AllStreams
  BY <1>1 DEF AllStreams
<1> QED
  BY <1>1, <1>2, <1>3 DEF ModuleRecs, TornYaml, FailSafeRepo

LEMMA ProfileLists ==
    ASSUME NEW S, NEW P \in Seq(S)
    PROVE  /\ \A p \in S : AddProfile(P, p) \in Seq(S)
           /\ \A p \in Range(P) : RemoveProfile(P, p) \in Seq(S)
           /\ Sorted(P) \in Seq(S) /\ Range(Sorted(P)) = Range(P)
<1>0. Len(P) \in Nat /\ DOMAIN P = 1 .. Len(P) /\ \A i \in 1 .. Len(P) : P[i] \in S
  OBVIOUS
<1>1. \A p \in S : AddProfile(P, p) \in Seq(S)
  BY DEF AddProfile
<1>2. ASSUME NEW p \in Range(P) PROVE RemoveProfile(P, p) \in Seq(S)
  <2> DEFINE k == CHOOSE i \in DOMAIN P : P[i] = p
  <2>1. \E i \in DOMAIN P : P[i] = p
    BY DEF Range
  <2>2. k \in 1 .. Len(P)
    BY <1>0, <2>1
  <2> HIDE DEF k
  <2>3. SubSeq(P, 1, k - 1) \in Seq(S) /\ SubSeq(P, k + 1, Len(P)) \in Seq(S)
    BY <1>0, <2>2
  <2>4. RemoveProfile(P, p) = SubSeq(P, 1, k - 1) \o SubSeq(P, k + 1, Len(P))
    BY DEF RemoveProfile, RemoveAt, k
  <2> QED
    BY <2>3, <2>4
<1>3. Sorted(P) \in Seq(S) /\ Range(Sorted(P)) = Range(P)
  <2> DEFINE ascending == {s \in [DOMAIN P -> Range(P)] :
                             /\ Range(s) = Range(P)
                             /\ \A i, j \in DOMAIN s : i < j => s[i] < s[j]}
  <2>1. Sorted(P) = IF ascending = {} THEN P ELSE CHOOSE s \in ascending : TRUE
    BY DEF Sorted
  <2>2. \A s \in ascending : s \in [DOMAIN P -> Range(P)] /\ Range(s) = Range(P)
    OBVIOUS
  <2> HIDE DEF ascending
  <2>3. Sorted(P) = P \/ Sorted(P) \in ascending
    BY <2>1
  <2>4. CASE Sorted(P) = P
    BY <2>4
  <2>5. CASE Sorted(P) \in ascending
    <3>1. Range(P) \subseteq S
      BY <1>0 DEF Range
    <3>2. Sorted(P) \in [1 .. Len(P) -> S]
      BY <1>0, <2>2, <2>5, <3>1
    <3> QED
      BY <1>0, <2>2, <2>5, <3>2
  <2> QED
    BY <2>3, <2>4, <2>5
<1> QED
  BY <1>1, <1>2, <1>3

LEMMA StreamsAndProfiles ==
    /\ "" \in AnyStream /\ AllStreams \subseteq AnyStream
    /\ << >> \in Seq(AnyProfile) /\ ModProfiles \subseteq AnyProfile
    /\ \A files \in ModOldFiles : files \in [ModNames -> FileRecs]
<1>1. << >> \in Seq(AnyProfile)
  OBVIOUS
<1>2. ModProfiles \subseteq AnyProfile
  BY DEF AnyProfile
<1>3. ASSUME NEW files \in ModOldFiles
      PROVE  files \in [ModNames -> FileRecs]
  <2>1. ASSUME NEW n \in ModNames PROVE files[n] \in FileRecs
    <3>1. files[n].stream \in AnyStream
      <4>1. files[n].stream \in {files[k].stream : k \in ModNames}
        OBVIOUS
      <4>2. {files[k].stream : k \in ModNames} \in {{f[k].stream : k \in ModNames} : f \in ModOldFiles}
        OBVIOUS
      <4> QED
        BY <4>1, <4>2 DEF AnyStream
    <3>2. files[n].profiles \in Seq(AnyProfile)
      <4>1. \A p \in Range(files[n].profiles) : p \in UNION {Range(files[k].profiles) : k \in ModNames}
        OBVIOUS
      <4>2. UNION {Range(files[k].profiles) : k \in ModNames}
              \in {UNION {Range(f[k].profiles) : k \in ModNames} : f \in ModOldFiles}
        OBVIOUS
      <4>3. Range(files[n].profiles) \subseteq AnyProfile
        BY <4>1, <4>2 DEF AnyProfile
      <4>4. files[n].profiles \in Seq(Nat)
        BY DnfModulesAssumption
      <4>5. \A i \in 1 .. Len(files[n].profiles) : files[n].profiles[i] \in AnyProfile
        BY <4>3, <4>4 DEF Range
      <4> QED
        BY <4>4, <4>5
    <3>3. /\ files[n] = [stream |-> files[n].stream, profiles |-> files[n].profiles,
                         state |-> files[n].state]
          /\ files[n].state \in {"none", "torn"} \cup StateTexts
      BY DnfModulesAssumption
    <3> QED
      BY <3>1, <3>2, <3>3 DEF FileRecs, Settings
  <2>2. files = [n \in ModNames |-> files[n]]
    BY DnfModulesAssumption
  <2> QED
    BY <2>1, <2>2
<1> QED
  BY <1>1, <1>2, <1>3 DEF AnyStream

\* Settings, through the parser and back.
LEMMA Conversions ==
    /\ \A f \in FileRecs : ParseConfig(f) \in ParserRecs
    /\ \A p \in ParserRecs : FromParser(p) \in ConfigRecs /\ FromParser(p).stream = p.stream
                             /\ FromParser(p).profiles = p.profiles
                             /\ FromParser(p).state = FromString(p.state)
    /\ \A c \in ConfigRecs : /\ Updated(c) \in ParserRecs /\ Updated(c) \in FileRecs
                             /\ Updated(c).stream = c.stream /\ Updated(c).profiles = c.profiles
                             /\ Updated(c).state = StateText(c.state)
                             /\ ParseConfig(Updated(c)) = Updated(c)
<1>1. \A f \in FileRecs : ParseConfig(f) \in ParserRecs
  BY StreamsAndProfiles DEF ParseConfig, FileRecs, ParserRecs, Settings, InitConfig, StateTexts
<1>2. \A s : FromString(s) \in {"ENABLED", "DISABLED", "UNKNOWN"}
  BY DEF FromString
<1>3. \A s : StateText(s) \in {"", "enabled", "disabled"} /\ StateText(s) \in StateTexts
  BY DEF StateText, StateTexts, EnabledTexts, DisabledTexts
<1>4. \A p \in ParserRecs : FromParser(p) \in ConfigRecs /\ FromParser(p).stream = p.stream
                             /\ FromParser(p).profiles = p.profiles
                             /\ FromParser(p).state = FromString(p.state)
  BY <1>2 DEF FromParser, ParserRecs, ConfigRecs, Settings
<1>5. \A c \in ConfigRecs : /\ Updated(c) \in ParserRecs /\ Updated(c) \in FileRecs
                            /\ Updated(c).stream = c.stream /\ Updated(c).profiles = c.profiles
                            /\ Updated(c).state = StateText(c.state)
  BY <1>3 DEF Updated, ParserRecs, ConfigRecs, FileRecs, Settings
<1>6. \A c \in ConfigRecs : ParseConfig(Updated(c)) = Updated(c)
  BY <1>3, <1>5 DEF ParseConfig
<1> QED
  BY <1>1, <1>4, <1>5, <1>6

LEMMA SameRecord ==
    ASSUME NEW a \in ParserRecs, NEW b \in ParserRecs, a.stream = b.stream,
           a.profiles = b.profiles, a.state = b.state
    PROVE  a = b
<1>1. a = [stream |-> a.stream, profiles |-> a.profiles, state |-> a.state]
  BY DEF ParserRecs, Settings
<1>2. b = [stream |-> b.stream, profiles |-> b.profiles, state |-> b.state]
  BY DEF ParserRecs, Settings
<1> QED
  BY <1>1, <1>2, Zenon

\* A state that was written is read again as the same text.
LEMMA TextOfRead ==
    \A s \in {"ENABLED", "DISABLED", "DEFAULT", "UNKNOWN"} :
        StateText(FromString(StateText(s))) = StateText(s)
BY DEF FromString, StateText, EnabledTexts, DisabledTexts

\* Settings that agree before they are written: the stream, the spelling save()
\* uses for the state, and the profiles in any order.
Agree(a, b) ==
    a.stream = b.stream /\ a.state = b.state /\ Range(a.profiles) = Range(b.profiles)

\* What the settings c become for the next reader.
LEMMA ReadBack ==
    ASSUME NEW c \in ConfigRecs, NEW p \in ParserRecs, Agree(Updated(c), p)
    PROVE  SameForReader(FromParser(p), c)
<1>1. c.state \in {"ENABLED", "DISABLED", "DEFAULT", "UNKNOWN"}
  BY DEF ConfigRecs, Settings
<1>2. /\ Updated(c).stream = c.stream /\ Updated(c).profiles = c.profiles
      /\ Updated(c).state = StateText(c.state)
  BY Conversions
<1>3. /\ FromParser(p).stream = p.stream /\ FromParser(p).profiles = p.profiles
      /\ FromParser(p).state = FromString(p.state)
  BY Conversions
<1>4. p.stream = c.stream /\ p.state = StateText(c.state) /\ Range(p.profiles) = Range(c.profiles)
  BY <1>2 DEF Agree
<1>5. StateText(FromParser(p).state) = StateText(c.state)
  BY <1>1, <1>3, <1>4, TextOfRead
<1> QED
  BY <1>3, <1>4, <1>5 DEF SameForReader

-----------------------------------------------------------------------------
(* The container.                                                          *)

\* A container: settings of some modules, twice, and packages of those.
ContainerRecs ==
    [open : {TRUE}, config : UNION {[D -> ConfigRecs] : D \in SUBSET ModNames},
     parser : UNION {[D -> ParserRecs] : D \in SUBSET ModNames},
     modules : SUBSET ModuleRecs, active : SUBSET ModuleRecs, solved : BOOLEAN, fresh : BOOLEAN,
     error : {"NO_ERROR", "ERROR_IN_DEFAULTS", "ERROR"},
     platform : {""} \cup {PlatformStream(i) : i \in PlatformInputs}]

Container(c) ==
    /\ c \in ContainerRecs
    /\ DOMAIN c.parser = DOMAIN c.config
    /\ \A m \in c.modules : m.repo # TornYaml /\ m.name \in DOMAIN c.config
    /\ c.active \subseteq c.modules
    /\ c.solved \/ c.active = {}

\* What a resolution leaves.
ActiveGood(c) ==
    /\ \A m \in c.active : ~IsDisabled(c, m.name)
    /\ \A m, k \in c.active : ~ModConflict(m, k)
    /\ c.error # "ERROR" =>
         \A k \in c.modules : IsEnabled(c, k.name, k.stream) => \E m \in c.active : SameModule(m, k)

\* Settings d have the streams of settings c, and the same is enabled and disabled.
SameSettings(c, d) ==
    /\ DOMAIN d = DOMAIN c
    /\ \A n \in DOMAIN c : /\ d[n].stream = c[n].stream
                           /\ d[n].state = "ENABLED" <=> c[n].state = "ENABLED"
                           /\ d[n].state = "DISABLED" <=> c[n].state = "DISABLED"

\* Settings of a container, and settings it may get instead.
LEMMA ContainerSettings ==
    ASSUME NEW c, Container(c)
    PROVE  /\ DOMAIN c.config \subseteq ModNames
           /\ c.config \in [DOMAIN c.config -> ConfigRecs]
           /\ c.parser \in [DOMAIN c.config -> ParserRecs]
<1>1. PICK D \in SUBSET ModNames : c.config \in [D -> ConfigRecs]
  BY DEF Container, ContainerRecs
<1>2. PICK E \in SUBSET ModNames : c.parser \in [E -> ParserRecs]
  BY DEF Container, ContainerRecs
<1>3. DOMAIN c.config = D /\ DOMAIN c.parser = E
  BY <1>1, <1>2
<1> QED
  BY <1>1, <1>2, <1>3 DEF Container

LEMMA ChangedContainer ==
    ASSUME NEW c, Container(c), NEW f \in [DOMAIN c.config -> ConfigRecs],
           NEW p \in [DOMAIN c.config -> ParserRecs], NEW d,
           d \in [open : {TRUE}, config : {f}, parser : {p}, modules : {c.modules},
                  active : {c.active}, solved : {c.solved}, fresh : BOOLEAN, error : {c.error},
                  platform : {c.platform}]
    PROVE  Container(d)
<1>1. DOMAIN f = DOMAIN c.config /\ DOMAIN p = DOMAIN c.config
  OBVIOUS
<1>2. f \in UNION {[D -> ConfigRecs] : D \in SUBSET ModNames}
  BY ContainerSettings
<1>3. p \in UNION {[D -> ParserRecs] : D \in SUBSET ModNames}
  BY ContainerSettings
<1>4. d \in ContainerRecs
  BY <1>2, <1>3 DEF ContainerRecs, Container
<1> QED
  BY <1>1, <1>4 DEF Container

LEMMA MarkedContainer ==
    ASSUME NEW c, Container(c)
    PROVE  /\ Container(MarkDefaults(c))
           /\ SameSettings(c.config, MarkDefaults(c).config)
           /\ \A n \in DOMAIN c.config : Updated(MarkDefaults(c).config[n]) = Updated(c.config[n])
           /\ MarkDefaults(c).modules = c.modules /\ MarkDefaults(c).parser = c.parser
<1> DEFINE f == [n \in DOMAIN c.config |->
                   IF /\ c.config[n].state \notin {"ENABLED", "DISABLED"}
                      /\ \E m \in c.modules : m.name = n /\ GetDefaultStream(n) = m.stream
                   THEN [c.config[n] EXCEPT !.state = "DEFAULT"] ELSE c.config[n]]
           d == [c EXCEPT !.config = f]
<1>0. d = MarkDefaults(c)
  BY DEF MarkDefaults
<1>1. ASSUME NEW n \in DOMAIN c.config
      PROVE  /\ f[n] \in ConfigRecs /\ f[n].stream = c.config[n].stream
             /\ f[n].profiles = c.config[n].profiles
             /\ \/ f[n].state = c.config[n].state
                \/ f[n].state = "DEFAULT" /\ c.config[n].state \in {"UNKNOWN", "DEFAULT"}
  <2>1. c.config[n] \in ConfigRecs
    BY ContainerSettings
  <2>2. \/ f[n] = c.config[n]
        \/ /\ c.config[n].state \notin {"ENABLED", "DISABLED"}
           /\ f[n] = [c.config[n] EXCEPT !.state = "DEFAULT"]
    OBVIOUS
  <2> HIDE DEF f
  <2> QED
    BY <2>1, <2>2 DEF ConfigRecs, Settings
<1>2. f \in [DOMAIN c.config -> ConfigRecs] /\ DOMAIN f = DOMAIN c.config
  BY <1>1
<1> HIDE DEF f
<1>3. /\ d.config = f /\ d.modules = c.modules /\ d.parser = c.parser
      /\ d \in [open : {TRUE}, config : {f}, parser : {c.parser}, modules : {c.modules},
                active : {c.active}, solved : {c.solved}, fresh : BOOLEAN, error : {c.error},
                platform : {c.platform}]
  BY DEF Container, ContainerRecs
<1>4. Container(d)
  <2>1. c.parser \in [DOMAIN c.config -> ParserRecs]
    BY ContainerSettings
  <2> HIDE DEF d
  <2> QED
    BY <1>2, <1>3, <2>1, ChangedContainer
<1>5. SameSettings(c.config, f)
  BY <1>1, <1>2 DEF SameSettings
<1>6. ASSUME NEW n \in DOMAIN c.config PROVE Updated(f[n]) = Updated(c.config[n])
  <2>1. StateText(f[n].state) = StateText(c.config[n].state)
    BY <1>1 DEF StateText
  <2>2. f[n] \in ConfigRecs /\ c.config[n] \in ConfigRecs
    BY <1>1, ContainerSettings
  <2>3. Updated(f[n]) \in ParserRecs /\ Updated(c.config[n]) \in ParserRecs
    BY <2>2, Conversions
  <2>4. /\ Updated(f[n]).stream = f[n].stream /\ Updated(f[n]).profiles = f[n].profiles
        /\ Updated(f[n]).state = StateText(f[n].state)
        /\ Updated(c.config[n]).stream = c.config[n].stream
        /\ Updated(c.config[n]).profiles = c.config[n].profiles
        /\ Updated(c.config[n]).state = StateText(c.config[n].state)
    BY <2>2, Conversions
  <2>5. f[n].stream = c.config[n].stream /\ f[n].profiles = c.config[n].profiles
    BY <1>1
  <2> QED
    BY <2>1, <2>3, <2>4, <2>5, SameRecord
<1> HIDE DEF d
<1> QED
  BY <1>0, <1>3, <1>4, <1>5, <1>6

\* What the solver may install.
LEMMA Solutions ==
    ASSUME NEW avail, NEW must, NEW weak, NEW platform,
           NEW S \in ModSolutions(avail, must, weak, platform)
    PROVE  /\ S \subseteq avail
           /\ \A m, k \in S : ~ModConflict(m, k)
           /\ \A j \in must : \E k \in S : SameModule(k, j)
<1>1. S \in SUBSET avail /\ ConsistentModules(S, platform) /\ Provided(S, must) = must
  BY DEF ModSolutions
<1> QED
  BY <1>1 DEF ConsistentModules, Provided

LEMMA SolvedModules ==
    ASSUME NEW c, Container(c), NEW r \in ModuleSolve(c, Usable(c))
    PROVE  /\ r.solved \in BOOLEAN /\ r.active \subseteq c.modules
           /\ r.error \in {"NO_ERROR", "ERROR_IN_DEFAULTS", "ERROR"}
           /\ r.solved \/ r.active = {}
           /\ \A m \in r.active : ~IsDisabled(c, m.name)
           /\ \A m, k \in r.active : ~ModConflict(m, k)
           /\ r.error # "ERROR" => \A k \in c.modules :
                IsEnabled(c, k.name, k.stream) => \E m \in r.active : SameModule(m, k)
<1> DEFINE jobs == Usable(c)
           avail == {m \in c.modules : ~IsDisabled(c, m.name)}
           weak == {m \in jobs : c.config[m.name].state = "DEFAULT"}
           strict == ModSolutions(avail, jobs, {}, c.platform)
           lenient == ModSolutions(avail, jobs \ weak, weak, c.platform)
           left == avail \ ConflictingModules(avail, jobs \ weak)
           rest == ModSolutions(left, {}, jobs, c.platform)
           found(sols, err) == {[solved |-> TRUE, active |-> S, error |-> err] : S \in sols}
<1>1. \/ jobs = {} /\ r \in {[solved |-> FALSE, active |-> {}, error |-> "NO_ERROR"]}
      \/ r \in found(strict, "NO_ERROR")
      \/ r \in found(lenient, "ERROR_IN_DEFAULTS")
      \/ r \in found(rest, "ERROR")
  <2>1. r \in IF jobs = {} THEN {[solved |-> FALSE, active |-> {}, error |-> "NO_ERROR"]}
              ELSE IF strict # {} THEN found(strict, "NO_ERROR")
              ELSE IF lenient # {} THEN found(lenient, "ERROR_IN_DEFAULTS")
              ELSE found(rest, "ERROR")
    BY DEF ModuleSolve
  <2> HIDE DEF jobs, strict, lenient, rest, found
  <2> QED
    BY <2>1
<1>2. \A k \in c.modules : IsEnabled(c, k.name, k.stream) => k \in jobs /\ k \in jobs \ weak
  BY DEF Usable, IsEnabled, IsDisabled
<1>3. CASE jobs = {} /\ r \in {[solved |-> FALSE, active |-> {}, error |-> "NO_ERROR"]}
  <2> HIDE DEF jobs
  <2>1. r.solved = FALSE /\ r.active = {} /\ r.error = "NO_ERROR"
    BY <1>3
  <2> QED
    BY <1>2, <1>3, <2>1
<1>4. CASE r \in found(strict, "NO_ERROR")
  <2>1. PICK S \in strict : r = [solved |-> TRUE, active |-> S, error |-> "NO_ERROR"]
    BY <1>4
  <2>2. r.solved = TRUE /\ r.active = S /\ r.error = "NO_ERROR"
    BY <2>1
  <2>3. /\ S \subseteq avail /\ \A m, k \in S : ~ModConflict(m, k)
        /\ \A j \in jobs : \E k \in S : SameModule(k, j)
    BY Solutions
  <2> HIDE DEF jobs, strict
  <2> QED
    BY <1>2, <2>2, <2>3
<1>5. CASE r \in found(lenient, "ERROR_IN_DEFAULTS")
  <2>1. PICK S \in lenient : r = [solved |-> TRUE, active |-> S, error |-> "ERROR_IN_DEFAULTS"]
    BY <1>5
  <2>2. r.solved = TRUE /\ r.active = S /\ r.error = "ERROR_IN_DEFAULTS"
    BY <2>1
  <2>3. /\ S \subseteq avail /\ \A m, k \in S : ~ModConflict(m, k)
        /\ \A j \in jobs \ weak : \E k \in S : SameModule(k, j)
    BY Solutions
  <2> HIDE DEF jobs, weak, lenient
  <2> QED
    BY <1>2, <2>2, <2>3
<1>6. CASE r \in found(rest, "ERROR")
  <2>1. PICK S \in rest : r = [solved |-> TRUE, active |-> S, error |-> "ERROR"]
    BY <1>6
  <2>2. r.solved = TRUE /\ r.active = S /\ r.error = "ERROR"
    BY <2>1
  <2>3. S \subseteq left /\ \A m, k \in S : ~ModConflict(m, k)
    BY Solutions
  <2> HIDE DEF jobs, weak, rest
  <2> QED
    BY <2>2, <2>3
<1> QED
  BY <1>1, <1>3, <1>4, <1>5, <1>6

\* resolveActiveModulePackages keeps the settings but for the mark of the defaults.
LEMMA ResolvedContainer ==
    ASSUME NEW c, Container(c), NEW d \in ResolveActive(c)
    PROVE  /\ Container(d) /\ ActiveGood(d) /\ d.fresh
           /\ SameSettings(c.config, d.config)
           /\ \A n \in DOMAIN c.config : Updated(d.config[n]) = Updated(c.config[n])
           /\ d.modules = c.modules /\ d.parser = c.parser
<1> DEFINE e == MarkDefaults(c)
<1>1. /\ Container(e) /\ SameSettings(c.config, e.config)
      /\ \A n \in DOMAIN c.config : Updated(e.config[n]) = Updated(c.config[n])
      /\ e.modules = c.modules /\ e.parser = c.parser
  BY MarkedContainer
<1>2. PICK r \in ModuleSolve(e, Usable(e)) :
        d = [e EXCEPT !.solved = r.solved, !.active = r.active, !.error = r.error, !.fresh = TRUE]
  BY DEF ResolveActive
<1> HIDE DEF e
<1>3. /\ r.solved \in BOOLEAN /\ r.active \subseteq e.modules
      /\ r.error \in {"NO_ERROR", "ERROR_IN_DEFAULTS", "ERROR"}
      /\ r.solved \/ r.active = {}
      /\ \A m \in r.active : ~IsDisabled(e, m.name)
      /\ \A m, k \in r.active : ~ModConflict(m, k)
      /\ r.error # "ERROR" => \A k \in e.modules :
           IsEnabled(e, k.name, k.stream) => \E m \in r.active : SameModule(m, k)
  BY <1>1, <1>2, SolvedModules
<1>4. r.active \in SUBSET ModuleRecs
  BY <1>1, <1>3 DEF Container, ContainerRecs
<1>5. d \in ContainerRecs
  BY <1>1, <1>2, <1>3, <1>4 DEF Container, ContainerRecs
<1>6. /\ d.config = e.config /\ d.parser = e.parser /\ d.modules = e.modules
      /\ d.active = r.active /\ d.solved = r.solved /\ d.error = r.error /\ d.fresh = TRUE
  BY <1>1, <1>2, <1>3 DEF Container, ContainerRecs
<1>7. Container(d)
  BY <1>1, <1>3, <1>5, <1>6 DEF Container
<1>8. ActiveGood(d)
  BY <1>3, <1>6 DEF ActiveGood, IsDisabled, IsEnabled
<1> QED
  BY <1>1, <1>6, <1>7, <1>8

\* The container knows what the files say: every file belongs to a module it has, and
\* the parser holds its content, unless a write of it failed.
KnowsFiles(c, files, lost) ==
    /\ \A n \in ModNames \ DOMAIN c.config : files[n].state = "none"
    /\ \A n \in DOMAIN c.config \ lost : c.parser[n] = ParseConfig(files[n])

LEMMA OpenedContainer ==
    ASSUME published \in ModCatalogs, NEW input \in PlatformInputs,
           NEW files \in [ModNames -> FileRecs], NEW yamls \in SUBSET ModuleRecs,
           NEW c, c = OpenContainer(input, files, yamls)
    PROVE  /\ Container(c) /\ KnowsFiles(c, files, {})
           /\ \A n \in DOMAIN c.config : c.config[n] = FromParser(ParseConfig(files[n]))
<1> DEFINE onDisk == {n \in ModNames : files[n].state # "none"}
           names == onDisk \cup {m.name : m \in published}
           parser == InsertModules(files, names)
           config == [n \in names |-> FromParser(parser[n])]
           safe == FailSafeFor(yamls, config, published)
           kept == {[y EXCEPT !.repo = FailSafeRepo] : y \in safe}
           modules == published \cup kept
           platform == IF modules = {} THEN "" ELSE PlatformStream(input)
<1>1. c = [open |-> TRUE, config |-> config, parser |-> parser,
           modules |-> modules, active |-> {}, solved |-> FALSE, fresh |-> FALSE,
           error |-> "NO_ERROR", platform |-> platform]
  BY DEF OpenContainer
<1>2. published \subseteq ModuleRecs /\ \A m \in published : m.repo \notin {TornYaml, FailSafeRepo}
  BY PublishedModules
<1>3. names \in SUBSET ModNames /\ \A m \in published : m.name \in names
  BY <1>2 DEF ModuleRecs
<1>4. \A n \in ModNames \ names : files[n].state = "none"
  OBVIOUS
<1> HIDE DEF names
<1>5. parser \in [names -> ParserRecs] /\ \A n \in names : parser[n] = ParseConfig(files[n])
  BY <1>3, Conversions DEF InsertModules
<1> HIDE DEF parser
<1>6. /\ config \in [names -> ConfigRecs] /\ DOMAIN config = names
      /\ \A n \in names : config[n] = FromParser(parser[n])
  BY <1>5, Conversions
<1> HIDE DEF config
<1>7. safe \subseteq yamls /\ \A y \in safe : y.name \in names
  BY <1>6 DEF FailSafeFor
<1> HIDE DEF safe
<1>8. ASSUME NEW k \in kept
      PROVE  k \in ModuleRecs /\ k.repo = FailSafeRepo /\ k.name \in names
  <2>1. PICK y \in safe : k = [y EXCEPT !.repo = FailSafeRepo]
    OBVIOUS
  <2>2. y \in ModuleRecs /\ y.name \in names
    BY <1>7
  <2> QED
    BY <2>1, <2>2 DEF ModuleRecs
<1> HIDE DEF kept
<1>9. /\ modules \in SUBSET ModuleRecs
      /\ \A m \in modules : m.repo # TornYaml /\ m.name \in names
  BY <1>2, <1>3, <1>8 DEF TornYaml, FailSafeRepo
<1>10. platform \in {""} \cup {PlatformStream(i) : i \in PlatformInputs}
  <2> HIDE DEF modules
  <2> QED
    OBVIOUS
<1> HIDE DEF modules, platform
<1>11. /\ config \in UNION {[D -> ConfigRecs] : D \in SUBSET ModNames}
       /\ parser \in UNION {[D -> ParserRecs] : D \in SUBSET ModNames}
  BY <1>3, <1>5, <1>6
<1>12. c \in ContainerRecs
  <2>1. c \in [open : {TRUE}, config : {config}, parser : {parser}, modules : {modules},
               active : {{}}, solved : {FALSE}, fresh : {FALSE}, error : {"NO_ERROR"},
               platform : {platform}]
    BY <1>1
  <2> QED
    BY <2>1, <1>9, <1>10, <1>11 DEF ContainerRecs
<1>13. /\ c.config = config /\ c.parser = parser /\ c.modules = modules /\ c.active = {}
  BY <1>1
<1>14. Container(c)
  BY <1>5, <1>6, <1>9, <1>12, <1>13 DEF Container
<1> QED
  BY <1>4, <1>5, <1>6, <1>13, <1>14 DEF KnowsFiles

\* updateFailSafeData: the files are files of modules again, and one is lost only when
\* its stream is not enabled, or its yaml was to be replaced by another.
LEMMA FailSafeKept ==
    ASSUME NEW c, Container(c), failSafe \subseteq ModuleRecs, NEW F \in FailSafeAfter(c)
    PROVE  /\ F \subseteq ModuleRecs
           /\ \A y \in failSafe :
                \/ \E k \in F :
                     SameFile(y, k) /\ (k.repo # TornYaml \/ y.repo = TornYaml \/ k # Torn(y))
                \/ ~IsEnabled(c, y.name, y.stream)
<1> DEFINE latest == LatestActiveEnabled(c)
           own == {m \in latest : m.repo # FailSafeRepo}
           tearing == {m \in own : ~\E y \in failSafe : SameYaml(y, m)}
           whole == {W \in SUBSET own : \A m, k \in W : SameFile(m, k) => m = k}
           torn == {{Torn(m)} : m \in tearing}
           out == Outdated(c, latest)
<1>1. latest \subseteq c.modules /\ c.modules \subseteq ModuleRecs
  BY DEF LatestActiveEnabled, Container, ContainerRecs
<1>2. /\ out \subseteq failSafe
      /\ \A y \in out : ~(\E m \in latest : SameFile(m, y)) /\ ~IsEnabled(c, y.name, y.stream)
  BY DEF Outdated
<1>3. F = failSafe \/ \E W \in whole \cup torn : F = UpdateFiles(failSafe, W) \ out
  <2>1. F \in IF ~c.solved THEN {failSafe}
              ELSE {UpdateFiles(failSafe, W) \ out : W \in whole \cup torn}
    BY DEF FailSafeAfter
  <2> HIDE DEF whole, torn, out
  <2> QED
    BY <2>1
<1>4. CASE F = failSafe
  BY <1>4 DEF SameFile
<1>5. ASSUME NEW W \in whole \cup torn, F = UpdateFiles(failSafe, W) \ out,
             W \subseteq ModuleRecs,
             \A k \in W : \E m \in latest : SameFile(m, k),
             \A k \in W, y \in failSafe : SameFile(k, y) =>
                k.repo # TornYaml \/ y.repo = TornYaml \/ k # Torn(y)
      PROVE  /\ F \subseteq ModuleRecs
             /\ \A y \in failSafe :
                  \/ \E k \in F :
                       SameFile(y, k) /\ (k.repo # TornYaml \/ y.repo = TornYaml \/ k # Torn(y))
                  \/ ~IsEnabled(c, y.name, y.stream)
  <2> HIDE DEF out, latest, whole, torn
  <2>1. F \subseteq ModuleRecs
    BY <1>5 DEF UpdateFiles
  <2>2. W \subseteq F
    BY <1>2, <1>5 DEF UpdateFiles
  <2>3. ASSUME NEW y \in failSafe
        PROVE  \/ \E k \in F :
                    SameFile(y, k) /\ (k.repo # TornYaml \/ y.repo = TornYaml \/ k # Torn(y))
               \/ ~IsEnabled(c, y.name, y.stream)
    <3>1. CASE y \in out
      BY <1>2, <3>1
    <3>2. CASE \E k \in W : SameFile(k, y)
      <4>1. PICK k \in W : SameFile(k, y)
        BY <3>2
      <4>2. SameFile(y, k)
        BY <4>1 DEF SameFile
      <4> QED
        BY <1>5, <2>2, <4>1, <4>2
    <3>3. CASE y \notin out /\ ~\E k \in W : SameFile(k, y)
      <4>1. y \in F /\ SameFile(y, y)
        BY <1>5, <3>3 DEF UpdateFiles, SameFile
      <4> QED
        BY <4>1
    <3> QED
      BY <3>1, <3>2, <3>3
  <2> QED
    BY <2>1, <2>3
<1>6. ASSUME NEW W \in whole
      PROVE  /\ W \subseteq ModuleRecs
             /\ \A k \in W : \E m \in latest : SameFile(m, k)
             /\ \A k \in W : k.repo # TornYaml
  <2>1. W \subseteq latest
    OBVIOUS
  <2> HIDE DEF latest, whole
  <2> QED
    BY <1>1, <2>1 DEF Container, SameFile
<1>7. ASSUME NEW W \in torn
      PROVE  /\ W \subseteq ModuleRecs
             /\ \A k \in W : \E m \in latest : SameFile(m, k)
             /\ \A k \in W, y \in failSafe : SameFile(k, y) => y.repo = TornYaml \/ k # Torn(y)
  <2>1. PICK m \in tearing : W = {Torn(m)}
    OBVIOUS
  <2>2. m \in latest /\ m \in ModuleRecs /\ ~\E y \in failSafe : SameYaml(y, m)
    BY <1>1
  <2> HIDE DEF latest, torn, own, tearing
  <2>3. Torn(m) \in ModuleRecs /\ SameFile(m, Torn(m))
    BY <2>2 DEF Torn, ModuleRecs, SameFile
  <2>4. ASSUME NEW y \in failSafe, y.repo # TornYaml PROVE Torn(m) # Torn(y)
    <3> SUFFICES ASSUME Torn(m) = Torn(y) PROVE FALSE
      OBVIOUS
    <3>1. /\ y \in ModuleRecs
          /\ m.name = y.name /\ m.stream = y.stream /\ m.version = y.version /\ m.arch = y.arch
          /\ m.requires = y.requires /\ m.artifacts = y.artifacts
      BY <2>2 DEF Torn, ModuleRecs
    <3>2. [y EXCEPT !.repo = m.repo] = m
      BY <2>2, <3>1 DEF ModuleRecs
    <3> QED
      BY <2>2, <2>4, <3>2 DEF SameYaml
  <2> QED
    BY <2>1, <2>2, <2>3, <2>4
<1> QED
  <2> HIDE DEF whole, torn, out
  <2> QED
    BY <1>3, <1>4, <1>5, <1>6, <1>7

-----------------------------------------------------------------------------
(* The inductive invariant, and the steps in three groups.                 *)

GhostRecs == [thrown : BOOLEAN, saved : BOOLEAN, lost : SUBSET ModNames, steps : Nat]

\* After a save the parser holds the settings.
Settled(c) == \A n \in DOMAIN c.config : Agree(Updated(c.config[n]), c.parser[n])

ModInv ==
    /\ modFiles \in [ModNames -> FileRecs]
    /\ published \in ModCatalogs
    /\ failSafe \subseteq ModuleRecs
    /\ modGhost \in GhostRecs
    /\ cont.open \in BOOLEAN
    /\ cont.open => /\ Container(cont) /\ KnowsFiles(cont, modFiles, modGhost.lost)
                    /\ modGhost.saved => Settled(cont)
                    /\ cont.fresh => ActiveGood(cont)

\* A module has a stream exactly when it is enabled.
TidyConfig(c) == c.state = "ENABLED" <=> c.stream # ""
TidyParser(p) == p.state \in EnabledTexts <=> p.stream # ""

TidyInv ==
    ~modGhost.thrown =>
        /\ \A n \in ModNames : TidyParser(ParseConfig(modFiles[n]))
        /\ cont.open => \A n \in DOMAIN cont.config :
                          TidyConfig(cont.config[n]) /\ TidyParser(cont.parser[n])

\* The containers that differ from c in the settings, and in whether it is resolved.
WithConfig(c, f) ==
    [open : {TRUE}, config : {f}, parser : {c.parser}, modules : {c.modules}, active : {c.active},
     solved : {c.solved}, fresh : BOOLEAN, error : {c.error}, platform : {c.platform}]

LEMMA ConfigContainer ==
    ASSUME NEW c, Container(c), NEW f \in [DOMAIN c.config -> ConfigRecs], NEW d \in WithConfig(c, f)
    PROVE  Container(d)
<1>1. c.parser \in [DOMAIN c.config -> ParserRecs]
  BY ContainerSettings
<1> QED
  BY <1>1, ChangedContainer DEF WithConfig

\* What a call that changes the settings to f leaves.
ChangesSettings(f) ==
    /\ cont.open /\ f \in [DOMAIN cont.config -> ConfigRecs]
    /\ cont' \in WithConfig(cont, f)
    /\ cont'.fresh => cont.fresh /\ SameSettings(cont.config, f)
    /\ modGhost' \in GhostRecs /\ modGhost'.saved = FALSE /\ modGhost'.lost = modGhost.lost
    /\ modGhost.thrown => modGhost'.thrown
    /\ ~modGhost'.thrown => \A n \in DOMAIN cont.config :
         TidyConfig(cont.config[n]) /\ TidyParser(cont.parser[n]) => TidyConfig(f[n])
    /\ modFiles' = modFiles /\ failSafe' = failSafe /\ published' = published

LEMMA GhostSteps ==
    ASSUME modGhost \in GhostRecs
    PROVE  /\ \A g : g = Stepped(modGhost) =>
                g \in GhostRecs /\ g.saved = FALSE /\ g.lost = modGhost.lost
                /\ g.thrown = modGhost.thrown
           /\ \A g, b : g = [Stepped(modGhost) EXCEPT !.thrown = b] /\ b \in BOOLEAN =>
                g \in GhostRecs /\ g.saved = FALSE /\ g.lost = modGhost.lost /\ g.thrown = b
           /\ \A g : g = [Stepped(modGhost) EXCEPT !.lost = {}] =>
                g \in GhostRecs /\ g.saved = FALSE /\ g.lost = {} /\ g.thrown = modGhost.thrown
           /\ \A g : g = [modGhost EXCEPT !.lost = {}, !.saved = FALSE] =>
                g \in GhostRecs /\ g.saved = FALSE /\ g.lost = {} /\ g.thrown = modGhost.thrown
           /\ \A g : g = [modGhost EXCEPT !.saved = FALSE] =>
                g \in GhostRecs /\ g.saved = FALSE /\ g.lost = modGhost.lost
                /\ g.thrown = modGhost.thrown
<1>1. ASSUME NEW g, g = Stepped(modGhost)
      PROVE  g \in GhostRecs /\ g.saved = FALSE /\ g.lost = modGhost.lost
             /\ g.thrown = modGhost.thrown
  <2>1. modGhost.steps + 1 \in Nat
    BY DEF GhostRecs
  <2>2. g = [modGhost EXCEPT !.steps = modGhost.steps + 1, !.saved = FALSE]
    BY <1>1 DEF Stepped
  <2> DEFINE up == modGhost.steps + 1
  <2> HIDE DEF up
  <2>3. g = [modGhost EXCEPT !.steps = up, !.saved = FALSE] /\ up \in Nat
    BY <2>1, <2>2 DEF up
  <2> QED
    BY <2>3 DEF GhostRecs
<1>2. ASSUME NEW g, NEW b \in BOOLEAN, g = [Stepped(modGhost) EXCEPT !.thrown = b]
      PROVE  g \in GhostRecs /\ g.saved = FALSE /\ g.lost = modGhost.lost /\ g.thrown = b
  <2> DEFINE s == Stepped(modGhost)
  <2>1. s \in GhostRecs /\ s.saved = FALSE /\ s.lost = modGhost.lost
    BY <1>1
  <2> QED
    BY <1>2, <2>1 DEF GhostRecs
<1>3. ASSUME NEW g, g = [Stepped(modGhost) EXCEPT !.lost = {}]
      PROVE  g \in GhostRecs /\ g.saved = FALSE /\ g.lost = {} /\ g.thrown = modGhost.thrown
  <2> DEFINE s == Stepped(modGhost)
  <2>1. s \in GhostRecs /\ s.saved = FALSE /\ s.thrown = modGhost.thrown
    BY <1>1
  <2> QED
    BY <1>3, <2>1 DEF GhostRecs
<1>4. ASSUME NEW g, g = [modGhost EXCEPT !.lost = {}, !.saved = FALSE]
      PROVE  g \in GhostRecs /\ g.saved = FALSE /\ g.lost = {} /\ g.thrown = modGhost.thrown
  BY <1>4 DEF GhostRecs
<1>5. ASSUME NEW g, g = [modGhost EXCEPT !.saved = FALSE]
      PROVE  g \in GhostRecs /\ g.saved = FALSE /\ g.lost = modGhost.lost
             /\ g.thrown = modGhost.thrown
  BY <1>5 DEF GhostRecs
<1> QED
  BY <1>1, <1>2, <1>3, <1>4, <1>5

LEMMA SettingsKept ==
    ASSUME ModInv, NEW f, ChangesSettings(f)
    PROVE  ModInv'
<1>1. Container(cont)
  BY DEF ModInv, ChangesSettings
<1>2. /\ cont'.open = TRUE /\ cont'.config = f /\ cont'.parser = cont.parser
      /\ cont'.modules = cont.modules /\ cont'.active = cont.active /\ cont'.error = cont.error
      /\ cont'.fresh \in BOOLEAN
  BY DEF ChangesSettings, WithConfig
<1>3. Container(cont')
  <2>1. cont.parser \in [DOMAIN cont.config -> ParserRecs]
    BY <1>1, ContainerSettings
  <2> QED
    BY <1>1, <2>1, ChangedContainer DEF ChangesSettings, WithConfig
<1>4. DOMAIN f = DOMAIN cont.config
  BY DEF ChangesSettings
<1>5. KnowsFiles(cont', modFiles', modGhost'.lost)
  BY <1>2, <1>4 DEF ModInv, ChangesSettings, KnowsFiles
<1>6. ASSUME cont'.fresh PROVE ActiveGood(cont')
  <2>1. ActiveGood(cont) /\ SameSettings(cont.config, f)
    BY <1>6 DEF ModInv, ChangesSettings
  <2> QED
    BY <1>2, <2>1 DEF ActiveGood, SameSettings, IsEnabled, IsDisabled
<1> QED
  BY <1>2, <1>3, <1>5, <1>6 DEF ModInv, ChangesSettings

LEMMA SettingsTidy ==
    ASSUME ModInv, TidyInv, NEW f, ChangesSettings(f)
    PROVE  TidyInv'
<1>1. /\ cont'.open = TRUE /\ cont'.config = f /\ cont'.parser = cont.parser
  BY DEF ChangesSettings, WithConfig
<1>2. DOMAIN f = DOMAIN cont.config
  BY DEF ChangesSettings
<1> QED
  BY <1>1, <1>2 DEF TidyInv, ChangesSettings

\* Streams of packages are streams of settings, and never empty.
LEMMA StreamNames ==
    \A s \in AllStreams : s # "" /\ s \in AnyStream
BY DnfModulesAssumption DEF AllStreams, AllModPackages, AnyStream

LEMMA EnableChanges ==
    ASSUME ModInv, NEW n \in ModNames, NEW s \in AllStreams, Enable(n, s)
    PROVE  \E f : ChangesSettings(f)
<1>1. Container(cont) /\ cont.open /\ n \in DOMAIN cont.config
  BY DEF Enable, ModInv
<1>2. /\ cont.config \in [DOMAIN cont.config -> ConfigRecs]
      /\ cont.config[n] \in ConfigRecs
  BY <1>1, ContainerSettings
<1>3. modGhost \in GhostRecs /\ cont \in ContainerRecs
  BY <1>1 DEF ModInv, Container
<1>4. CASE StreamMayChange(cont, n, s)
  <2> DEFINE x == [stream |-> s, state |-> "ENABLED",
                   profiles |-> IF cont.config[n].stream = s /\ cont.config[n].state = "ENABLED"
                                THEN cont.config[n].profiles ELSE << >>]
             f == [cont.config EXCEPT ![n] = x]
  <2>1. cont' = [cont EXCEPT !.fresh = FALSE, !.config[n] = x] /\ modGhost' = Stepped(modGhost)
    BY <1>4 DEF Enable
  <2>2. x \in ConfigRecs /\ TidyConfig(x)
    BY <1>2, StreamNames, StreamsAndProfiles DEF ConfigRecs, Settings, TidyConfig
  <2> HIDE DEF x
  <2>3. f \in [DOMAIN cont.config -> ConfigRecs]
    BY <1>1, <1>2, <2>2
  <2>4. cont' \in WithConfig(cont, f) /\ cont'.fresh = FALSE
    BY <1>3, <2>1 DEF ContainerRecs, WithConfig
  <2>5. \A k \in DOMAIN cont.config : TidyConfig(cont.config[k]) => TidyConfig(f[k])
    BY <1>1, <2>2
  <2>6. modGhost' \in GhostRecs /\ modGhost'.saved = FALSE /\ modGhost'.lost = modGhost.lost
        /\ modGhost'.thrown = modGhost.thrown
    BY <1>3, <2>1, GhostSteps
  <2> HIDE DEF f
  <2> QED
    BY <1>1, <2>3, <2>4, <2>5, <2>6 DEF ChangesSettings, Enable
<1>5. CASE ~StreamMayChange(cont, n, s)
  <2>1. cont' = cont /\ modGhost' = [Stepped(modGhost) EXCEPT !.thrown = TRUE]
    BY <1>5 DEF Enable, Throws
  <2>2. modGhost' \in GhostRecs /\ modGhost'.saved = FALSE /\ modGhost'.lost = modGhost.lost
        /\ modGhost'.thrown = TRUE
    BY <1>3, <2>1, GhostSteps
  <2>3. cont' \in WithConfig(cont, cont.config)
    BY <1>3, <2>1 DEF ContainerRecs, WithConfig
  <2>4. SameSettings(cont.config, cont.config)
    BY DEF SameSettings
  <2> QED
    BY <1>1, <1>2, <2>1, <2>2, <2>3, <2>4 DEF ChangesSettings, Enable
<1> QED
  BY <1>4, <1>5

LEMMA ClearChanges ==
    ASSUME ModInv, NEW n \in ModNames, NEW state \in {"DISABLED", "UNKNOWN"}, ClearTo(n, state)
    PROVE  \E f : ChangesSettings(f)
<1>1. Container(cont) /\ cont.open /\ n \in DOMAIN cont.config
  BY DEF ClearTo, ModInv
<1>2. /\ cont.config \in [DOMAIN cont.config -> ConfigRecs]
      /\ cont.config[n] \in ConfigRecs
  BY <1>1, ContainerSettings
<1>3. modGhost \in GhostRecs /\ cont \in ContainerRecs
  BY <1>1 DEF ModInv, Container
<1>4. CASE StreamMayChange(cont, n, "")
  <2> DEFINE x == [stream |-> "", profiles |-> << >>, state |-> state]
             f == [cont.config EXCEPT ![n] = x]
  <2>1. cont' = [cont EXCEPT !.fresh = FALSE, !.config[n] = x] /\ modGhost' = Stepped(modGhost)
    BY <1>4 DEF ClearTo
  <2>2. x \in ConfigRecs /\ TidyConfig(x)
    BY StreamsAndProfiles DEF ConfigRecs, Settings, TidyConfig
  <2> HIDE DEF x
  <2>3. f \in [DOMAIN cont.config -> ConfigRecs]
    BY <1>1, <1>2, <2>2
  <2>4. cont' \in WithConfig(cont, f) /\ cont'.fresh = FALSE
    BY <1>3, <2>1 DEF ContainerRecs, WithConfig
  <2>5. \A k \in DOMAIN cont.config : TidyConfig(cont.config[k]) => TidyConfig(f[k])
    BY <1>1, <2>2
  <2>6. modGhost' \in GhostRecs /\ modGhost'.saved = FALSE /\ modGhost'.lost = modGhost.lost
        /\ modGhost'.thrown = modGhost.thrown
    BY <1>3, <2>1, GhostSteps
  <2> HIDE DEF f
  <2> QED
    BY <1>1, <2>3, <2>4, <2>5, <2>6 DEF ChangesSettings, ClearTo
<1>5. CASE ~StreamMayChange(cont, n, "")
  <2> DEFINE f == [cont.config EXCEPT ![n].state = state]
  <2>1. cont' = [cont EXCEPT !.fresh = FALSE, !.config[n].state = state]
        /\ modGhost' = [Stepped(modGhost) EXCEPT !.thrown = TRUE]
    BY <1>5 DEF ClearTo, Throws
  <2>2. [cont.config[n] EXCEPT !.state = state] \in ConfigRecs
    BY <1>2 DEF ConfigRecs, Settings
  <2>3. f \in [DOMAIN cont.config -> ConfigRecs]
    BY <1>1, <1>2, <2>2
  <2>4. cont' \in WithConfig(cont, f) /\ cont'.fresh = FALSE
    BY <1>3, <2>1 DEF ContainerRecs, WithConfig
  <2>5. modGhost' \in GhostRecs /\ modGhost'.saved = FALSE /\ modGhost'.lost = modGhost.lost
        /\ modGhost'.thrown = TRUE
    BY <1>3, <2>1, GhostSteps
  <2> HIDE DEF f
  <2> QED
    BY <1>1, <2>3, <2>4, <2>5 DEF ChangesSettings, ClearTo
<1> QED
  BY <1>4, <1>5

LEMMA ProfileChanges ==
    ASSUME ModInv, NEW m, NEW p \in ModProfiles,
           InstallProfile(m, p) \/ UninstallProfile(m, p)
    PROVE  \E f : ChangesSettings(f)
<1>1. Container(cont) /\ cont.open /\ m \in cont.modules
  BY DEF InstallProfile, UninstallProfile, ModInv
<1>2. m.name \in DOMAIN cont.config
  BY <1>1 DEF Container
<1>3. /\ cont.config \in [DOMAIN cont.config -> ConfigRecs]
      /\ cont.config[m.name] \in ConfigRecs
  BY <1>1, <1>2, ContainerSettings
<1>4. modGhost \in GhostRecs /\ cont \in ContainerRecs
  BY <1>1 DEF ModInv, Container
<1>5. PICK P \in Seq(AnyProfile) : cont' = [cont EXCEPT !.config[m.name].profiles = P]
  <2>1. cont.config[m.name].profiles \in Seq(AnyProfile)
    BY <1>3 DEF ConfigRecs, Settings
  <2>2. /\ AddProfile(cont.config[m.name].profiles, p) \in Seq(AnyProfile)
        /\ p \in Range(cont.config[m.name].profiles) =>
             RemoveProfile(cont.config[m.name].profiles, p) \in Seq(AnyProfile)
    BY <2>1, StreamsAndProfiles, ProfileLists
  <2>3. CASE InstallProfile(m, p)
    BY <2>2, <2>3 DEF InstallProfile
  <2>4. CASE UninstallProfile(m, p)
    BY <2>2, <2>4 DEF UninstallProfile
  <2> QED
    BY <2>3, <2>4
<1> DEFINE x == [cont.config[m.name] EXCEPT !.profiles = P]
           f == [cont.config EXCEPT ![m.name].profiles = P]
<1>6. x \in ConfigRecs /\ x.stream = cont.config[m.name].stream /\ x.state = cont.config[m.name].state
  BY <1>3 DEF ConfigRecs, Settings
<1>7. f = [cont.config EXCEPT ![m.name] = x]
  OBVIOUS
<1>8. cont' \in WithConfig(cont, f) /\ cont'.fresh = cont.fresh
  BY <1>4, <1>5 DEF ContainerRecs, WithConfig
<1>9. modGhost' \in GhostRecs /\ modGhost'.saved = FALSE /\ modGhost'.lost = modGhost.lost
      /\ modGhost'.thrown = modGhost.thrown
  BY <1>4, GhostSteps DEF InstallProfile, UninstallProfile
<1> HIDE DEF x
<1>10. f \in [DOMAIN cont.config -> ConfigRecs]
  BY <1>2, <1>3, <1>6, <1>7
<1>11. /\ SameSettings(cont.config, f)
       /\ \A k \in DOMAIN cont.config : TidyConfig(cont.config[k]) => TidyConfig(f[k])
  BY <1>2, <1>3, <1>6, <1>7 DEF SameSettings, TidyConfig
<1> HIDE DEF f
<1> QED
  BY <1>1, <1>8, <1>9, <1>10, <1>11 DEF ChangesSettings, InstallProfile, UninstallProfile

LEMMA EnableAllChanges ==
    ASSUME ModInv, NEW tree \in SUBSET cont.modules, EnableAll(tree)
    PROVE  \E f : ChangesSettings(f)
<1> DEFINE refused == {k \in tree : ~StreamMayChange(cont, k.name, k.stream)}
           enabledBy(S) == [n \in DOMAIN cont.config |->
             IF \E k \in S : k.name = n /\ ~IsEnabled(cont, n, k.stream)
             THEN [stream |-> (CHOOSE k \in S : k.name = n).stream,
                   state |-> "ENABLED", profiles |-> << >>]
             ELSE cont.config[n]]
<1>1. Container(cont) /\ cont.open
  BY DEF EnableAll, ModInv
<1>2. cont.config \in [DOMAIN cont.config -> ConfigRecs]
  BY <1>1, ContainerSettings
<1>3. modGhost \in GhostRecs /\ cont \in ContainerRecs
  BY <1>1 DEF ModInv, Container
<1>4. PICK S \in SUBSET (tree \ refused) :
        /\ cont' = [cont EXCEPT !.fresh = FALSE, !.config = enabledBy(S)]
        /\ modGhost' = [Stepped(modGhost) EXCEPT !.thrown = @ \/ refused # {}]
  BY DEF EnableAll
<1> DEFINE f == enabledBy(S)
<1>5. ASSUME NEW n \in DOMAIN cont.config
      PROVE  f[n] \in ConfigRecs /\ (TidyConfig(cont.config[n]) => TidyConfig(f[n]))
  <2> DEFINE on == \E k \in S : k.name = n /\ ~IsEnabled(cont, n, k.stream)
             one == CHOOSE k \in S : k.name = n
             x == [stream |-> one.stream, state |-> "ENABLED", profiles |-> << >>]
  <2>1. f[n] = IF on THEN x ELSE cont.config[n]
    OBVIOUS
  <2>2. ASSUME on PROVE x \in ConfigRecs /\ TidyConfig(x)
    <3>1. \E k \in S : k.name = n
      BY <2>2
    <3>2. one \in S
      BY <3>1
    <3> HIDE DEF one
    <3>3. one.stream \in AllStreams
      BY <1>3, <3>2 DEF ContainerRecs, ModuleRecs
    <3>4. one.stream # "" /\ one.stream \in AnyStream
      BY <3>3, StreamNames
    <3>5. << >> \in Seq(AnyProfile)
      BY StreamsAndProfiles
    <3> QED
      BY <3>4, <3>5 DEF ConfigRecs, Settings, TidyConfig
  <2> HIDE DEF on, x, enabledBy
  <2>3. CASE on
    BY <2>1, <2>2, <2>3
  <2>4. CASE ~on
    BY <1>2, <2>1, <2>4
  <2> QED
    BY <2>3, <2>4
<1>6. f \in [DOMAIN cont.config -> ConfigRecs]
  BY <1>5
<1> HIDE DEF enabledBy
<1>7. cont' \in WithConfig(cont, f) /\ cont'.fresh = FALSE
  BY <1>3, <1>4 DEF ContainerRecs, WithConfig
<1>8. /\ modGhost' \in GhostRecs /\ modGhost'.saved = FALSE /\ modGhost'.lost = modGhost.lost
      /\ modGhost.thrown => modGhost'.thrown
  <2> DEFINE b == Stepped(modGhost).thrown \/ refused # {}
  <2>1. modGhost' = [Stepped(modGhost) EXCEPT !.thrown = b]
    BY <1>4
  <2>2. b \in BOOLEAN /\ (modGhost.thrown => b)
    BY <1>3, GhostSteps
  <2> HIDE DEF b, refused
  <2> QED
    BY <1>3, <2>1, <2>2, GhostSteps
<1> HIDE DEF f, refused
<1> QED
  BY <1>1, <1>5, <1>6, <1>7, <1>8 DEF ChangesSettings, EnableAll

LEMMA TreeChanges ==
    ASSUME ModInv,
           (\E m : EnableDependencyTree(m)) \/ (\E rpms : DepsolveEnables(rpms))
    PROVE  \E f : ChangesSettings(f)
<1>1. CASE \E m : EnableDependencyTree(m)
  <2>1. PICK m : EnableDependencyTree(m)
    BY <1>1
  <2>2. Container(cont) /\ EnableAll(DependencyTree(cont.active, {m}))
    BY <2>1 DEF EnableDependencyTree, ModInv
  <2>3. DependencyTree(cont.active, {m}) \in SUBSET cont.modules
    BY <2>2 DEF DependencyTree, Container
  <2> QED
    BY <2>2, <2>3, EnableAllChanges
<1>2. CASE \E rpms : DepsolveEnables(rpms)
  <2>1. PICK rpms : DepsolveEnables(rpms)
    BY <1>2
  <2> DEFINE left == rpms \ ModuleExcludes(cont)
  <2>2. EnableAll(RequiresModuleEnablement(cont, left))
    BY <2>1 DEF DepsolveEnables
  <2>3. RequiresModuleEnablement(cont, left) \in SUBSET cont.modules
    BY DEF RequiresModuleEnablement
  <2> QED
    BY <2>2, <2>3, EnableAllChanges
<1> QED
  BY <1>1, <1>2

\* Settings that were tidy stay so through the files.
LEMMA TidyConversions ==
    /\ \A p \in ParserRecs : TidyParser(p) => TidyConfig(FromParser(p))
    /\ \A c \in ConfigRecs : TidyConfig(c) => TidyParser(Updated(c))
<1>1. \A s : FromString(s) = "ENABLED" <=> s \in EnabledTexts
  BY DEF FromString, EnabledTexts, DisabledTexts
<1>2. \A s : StateText(s) \in EnabledTexts <=> s = "ENABLED"
  BY DEF StateText, EnabledTexts
<1>3. ASSUME NEW p \in ParserRecs, TidyParser(p) PROVE TidyConfig(FromParser(p))
  <2>1. FromParser(p).stream = p.stream /\ FromParser(p).state = FromString(p.state)
    BY Conversions
  <2> QED
    BY <1>1, <1>3, <2>1 DEF TidyParser, TidyConfig
<1>4. ASSUME NEW c \in ConfigRecs, TidyConfig(c) PROVE TidyParser(Updated(c))
  <2>1. Updated(c).stream = c.stream /\ Updated(c).state = StateText(c.state)
    BY Conversions
  <2> QED
    BY <1>2, <1>4, <2>1 DEF TidyParser, TidyConfig
<1> QED
  BY <1>3, <1>4

LEMMA RollbackChanges ==
    ASSUME ModInv, Rollback
    PROVE  \E f : ChangesSettings(f)
<1>1. Container(cont) /\ cont.open
  BY DEF Rollback, ModInv
<1>2. cont.parser \in [DOMAIN cont.config -> ParserRecs]
  BY <1>1, ContainerSettings
<1>3. modGhost \in GhostRecs /\ cont \in ContainerRecs
  BY <1>1 DEF ModInv, Container
<1> DEFINE f == [n \in DOMAIN cont.config |-> FromParser(cont.parser[n])]
<1>4. f \in [DOMAIN cont.config -> ConfigRecs]
  BY <1>2, Conversions
<1>5. \A n \in DOMAIN cont.config : TidyParser(cont.parser[n]) => TidyConfig(f[n])
  BY <1>2, TidyConversions
<1>6. cont' = [cont EXCEPT !.fresh = FALSE, !.config = f]
  BY DEF Rollback
<1> HIDE DEF f
<1>7. cont' \in WithConfig(cont, f) /\ cont'.fresh = FALSE
  BY <1>3, <1>6 DEF ContainerRecs, WithConfig
<1>8. modGhost' \in GhostRecs /\ modGhost'.saved = FALSE /\ modGhost'.lost = modGhost.lost
      /\ modGhost'.thrown = modGhost.thrown
  BY <1>3, GhostSteps DEF Rollback
<1> QED
  BY <1>1, <1>4, <1>5, <1>7, <1>8 DEF ChangesSettings, Rollback

\* A new container, resolved.
LEMMA NewContainer ==
    ASSUME published \in ModCatalogs, NEW input \in PlatformInputs,
           NEW files \in [ModNames -> FileRecs], NEW yamls \in SUBSET ModuleRecs,
           NEW d \in ResolveActive(OpenContainer(input, files, yamls))
    PROVE  /\ d.open = TRUE /\ Container(d) /\ KnowsFiles(d, files, {}) /\ ActiveGood(d)
           /\ (\A n \in ModNames : TidyParser(ParseConfig(files[n]))) =>
                \A n \in DOMAIN d.config : TidyConfig(d.config[n]) /\ TidyParser(d.parser[n])
<1> DEFINE c == OpenContainer(input, files, yamls)
<1>1. /\ Container(c) /\ KnowsFiles(c, files, {})
      /\ \A n \in DOMAIN c.config : c.config[n] = FromParser(ParseConfig(files[n]))
  BY OpenedContainer
<1> HIDE DEF c
<1>2. /\ Container(d) /\ ActiveGood(d)
      /\ SameSettings(c.config, d.config)
      /\ d.modules = c.modules /\ d.parser = c.parser
  BY <1>1, ResolvedContainer DEF c
<1>3. d.open = TRUE
  BY <1>2 DEF Container, ContainerRecs
<1>4. KnowsFiles(d, files, {})
  BY <1>1, <1>2 DEF KnowsFiles, SameSettings
<1>5. ASSUME \A n \in ModNames : TidyParser(ParseConfig(files[n])), NEW n \in DOMAIN d.config
      PROVE  TidyConfig(d.config[n]) /\ TidyParser(d.parser[n])
  <2>1. n \in DOMAIN c.config /\ n \in ModNames
    BY <1>1, <1>2, ContainerSettings DEF SameSettings
  <2>2. ParseConfig(files[n]) \in ParserRecs
    BY <2>1, Conversions
  <2>3. TidyConfig(c.config[n])
    BY <1>1, <1>5, <2>1, <2>2, TidyConversions
  <2>4. d.parser[n] = ParseConfig(files[n])
    BY <1>1, <1>2, <2>1 DEF KnowsFiles
  <2>5. TidyConfig(d.config[n])
    BY <1>2, <2>1, <2>3 DEF SameSettings, TidyConfig
  <2> QED
    BY <1>5, <2>1, <2>4, <2>5
<1> QED
  BY <1>2, <1>3, <1>4, <1>5

\* The files a save leaves: some are written, one may be torn.
LEMMA WrittenFiles ==
    ASSUME modFiles \in [ModNames -> FileRecs], NEW c, Container(c),
           NEW done \in SUBSET DOMAIN c.config, NEW torn, NEW new, new = FilesAfter(c, done, torn)
    PROVE  /\ new \in [ModNames -> FileRecs]
           /\ \A n \in done : new[n] = Updated(c.config[n])
           /\ \A n \in ModNames \ (done \cup torn) : new[n] = modFiles[n]
           /\ (/\ \A n \in ModNames : TidyParser(ParseConfig(modFiles[n]))
               /\ \A n \in DOMAIN c.config : TidyConfig(c.config[n]))
                => \A n \in ModNames : TidyParser(ParseConfig(new[n]))
<1> DEFINE gone == [InitConfig EXCEPT !.state = "torn"]
<1>1. gone \in FileRecs /\ ParseConfig(gone) = InitConfig /\ TidyParser(InitConfig)
  BY StreamsAndProfiles DEF InitConfig, FileRecs, Settings, ParseConfig, TidyParser, StateTexts, EnabledTexts
<1> HIDE DEF gone
<1>2. \A n \in done : c.config[n] \in ConfigRecs
  BY ContainerSettings
<1>3. \A n \in done : /\ Updated(c.config[n]) \in FileRecs
                      /\ ParseConfig(Updated(c.config[n])) = Updated(c.config[n])
                      /\ TidyConfig(c.config[n]) => TidyParser(Updated(c.config[n]))
  BY <1>2, Conversions, TidyConversions
<1>4. \A n \in ModNames : new[n] = IF n \in done THEN Updated(c.config[n])
                                   ELSE IF n \in torn THEN gone ELSE modFiles[n]
  BY DEF gone, FilesAfter
<1>5. new = [n \in ModNames |-> new[n]] /\ done \subseteq ModNames
  BY ContainerSettings DEF FilesAfter
<1>6. \A n \in ModNames : new[n] \in FileRecs
  BY <1>1, <1>3, <1>4
<1>7. ASSUME \A n \in ModNames : TidyParser(ParseConfig(modFiles[n])),
             \A n \in DOMAIN c.config : TidyConfig(c.config[n]), NEW n \in ModNames
      PROVE  TidyParser(ParseConfig(new[n]))
  <2>1. CASE n \in done
    BY <1>3, <1>4, <1>7, <2>1
  <2>2. CASE n \notin done /\ n \in torn
    BY <1>1, <1>4, <2>2
  <2>3. CASE n \notin done /\ n \notin torn
    BY <1>4, <1>7, <2>3
  <2> QED
    BY <2>1, <2>2, <2>3
<1> QED
  BY <1>4, <1>5, <1>6, <1>7

\* save(), whether it finishes or not.
LEMMA SaveKept ==
    ASSUME ModInv, cont.open, NEW done \in SUBSET ToWrite(cont), NEW failing \in SUBSET ToWrite(cont),
           NEW torn \in SUBSET failing, failing \cap done = {}, WriteModules(done, failing, torn),
           modGhost' \in GhostRecs, modGhost'.lost = (modGhost.lost \ done) \cup failing,
           modGhost'.saved => done = ToWrite(cont),
           failSafe' = failSafe, published' = published
    PROVE  /\ ModInv'
           /\ TidyInv /\ (modGhost.thrown => modGhost'.thrown) => TidyInv'
<1> DEFINE p == [n \in DOMAIN cont.parser |->
                   IF n \in done \cup failing THEN Updated(cont.config[n]) ELSE cont.parser[n]]
<1>1. /\ Container(cont) /\ KnowsFiles(cont, modFiles, modGhost.lost)
      /\ cont.fresh => ActiveGood(cont)
  BY DEF ModInv
<1>2. /\ cont.config \in [DOMAIN cont.config -> ConfigRecs] /\ DOMAIN cont.config \subseteq ModNames
      /\ cont.parser \in [DOMAIN cont.config -> ParserRecs]
  BY <1>1, ContainerSettings
<1>3. cont' = [cont EXCEPT !.parser = p]
  BY DEF WriteModules
<1>4. done \in SUBSET DOMAIN cont.config /\ failing \in SUBSET DOMAIN cont.config
  BY DEF ToWrite
<1>5. /\ p \in [DOMAIN cont.config -> ParserRecs]
      /\ \A n \in DOMAIN cont.config :
           p[n] = IF n \in done \cup failing THEN Updated(cont.config[n]) ELSE cont.parser[n]
  <2>1. DOMAIN cont.parser = DOMAIN cont.config
    BY <1>1 DEF Container
  <2> QED
    BY <1>2, <2>1, Conversions
<1> HIDE DEF p
<1>6. cont' \in [open : {TRUE}, config : {cont.config}, parser : {p}, modules : {cont.modules},
                 active : {cont.active}, solved : {cont.solved}, fresh : BOOLEAN,
                 error : {cont.error}, platform : {cont.platform}]
  BY <1>1, <1>3 DEF Container, ContainerRecs
<1>7. /\ cont'.open = TRUE /\ cont'.config = cont.config /\ cont'.parser = p
      /\ cont'.modules = cont.modules /\ cont'.active = cont.active
      /\ cont'.error = cont.error /\ cont'.fresh = cont.fresh
  BY <1>1, <1>3 DEF Container, ContainerRecs
<1>8. Container(cont')
  BY <1>1, <1>2, <1>5, <1>6, ChangedContainer
<1>9. modFiles \in [ModNames -> FileRecs]
  BY DEF ModInv
<1>10. modFiles' = FilesAfter(cont, done, torn)
  BY DEF WriteModules
<1>11. /\ modFiles' \in [ModNames -> FileRecs]
       /\ \A n \in done : modFiles'[n] = Updated(cont.config[n])
       /\ \A n \in ModNames \ (done \cup torn) : modFiles'[n] = modFiles[n]
       /\ (/\ \A n \in ModNames : TidyParser(ParseConfig(modFiles[n]))
           /\ \A n \in DOMAIN cont.config : TidyConfig(cont.config[n]))
            => \A n \in ModNames : TidyParser(ParseConfig(modFiles'[n]))
  <2> DEFINE new == FilesAfter(cont, done, torn)
  <2>1. /\ new \in [ModNames -> FileRecs]
        /\ \A n \in done : new[n] = Updated(cont.config[n])
        /\ \A n \in ModNames \ (done \cup torn) : new[n] = modFiles[n]
        /\ (/\ \A n \in ModNames : TidyParser(ParseConfig(modFiles[n]))
            /\ \A n \in DOMAIN cont.config : TidyConfig(cont.config[n]))
             => \A n \in ModNames : TidyParser(ParseConfig(new[n]))
    BY <1>1, <1>4, <1>9, WrittenFiles
  <2> HIDE DEF new
  <2> QED
    BY <1>10, <2>1, Zenon DEF new
<1>12. KnowsFiles(cont', modFiles', modGhost'.lost)
  <2>1. ASSUME NEW n \in ModNames \ DOMAIN cont.config PROVE modFiles'[n].state = "none"
    <3>1. modFiles'[n] = modFiles[n]
      BY <1>4, <1>11
    <3> QED
      BY <1>1, <3>1 DEF KnowsFiles
  <2>2. ASSUME NEW n \in DOMAIN cont.config \ modGhost'.lost PROVE p[n] = ParseConfig(modFiles'[n])
    <3>1. n \notin failing /\ n \in ModNames
      BY <1>2
    <3>2. CASE n \in done
      <4>1. modFiles'[n] = Updated(cont.config[n]) /\ p[n] = Updated(cont.config[n])
        BY <1>5, <1>11, <3>1, <3>2
      <4>2. ParseConfig(Updated(cont.config[n])) = Updated(cont.config[n])
        BY <1>2, Conversions
      <4> QED
        BY <4>1, <4>2
    <3>3. CASE n \notin done
      <4>1. modFiles'[n] = modFiles[n] /\ p[n] = cont.parser[n] /\ n \notin modGhost.lost
        BY <1>5, <1>11, <3>1, <3>3
      <4> QED
        BY <1>1, <4>1 DEF KnowsFiles
    <3> QED
      BY <3>2, <3>3
  <2> QED
    BY <1>7, <2>1, <2>2 DEF KnowsFiles
<1>13. ASSUME modGhost'.saved PROVE Settled(cont')
  <2>1. \A n \in DOMAIN cont.config : p[n] = Updated(cont.config[n])
    BY <1>5, <1>13 DEF ToWrite
  <2> QED
    BY <1>7, <2>1 DEF Settled, Agree
<1>14. ASSUME cont'.fresh PROVE ActiveGood(cont')
  BY <1>1, <1>7, <1>14 DEF ActiveGood, IsEnabled, IsDisabled
<1>15. ModInv'
  BY <1>7, <1>8, <1>11, <1>12, <1>13, <1>14 DEF ModInv
<1>16. ASSUME TidyInv, modGhost.thrown => modGhost'.thrown PROVE TidyInv'
  <2> SUFFICES ASSUME ~modGhost'.thrown
               PROVE  /\ \A n \in ModNames : TidyParser(ParseConfig(modFiles'[n]))
                      /\ \A n \in DOMAIN cont.config : TidyConfig(cont.config[n]) /\ TidyParser(p[n])
    BY <1>7 DEF TidyInv
  <2>1. /\ \A n \in ModNames : TidyParser(ParseConfig(modFiles[n]))
        /\ \A n \in DOMAIN cont.config : TidyConfig(cont.config[n]) /\ TidyParser(cont.parser[n])
    BY <1>16 DEF TidyInv
  <2>2. \A n \in DOMAIN cont.config : TidyParser(Updated(cont.config[n]))
    BY <1>2, <2>1, TidyConversions
  <2> QED
    BY <1>5, <1>11, <2>1, <2>2
<1> QED
  BY <1>15, <1>16

LEMMA FilterKept ==
    ASSUME ModInv, FilterModules
    PROVE  ModInv' /\ (TidyInv => TidyInv')
<1>1. PICK input \in PlatformInputs : cont' \in ResolveActive(OpenContainer(input, modFiles, failSafe))
  BY DEF FilterModules
<1>2. /\ modFiles \in [ModNames -> FileRecs] /\ failSafe \in SUBSET ModuleRecs
      /\ published \in ModCatalogs /\ modGhost \in GhostRecs
  BY DEF ModInv
<1>3. /\ cont'.open = TRUE /\ Container(cont') /\ KnowsFiles(cont', modFiles, {}) /\ ActiveGood(cont')
      /\ (\A n \in ModNames : TidyParser(ParseConfig(modFiles[n]))) =>
           \A n \in DOMAIN cont'.config : TidyConfig(cont'.config[n]) /\ TidyParser(cont'.parser[n])
  BY <1>1, <1>2, NewContainer
<1>4. /\ modGhost' \in GhostRecs /\ modGhost'.saved = FALSE /\ modGhost'.lost = {}
      /\ modGhost'.thrown = modGhost.thrown
  BY <1>2, GhostSteps DEF FilterModules
<1>5. modFiles' = modFiles /\ failSafe' = failSafe /\ published' = published
  BY DEF FilterModules
<1>6. ModInv'
  BY <1>2, <1>3, <1>4, <1>5 DEF ModInv
<1>7. TidyInv => TidyInv'
  BY <1>3, <1>4, <1>5 DEF TidyInv
<1> QED
  BY <1>6, <1>7

LEMMA ResolveKept ==
    ASSUME ModInv, Resolve
    PROVE  ModInv' /\ (TidyInv => TidyInv')
<1>1. /\ cont' \in ResolveActive(cont) /\ cont.open /\ modGhost' = modGhost
      /\ modFiles' = modFiles /\ failSafe' = failSafe /\ published' = published
  BY DEF Resolve
<1>2. Container(cont) /\ KnowsFiles(cont, modFiles, modGhost.lost) /\ (modGhost.saved => Settled(cont))
  BY <1>1 DEF ModInv
<1>3. /\ Container(cont') /\ ActiveGood(cont')
      /\ SameSettings(cont.config, cont'.config)
      /\ \A n \in DOMAIN cont.config : Updated(cont'.config[n]) = Updated(cont.config[n])
      /\ cont'.modules = cont.modules /\ cont'.parser = cont.parser
  BY <1>1, <1>2, ResolvedContainer
<1>4. cont'.open = TRUE
  BY <1>3 DEF Container, ContainerRecs
<1>5. KnowsFiles(cont', modFiles', modGhost'.lost)
  BY <1>1, <1>2, <1>3 DEF KnowsFiles, SameSettings
<1>6. modGhost'.saved => Settled(cont')
  BY <1>1, <1>2, <1>3 DEF Settled, SameSettings
<1>7. ModInv'
  BY <1>1, <1>3, <1>4, <1>5, <1>6 DEF ModInv
<1>8. TidyInv => TidyInv'
  BY <1>1, <1>3 DEF TidyInv, SameSettings, TidyConfig
<1> QED
  BY <1>7, <1>8

\* A question sorts the profiles: the settings stay the same for a reader.
LEMMA ReportKept ==
    ASSUME ModInv, Report
    PROVE  ModInv' /\ (TidyInv => TidyInv')
<1> DEFINE f == [n \in DOMAIN cont.config |->
                  [cont.config[n] EXCEPT !.profiles = Sorted(cont.config[n].profiles)]]
<1>1. /\ cont.open /\ cont' = [cont EXCEPT !.config = f]
      /\ modGhost' = [modGhost EXCEPT !.steps = modGhost.steps + 1]
      /\ modFiles' = modFiles /\ failSafe' = failSafe /\ published' = published
  BY DEF Report
<1>2. /\ Container(cont) /\ KnowsFiles(cont, modFiles, modGhost.lost)
      /\ modGhost.saved => Settled(cont)
      /\ cont.fresh => ActiveGood(cont)
  BY <1>1 DEF ModInv
<1>3. ASSUME NEW n \in DOMAIN cont.config
      PROVE  /\ f[n] \in ConfigRecs /\ f[n].stream = cont.config[n].stream
             /\ f[n].state = cont.config[n].state
             /\ Range(f[n].profiles) = Range(cont.config[n].profiles)
  <2>1. cont.config[n] \in ConfigRecs
    BY <1>2, ContainerSettings
  <2> DEFINE s == Sorted(cont.config[n].profiles)
  <2>2. cont.config[n].profiles \in Seq(AnyProfile)
    BY <2>1 DEF ConfigRecs, Settings
  <2>3. s \in Seq(AnyProfile) /\ Range(s) = Range(cont.config[n].profiles)
    BY <2>2, ProfileLists
  <2>4. f[n] = [cont.config[n] EXCEPT !.profiles = s]
    OBVIOUS
  <2> HIDE DEF s, f
  <2>5. f[n] \in ConfigRecs /\ f[n].stream = cont.config[n].stream
        /\ f[n].state = cont.config[n].state /\ f[n].profiles = s
    BY <2>1, <2>3, <2>4 DEF ConfigRecs, Settings
  <2> QED
    BY <2>3, <2>5
<1>4. f \in [DOMAIN cont.config -> ConfigRecs] /\ DOMAIN f = DOMAIN cont.config
  BY <1>3
<1> HIDE DEF f
<1>5. /\ cont' \in WithConfig(cont, f) /\ cont'.open = TRUE /\ cont'.config = f
      /\ cont'.parser = cont.parser /\ cont'.modules = cont.modules /\ cont'.active = cont.active
      /\ cont'.error = cont.error /\ cont'.fresh = cont.fresh
  BY <1>1, <1>2 DEF Container, ContainerRecs, WithConfig
<1>6. Container(cont')
  BY <1>2, <1>4, <1>5, ConfigContainer
<1>7. /\ modGhost' \in GhostRecs /\ modGhost'.saved = modGhost.saved
      /\ modGhost'.lost = modGhost.lost /\ modGhost'.thrown = modGhost.thrown
  <2> DEFINE up == modGhost.steps + 1
  <2>1. modGhost \in GhostRecs
    BY DEF ModInv
  <2>2. up \in Nat
    BY <2>1 DEF GhostRecs
  <2>3. modGhost' = [modGhost EXCEPT !.steps = up]
    BY <1>1
  <2> HIDE DEF up
  <2> QED
    BY <2>1, <2>2, <2>3 DEF GhostRecs
<1>8. KnowsFiles(cont', modFiles', modGhost'.lost)
  BY <1>1, <1>2, <1>4, <1>5, <1>7 DEF KnowsFiles
<1>9. ASSUME modGhost'.saved PROVE Settled(cont')
  <2> SUFFICES ASSUME NEW n \in DOMAIN cont.config PROVE Agree(Updated(f[n]), cont.parser[n])
    BY <1>4, <1>5 DEF Settled
  <2> DEFINE c == cont.config[n]
  <2>1. Agree(Updated(c), cont.parser[n])
    BY <1>2, <1>7, <1>9 DEF Settled
  <2>2. c \in ConfigRecs /\ f[n] \in ConfigRecs
    BY <1>2, <1>3, ContainerSettings
  <2>3. f[n].stream = c.stream /\ f[n].state = c.state /\ Range(f[n].profiles) = Range(c.profiles)
    BY <1>3
  <2> HIDE DEF c
  <2>4. /\ Updated(c).stream = c.stream /\ Updated(c).profiles = c.profiles
        /\ Updated(c).state = StateText(c.state)
        /\ Updated(f[n]).stream = f[n].stream /\ Updated(f[n]).profiles = f[n].profiles
        /\ Updated(f[n]).state = StateText(f[n].state)
    BY <2>2, Conversions
  <2> QED
    BY <2>1, <2>3, <2>4 DEF Agree
<1>10. ASSUME cont'.fresh PROVE ActiveGood(cont')
  <2>1. ActiveGood(cont) /\ SameSettings(cont.config, f)
    BY <1>2, <1>3, <1>4, <1>5, <1>10 DEF SameSettings
  <2> QED
    BY <1>5, <2>1 DEF ActiveGood, SameSettings, IsEnabled, IsDisabled
<1>11. ModInv'
  BY <1>1, <1>5, <1>6, <1>7, <1>8, <1>9, <1>10 DEF ModInv
<1>12. ASSUME TidyInv PROVE TidyInv'
  <2>1. ASSUME NEW n \in DOMAIN f, TidyConfig(cont.config[n]) PROVE TidyConfig(f[n])
    BY <1>3, <1>4, <2>1 DEF TidyConfig
  <2> QED
    BY <1>1, <1>4, <1>5, <1>7, <1>12, <2>1 DEF TidyInv
<1> QED
  BY <1>11, <1>12

LEMMA SavesKept ==
    ASSUME ModInv, Save \/ SaveFails
    PROVE  ModInv' /\ (TidyInv => TidyInv')
<1>0. modGhost \in GhostRecs /\ cont.open /\ failSafe' = failSafe /\ published' = published
  BY DEF ModInv, Save, SaveFails
<1>1. CASE Save
  <2>1. WriteModules(ToWrite(cont), {}, {})
        /\ modGhost' = [modGhost EXCEPT !.saved = TRUE, !.lost = modGhost.lost \ ToWrite(cont)]
    BY <1>1 DEF Save
  <2>2. /\ modGhost' \in GhostRecs /\ modGhost'.lost = (modGhost.lost \ ToWrite(cont)) \cup {}
        /\ modGhost'.thrown = modGhost.thrown
    BY <1>0, <2>1 DEF GhostRecs
  <2> QED
    BY <1>0, <2>1, <2>2, SaveKept
<1>2. CASE SaveFails
  <2>0. PICK f \in ToWrite(cont) : \E done \in SUBSET (ToWrite(cont) \ {f}), torn \in SUBSET {f} :
          /\ WriteModules(done, {f}, torn)
          /\ modGhost' = [modGhost EXCEPT !.thrown = TRUE, !.lost = (modGhost.lost \ done) \cup {f},
                                          !.saved = FALSE]
    BY <1>2 DEF SaveFails
  <2>1. PICK done \in SUBSET (ToWrite(cont) \ {f}), torn \in SUBSET {f} :
          /\ WriteModules(done, {f}, torn)
          /\ modGhost' = [modGhost EXCEPT !.thrown = TRUE, !.lost = (modGhost.lost \ done) \cup {f},
                                          !.saved = FALSE]
    BY <2>0
  <2>2. Container(cont)
    BY <1>0 DEF ModInv
  <2>3. f \in ModNames
    BY <2>2, ContainerSettings DEF ToWrite
  <2>4. /\ modGhost' \in GhostRecs /\ modGhost'.lost = (modGhost.lost \ done) \cup {f}
        /\ modGhost'.thrown = TRUE /\ modGhost'.saved = FALSE
    BY <1>0, <2>1, <2>3 DEF GhostRecs
  <2>5. done \in SUBSET ToWrite(cont) /\ {f} \in SUBSET ToWrite(cont) /\ {f} \cap done = {}
    OBVIOUS
  <2>6. ModInv'
    BY <1>0, <2>1, <2>4, <2>5, SaveKept
  <2> QED
    BY <2>4, <2>6 DEF TidyInv
<1> QED
  BY <1>1, <1>2

LEMMA FailSafeStepKept ==
    ASSUME ModInv, UpdateFailSafe
    PROVE  ModInv' /\ (TidyInv => TidyInv')
<1>1. /\ cont.open /\ failSafe' \in FailSafeAfter(cont) /\ modGhost' = modGhost
      /\ modFiles' = modFiles /\ cont' = cont /\ published' = published
  BY DEF UpdateFailSafe
<1>2. Container(cont) /\ failSafe \subseteq ModuleRecs
  BY <1>1 DEF ModInv
<1>3. failSafe' \subseteq ModuleRecs
  BY <1>1, <1>2, FailSafeKept
<1> QED
  BY <1>1, <1>3 DEF ModInv, TidyInv

\* The settings after the reset of dnf_context_reset_modules.
LEMMA AfterReset ==
    ASSUME ModInv, cont.open, NEW n \in DOMAIN cont.config,
           NEW after, after = [cont EXCEPT !.config[n] = FromParser(InitConfig)]
    PROVE  /\ Container(after) /\ DOMAIN after.config = DOMAIN cont.config
           /\ after.parser = cont.parser
           /\ (\A k \in DOMAIN cont.config : TidyConfig(cont.config[k])) =>
                \A k \in DOMAIN after.config : TidyConfig(after.config[k])
<1>1. Container(cont)
  BY DEF ModInv
<1>2. /\ cont.config \in [DOMAIN cont.config -> ConfigRecs]
      /\ cont.parser \in [DOMAIN cont.config -> ParserRecs]
  BY <1>1, ContainerSettings
<1> DEFINE x == FromParser(InitConfig)
           f == [cont.config EXCEPT ![n] = x]
<1>3. InitConfig \in ParserRecs /\ TidyParser(InitConfig)
  BY StreamsAndProfiles DEF InitConfig, ParserRecs, Settings, TidyParser, StateTexts, EnabledTexts
<1>4. x \in ConfigRecs /\ TidyConfig(x)
  BY <1>3, Conversions, TidyConversions
<1> HIDE DEF x
<1>5. f \in [DOMAIN cont.config -> ConfigRecs] /\ DOMAIN f = DOMAIN cont.config
  BY <1>2, <1>4
<1>6. after \in WithConfig(cont, f) /\ after.config = f /\ after.parser = cont.parser
  BY <1>1 DEF Container, ContainerRecs, WithConfig, x
<1>7. \A k \in DOMAIN cont.config : TidyConfig(cont.config[k]) => TidyConfig(f[k])
  BY <1>4
<1> HIDE DEF f
<1>8. Container(after)
  BY <1>1, <1>5, <1>6, ConfigContainer
<1> QED
  BY <1>5, <1>6, <1>7, <1>8

LEMMA ContextResetKept ==
    ASSUME ModInv, NEW n \in ModNames, ContextResetModule(n)
    PROVE  ModInv' /\ (TidyInv => TidyInv')
<1> DEFINE after == [cont EXCEPT !.config[n] = FromParser(InitConfig)]
           new == FilesAfter(after, ToWrite(after), {})
<1>1. /\ cont.open /\ n \in DOMAIN cont.config
      /\ modFiles' = new /\ failSafe' \in FailSafeAfter(after)
      /\ published' = published
      /\ modGhost' = [Stepped(modGhost) EXCEPT !.lost = {}]
  BY DEF ContextResetModule
<1>2. PICK input \in PlatformInputs :
        cont' \in ResolveActive(OpenContainer(input, modFiles', failSafe'))
  BY DEF ContextResetModule
<1>3. /\ modFiles \in [ModNames -> FileRecs] /\ failSafe \in SUBSET ModuleRecs
      /\ published \in ModCatalogs /\ modGhost \in GhostRecs
  BY DEF ModInv
<1>4. /\ Container(after) /\ DOMAIN after.config = DOMAIN cont.config
      /\ after.parser = cont.parser
      /\ (\A k \in DOMAIN cont.config : TidyConfig(cont.config[k])) =>
           \A k \in DOMAIN after.config : TidyConfig(after.config[k])
  BY <1>1, AfterReset
<1> HIDE DEF after
<1>5. ToWrite(after) \in SUBSET DOMAIN after.config
  BY DEF ToWrite
<1>6. /\ new \in [ModNames -> FileRecs]
      /\ (/\ \A k \in ModNames : TidyParser(ParseConfig(modFiles[k]))
          /\ \A k \in DOMAIN after.config : TidyConfig(after.config[k]))
           => \A k \in ModNames : TidyParser(ParseConfig(new[k]))
  BY <1>3, <1>4, <1>5, WrittenFiles
<1> HIDE DEF new
<1>7. failSafe' \in SUBSET ModuleRecs
  BY <1>1, <1>3, <1>4, FailSafeKept
<1>8. modFiles' \in [ModNames -> FileRecs]
  BY <1>1, <1>6
<1>9. /\ cont'.open = TRUE /\ Container(cont') /\ KnowsFiles(cont', modFiles', {}) /\ ActiveGood(cont')
      /\ (\A k \in ModNames : TidyParser(ParseConfig(modFiles'[k]))) =>
           \A k \in DOMAIN cont'.config : TidyConfig(cont'.config[k]) /\ TidyParser(cont'.parser[k])
  BY <1>2, <1>3, <1>7, <1>8, NewContainer
<1>10. /\ modGhost' \in GhostRecs /\ modGhost'.saved = FALSE /\ modGhost'.lost = {}
       /\ modGhost'.thrown = modGhost.thrown
  BY <1>1, <1>3, GhostSteps
<1>11. ModInv'
  BY <1>1, <1>3, <1>7, <1>8, <1>9, <1>10 DEF ModInv
<1>12. ASSUME TidyInv, ~modGhost'.thrown
       PROVE  \A k \in ModNames : TidyParser(ParseConfig(modFiles'[k]))
  <2>1. /\ \A k \in ModNames : TidyParser(ParseConfig(modFiles[k]))
        /\ \A k \in DOMAIN cont.config : TidyConfig(cont.config[k])
    BY <1>1, <1>10, <1>12 DEF TidyInv
  <2>2. \A k \in ModNames : TidyParser(ParseConfig(new[k]))
    BY <1>4, <1>6, <2>1
  <2> QED
    BY <1>1, <2>2
<1>13. TidyInv => TidyInv'
  BY <1>9, <1>12 DEF TidyInv
<1> QED
  BY <1>11, <1>13

LEMMA EndsKept ==
    ASSUME ModInv, EndProcess \/ DieSaving \/ Publish
    PROVE  ModInv' /\ (TidyInv => TidyInv')
<1>1. /\ modFiles \in [ModNames -> FileRecs] /\ failSafe \in SUBSET ModuleRecs
      /\ published \in ModCatalogs /\ modGhost \in GhostRecs
  BY DEF ModInv
<1>2. ~NoContainer.open
  BY DEF NoContainer
<1>3. CASE EndProcess
  <2>1. /\ cont' = NoContainer /\ modGhost' = Stepped(modGhost)
        /\ modFiles' = modFiles /\ failSafe' = failSafe /\ published' = published
    BY <1>3 DEF EndProcess
  <2>2. modGhost' \in GhostRecs /\ modGhost'.thrown = modGhost.thrown
    BY <1>1, <2>1, GhostSteps
  <2>3. cont'.open = FALSE
    BY <2>1 DEF NoContainer
  <2> QED
    BY <1>1, <2>1, <2>2, <2>3 DEF ModInv, TidyInv
<1>4. CASE DieSaving
  <2>1. /\ cont' = NoContainer /\ modGhost' = Stepped(modGhost) /\ cont.open
        /\ failSafe' = failSafe /\ published' = published
    BY <1>4 DEF DieSaving
  <2>0. PICK f \in ToWrite(cont) : \E done \in SUBSET (ToWrite(cont) \ {f}), torn \in SUBSET {f} :
          modFiles' = FilesAfter(cont, done, torn)
    BY <1>4 DEF DieSaving
  <2>2. PICK done \in SUBSET (ToWrite(cont) \ {f}), torn \in SUBSET {f} :
          modFiles' = FilesAfter(cont, done, torn)
    BY <2>0
  <2>3. modGhost' \in GhostRecs /\ modGhost'.thrown = modGhost.thrown
    BY <1>1, <2>1, GhostSteps
  <2>4. cont'.open = FALSE
    BY <2>1 DEF NoContainer
  <2>5. Container(cont) /\ done \in SUBSET DOMAIN cont.config
    BY <2>1 DEF ModInv, ToWrite
  <2> DEFINE new == FilesAfter(cont, done, torn)
  <2>6. /\ new \in [ModNames -> FileRecs]
        /\ (/\ \A k \in ModNames : TidyParser(ParseConfig(modFiles[k]))
            /\ \A k \in DOMAIN cont.config : TidyConfig(cont.config[k]))
             => \A k \in ModNames : TidyParser(ParseConfig(new[k]))
    BY <1>1, <2>5, WrittenFiles
  <2>7. modFiles' = new
    BY <2>2
  <2> HIDE DEF new
  <2>8. ModInv'
    BY <1>1, <2>1, <2>3, <2>4, <2>6, <2>7 DEF ModInv
  <2>9. TidyInv => TidyInv'
    BY <2>1, <2>3, <2>4, <2>6, <2>7 DEF TidyInv
  <2> QED
    BY <2>8, <2>9
<1>5. CASE Publish
  <2>1. /\ ~cont.open /\ published' \in ModCatalogs /\ modGhost' = modGhost /\ cont' = cont
        /\ modFiles' = modFiles /\ failSafe' = failSafe
    BY <1>5 DEF Publish
  <2> QED
    BY <1>1, <2>1 DEF ModInv, TidyInv
<1> QED
  BY <1>3, <1>4, <1>5

-----------------------------------------------------------------------------
(* The theorems on modules.                                                *)

\* The settings files found at the first start are ones save() could have written: a
\* module has a stream exactly when it is enabled.
FilesAsSaved ==
    \A files \in ModOldFiles : \A n \in ModNames : TidyParser(ParseConfig(files[n]))

LEMMA ModInvInit ==
    ASSUME ModInit
    PROVE  ModInv /\ (FilesAsSaved => TidyInv)
<1>1. modFiles \in [ModNames -> FileRecs]
  BY StreamsAndProfiles DEF ModInit
<1>2. modGhost \in GhostRecs
  BY DEF ModInit, GhostRecs
<1>3. cont.open = FALSE
  BY DEF ModInit, NoContainer
<1> QED
  BY <1>1, <1>2, <1>3 DEF ModInit, ModInv, TidyInv, FilesAsSaved

LEMMA ModInvStep ==
    ASSUME ModInv, [ModNext]_modVars
    PROVE  ModInv' /\ (TidyInv => TidyInv')
<1>1. ASSUME NEW f, ChangesSettings(f) PROVE ModInv' /\ (TidyInv => TidyInv')
  BY <1>1, SettingsKept, SettingsTidy
<1>2. CASE FilterModules
  BY <1>2, FilterKept
<1>3. CASE Resolve
  BY <1>3, ResolveKept
<1>4. CASE Save \/ SaveFails
  BY <1>4, SavesKept
<1>5. CASE Rollback
  BY <1>1, <1>5, RollbackChanges
<1>6. CASE UpdateFailSafe
  BY <1>6, FailSafeStepKept
<1>7. CASE EndProcess \/ DieSaving \/ Publish
  BY <1>7, EndsKept
<1>8. CASE \E r \in ModRpms : DepsolveEnables({r})
  BY <1>1, <1>8, TreeChanges
<1>9. ASSUME NEW n \in ModNames, Disable(n) \/ Reset(n)
      PROVE  ModInv' /\ (TidyInv => TidyInv')
  BY <1>1, <1>9, ClearChanges DEF Disable, Reset
<1>10. ASSUME NEW n \in ModNames, ContextResetModule(n)
       PROVE  ModInv' /\ (TidyInv => TidyInv')
  BY <1>10, ContextResetKept
<1>11. ASSUME NEW n \in ModNames, NEW s \in AllStreams, Enable(n, s)
       PROVE  ModInv' /\ (TidyInv => TidyInv')
  BY <1>1, <1>11, EnableChanges
<1>12. ASSUME NEW m \in AllModPackages, EnableDependencyTree(m)
       PROVE  ModInv' /\ (TidyInv => TidyInv')
  BY <1>1, <1>12, TreeChanges
<1>13. ASSUME NEW m \in AllModPackages, NEW p \in ModProfiles,
              InstallProfile(m, p) \/ UninstallProfile(m, p)
       PROVE  ModInv' /\ (TidyInv => TidyInv')
  BY <1>1, <1>13, ProfileChanges
<1>14. CASE UNCHANGED modVars
  BY <1>14 DEF modVars, ModInv, TidyInv
<1>15. CASE Report
  BY <1>15, ReportKept
<1> QED
  BY <1>2, <1>3, <1>4, <1>5, <1>6, <1>7, <1>8, <1>9, <1>10, <1>11, <1>12, <1>13, <1>14, <1>15
     DEF ModNext

\* isChanged() said no: the parser's copy tells a reader the state the settings have.
LEMMA UnchangedState ==
    ASSUME NEW c \in ConfigRecs, NEW p \in ParserRecs,
           ~(FromString(p.state) # "ENABLED" /\ c.state = "ENABLED"),
           ~(FromString(p.state) # "DISABLED" /\ c.state = "DISABLED"),
           ~(FromString(p.state) # "UNKNOWN" /\ c.state \in {"UNKNOWN", "DEFAULT"})
    PROVE  /\ StateText(FromString(p.state)) = StateText(c.state)
           /\ p.state \in EnabledTexts <=> c.state = "ENABLED"
<1>1. c.state \in {"ENABLED", "DISABLED", "DEFAULT", "UNKNOWN"}
  BY DEF ConfigRecs, Settings
<1>2. /\ FromString(p.state) \in {"ENABLED", "DISABLED", "UNKNOWN"}
      /\ FromString(p.state) = "ENABLED" <=> p.state \in EnabledTexts
  BY DEF FromString, EnabledTexts, DisabledTexts
<1>3. StateText("DEFAULT") = StateText("UNKNOWN")
  BY DEF StateText
<1> QED
  BY <1>1, <1>2, <1>3

LEMMA SaveIsFaithfulInv ==
    ASSUME ModInv, TidyInv
    PROVE  SaveIsFaithful
<1>1. SavedIsReadBack
  <2> SUFFICES ASSUME cont.open, modGhost.saved, NEW n \in DOMAIN cont.config \ modGhost.lost
               PROVE  SameForReader(FromParser(ParseConfig(modFiles[n])), cont.config[n])
    BY DEF SavedIsReadBack
  <2>1. Container(cont) /\ KnowsFiles(cont, modFiles, modGhost.lost) /\ Settled(cont)
    BY DEF ModInv
  <2>2. cont.config[n] \in ConfigRecs
    BY <2>1, ContainerSettings
  <2>3. /\ ParseConfig(modFiles[n]) \in ParserRecs
        /\ Agree(Updated(cont.config[n]), ParseConfig(modFiles[n]))
    BY <2>1, ContainerSettings DEF KnowsFiles, Settled
  <2> QED
    BY <2>2, <2>3, ReadBack
<1>2. UnchangedLosesNothing
  <2> SUFFICES ASSUME cont.open, ~modGhost.thrown, ~IsChanged(cont), NEW n \in DOMAIN cont.config
               PROVE  SameForReader(FromParser(cont.parser[n]), cont.config[n])
    BY DEF UnchangedLosesNothing
  <2> DEFINE c == cont.config[n]
             p == cont.parser[n]
  <2>1. Container(cont) /\ TidyConfig(c) /\ TidyParser(p)
    BY DEF ModInv, TidyInv
  <2>2. c \in ConfigRecs /\ p \in ParserRecs
    BY <2>1, ContainerSettings
  <2>3. /\ n \notin GetEnabledStreams(cont) /\ n \notin GetDisabledModules(cont)
        /\ n \notin GetResetModules(cont) /\ n \notin GetSwitchedStreams(cont)
        /\ n \notin GetInstalledProfiles(cont) /\ n \notin GetRemovedProfiles(cont)
    BY DEF IsChanged
  <2>4. /\ ~(FromString(p.state) # "ENABLED" /\ c.state = "ENABLED")
        /\ ~(FromString(p.state) # "DISABLED" /\ c.state = "DISABLED")
        /\ ~(FromString(p.state) # "UNKNOWN" /\ c.state \in {"UNKNOWN", "DEFAULT"})
    BY <2>3 DEF GetEnabledStreams, GetDisabledModules, GetResetModules
  <2>5. /\ ~(p.stream # "" /\ c.stream # "" /\ p.stream # c.stream)
        /\ Range(c.profiles) \ Range(p.profiles) = {} /\ Range(p.profiles) \ Range(c.profiles) = {}
    BY <2>3 DEF GetSwitchedStreams, GetInstalledProfiles, GetRemovedProfiles
  <2> HIDE DEF c, p
  <2>6. /\ StateText(FromString(p.state)) = StateText(c.state)
        /\ p.state \in EnabledTexts <=> c.state = "ENABLED"
    BY <2>2, <2>4, UnchangedState
  <2>7. c.stream # "" <=> p.stream # ""
    BY <2>1, <2>6 DEF TidyConfig, TidyParser
  <2>8. c.stream = p.stream
    BY <2>5, <2>7
  <2>9. Range(c.profiles) = Range(p.profiles)
    BY <2>5
  <2>10. SameForReader(FromParser(p), c)
    <3>1. /\ FromParser(p).stream = p.stream /\ FromParser(p).profiles = p.profiles
          /\ FromParser(p).state = FromString(p.state)
      BY <2>2, Conversions
    <3> QED
      BY <2>6, <2>8, <2>9, <3>1 DEF SameForReader
  <2> QED
    BY <2>10 DEF c, p
<1> QED
  BY <1>1, <1>2 DEF SaveIsFaithful

LEMMA ActiveRespectsInv ==
    ASSUME ModInv
    PROVE  ActiveRespectsSettings
<1> SUFFICES ASSUME cont.open, cont.fresh PROVE ActiveRespectsSettings
  BY DEF ActiveRespectsSettings
<1>1. Container(cont) /\ ActiveGood(cont)
  BY DEF ModInv
<1>2. cont.active \subseteq cont.modules /\ (cont.solved \/ cont.active = {})
  BY <1>1 DEF Container
<1>3. \A m \in cont.active :
        /\ ~IsDisabled(cont, m.name)
        /\ \A k \in cont.active : k.name = m.name => k.stream = m.stream
        /\ \A k \in cont.modules : /\ cont.error # "ERROR" /\ k.name = m.name
                                   /\ IsEnabled(cont, k.name, k.stream)
                                  => m.stream = k.stream
  BY <1>1 DEF ActiveGood, ModConflict, SameModule
<1>4. ASSUME NEW r \in ModRpms \ ModuleExcludes(cont), NEW m \in cont.modules,
             r.nevra \in m.artifacts, r.repo \notin {"@System", "@commandline"} \cup HotfixRepos
      PROVE  \E k \in cont.active : r.nevra \in k.artifacts
  <2>1. CASE m \in cont.active
    BY <1>4, <2>1
  <2>2. CASE m \notin cont.active
    <3>1. m \in {k \in cont.modules : ~IsModuleActive(cont, k)}
      BY <2>2 DEF IsModuleActive
    <3>2. r.nevra \in ExcludedNevras(cont)
      BY <1>4, <3>1 DEF ExcludedNevras
    <3>3. r \in ModuleIncludes(cont)
      BY <1>4, <3>2 DEF ModuleExcludes
    <3>4. r.nevra \in IncludedNevras(cont)
      BY <3>3 DEF ModuleIncludes
    <3> QED
      BY <3>4 DEF IncludedNevras, IsModuleActive
  <2> QED
    BY <2>1, <2>2
<1>5. ASSUME NEW n \in DOMAIN cont.config,
             \E m \in cont.active : IsEnabled(cont, n, m.stream) /\ m.name = n,
             NEW m \in ProfileSource(cont, n)
      PROVE  m \in cont.active /\ IsEnabled(cont, n, m.stream)
  <2> DEFINE found == QueryStream(cont, n, cont.config[n].stream)
             active == {k \in found : IsModuleActive(cont, k)}
             from == IF active # {} THEN active ELSE found
  <2>1. PICK k \in cont.active : IsEnabled(cont, n, k.stream) /\ k.name = n
    BY <1>5
  <2>2. k \in active
    BY <1>2, <2>1 DEF QueryStream, IsEnabled, IsModuleActive
  <2>3. m \in from
    BY DEF ProfileSource
  <2>4. m \in active
    <3> HIDE DEF active, found
    <3> QED
      BY <2>2, <2>3
  <2>5. m \in cont.active /\ m.name = n
    BY <2>4 DEF QueryStream, IsModuleActive
  <2>6. m.stream = k.stream
    BY <1>3, <2>1, <2>5
  <2> QED
    BY <2>1, <2>5, <2>6
<1> QED
  BY <1>3, <1>4, <1>5 DEF ActiveRespectsSettings

\* A file that says what settings say that do not enable the stream does not either.
LEMMA NotEnabledOnDisk ==
    ASSUME NEW c, Container(c), NEW n \in DOMAIN c.config, NEW file \in FileRecs, NEW s,
           Agree(Updated(c.config[n]), ParseConfig(file)), ~IsEnabled(c, n, s)
    PROVE  FromString(file.state) # "ENABLED" \/ file.stream # s
<1> SUFFICES ASSUME FromString(file.state) = "ENABLED" PROVE file.stream # s
  OBVIOUS
<1>1. c.config[n] \in ConfigRecs
  BY ContainerSettings
<1>2. ParseConfig(file) = file /\ file.state \in EnabledTexts
  BY DEF ParseConfig, FromString, EnabledTexts, DisabledTexts
<1>3. file.state = StateText(c.config[n].state) /\ file.stream = c.config[n].stream
  <2> DEFINE x == c.config[n]
  <2>1. x \in ConfigRecs /\ Agree(Updated(x), file)
    BY <1>1, <1>2
  <2> HIDE DEF x
  <2>2. Updated(x).stream = x.stream /\ Updated(x).state = StateText(x.state)
    BY <2>1, Conversions
  <2>3. file.state = StateText(x.state) /\ file.stream = x.stream
    BY <2>1, <2>2 DEF Agree
  <2> QED
    BY <2>3 DEF x
<1>4. c.config[n].state = "ENABLED"
  BY <1>2, <1>3 DEF StateText, EnabledTexts
<1> QED
  BY <1>3, <1>4 DEF IsEnabled

LEMMA NoneIsOff == FromString("none") # "ENABLED"
BY DEF FromString, EnabledTexts, DisabledTexts

LEMMA FailSafeStep ==
    ASSUME ModInv, [ModNext]_modVars
    PROVE  \A y \in failSafe :
             \/ \E k \in failSafe' :
                  SameFile(y, k) /\ (k.repo # TornYaml \/ y.repo = TornYaml \/ k # Torn(y))
             \/ FromString(modFiles'[y.name].state) # "ENABLED" \/ modFiles'[y.name].stream # y.stream
             \/ y.name \in modGhost.lost
<1>1. CASE failSafe' = failSafe
  BY <1>1 DEF SameFile
<1>2. CASE UpdateFailSafe
  <2> SUFFICES ASSUME NEW y \in failSafe, ~IsEnabled(cont, y.name, y.stream),
                      y.name \notin modGhost.lost
               PROVE  FromString(modFiles[y.name].state) # "ENABLED" \/ modFiles[y.name].stream # y.stream
    <3>1. /\ cont.open /\ failSafe' \in FailSafeAfter(cont) /\ modFiles' = modFiles
      BY <1>2 DEF UpdateFailSafe
    <3>2. Container(cont) /\ failSafe \subseteq ModuleRecs
      BY <3>1 DEF ModInv
    <3>3. \A y \in failSafe :
            \/ \E k \in failSafe' :
                 SameFile(y, k) /\ (k.repo # TornYaml \/ y.repo = TornYaml \/ k # Torn(y))
            \/ ~IsEnabled(cont, y.name, y.stream)
      BY <3>1, <3>2, FailSafeKept
    <3> QED
      BY <3>1, <3>3
  <2>1. /\ Container(cont) /\ KnowsFiles(cont, modFiles, modGhost.lost) /\ Settled(cont)
    BY <1>2 DEF ModInv, UpdateFailSafe
  <2>2. y.name \in ModNames /\ modFiles \in [ModNames -> FileRecs]
    BY DEF ModInv, ModuleRecs
  <2>3. CASE y.name \notin DOMAIN cont.config
    BY <2>1, <2>2, <2>3, NoneIsOff DEF KnowsFiles
  <2>4. CASE y.name \in DOMAIN cont.config
    <3>1. Agree(Updated(cont.config[y.name]), ParseConfig(modFiles[y.name]))
      BY <2>1, <2>4 DEF KnowsFiles, Settled
    <3>2. modFiles[y.name] \in FileRecs
      BY <2>2
    <3> QED
      BY <2>1, <2>4, <3>1, <3>2, NotEnabledOnDisk
  <2> QED
    BY <2>3, <2>4
<1>3. ASSUME NEW n \in ModNames, ContextResetModule(n)
      PROVE  \A y \in failSafe :
               \/ \E k \in failSafe' :
                    SameFile(y, k) /\ (k.repo # TornYaml \/ y.repo = TornYaml \/ k # Torn(y))
               \/ FromString(modFiles'[y.name].state) # "ENABLED" \/ modFiles'[y.name].stream # y.stream
               \/ y.name \in modGhost.lost
  <2> DEFINE after == [cont EXCEPT !.config[n] = FromParser(InitConfig)]
             new == FilesAfter(after, ToWrite(after), {})
  <2>1. /\ cont.open /\ n \in DOMAIN cont.config
        /\ modFiles' = new /\ failSafe' \in FailSafeAfter(after)
    BY <1>3 DEF ContextResetModule
  <2>2. /\ Container(after) /\ DOMAIN after.config = DOMAIN cont.config
        /\ after.parser = cont.parser
    BY <2>1, AfterReset
  <2> HIDE DEF after
  <2>3. /\ Container(cont) /\ KnowsFiles(cont, modFiles, modGhost.lost)
        /\ modFiles \in [ModNames -> FileRecs] /\ failSafe \subseteq ModuleRecs
    BY <2>1 DEF ModInv
  <2>4. ToWrite(after) \in SUBSET DOMAIN after.config
    BY DEF ToWrite
  <2>5. /\ new \in [ModNames -> FileRecs]
        /\ \A k \in ToWrite(after) : new[k] = Updated(after.config[k])
        /\ \A k \in ModNames \ ToWrite(after) : new[k] = modFiles[k]
    <3>1. /\ new \in [ModNames -> FileRecs]
          /\ \A k \in ToWrite(after) : new[k] = Updated(after.config[k])
          /\ \A k \in ModNames \ (ToWrite(after) \cup {}) : new[k] = modFiles[k]
      BY <2>2, <2>3, <2>4, WrittenFiles
    <3> QED
      BY <3>1
  <2> HIDE DEF new
  <2>6. \A y \in failSafe :
          \/ \E k \in failSafe' :
               SameFile(y, k) /\ (k.repo # TornYaml \/ y.repo = TornYaml \/ k # Torn(y))
          \/ ~IsEnabled(after, y.name, y.stream)
    BY <2>1, <2>2, <2>3, FailSafeKept
  <2>7. ASSUME NEW y \in failSafe, ~IsEnabled(after, y.name, y.stream), y.name \notin modGhost.lost
        PROVE  FromString(new[y.name].state) # "ENABLED" \/ new[y.name].stream # y.stream
    <3>1. y.name \in ModNames
      BY <2>3 DEF ModuleRecs
    <3>2. CASE y.name \notin DOMAIN cont.config
      <4>1. new[y.name] = modFiles[y.name] /\ modFiles[y.name].state = "none"
        BY <2>2, <2>3, <2>4, <2>5, <3>1, <3>2 DEF KnowsFiles
      <4> QED
        BY <4>1, NoneIsOff
    <3>3. CASE y.name \in DOMAIN cont.config
      <4>1. ParseConfig(new[y.name]) = Updated(after.config[y.name])
        <5>1. CASE y.name \in ToWrite(after)
          <6>1. after.config[y.name] \in ConfigRecs
            BY <2>2, <3>3, ContainerSettings
          <6> QED
            BY <2>5, <5>1, <6>1, Conversions
        <5>2. CASE y.name \notin ToWrite(after)
          <6>1. Updated(after.config[y.name]) = cont.parser[y.name]
            BY <2>2, <3>3, <5>2 DEF ToWrite
          <6>2. cont.parser[y.name] = ParseConfig(modFiles[y.name])
            BY <2>3, <2>7, <3>3 DEF KnowsFiles
          <6> QED
            BY <2>5, <3>1, <5>2, <6>1, <6>2
        <5> QED
          BY <5>1, <5>2
      <4>2. new[y.name] \in FileRecs
        BY <2>5, <3>1
      <4>3. Agree(Updated(after.config[y.name]), ParseConfig(new[y.name]))
        BY <4>1 DEF Agree
      <4> QED
        BY <2>2, <2>7, <3>3, <4>2, <4>3, NotEnabledOnDisk
    <3> QED
      BY <3>2, <3>3
  <2> QED
    BY <2>1, <2>6, <2>7
<1>4. failSafe' = failSafe \/ UpdateFailSafe \/ \E n \in ModNames : ContextResetModule(n)
  BY DEF ModNext, modVars, FilterModules, Resolve, Report, Save, SaveFails, Rollback, EndProcess, DieSaving,
         Publish, DepsolveEnables, EnableAll, Disable, Reset, ClearTo, Enable,
         EnableDependencyTree, InstallProfile, UninstallProfile
<1> QED
  BY <1>1, <1>2, <1>3, <1>4

\* The container has two copies of the settings of the same modules, it activates
\* modules it has and only when resolved, and a settings file is in one of its
\* states (ModulePackageContainer.cpp Impl).
THEOREM ModTypeCorrect == ModSpec => []ModTypeOK
<1>1. ModInit => ModInv
  BY ModInvInit
<1>2. ModInv /\ [ModNext]_modVars => ModInv'
  BY ModInvStep
<1>3. ModInv => ModTypeOK
  <2> SUFFICES ASSUME ModInv PROVE ModTypeOK
    OBVIOUS
  <2>1. DOMAIN modFiles = ModNames /\ \A n \in ModNames : modFiles[n] \in FileRecs
    BY DEF ModInv
  <2>2. \A n \in ModNames : modFiles[n].state \in {"none", "torn"} \cup StateTexts
    BY <2>1 DEF FileRecs, Settings
  <2>3. cont.open => Container(cont)
    BY DEF ModInv
  <2> QED
    BY <2>1, <2>2, <2>3 DEF ModTypeOK, Container
<1> QED
  BY <1>1, <1>2, <1>3, PTL DEF ModSpec

\* After save(), a process that starts now reads the settings the container holds, in
\* whatever order their profiles were sorted since; and as long as no call threw, what
\* isChanged() does not see no reader would see either: who saves nothing then loses
\* nothing (ModulePackageContainer.cpp save, isChanged, ModulePersistor).
THEOREM SaveStaysFaithful == FilesAsSaved => (ModSpec => []SaveIsFaithful)
<1> SUFFICES ASSUME FilesAsSaved PROVE ModSpec => []SaveIsFaithful
  OBVIOUS
<1>1. ModInit => ModInv /\ TidyInv
  BY ModInvInit
<1>2. (ModInv /\ TidyInv) /\ [ModNext]_modVars => (ModInv /\ TidyInv)'
  BY ModInvStep
<1>3. ModInv /\ TidyInv => SaveIsFaithful
  BY SaveIsFaithfulInv
<1> QED
  BY <1>1, <1>2, <1>3, PTL DEF ModSpec

\* A resolution activates what the settings allow, and the filter and the profiles
\* follow it (ModulePackageContainer.cpp resolveActiveModulePackages).
THEOREM ActiveStaysRespectful == ModSpec => []ActiveRespectsSettings
<1>1. ModInit => ModInv
  BY ModInvInit
<1>2. ModInv /\ [ModNext]_modVars => ModInv'
  BY ModInvStep
<1>3. ModInv => ActiveRespectsSettings
  BY ActiveRespectsInv
<1> QED
  BY <1>1, <1>2, <1>3, PTL DEF ModSpec

\* No step removes the fail-safe yaml of a stream the files on disk still enable
\* (ModulePackageContainer.cpp updateFailSafeData).
THEOREM FailSafeStaysUsable == ModSpec => FailSafeOutlivesStream
<1>1. ModInit => ModInv
  BY ModInvInit
<1>2. ModInv /\ [ModNext]_modVars => ModInv'
  BY ModInvStep
<1>3. ModInv /\ [ModNext]_modVars =>
        [\A y \in failSafe :
           \/ \E k \in failSafe' :
                SameFile(y, k) /\ (k.repo # TornYaml \/ y.repo = TornYaml \/ k # Torn(y))
           \/ FromString(modFiles'[y.name].state) # "ENABLED" \/ modFiles'[y.name].stream # y.stream
           \/ y.name \in modGhost.lost]_modVars
  BY FailSafeStep
<1> QED
  BY <1>1, <1>2, <1>3, PTL DEF ModSpec, FailSafeOutlivesStream

-----------------------------------------------------------------------------
(* The history database.                                                   *)

HsReasons == {ReasonOrder[i] : i \in 1 .. 6}
HsStates == {"UNKNOWN", "DONE", "ERROR"}

HsMembers ==
    MemberSets["GROUP"] \cup MemberSets["ENVIRONMENT"] \cup {OldGroups[g] : g \in DOMAIN OldGroups} \cup {{}}

\* An item of the database; a comps item that is removed lists nothing.
HsItem(kind, ids, evrs, actions, members) ==
    [kind : {kind}, id : ids, evr : evrs, action : actions, reason : HsReasons,
     members : members, state : HsStates, by : Seq(Nat)]

HsRpms == HsItem("RPM", HistIds, Evrs3, RpmActions, {{}})
HsComps(kind, ids) ==
    HsItem(kind, ids, {NoEvr}, {"INSTALL", "UPGRADE"}, HsMembers)
      \cup HsItem(kind, ids, {NoEvr}, {"REMOVE"}, {{}})
HsItems == HsRpms \cup HsComps("GROUP", GroupIds) \cup HsComps("ENVIRONMENT", EnvIds)

HsTrans == [state : HsStates, items : Seq(HsItems)]

HsTypes ==
    /\ hsRpmdb \in [HistIds -> Evrs3 \cup {NoEvr}]
    /\ wanted \in [HistIds -> HsReasons]
    /\ compsNow \in [GroupIds \cup EnvIds -> HsMembers]
    /\ dbFile \in {"none", "closed", "open"}
    /\ trans \in Seq(HsTrans)
    /\ inProgress \in [there : BOOLEAN, id : Nat, items : Seq(HsItems), begun : BOOLEAN]

\* The answer a row gives, and the answer when there is none.
Answer(x) == IF x.kind = "RPM" THEN IF x.action = "REMOVE" THEN "UNKNOWN" ELSE x.reason
             ELSE x.members
NoAnswer(kind) == IF kind = "RPM" THEN "UNKNOWN" ELSE {}

\* The rows of transaction t that decide about id, if it completed.
Deciding(T, kind, id, t) ==
    {i \in Of(T[t].items, kind, id, Skipped(kind)) : T[t].state = "DONE"}

\* t is the last transaction of T that decides.
LastDecides(T, kind, id, t) ==
    /\ Deciding(T, kind, id, t) # {}
    /\ \A u \in DOMAIN T : u > t => Deciding(T, kind, id, u) = {}

\* The transactions T answer x, whatever row of the last one is taken.
Tells(T, kind, id, x) ==
    \/ x = NoAnswer(kind) /\ \A t \in DOMAIN T : Deciding(T, kind, id, t) = {}
    \/ \E t \in DOMAIN T : /\ LastDecides(T, kind, id, t)
                           /\ \A i \in Deciding(T, kind, id, t) : Answer(T[t].items[i]) = x

\* A transaction other than o that did not complete has changed the package.
Touched(T, o, id) ==
    \E t \in DOMAIN T : /\ t # o /\ T[t].state # "DONE"
                        /\ \E i \in DOMAIN T[t].items : T[t].items[i].id = id /\ T[t].items[i].state = "DONE"

\* The transaction at work, whose outcome is not known yet.
AtWork == inProgress.begun /\ trans[inProgress.id].state = "UNKNOWN"
RowAtWork == IF AtWork THEN inProgress.id ELSE 0

\* The older half of a pair; of the other items there is one for each name.
Follower(x) == x.kind = "RPM" /\ x.action \in {"UPGRADED", "DOWNGRADED", "REINSTALLED"}
Lone(items) ==
    \A i, j \in DOMAIN items :
        i # j /\ items[i].kind = items[j].kind /\ items[i].id = items[j].id
            => Follower(items[i]) \/ Follower(items[j])

\* An item that is not asked for repeats the reason the database tells.
Repeats(x, T) ==
    x.kind = "RPM" /\ x.action \notin {"INSTALL", "REASON_CHANGE"}
        => \A r \in HsReasons : Tells(T, "RPM", x.id, r) => x.reason = r

\* What is replaced is there, and so is what replaces it.
Present(x, installed) ==
    x.kind = "RPM" /\ x.action \in {"UPGRADE", "DOWNGRADE", "REINSTALL"} => installed[x.id] # NoEvr

HsPlaced ==
    /\ dbFile = "none" => hsRpmdb = OldRpmdb
    /\ dbFile # "open" => ~ inProgress.there
    /\ ~ inProgress.there => ~ inProgress.begun /\ inProgress.items = << >>
    /\ inProgress.begun => /\ inProgress.id = Len(trans) /\ inProgress.id # 0
                           /\ trans[inProgress.id].items = inProgress.items
    /\ ~ inProgress.begun => \A i \in DOMAIN inProgress.items : inProgress.items[i].state = "UNKNOWN"
    /\ Lone(inProgress.items)
    /\ AtWork \/ ~ inProgress.begun =>
          \A i \in DOMAIN inProgress.items : /\ Repeats(inProgress.items[i], trans)
                                            /\ Present(inProgress.items[i], hsRpmdb)

DoneNow(id, action) ==
    AtWork /\ \E i \in DOMAIN inProgress.items :
                 LET x == inProgress.items[i]
                 IN x.kind = "RPM" /\ x.id = id /\ x.action = action /\ x.state = "DONE"

\* What the database tells of a package is what was wanted, unless it is away,
\* or its installation is not recorded as completed yet.
HsTold(id) ==
    /\ DoneNow(id, "REMOVE") => hsRpmdb[id] = NoEvr
    /\ ~ Touched(trans, RowAtWork, id) =>
          \/ hsRpmdb[id] = NoEvr
          \/ DoneNow(id, "INSTALL")
          \/ Tells(trans, "RPM", id, wanted[id])

HsInv ==
    /\ HsTypes /\ HsPlaced
    /\ dbFile # "none" =>
          /\ \A id \in HistIds : HsTold(id)
          /\ \A g \in GroupIds : Tells(trans, "GROUP", g, compsNow[g])
          /\ \A e \in EnvIds : Tells(trans, "ENVIRONMENT", e, compsNow[e])

Named(n, id) == \E t \in 1 .. n : \E k \in 1 .. Len(OldHistory[t].rows) : OldHistory[t].rows[k].id = id

\* Wherever the reading of yum's history breaks off: the last transaction that
\* decides about an installed package it names does not remove it.
OldHistoryTells ==
    \A n \in 0 .. Len(OldHistory), id \in HistIds :
        OldRpmdb[id] # NoEvr /\ Named(n, id) /\ ~ Touched(TransformTrans(n), 0, id) =>
            \E t \in 1 .. n : /\ LastDecides(TransformTrans(n), "RPM", id, t)
                              /\ \A i \in Deciding(TransformTrans(n), "RPM", id, t) :
                                    TransformTrans(n)[t].items[i].action # "REMOVE"

LEMMA HsLeast ==
    ASSUME NEW S \in SUBSET Nat, S # {}
    PROVE  \E x \in S : \A y \in S : x <= y
<1> DEFINE R == OpToRel(<, Nat)
<1>1. \A a, b \in Nat : a < b => <<a, b>> \in R
  BY DEF OpToRel
<1>2. IsWellFoundedOn(R, Nat)
  BY NatLessThanWellFounded
<1> HIDE DEF R
<1>3. PICK x \in S : \A y \in S : ~ (<<y, x>> \in R)
  BY <1>2, WFMin
<1>4. \A y \in S : ~ (y < x)
  BY <1>1, <1>3
<1> QED
  BY <1>3, <1>4

\* Of numbers up to N there is a greatest one.
LEMMA HsGreatest ==
    ASSUME NEW N \in Nat, NEW S \in SUBSET (1 .. N), S # {}
    PROVE  \E x \in S : \A y \in S : y <= x
<1> DEFINE D == {N - x : x \in S}
<1>1. D \in SUBSET Nat /\ D # {}
  <2>1. \A x \in S : N - x \in Nat
    OBVIOUS
  <2>2. PICK x \in S : TRUE
    OBVIOUS
  <2> QED
    BY <2>1, <2>2
<1> HIDE DEF D
<1>2. PICK d \in D : \A e \in D : d <= e
  BY <1>1, HsLeast
<1>3. PICK x \in S : d = N - x
  BY DEF D
<1>4. \A y \in S : N - x <= N - y
  BY <1>2, <1>3 DEF D
<1> QED
  BY <1>3, <1>4

\* A set of numbers that holds 0 and with each number the next one.
LEMMA HsReaches ==
    ASSUME NEW N \in Nat, NEW G, 0 \in G, \A n \in 1 .. N : n - 1 \in G => n \in G
    PROVE  \A n \in 0 .. N : n \in G
<1> DEFINE S == {n \in 0 .. N : n \notin G}
<1>1. SUFFICES ASSUME S # {} PROVE FALSE
  OBVIOUS
<1>2. S \in SUBSET Nat
  OBVIOUS
<1>3. PICK n \in S : \A m \in S : n <= m
  <2> HIDE DEF S
  <2> QED
    BY <1>1, <1>2, HsLeast
<1>4. n \in 1 .. N /\ n - 1 \in 0 .. N /\ ~ (n <= n - 1)
  BY <1>3
<1> QED
  BY <1>3, <1>4

LEMMA TransAre ==
    ASSUME NEW T \in Seq(HsTrans)
    PROVE  /\ Len(T) \in Nat /\ DOMAIN T = 1 .. Len(T)
           /\ \A t \in DOMAIN T : /\ T[t] \in HsTrans /\ T[t].state \in HsStates
                                  /\ T[t].items \in Seq(HsItems)
                                  /\ DOMAIN T[t].items = 1 .. Len(T[t].items)
                                  /\ Len(T[t].items) \in Nat
                                  /\ \A i \in DOMAIN T[t].items : T[t].items[i] \in HsItems
<1>1. \A t \in DOMAIN T : T[t] \in HsTrans
  OBVIOUS
<1>2. \A x \in HsTrans : x.state \in HsStates /\ x.items \in Seq(HsItems)
  BY DEF HsTrans
<1>3. \A L \in Seq(HsItems) : /\ Len(L) \in Nat /\ DOMAIN L = 1 .. Len(L)
                              /\ \A i \in DOMAIN L : L[i] \in HsItems
  OBVIOUS
<1> QED
  BY <1>1, <1>2, <1>3

LEMMA RowsAre ==
    ASSUME NEW kind, NEW id
    PROVE  \A r : r \in Rows(kind, id, Skipped(kind)) <=>
                    \E t \in DOMAIN trans : \E i \in Deciding(trans, kind, id, t) : r = <<t, i>>
<1> DEFINE S(t) == Of(trans[t].items, kind, id, Skipped(kind))
           D == {u \in DOMAIN trans : trans[u].state = "DONE"}
<1>1. Rows(kind, id, Skipped(kind)) = UNION {{t} \X S(t) : t \in D}
  BY Zenon DEF Rows
<1>2. \A t : \A i : i \in Deciding(trans, kind, id, t) <=> i \in S(t) /\ trans[t].state = "DONE"
  BY DEF Deciding
<1> HIDE DEF S
<1>3. \A r : r \in UNION {{t} \X S(t) : t \in D} <=> \E t \in D : \E i \in S(t) : r = <<t, i>>
  <2> DEFINE P(t) == {t} \X S(t)
  <2>1. \A t \in D : \A r : r \in P(t) <=> \E i \in S(t) : r = <<t, i>>
    OBVIOUS
  <2> HIDE DEF P
  <2>2. \A r : r \in UNION {P(t) : t \in D} <=> \E t \in D : r \in P(t)
    OBVIOUS
  <2>3. \A r : r \in UNION {P(t) : t \in D} <=> \E t \in D : \E i \in S(t) : r = <<t, i>>
    BY <2>1, <2>2
  <2> QED
    BY <2>3 DEF P
<1> QED
  BY <1>1, <1>2, <1>3

\* The latest row is one of the last transaction that decides.
LEMMA LatestIsLast ==
    ASSUME NEW kind, NEW id, DOMAIN trans \subseteq Nat, NEW t \in DOMAIN trans,
           LastDecides(trans, kind, id, t)
    PROVE  /\ Rows(kind, id, Skipped(kind)) # {}
           /\ \E i \in Deciding(trans, kind, id, t) :
                 Latest(Rows(kind, id, Skipped(kind))) = trans[t].items[i]
<1> DEFINE rows == Rows(kind, id, Skipped(kind))
           D(u) == Deciding(trans, kind, id, u)
           Top(r) == \A s \in rows : s[1] <= r[1]
           r == CHOOSE r \in rows : Top(r)
<1>1. \A s : s \in rows <=> \E u \in DOMAIN trans : \E i \in D(u) : s = <<u, i>>
  BY RowsAre
<1>2. D(t) # {} /\ \A u \in DOMAIN trans : u > t => D(u) = {}
  BY DEF LastDecides
<1> HIDE DEF rows, D
<1>3. PICK i \in D(t) : <<t, i>> \in rows
  BY <1>1, <1>2
<1>4. \A s \in rows : s[1] \in Nat /\ s[1] <= t
  BY <1>1, <1>2
<1>5. Top(<<t, i>>)
  BY <1>4
<1>6. r \in rows /\ Top(r)
  BY <1>3, <1>5
<1>7. Latest(rows) = trans[r[1]].items[r[2]]
  BY Zenon DEF Latest
<1> HIDE DEF r
<1>8. r[1] = t
  BY <1>3, <1>4, <1>6
<1>9. r[2] \in D(t)
  BY <1>1, <1>6, <1>8
<1> QED
  BY <1>3, <1>7, <1>8, <1>9 DEF rows, D

LEMMA NoRows ==
    ASSUME NEW kind, NEW id, \A t \in DOMAIN trans : Deciding(trans, kind, id, t) = {}
    PROVE  Rows(kind, id, Skipped(kind)) = {}
<1>1. \A r : r \notin Rows(kind, id, Skipped(kind))
  BY RowsAre
<1> QED
  BY <1>1

LEMMA RpmRows ==
    ASSUME NEW T, NEW kind, NEW id, NEW t, NEW i \in Deciding(T, kind, id, t)
    PROVE  /\ i \in DOMAIN T[t].items /\ T[t].items[i].kind = kind /\ T[t].items[i].id = id
           /\ T[t].items[i].action \notin Skipped(kind) /\ T[t].state = "DONE"
  BY DEF Deciding, Of

LEMMA TellsReason ==
    ASSUME NEW id, NEW x, DOMAIN trans \subseteq Nat, Tells(trans, "RPM", id, x)
    PROVE  ResolveReason(id) = x
<1> DEFINE rows == Rows("RPM", id, Skipped("RPM"))
<1>0. ResolveReason(id) = IF rows = {} \/ Latest(rows).action = "REMOVE" THEN "UNKNOWN"
                          ELSE Latest(rows).reason
  BY DEF ResolveReason
<1>1. CASE x = NoAnswer("RPM") /\ \A t \in DOMAIN trans : Deciding(trans, "RPM", id, t) = {}
  <2>1. rows = {}
    BY <1>1, NoRows
  <2> QED
    BY <1>0, <1>1, <2>1 DEF NoAnswer
<1>2. ASSUME NEW t \in DOMAIN trans, LastDecides(trans, "RPM", id, t),
             \A i \in Deciding(trans, "RPM", id, t) : Answer(trans[t].items[i]) = x
      PROVE  ResolveReason(id) = x
  <2>1. rows # {} /\ \E i \in Deciding(trans, "RPM", id, t) : Latest(rows) = trans[t].items[i]
    BY <1>2, LatestIsLast
  <2>2. PICK i \in Deciding(trans, "RPM", id, t) : Latest(rows) = trans[t].items[i]
    BY <2>1
  <2>3. trans[t].items[i].kind = "RPM" /\ Answer(trans[t].items[i]) = x
    BY <1>2, <2>2, RpmRows
  <2> HIDE DEF rows
  <2> QED
    BY <1>0, <2>1, <2>2, <2>3 DEF Answer
<1> QED
  BY <1>1, <1>2 DEF Tells

\* Whatever is in the database, the answer is a reason.
LEMMA ReasonsAnswered ==
    ASSUME trans \in Seq(HsTrans), NEW id
    PROVE  ResolveReason(id) \in HsReasons
<1> DEFINE rows == Rows("RPM", id, Skipped("RPM"))
           N == Len(trans)
           S == {t \in 1 .. N : Deciding(trans, "RPM", id, t) # {}}
<1>0. ResolveReason(id) = IF rows = {} \/ Latest(rows).action = "REMOVE" THEN "UNKNOWN"
                          ELSE Latest(rows).reason
  BY DEF ResolveReason
<1>1. N \in Nat /\ DOMAIN trans = 1 .. N
  OBVIOUS
<1>2. "UNKNOWN" \in HsReasons
  <2>1. ReasonOrder[1] = "UNKNOWN" /\ 1 \in 1 .. 6
    BY DEF ReasonOrder
  <2> QED
    BY <2>1 DEF HsReasons
<1>3. CASE S = {}
  <2>1. rows = {}
    BY <1>1, <1>3, NoRows
  <2> QED
    BY <1>0, <1>2, <2>1
<1>4. CASE S # {}
  <2>1. S \in SUBSET (1 .. N)
    OBVIOUS
  <2>2. PICK t \in S : \A u \in S : u <= t
    <3> HIDE DEF S, N
    <3> QED
      BY <1>1, <1>4, <2>1, HsGreatest
  <2>3. t \in DOMAIN trans /\ LastDecides(trans, "RPM", id, t)
    BY <1>1, <2>2 DEF LastDecides
  <2>4. PICK i \in Deciding(trans, "RPM", id, t) : Latest(rows) = trans[t].items[i]
    BY <1>1, <2>3, LatestIsLast
  <2>5. i \in DOMAIN trans[t].items
    BY RpmRows
  <2>7. trans[t].items[i] \in HsItems
    BY <2>3, <2>5, TransAre
  <2>8. trans[t].items[i].reason \in HsReasons
    BY <2>7 DEF HsItems, HsRpms, HsComps, HsItem
  <2> HIDE DEF rows
  <2> QED
    BY <1>0, <1>2, <2>4, <2>8
<1> QED
  BY <1>3, <1>4

\* What the last completed transaction left of a group or environment.
LEMMA TellsComps ==
    ASSUME trans \in Seq(HsTrans), NEW kind \in {"GROUP", "ENVIRONMENT"}, NEW c, NEW M,
           Tells(trans, kind, c, M)
    PROVE  /\ \A x \in Kept(Rows(kind, c, Skipped(kind))) : x.members = M
           /\ M # {} => /\ Kept(Rows(kind, c, Skipped(kind))) # {}
                        /\ \A m \in M : EverListed(kind, c, m)
<1> DEFINE rows == Rows(kind, c, Skipped(kind))
<1>0. DOMAIN trans \subseteq Nat
  OBVIOUS
<1>1. CASE M = NoAnswer(kind) /\ \A t \in DOMAIN trans : Deciding(trans, kind, c, t) = {}
  <2>1. rows = {} /\ M = {}
    BY <1>1, NoRows DEF NoAnswer
  <2> QED
    BY <2>1 DEF Kept
<1>2. ASSUME NEW t \in DOMAIN trans, LastDecides(trans, kind, c, t),
             \A i \in Deciding(trans, kind, c, t) : Answer(trans[t].items[i]) = M
      PROVE  /\ \A x \in Kept(rows) : x.members = M
             /\ M # {} => Kept(rows) # {} /\ \A m \in M : EverListed(kind, c, m)
  <2>1. rows # {} /\ \E i \in Deciding(trans, kind, c, t) : Latest(rows) = trans[t].items[i]
    BY <1>0, <1>2, LatestIsLast
  <2>2. PICK i \in Deciding(trans, kind, c, t) : Latest(rows) = trans[t].items[i]
    BY <2>1
  <2> DEFINE x == trans[t].items[i]
  <2>3. /\ i \in DOMAIN trans[t].items /\ x.kind = kind /\ x.id = c
        /\ x.members = M
    BY <1>2, <2>2, RpmRows DEF Answer
  <2>4. x \in HsItems
    BY <2>3, TransAre
  <2>5. x.action = "REMOVE" => M = {}
    BY <2>3, <2>4 DEF HsItems, HsRpms, HsComps, HsItem
  <2>6. Kept(rows) = IF x.action = "REMOVE" THEN {} ELSE {x}
    BY <2>1, <2>2 DEF Kept
  <2>7. \A m \in M : EverListed(kind, c, m)
    BY <2>3 DEF EverListed
  <2> HIDE DEF x, rows
  <2> QED
    BY <2>3, <2>5, <2>6, <2>7
<1> QED
  BY <1>1, <1>2 DEF Tells

\* The answers depend on the completed transactions alone.
LEMMA SameTells ==
    ASSUME NEW T, NEW U, DOMAIN T \subseteq DOMAIN U,
           \A t \in DOMAIN U :
              \/ t \in DOMAIN T /\ T[t].state = U[t].state /\ T[t].items = U[t].items
              \/ U[t].state # "DONE" /\ (t \in DOMAIN T => T[t].state # "DONE")
    PROVE  \A kind, id, x : Tells(T, kind, id, x) <=> Tells(U, kind, id, x)
<1> TAKE kind, id, x
<1> DEFINE D(t) == Deciding(T, kind, id, t)
           E(t) == Deciding(U, kind, id, t)
<1>1. \A t \in DOMAIN T : D(t) = E(t)
  BY DEF Deciding
<1>2. \A t \in DOMAIN U \ DOMAIN T : E(t) = {}
  BY DEF Deciding
<1>3. \A t \in DOMAIN T : \A i \in D(t) : T[t].items[i] = U[t].items[i]
  BY DEF Deciding
<1>4. Tells(T, kind, id, x) <=>
         \/ x = NoAnswer(kind) /\ \A t \in DOMAIN T : D(t) = {}
         \/ \E t \in DOMAIN T : /\ D(t) # {} /\ \A u \in DOMAIN T : u > t => D(u) = {}
                                /\ \A i \in D(t) : Answer(T[t].items[i]) = x
  BY DEF Tells, LastDecides
<1>5. Tells(U, kind, id, x) <=>
         \/ x = NoAnswer(kind) /\ \A t \in DOMAIN U : E(t) = {}
         \/ \E t \in DOMAIN U : /\ E(t) # {} /\ \A u \in DOMAIN U : u > t => E(u) = {}
                                /\ \A i \in E(t) : Answer(U[t].items[i]) = x
  BY DEF Tells, LastDecides
<1> HIDE DEF D, E
<1> QED
  BY <1>1, <1>2, <1>3, <1>4, <1>5

\* One more transaction completed, the last one.
LEMMA DoneAdded ==
    ASSUME NEW T, NEW U, DOMAIN U \subseteq Nat, NEW n \in DOMAIN U, U[n].state = "DONE",
           \A t \in DOMAIN U : t <= n,
           n \in DOMAIN T => T[n].state # "DONE",
           \A t \in DOMAIN U \ {n} : t \in DOMAIN T /\ T[t] = U[t],
           DOMAIN T \subseteq DOMAIN U,
           NEW kind, NEW id, NEW x
    PROVE  LET own == Of(U[n].items, kind, id, Skipped(kind)) IN
           /\ (own = {} /\ Tells(T, kind, id, x)) => Tells(U, kind, id, x)
           /\ (own # {} /\ \A i \in own : Answer(U[n].items[i]) = x) => Tells(U, kind, id, x)
<1> DEFINE own == Of(U[n].items, kind, id, Skipped(kind))
           D(t) == Deciding(T, kind, id, t)
           E(t) == Deciding(U, kind, id, t)
<1>1. E(n) = own
  BY DEF Deciding
<1>2. \A t \in DOMAIN U \ {n} : D(t) = E(t)
  BY DEF Deciding
<1>3. n \in DOMAIN T => D(n) = {}
  BY DEF Deciding
<1>4. Tells(T, kind, id, x) <=>
         \/ x = NoAnswer(kind) /\ \A t \in DOMAIN T : D(t) = {}
         \/ \E t \in DOMAIN T : /\ D(t) # {} /\ \A u \in DOMAIN T : u > t => D(u) = {}
                                /\ \A i \in D(t) : Answer(T[t].items[i]) = x
  BY DEF Tells, LastDecides
<1>5. Tells(U, kind, id, x) <=>
         \/ x = NoAnswer(kind) /\ \A t \in DOMAIN U : E(t) = {}
         \/ \E t \in DOMAIN U : /\ E(t) # {} /\ \A u \in DOMAIN U : u > t => E(u) = {}
                                /\ \A i \in E(t) : Answer(U[t].items[i]) = x
  BY DEF Tells, LastDecides
<1> HIDE DEF own, D, E
<1>6. ASSUME own = {}, Tells(T, kind, id, x) PROVE Tells(U, kind, id, x)
  <2>1. CASE x = NoAnswer(kind) /\ \A t \in DOMAIN T : D(t) = {}
    BY <1>1, <1>2, <1>5, <1>6, <2>1
  <2>2. ASSUME NEW t \in DOMAIN T, D(t) # {}, \A u \in DOMAIN T : u > t => D(u) = {},
               \A i \in D(t) : Answer(T[t].items[i]) = x
        PROVE  Tells(U, kind, id, x)
    <3>1. t # n /\ t \in DOMAIN U \ {n}
      BY <1>3, <2>2
    <3>2. E(t) # {} /\ \A i \in E(t) : Answer(U[t].items[i]) = x
      BY <1>2, <2>2, <3>1
    <3>3. \A u \in DOMAIN U : u > t => E(u) = {}
      BY <1>1, <1>2, <1>6, <2>2
    <3> QED
      BY <1>5, <3>1, <3>2, <3>3
  <2> QED
    BY <1>4, <1>6, <2>1, <2>2
<1>7. ASSUME own # {}, \A i \in own : Answer(U[n].items[i]) = x PROVE Tells(U, kind, id, x)
  <2>1. \A u \in DOMAIN U : ~ (u > n)
    OBVIOUS
  <2> QED
    BY <1>1, <1>5, <1>7, <2>1
<1> QED
  BY <1>6, <1>7 DEF own

LEMMA ReasonsRanked ==
    /\ \A r \in HsReasons : ReasonRank(r) \in 1 .. 6 /\ ReasonOrder[ReasonRank(r)] = r
    /\ "USER" \in HsReasons /\ "UNKNOWN" \in HsReasons
    /\ ReasonRank("USER") = 6
    /\ \A r \in HsReasons : ReasonRank(r) >= 6 => r = "USER"
<1>1. /\ ReasonOrder[1] = "UNKNOWN" /\ ReasonOrder[2] = "CLEAN" /\ ReasonOrder[3] = "WEAK_DEPENDENCY"
      /\ ReasonOrder[4] = "DEPENDENCY" /\ ReasonOrder[5] = "GROUP" /\ ReasonOrder[6] = "USER"
      /\ DOMAIN ReasonOrder = 1 .. 6
  BY DEF ReasonOrder
<1>2. ASSUME NEW r \in HsReasons
      PROVE  ReasonRank(r) \in 1 .. 6 /\ ReasonOrder[ReasonRank(r)] = r
  <2>1. \E i \in DOMAIN ReasonOrder : ReasonOrder[i] = r
    BY <1>1 DEF HsReasons
  <2>2. ReasonRank(r) = CHOOSE i \in DOMAIN ReasonOrder : ReasonOrder[i] = r
    BY DEF ReasonRank
  <2> QED
    BY <1>1, <2>1, <2>2
<1>3. 6 \in 1 .. 6 /\ 1 \in 1 .. 6
  OBVIOUS
<1>4. "USER" \in HsReasons /\ "UNKNOWN" \in HsReasons
  BY <1>1, <1>3 DEF HsReasons
<1>5. \A r \in HsReasons : ReasonRank(r) >= 6 => r = "USER"
  <2> TAKE r \in HsReasons
  <2>1. ReasonRank(r) \in 1 .. 6 /\ ReasonOrder[ReasonRank(r)] = r
    BY <1>2
  <2>2. ReasonRank(r) >= 6 => ReasonRank(r) = 6
    BY <2>1
  <2> QED
    BY <1>1, <2>1, <2>2
<1>6. ReasonRank("USER") = 6
  <2> DEFINE k == ReasonRank("USER")
  <2>1. k \in 1 .. 6 /\ ReasonOrder[k] = "USER"
    BY <1>2, <1>4
  <2> HIDE DEF k
  <2>2. k = 1 \/ k = 2 \/ k = 3 \/ k = 4 \/ k = 5 \/ k = 6
    BY <2>1
  <2>3. k = 6
    BY <1>1, <2>1, <2>2
  <2> QED
    BY <2>3 DEF k
<1> QED
  BY <1>2, <1>4, <1>5, <1>6

\* The row at work is the last one and holds the items in progress.
LEMMA AtWorkIsLast ==
    ASSUME HsTypes, HsPlaced, AtWork
    PROVE  /\ inProgress.begun /\ inProgress.there /\ dbFile = "open"
           /\ inProgress.id = Len(trans) /\ inProgress.id \in DOMAIN trans
           /\ RowAtWork = inProgress.id /\ trans[inProgress.id].state = "UNKNOWN"
           /\ trans[inProgress.id].items = inProgress.items
<1>1. inProgress.begun /\ trans[inProgress.id].state = "UNKNOWN"
  BY DEF AtWork
<1>2. Len(trans) \in Nat /\ DOMAIN trans = 1 .. Len(trans)
  BY DEF HsTypes
<1>3. inProgress.there /\ inProgress.id = Len(trans) /\ inProgress.id # 0 /\ dbFile = "open"
      /\ trans[inProgress.id].items = inProgress.items
  BY <1>1 DEF HsPlaced, HsTypes
<1> QED
  BY <1>1, <1>2, <1>3 DEF RowAtWork

\* A package that a transaction at work has changed counts as disturbed.
LEMMA WorkDisturbs ==
    ASSUME HsTypes, HsPlaced, NEW id, NEW action, DoneNow(id, action)
    PROVE  Touched(trans, 0, id) /\ Disturbed(id)
<1>1. AtWork
  BY DEF DoneNow
<1>2. /\ inProgress.id \in DOMAIN trans /\ inProgress.id # 0
      /\ trans[inProgress.id].state = "UNKNOWN" /\ trans[inProgress.id].items = inProgress.items
  BY <1>1, AtWorkIsLast DEF HsTypes
<1>3. PICK i \in DOMAIN inProgress.items : inProgress.items[i].id = id /\ inProgress.items[i].state = "DONE"
  BY DEF DoneNow
<1> QED
  BY <1>2, <1>3 DEF Touched, Disturbed

LEMMA HsInvRemembers == HsInv => HistoryRemembers
<1> SUFFICES ASSUME HsInv, dbFile = "open" PROVE
        /\ \A id \in HistIds : hsRpmdb[id] # NoEvr /\ ~ Disturbed(id) =>
              /\ ResolveReason(id) = wanted[id]
              /\ wanted[id] = "USER" => id \in UserInstalled /\ ResolveAnyArch(HistName[id]) = "USER"
        /\ \A g \in GroupIds :
              /\ \A p \in compsNow[g] : g \in PackageCompsGroups(p)
              /\ compsNow[g] = {} => \A p \in Range(HistName) : g \notin PackageCompsGroups(p)
        /\ \A e \in EnvIds : \A g \in GroupIds :
              IF g \in compsNow[e] THEN e \in CompsGroupEnvironments(g)
              ELSE compsNow[e] = {} => e \notin CompsGroupEnvironments(g)
  BY DEF HistoryRemembers
<1>1. HsTypes /\ HsPlaced /\ trans \in Seq(HsTrans) /\ DOMAIN trans \subseteq Nat
  BY DEF HsInv, HsTypes
<1>2. ASSUME NEW id \in HistIds, hsRpmdb[id] # NoEvr, ~ Disturbed(id)
      PROVE  /\ ResolveReason(id) = wanted[id]
             /\ wanted[id] = "USER" => id \in UserInstalled /\ ResolveAnyArch(HistName[id]) = "USER"
  <2>1. ~ Touched(trans, RowAtWork, id)
    BY <1>2 DEF Touched, Disturbed
  <2>2. ~ DoneNow(id, "INSTALL")
    BY <1>1, <1>2, WorkDisturbs
  <2>3. Tells(trans, "RPM", id, wanted[id])
    BY <1>2, <2>1, <2>2 DEF HsInv, HsTold
  <2>4. ResolveReason(id) = wanted[id]
    BY <1>1, <2>3, TellsReason
  <2>5. ASSUME wanted[id] = "USER"
        PROVE  id \in UserInstalled /\ ResolveAnyArch(HistName[id]) = "USER"
    <3>1. id \in UserInstalled
      BY <1>2, <2>4, <2>5 DEF UserInstalled
    <3> DEFINE name == HistName[id]
               all == {ResolveReason(k) : k \in {i \in HistIds : HistName[i] = name}} \cup {"UNKNOWN"}
               Best(r) == \A s \in all : ReasonRank(s) <= ReasonRank(r)
               best == CHOOSE r \in all : Best(r)
    <3>2. ResolveAnyArch(name) = best
      BY Zenon DEF ResolveAnyArch
    <3>3. \A s \in all : s \in HsReasons
      BY <1>1, ReasonsAnswered, ReasonsRanked
    <3>4. "USER" \in all
      BY <2>4, <2>5
    <3> HIDE DEF all
    <3>5. Best("USER")
      <4> SUFFICES ASSUME NEW s \in all PROVE ReasonRank(s) <= 6
        BY ReasonsRanked
      <4>1. ReasonRank(s) \in 1 .. 6
        BY <3>3, ReasonsRanked
      <4> QED
        BY <4>1
    <3>6. best \in all /\ Best(best)
      BY <3>4, <3>5
    <3> HIDE DEF best
    <3>7. best \in HsReasons /\ 6 <= ReasonRank(best) /\ ReasonRank(best) \in 1 .. 6
      BY <3>3, <3>4, <3>6, ReasonsRanked
    <3>8. best = "USER"
      BY <3>7, ReasonsRanked
    <3> QED
      BY <3>1, <3>2, <3>8
  <2> QED
    BY <2>4, <2>5
<1>3. ASSUME NEW g \in GroupIds
      PROVE  /\ \A p \in compsNow[g] : g \in PackageCompsGroups(p)
             /\ compsNow[g] = {} => \A p \in Range(HistName) : g \notin PackageCompsGroups(p)
  <2>1. Tells(trans, "GROUP", g, compsNow[g])
    BY DEF HsInv
  <2>2. /\ \A x \in LastGroup(g) : x.members = compsNow[g]
        /\ compsNow[g] # {} => LastGroup(g) # {} /\ \A m \in compsNow[g] : EverListed("GROUP", g, m)
    BY <1>1, <2>1, TellsComps DEF LastGroup
  <2> QED
    BY <2>2 DEF PackageCompsGroups
<1>4. ASSUME NEW e \in EnvIds, NEW g \in GroupIds
      PROVE  IF g \in compsNow[e] THEN e \in CompsGroupEnvironments(g)
             ELSE compsNow[e] = {} => e \notin CompsGroupEnvironments(g)
  <2>1. Tells(trans, "ENVIRONMENT", e, compsNow[e])
    BY DEF HsInv
  <2>2. /\ \A x \in LastEnvironment(e) : x.members = compsNow[e]
        /\ compsNow[e] # {} => /\ LastEnvironment(e) # {}
                               /\ \A m \in compsNow[e] : EverListed("ENVIRONMENT", e, m)
    BY <1>1, <2>1, TellsComps DEF LastEnvironment
  <2> QED
    BY <2>2 DEF CompsGroupEnvironments
<1> QED
  BY <1>2, <1>3, <1>4

\* The fields of an item.
LEMMA ItemsAre ==
    /\ \A x \in HsItems : /\ x.kind \in {"RPM", "GROUP", "ENVIRONMENT"} /\ x.state \in HsStates
                          /\ x.reason \in HsReasons
                          /\ x.kind = "RPM" => x.id \in HistIds /\ x.evr \in Evrs3
                          /\ x.kind = "GROUP" => x.id \in GroupIds
                          /\ x.kind = "ENVIRONMENT" => x.id \in EnvIds
                          /\ x.kind # "RPM" => /\ x.members \in HsMembers
                                               /\ x.action \in {"INSTALL", "UPGRADE", "REMOVE"}
    /\ \A x \in HsItems, st \in HsStates :
          LET y == [x EXCEPT !.state = st]
          IN /\ y \in HsItems /\ y.kind = x.kind /\ y.id = x.id /\ y.evr = x.evr
             /\ y.action = x.action /\ y.reason = x.reason /\ y.members = x.members /\ y.state = st
<1> DEFINE Plain(x) == /\ x.kind \in {"RPM", "GROUP", "ENVIRONMENT"} /\ x.state \in HsStates
                       /\ x.reason \in HsReasons
                       /\ x.kind = "RPM" => x.id \in HistIds /\ x.evr \in Evrs3
                       /\ x.kind = "GROUP" => x.id \in GroupIds
                       /\ x.kind = "ENVIRONMENT" => x.id \in EnvIds
                       /\ x.kind # "RPM" => /\ x.members \in HsMembers
                                            /\ x.action \in {"INSTALL", "UPGRADE", "REMOVE"}
           Changed(x, st, S) ==
               LET y == [x EXCEPT !.state = st]
               IN /\ y \in S /\ y.kind = x.kind /\ y.id = x.id /\ y.evr = x.evr
                  /\ y.action = x.action /\ y.reason = x.reason /\ y.members = x.members /\ y.state = st
<1>1. {} \in HsMembers
  BY DEF HsMembers
<1>2. \A x \in HsRpms : Plain(x) /\ \A st \in HsStates : Changed(x, st, HsRpms)
  BY DEF HsRpms, HsItem
<1>3. ASSUME NEW kind, NEW ids
      PROVE  \A x \in HsComps(kind, ids) : \A st \in HsStates : Changed(x, st, HsComps(kind, ids))
  <2>1. \A actions, members : \A x \in HsItem(kind, ids, {NoEvr}, actions, members) :
           \A st \in HsStates : Changed(x, st, HsItem(kind, ids, {NoEvr}, actions, members))
    BY DEF HsItem
  <2> HIDE DEF Changed
  <2>2. \A x \in HsComps(kind, ids) : \A st \in HsStates :
           \/ Changed(x, st, HsItem(kind, ids, {NoEvr}, {"INSTALL", "UPGRADE"}, HsMembers))
           \/ Changed(x, st, HsItem(kind, ids, {NoEvr}, {"REMOVE"}, {{}}))
    BY <2>1 DEF HsComps
  <2> QED
    BY <2>2 DEF HsComps, Changed
<1>4. /\ \A x \in HsComps("GROUP", GroupIds) : Plain(x)
      /\ \A x \in HsComps("ENVIRONMENT", EnvIds) : Plain(x)
  BY <1>1 DEF HsComps, HsItem
<1>5. \A x \in HsItems : Plain(x)
  <2> HIDE DEF Plain
  <2> QED
    BY <1>2, <1>4 DEF HsItems
<1>6. ASSUME NEW x \in HsItems, NEW st \in HsStates
      PROVE  Changed(x, st, HsItems)
  <2>1. \/ Changed(x, st, HsRpms) \/ Changed(x, st, HsComps("GROUP", GroupIds))
        \/ Changed(x, st, HsComps("ENVIRONMENT", EnvIds))
    <3> HIDE DEF Changed, Plain
    <3> QED
      BY <1>2, <1>3 DEF HsItems
  <2> QED
    BY <2>1 DEF HsItems
<1> QED
  BY <1>5, <1>6

LEMMA RepeatsKept ==
    ASSUME NEW T, NEW U, \A kind, id, x : Tells(T, kind, id, x) <=> Tells(U, kind, id, x)
    PROVE  \A x : Repeats(x, T) => Repeats(x, U)
  BY DEF Repeats

\* A step that completes no transaction.
LEMMA HsKept ==
    ASSUME HsInv, dbFile # "none", HsTypes', HsPlaced', dbFile' # "none",
           wanted' = wanted, compsNow' = compsNow,
           \A kind, id, x : Tells(trans, kind, id, x) <=> Tells(trans', kind, id, x),
           \A id \in HistIds : DoneNow(id, "REMOVE")' => hsRpmdb'[id] = NoEvr,
           \A id \in HistIds : ~ Touched(trans', RowAtWork', id) =>
              /\ ~ Touched(trans, RowAtWork, id)
              /\ hsRpmdb[id] = NoEvr => hsRpmdb'[id] = NoEvr \/ DoneNow(id, "INSTALL")'
              /\ DoneNow(id, "INSTALL") => DoneNow(id, "INSTALL")'
    PROVE  HsInv'
<1>1. ASSUME NEW id \in HistIds PROVE HsTold(id)'
  <2>1. HsTold(id)
    BY DEF HsInv
  <2>2. ASSUME ~ Touched(trans', RowAtWork', id)
        PROVE  hsRpmdb'[id] = NoEvr \/ DoneNow(id, "INSTALL")' \/ Tells(trans', "RPM", id, wanted'[id])
    <3>1. hsRpmdb[id] = NoEvr \/ DoneNow(id, "INSTALL") \/ Tells(trans, "RPM", id, wanted[id])
      BY <2>1, <2>2 DEF HsTold
    <3> QED
      BY <2>2, <3>1
  <2> QED
    BY <2>2 DEF HsTold
<1>2. /\ \A g \in GroupIds : Tells(trans', "GROUP", g, compsNow'[g])
      /\ \A e \in EnvIds : Tells(trans', "ENVIRONMENT", e, compsNow'[e])
  BY DEF HsInv
<1> QED
  BY <1>1, <1>2 DEF HsInv

\* Calls that leave the database and the system as they are.
LEMMA QuietKept ==
    ASSUME HsInv, dbFile # "none", dbFile' \in {"closed", "open"},
           UNCHANGED <<hsRpmdb, wanted, compsNow, trans>>,
           ~ inProgress'.begun,
           inProgress' \in [there : BOOLEAN, id : Nat, items : Seq(HsItems), begun : BOOLEAN],
           HsPlaced'
    PROVE  HsInv'
<1>1. HsTypes /\ HsPlaced
  BY DEF HsInv
<1>2. HsTypes'
  BY <1>1 DEF HsTypes
<1>3. ~ AtWork'
  BY DEF AtWork
<1>4. RowAtWork' = 0 /\ \A id, action : ~ DoneNow(id, action)'
  BY <1>3 DEF RowAtWork, DoneNow
<1>5. ASSUME NEW id \in HistIds, ~ Touched(trans', RowAtWork', id)
      PROVE  ~ Touched(trans, RowAtWork, id) /\ ~ DoneNow(id, "INSTALL")
  <2>1. ~ Touched(trans, 0, id)
    BY <1>4, <1>5
  <2>2. ~ DoneNow(id, "INSTALL")
    BY <1>1, <2>1, WorkDisturbs
  <2>3. \A t \in DOMAIN trans : t # 0
    BY <1>1 DEF HsTypes
  <2> QED
    BY <2>1, <2>2, <2>3 DEF Touched
<1>6. \A kind, id, x : Tells(trans, kind, id, x) <=> Tells(trans', kind, id, x)
  OBVIOUS
<1> QED
  BY <1>2, <1>4, <1>5, <1>6, HsKept

LEMMA NoTransactionIs ==
    /\ NoTransaction \in [there : BOOLEAN, id : Nat, items : Seq(HsItems), begun : BOOLEAN]
    /\ ~ NoTransaction.there /\ ~ NoTransaction.begun /\ NoTransaction.items = << >>
    /\ [NoTransaction EXCEPT !.there = TRUE]
          \in [there : BOOLEAN, id : Nat, items : Seq(HsItems), begun : BOOLEAN]
    /\ LET s == [NoTransaction EXCEPT !.there = TRUE]
       IN s.there /\ ~ s.begun /\ s.items = << >>
<1>1. << >> \in Seq(HsItems)
  OBVIOUS
<1> QED
  BY <1>1 DEF NoTransaction

LEMMA QuietSteps ==
    ASSUME HsInv, OpenExisting \/ InitTransaction \/ CloseTransaction \/ HistCrash
                    \/ \E t \in DOMAIN trans : MergeTrans(t)
    PROVE  HsInv'
<1>1. HsTypes /\ HsPlaced
  BY DEF HsInv
<1>2. CASE OpenExisting
  <2>1. ~ inProgress.there /\ ~ inProgress.begun
    BY <1>1, <1>2 DEF OpenExisting, HsPlaced
  <2>2. HsPlaced'
    BY <1>1, <1>2, <2>1 DEF OpenExisting, HsPlaced, AtWork
  <2> QED
    BY <1>1, <1>2, <2>1, <2>2, QuietKept DEF OpenExisting, HsTypes
<1>3. CASE InitTransaction
  <2>1. HsPlaced'
    BY <1>1, <1>3, NoTransactionIs DEF InitTransaction, HsPlaced, AtWork, Lone
  <2> QED
    BY <1>1, <1>3, <2>1, NoTransactionIs, QuietKept DEF InitTransaction, HsTypes
<1>4. CASE CloseTransaction
  <2>1. dbFile = "open"
    BY <1>1, <1>4 DEF CloseTransaction, HsPlaced
  <2>2. HsPlaced'
    BY <1>1, <1>4, <2>1, NoTransactionIs DEF CloseTransaction, HsPlaced, AtWork, Lone
  <2> QED
    BY <1>1, <1>4, <2>1, <2>2, NoTransactionIs, QuietKept DEF CloseTransaction, HsTypes
<1>5. CASE HistCrash
  <2>1. HsPlaced'
    BY <1>1, <1>5, NoTransactionIs DEF HistCrash, HsPlaced, AtWork, Lone
  <2> QED
    BY <1>1, <1>5, <2>1, NoTransactionIs, QuietKept DEF HistCrash, HsTypes
<1>6. ASSUME NEW t \in DOMAIN trans, MergeTrans(t)
      PROVE  HsInv'
  <2>1. ~ inProgress.there /\ ~ inProgress.begun /\ dbFile = "open"
    BY <1>1, <1>6 DEF MergeTrans, HsPlaced
  <2>2. UNCHANGED <<hsRpmdb, wanted, compsNow, dbFile, since, trans, inProgress>>
    BY <1>6 DEF MergeTrans
  <2>3. HsPlaced'
    BY <1>1, <2>1, <2>2 DEF HsPlaced, AtWork
  <2> QED
    BY <1>1, <2>1, <2>2, <2>3, QuietKept DEF HsTypes
<1> QED
  BY <1>2, <1>3, <1>4, <1>5, <1>6

\* The disturbances by the other transactions.
LEMMA TouchedSame ==
    ASSUME NEW T, NEW U, NEW o, DOMAIN T = DOMAIN U,
           \A t \in DOMAIN T : t # o => T[t] = U[t], NEW id
    PROVE  Touched(T, o, id) <=> Touched(U, o, id)
<1> DEFINE Hit(row) == row.state # "DONE" /\ \E i \in DOMAIN row.items :
                           row.items[i].id = id /\ row.items[i].state = "DONE"
<1>1. Touched(T, o, id) <=> \E t \in DOMAIN T : t # o /\ Hit(T[t])
  BY DEF Touched
<1>2. Touched(U, o, id) <=> \E t \in DOMAIN U : t # o /\ Hit(U[t])
  BY DEF Touched
<1> HIDE DEF Hit
<1> QED
  BY <1>1, <1>2

\* The items at work get other states, in the object and in the database.
LEMMA Rewritten ==
    ASSUME HsTypes, HsPlaced, AtWork, dbFile' = dbFile,
           hsRpmdb' \in [HistIds -> Evrs3 \cup {NoEvr}],
           UNCHANGED <<wanted, compsNow>>,
           NEW items \in Seq(HsItems), DOMAIN items = DOMAIN inProgress.items,
           \A k \in DOMAIN items : LET x == inProgress.items[k] IN
              /\ items[k].kind = x.kind /\ items[k].id = x.id /\ items[k].action = x.action
              /\ items[k].reason = x.reason
              /\ x.state = "DONE" => items[k].state = "DONE",
           \A k \in DOMAIN items : Present(items[k], hsRpmdb'),
           inProgress' = [inProgress EXCEPT !.items = items],
           trans' = [trans EXCEPT ![inProgress.id] = [trans[inProgress.id] EXCEPT !.items = items]]
    PROVE  /\ HsTypes' /\ HsPlaced' /\ AtWork' /\ inProgress'.items = items
           /\ \A kind, id, x : Tells(trans, kind, id, x) <=> Tells(trans', kind, id, x)
           /\ \A id : Touched(trans, RowAtWork, id) <=> Touched(trans', RowAtWork', id)
           /\ \A id, action : DoneNow(id, action) => DoneNow(id, action)'
<1> DEFINE n == inProgress.id
           row == [trans[n] EXCEPT !.items = items]
<1>1. /\ inProgress.begun /\ inProgress.there /\ dbFile = "open"
      /\ n = Len(trans) /\ n \in DOMAIN trans /\ RowAtWork = n
      /\ trans[n].state = "UNKNOWN" /\ trans[n].items = inProgress.items
  BY AtWorkIsLast
<1>2. /\ trans \in Seq(HsTrans) /\ trans[n] \in HsTrans /\ n \in Nat
      /\ inProgress \in [there : BOOLEAN, id : Nat, items : Seq(HsItems), begun : BOOLEAN]
  BY <1>1, TransAre DEF HsTypes
<1>3. row \in HsTrans /\ row.state = "UNKNOWN" /\ row.items = items
  BY <1>1, <1>2 DEF HsTrans
<1>4. /\ inProgress' \in [there : BOOLEAN, id : Nat, items : Seq(HsItems), begun : BOOLEAN]
      /\ inProgress'.items = items /\ inProgress'.id = n /\ inProgress'.begun /\ inProgress'.there
  BY <1>1, <1>2
<1> HIDE DEF row
<1>5. /\ trans' \in Seq(HsTrans) /\ Len(trans') = n /\ DOMAIN trans' = DOMAIN trans
      /\ trans'[n] = row /\ \A t \in DOMAIN trans : t # n => trans'[t] = trans[t]
  BY <1>1, <1>2, <1>3 DEF row
<1> HIDE DEF n
<1>6. HsTypes'
  BY <1>4, <1>5 DEF HsTypes
<1>7. AtWork' /\ RowAtWork' = n
  BY <1>3, <1>4, <1>5 DEF AtWork, RowAtWork
<1>8. \A kind, id, x : Tells(trans, kind, id, x) <=> Tells(trans', kind, id, x)
  <2>1. \A t \in DOMAIN trans' :
           \/ t \in DOMAIN trans /\ trans[t].state = trans'[t].state /\ trans[t].items = trans'[t].items
           \/ trans'[t].state # "DONE" /\ (t \in DOMAIN trans => trans[t].state # "DONE")
    BY <1>1, <1>3, <1>5
  <2>2. DOMAIN trans \subseteq DOMAIN trans'
    BY <1>5
  <2> QED
    BY <2>1, <2>2, SameTells
<1>9. \A id : Touched(trans, RowAtWork, id) <=> Touched(trans', RowAtWork', id)
  <2> TAKE id
  <2>1. Touched(trans, n, id) <=> Touched(trans', n, id)
    <3>1. DOMAIN trans' = DOMAIN trans /\ \A t \in DOMAIN trans : t # n => trans'[t] = trans[t]
      BY <1>5
    <3> QED
      BY <3>1, TouchedSame
  <2> QED
    BY <1>1, <1>7, <2>1
<1>10. \A id, action : DoneNow(id, action) => DoneNow(id, action)'
  BY <1>4, <1>7 DEF DoneNow
<1>11. HsPlaced'
  <2>1. Lone(items)
    <3>1. Lone(inProgress.items)
      BY DEF HsPlaced
    <3> QED
      BY <3>1 DEF Lone, Follower
  <2>2. \A k \in DOMAIN items : Repeats(items[k], trans')
    <3> TAKE k \in DOMAIN items
    <3>1. Repeats(inProgress.items[k], trans)
      BY DEF HsPlaced
    <3>2. Repeats(items[k], trans)
      BY <3>1 DEF Repeats
    <3> QED
      BY <1>8, <3>2, RepeatsKept
  <2>3. trans'[n].items = items /\ n = Len(trans') /\ n # 0
    BY <1>1, <1>2, <1>3, <1>5
  <2> QED
    BY <1>1, <1>4, <2>1, <2>2, <2>3 DEF HsPlaced
<1> QED
  BY <1>4, <1>6, <1>7, <1>8, <1>9, <1>10, <1>11

LEMMA RpmdbAfterIs ==
    ASSUME HsTypes, NEW x \in HsItems
    PROVE  /\ RpmdbAfter(x) \in [HistIds -> Evrs3 \cup {NoEvr}]
           /\ \A id \in HistIds : x.kind # "RPM" \/ x.id # id => RpmdbAfter(x)[id] = hsRpmdb[id]
           /\ Follower(x) \/ (x.kind = "RPM" /\ x.action = "REASON_CHANGE") => RpmdbAfter(x) = hsRpmdb
           /\ x.kind = "RPM" /\ x.action \in {"INSTALL", "UPGRADE", "DOWNGRADE", "REINSTALL"}
                 => RpmdbAfter(x)[x.id] # NoEvr
           /\ x.kind = "RPM" /\ x.action \in {"REMOVE", "OBSOLETED"} => RpmdbAfter(x)[x.id] = NoEvr
           /\ x.kind = "RPM" /\ x.action \notin {"INSTALL", "UPGRADE", "DOWNGRADE", "REINSTALL",
                                                "REMOVE", "OBSOLETED"} => RpmdbAfter(x) = hsRpmdb
<1>1. hsRpmdb \in [HistIds -> Evrs3 \cup {NoEvr}] /\ NoEvr \notin Evrs3
  BY HistoryAssumption DEF HsTypes
<1>2. x.kind = "RPM" => x.id \in HistIds /\ x.evr \in Evrs3
  BY ItemsAre
<1>3. CASE x.kind # "RPM"
  <2>1. RpmdbAfter(x) = hsRpmdb
    BY <1>3 DEF RpmdbAfter
  <2> QED
    BY <1>1, <1>3, <2>1 DEF Follower
<1>4. CASE x.kind = "RPM" /\ x.action \in {"INSTALL", "UPGRADE", "DOWNGRADE", "REINSTALL"}
  <2>1. RpmdbAfter(x) = [hsRpmdb EXCEPT ![x.id] = x.evr]
    BY <1>4 DEF RpmdbAfter
  <2> QED
    BY <1>1, <1>2, <1>4, <2>1 DEF Follower
<1>5. CASE x.kind = "RPM" /\ x.action \in {"REMOVE", "OBSOLETED"}
  <2>1. RpmdbAfter(x) = [hsRpmdb EXCEPT ![x.id] = NoEvr]
    BY <1>5 DEF RpmdbAfter
  <2> QED
    BY <1>1, <1>2, <1>5, <2>1 DEF Follower
<1>6. CASE x.kind = "RPM" /\ x.action \notin {"INSTALL", "UPGRADE", "DOWNGRADE", "REINSTALL",
                                             "REMOVE", "OBSOLETED"}
  <2>1. RpmdbAfter(x) = hsRpmdb
    BY <1>6 DEF RpmdbAfter
  <2> QED
    BY <1>1, <1>6, <2>1
<1> QED
  BY <1>3, <1>4, <1>5, <1>6

LEMMA SetItemDoneKept ==
    ASSUME HsInv, NEW i \in 1 .. MaxItems, SetItemDone(i)
    PROVE  HsInv'
<1> DEFINE n == inProgress.id
           x == inProgress.items[i]
           items == [inProgress.items EXCEPT ![i] = [x EXCEPT !.state = "DONE"]]
<1>1. HsTypes /\ HsPlaced
  BY DEF HsInv
<1>2. AtWork /\ i \in DOMAIN inProgress.items /\ x.state = "UNKNOWN"
  BY DEF SetItemDone, AtWork
<1>3. /\ n \in DOMAIN trans /\ trans[n].items = inProgress.items /\ dbFile = "open"
      /\ inProgress.items \in Seq(HsItems)
      /\ inProgress \in [there : BOOLEAN, id : Nat, items : Seq(HsItems), begun : BOOLEAN]
      /\ trans \in Seq(HsTrans) /\ trans[n] \in HsTrans
  BY <1>1, <1>2, AtWorkIsLast, TransAre DEF HsTypes
<1>4. \A k \in DOMAIN inProgress.items : inProgress.items[k] \in HsItems
  BY <1>3
<1>5. x \in HsItems
  BY <1>2, <1>4
<1>6. LET y == [x EXCEPT !.state = "DONE"]
      IN /\ y \in HsItems /\ y.kind = x.kind /\ y.id = x.id /\ y.evr = x.evr
         /\ y.action = x.action /\ y.reason = x.reason /\ y.members = x.members /\ y.state = "DONE"
  BY <1>5, ItemsAre DEF HsStates
<1>7. inProgress' = [inProgress EXCEPT !.items = items]
  BY DEF SetItemDone
<1>8. trans' = [trans EXCEPT ![n] = [trans[n] EXCEPT !.items = items]]
  <2>1. trans' = [trans EXCEPT ![n].items[i].state = "DONE"]
    BY DEF SetItemDone
  <2> QED
    BY <1>3, <2>1
<1>9. /\ items \in Seq(HsItems) /\ DOMAIN items = DOMAIN inProgress.items
      /\ items[i].kind = x.kind /\ items[i].id = x.id /\ items[i].action = x.action
      /\ items[i].reason = x.reason /\ items[i].state = "DONE"
      /\ \A k \in DOMAIN items : k # i => items[k] = inProgress.items[k]
  BY <1>2, <1>3, <1>6
<1>10. /\ hsRpmdb' = RpmdbAfter(x) /\ UNCHANGED <<wanted, compsNow, dbFile>>
  BY DEF SetItemDone
<1> HIDE DEF x, n, items
<1>11. hsRpmdb' \in [HistIds -> Evrs3 \cup {NoEvr}]
  BY <1>1, <1>5, <1>10, RpmdbAfterIs
<1>12. \A k \in DOMAIN items : k # i /\ items[k].kind = "RPM" /\ x.kind = "RPM" /\ items[k].id = x.id
          => Follower(items[k]) \/ Follower(x)
  BY <1>1, <1>2, <1>9 DEF HsPlaced, Lone, x
<1>13. \A k \in DOMAIN items : Present(items[k], hsRpmdb')
  <2> SUFFICES ASSUME NEW k \in DOMAIN items, items[k].kind = "RPM",
                      items[k].action \in {"UPGRADE", "DOWNGRADE", "REINSTALL"}
               PROVE  hsRpmdb'[items[k].id] # NoEvr
    BY DEF Present
  <2>1. CASE k = i
    BY <1>1, <1>5, <1>9, <1>10, <2>1, RpmdbAfterIs
  <2>2. CASE k # i
    <3>1. items[k] \in HsItems /\ items[k].id \in HistIds
      BY <1>4, <1>9, <2>2, ItemsAre
    <3>2. hsRpmdb[items[k].id] # NoEvr
      BY <1>1, <1>2, <1>9, <2>2 DEF HsPlaced, Present
    <3>3. x.kind # "RPM" \/ x.id # items[k].id \/ Follower(x)
      BY <1>12, <2>2 DEF Follower
    <3> QED
      BY <1>1, <1>5, <1>10, <3>1, <3>2, <3>3, RpmdbAfterIs
  <2> QED
    BY <2>1, <2>2
<1>14. /\ HsTypes' /\ HsPlaced' /\ AtWork' /\ inProgress'.items = items
       /\ \A kind, id, r : Tells(trans, kind, id, r) <=> Tells(trans', kind, id, r)
       /\ \A id : Touched(trans, RowAtWork, id) <=> Touched(trans', RowAtWork', id)
       /\ \A id, action : DoneNow(id, action) => DoneNow(id, action)'
  <2>1. \A k \in DOMAIN items : LET y == inProgress.items[k] IN
              /\ items[k].kind = y.kind /\ items[k].id = y.id /\ items[k].action = y.action
              /\ items[k].reason = y.reason
              /\ y.state = "DONE" => items[k].state = "DONE"
    BY <1>6, <1>9 DEF x
  <2> QED
    BY <1>1, <1>2, <1>7, <1>8, <1>9, <1>10, <1>11, <1>13, <2>1, Rewritten DEF n
<1>15. ASSUME NEW id \in HistIds, DoneNow(id, "REMOVE")'
       PROVE  hsRpmdb'[id] = NoEvr
  <2>1. PICK k \in DOMAIN items : /\ items[k].kind = "RPM" /\ items[k].id = id
                                  /\ items[k].action = "REMOVE" /\ items[k].state = "DONE"
    BY <1>14, <1>15 DEF DoneNow
  <2>2. CASE k = i
    BY <1>1, <1>5, <1>9, <1>10, <2>1, <2>2, RpmdbAfterIs
  <2>3. CASE k # i
    <3>1. DoneNow(id, "REMOVE")
      BY <1>2, <1>9, <2>1, <2>3 DEF DoneNow
    <3>2. hsRpmdb[id] = NoEvr
      BY <1>3, <3>1 DEF HsInv, HsTold
    <3>3. x.kind # "RPM" \/ x.id # id \/ Follower(x)
      BY <1>12, <2>1, <2>3 DEF Follower
    <3> QED
      BY <1>1, <1>5, <1>10, <3>2, <3>3, RpmdbAfterIs
  <2> QED
    BY <2>2, <2>3
<1>16. ASSUME NEW id \in HistIds, hsRpmdb[id] = NoEvr
       PROVE  hsRpmdb'[id] = NoEvr \/ DoneNow(id, "INSTALL")'
  <2>1. CASE x.kind # "RPM" \/ x.id # id
    BY <1>1, <1>5, <1>10, <1>16, <2>1, RpmdbAfterIs
  <2>2. CASE x.kind = "RPM" /\ x.id = id /\ x.action = "INSTALL"
    BY <1>2, <1>9, <1>14, <2>2 DEF DoneNow
  <2>3. CASE x.kind = "RPM" /\ x.id = id /\ x.action \in {"UPGRADE", "DOWNGRADE", "REINSTALL"}
    BY <1>1, <1>2, <1>16, <2>3 DEF HsPlaced, Present, x
  <2>4. CASE x.kind = "RPM" /\ x.id = id
               /\ x.action \notin {"INSTALL", "UPGRADE", "DOWNGRADE", "REINSTALL"}
    BY <1>1, <1>5, <1>10, <1>16, <2>4, RpmdbAfterIs
  <2> QED
    BY <2>1, <2>2, <2>3, <2>4
<1>17. dbFile # "none" /\ dbFile' # "none"
  BY <1>3, <1>10
<1> QED
  BY <1>10, <1>14, <1>15, <1>16, <1>17, HsKept

LEMMA FailItemsKept ==
    ASSUME HsInv, FailItems
    PROVE  HsInv'
<1> DEFINE n == inProgress.id
           old == inProgress.items
           items == [k \in DOMAIN old |->
                       [old[k] EXCEPT !.state = IF old[k].state = "UNKNOWN" THEN "ERROR" ELSE old[k].state]]
<1>1. HsTypes /\ HsPlaced
  BY DEF HsInv
<1>2. AtWork
  BY DEF FailItems, AtWork
<1>3. /\ n \in DOMAIN trans /\ trans[n].items = old /\ dbFile = "open"
      /\ old \in Seq(HsItems)
      /\ inProgress \in [there : BOOLEAN, id : Nat, items : Seq(HsItems), begun : BOOLEAN]
      /\ trans \in Seq(HsTrans) /\ trans[n] \in HsTrans
  BY <1>1, <1>2, AtWorkIsLast, TransAre DEF HsTypes
<1>4. ASSUME NEW k \in DOMAIN old
      PROVE  /\ items[k] \in HsItems
             /\ items[k].kind = old[k].kind /\ items[k].id = old[k].id /\ items[k].action = old[k].action
             /\ items[k].reason = old[k].reason
             /\ items[k].state = "DONE" <=> old[k].state = "DONE"
  <2> DEFINE st == IF old[k].state = "UNKNOWN" THEN "ERROR" ELSE old[k].state
  <2>1. old[k] \in HsItems /\ st \in HsStates
    BY <1>3, ItemsAre DEF HsStates
  <2>2. items[k] = [old[k] EXCEPT !.state = st]
    OBVIOUS
  <2>3. st = "DONE" <=> old[k].state = "DONE"
    OBVIOUS
  <2> HIDE DEF st, items, old
  <2>4. LET y == [old[k] EXCEPT !.state = st]
        IN /\ y \in HsItems /\ y.kind = old[k].kind /\ y.id = old[k].id
           /\ y.action = old[k].action /\ y.reason = old[k].reason /\ y.state = st
    BY <2>1, ItemsAre
  <2> QED
    BY <2>2, <2>3, <2>4
<1>5. items \in Seq(HsItems) /\ DOMAIN items = DOMAIN old
  <2>1. DOMAIN items = 1 .. Len(old) /\ Len(old) \in Nat
    BY <1>3
  <2>2. \A k \in 1 .. Len(old) : items[k] \in HsItems
    BY <1>3, <1>4
  <2> HIDE DEF old
  <2>3. items = [k \in 1 .. Len(old) |-> items[k]]
    BY <2>1
  <2> HIDE DEF items
  <2>4. items \in [1 .. Len(old) -> HsItems]
    BY <2>2, <2>3
  <2>5. items \in Seq(HsItems)
    BY <2>1, <2>4
  <2> QED
    BY <1>3, <2>1, <2>5
<1>6. inProgress' = [inProgress EXCEPT !.items = items]
  BY DEF FailItems
<1>7. trans' = [trans EXCEPT ![n] = [trans[n] EXCEPT !.items = items]]
  BY <1>3 DEF FailItems
<1>8. UNCHANGED <<hsRpmdb, wanted, compsNow, dbFile>>
  BY DEF FailItems
<1>9. \A k \in DOMAIN items : Present(old[k], hsRpmdb)
  BY <1>1, <1>2, <1>5 DEF HsPlaced
<1> HIDE DEF items, old, n
<1>10. \A k \in DOMAIN items : Present(items[k], hsRpmdb')
  BY <1>4, <1>5, <1>8, <1>9 DEF Present
<1>11. /\ HsTypes' /\ HsPlaced' /\ AtWork' /\ inProgress'.items = items
       /\ \A kind, id, r : Tells(trans, kind, id, r) <=> Tells(trans', kind, id, r)
       /\ \A id : Touched(trans, RowAtWork, id) <=> Touched(trans', RowAtWork', id)
       /\ \A id, action : DoneNow(id, action) => DoneNow(id, action)'
  BY <1>1, <1>2, <1>4, <1>5, <1>6, <1>7, <1>8, <1>10, Rewritten DEF n, old, HsTypes
<1>12. ASSUME NEW id \in HistIds, DoneNow(id, "REMOVE")'
       PROVE  hsRpmdb'[id] = NoEvr
  <2>1. DoneNow(id, "REMOVE")
    BY <1>2, <1>4, <1>5, <1>11, <1>12 DEF DoneNow, old
  <2> QED
    BY <1>3, <1>8, <2>1 DEF HsInv, HsTold
<1>13. dbFile # "none" /\ dbFile' # "none"
  BY <1>3, <1>8
<1> QED
  BY <1>8, <1>11, <1>12, <1>13, HsKept

LEMMA BeginKept ==
    ASSUME HsInv, BeginTransaction
    PROVE  HsInv'
<1> DEFINE n == Len(trans) + 1
           row == [state |-> "UNKNOWN", items |-> inProgress.items]
<1>1. HsTypes /\ HsPlaced
  BY DEF HsInv
<1>2. /\ inProgress.there /\ ~ inProgress.begun /\ dbFile = "open"
      /\ UNCHANGED <<hsRpmdb, wanted, compsNow, dbFile>>
  BY <1>1 DEF BeginTransaction, HsPlaced
<1>3. /\ trans \in Seq(HsTrans) /\ inProgress.items \in Seq(HsItems) /\ Len(trans) \in Nat
      /\ inProgress \in [there : BOOLEAN, id : Nat, items : Seq(HsItems), begun : BOOLEAN]
  BY <1>1 DEF HsTypes
<1>4. row \in HsTrans /\ row.state = "UNKNOWN" /\ row.items = inProgress.items
  BY <1>3 DEF HsTrans, HsStates
<1>5. trans' = Append(trans, row)
  BY DEF BeginTransaction
<1>6. /\ inProgress' = [inProgress EXCEPT !.begun = TRUE, !.id = n]
  BY DEF BeginTransaction
<1> HIDE DEF row
<1>7. /\ trans' \in Seq(HsTrans) /\ Len(trans') = n /\ DOMAIN trans' = 1 .. n /\ trans'[n] = row
      /\ DOMAIN trans = 1 .. Len(trans) /\ \A t \in DOMAIN trans : trans'[t] = trans[t]
      /\ n \in Nat /\ n # 0 /\ n \notin DOMAIN trans
      /\ \A t \in 1 .. n : t = n \/ t \in DOMAIN trans
  BY <1>3, <1>4, <1>5
<1>8. /\ inProgress' \in [there : BOOLEAN, id : Nat, items : Seq(HsItems), begun : BOOLEAN]
      /\ inProgress'.items = inProgress.items /\ inProgress'.id = n /\ inProgress'.begun
      /\ inProgress'.there
  BY <1>2, <1>3, <1>6, <1>7
<1> HIDE DEF n
<1>9. HsTypes'
  BY <1>1, <1>2, <1>7, <1>8 DEF HsTypes
<1>10. AtWork' /\ RowAtWork' = n /\ ~ AtWork /\ RowAtWork = 0
  BY <1>2, <1>4, <1>7, <1>8 DEF AtWork, RowAtWork
<1>11. \A kind, id, x : Tells(trans, kind, id, x) <=> Tells(trans', kind, id, x)
  <2>1. \A t \in DOMAIN trans' :
           \/ t \in DOMAIN trans /\ trans[t].state = trans'[t].state /\ trans[t].items = trans'[t].items
           \/ trans'[t].state # "DONE" /\ (t \in DOMAIN trans => trans[t].state # "DONE")
    BY <1>4, <1>7
  <2>2. DOMAIN trans \subseteq DOMAIN trans'
    BY <1>3, <1>7
  <2> QED
    BY <2>1, <2>2, SameTells
<1>12. \A i \in DOMAIN inProgress.items : inProgress.items[i].state = "UNKNOWN"
  BY <1>1, <1>2 DEF HsPlaced
<1>13. \A id, action : ~ DoneNow(id, action) /\ ~ DoneNow(id, action)'
  BY <1>8, <1>10, <1>12 DEF DoneNow
<1>14. ASSUME NEW id, Touched(trans, 0, id)
       PROVE  Touched(trans', n, id)
  <2>1. PICK t \in DOMAIN trans : trans[t].state # "DONE" /\ \E i \in DOMAIN trans[t].items :
                      trans[t].items[i].id = id /\ trans[t].items[i].state = "DONE"
    BY <1>14 DEF Touched
  <2>2. t \in DOMAIN trans' /\ t # n /\ trans'[t] = trans[t]
    BY <1>7
  <2> QED
    BY <2>1, <2>2 DEF Touched
<1>15. HsPlaced'
  <2>1. \A i \in DOMAIN inProgress.items : /\ Repeats(inProgress.items[i], trans')
                                           /\ Present(inProgress.items[i], hsRpmdb')
    BY <1>1, <1>2, <1>11, RepeatsKept DEF HsPlaced
  <2> QED
    BY <1>1, <1>2, <1>4, <1>7, <1>8, <2>1 DEF HsPlaced
<1> QED
  BY <1>2, <1>9, <1>10, <1>11, <1>13, <1>14, <1>15, HsKept

\* Of the items that decide about one name there is one.
LEMMA OneDecides ==
    ASSUME NEW items \in Seq(HsItems), Lone(items), NEW kind, NEW id,
           NEW i \in Of(items, kind, id, Skipped(kind))
    PROVE  Of(items, kind, id, Skipped(kind)) = {i}
<1>1. ASSUME NEW j \in Of(items, kind, id, Skipped(kind))
      PROVE  j = i
  <2>1. /\ i \in DOMAIN items /\ items[i].kind = kind /\ items[i].id = id /\ items[i].action \notin Skipped(kind)
        /\ j \in DOMAIN items /\ items[j].kind = kind /\ items[j].id = id /\ items[j].action \notin Skipped(kind)
    BY <1>1 DEF Of
  <2>2. ~ Follower(items[i]) /\ ~ Follower(items[j])
    BY <2>1 DEF Follower, Skipped
  <2> QED
    BY <2>1, <2>2 DEF Lone
<1> QED
  BY <1>1

LEMMA EndKept ==
    ASSUME HsInv, EndTransaction
    PROVE  HsInv'
<1> DEFINE n == inProgress.id
           items == inProgress.items
           NewOf(id) == {i \in DOMAIN items : LET item == items[i] IN
                            item.kind = "RPM" /\ item.id = id /\ item.action \in {"INSTALL", "REASON_CHANGE"}}
           NewComps(c) == {i \in DOMAIN items : items[i].kind # "RPM" /\ items[i].id = c}
           Own(kind, id) == Of(items, kind, id, Skipped(kind))
<1>1. HsTypes /\ HsPlaced
  BY DEF HsInv
<1>2. AtWork
  BY DEF EndTransaction, AtWork
<1>3. /\ n \in DOMAIN trans /\ n = Len(trans) /\ n \in Nat /\ n # 0 /\ DOMAIN trans = 1 .. n
      /\ trans[n].items = items /\ trans[n].state = "UNKNOWN" /\ RowAtWork = n
      /\ items \in Seq(HsItems) /\ trans \in Seq(HsTrans) /\ trans[n] \in HsTrans /\ dbFile = "open"
      /\ inProgress \in [there : BOOLEAN, id : Nat, items : Seq(HsItems), begun : BOOLEAN]
  BY <1>1, <1>2, AtWorkIsLast, TransAre DEF HsTypes
<1>4. \A k \in DOMAIN items : items[k] \in HsItems
  BY <1>3
<1>5. Lone(items) /\ \A k \in DOMAIN items : Repeats(items[k], trans)
  BY <1>1, <1>2 DEF HsPlaced
<1>6. /\ UNCHANGED <<hsRpmdb, dbFile, inProgress>>
      /\ trans' = [trans EXCEPT ![n] = [trans[n] EXCEPT !.state = Outcome]]
  BY DEF EndTransaction
<1>7. \A id \in HistIds : wanted'[id] = IF Outcome = "ERROR" \/ NewOf(id) = {} THEN wanted[id]
                                       ELSE items[CHOOSE i \in NewOf(id) : TRUE].reason
  BY DEF EndTransaction
<1>8. wanted' = [id \in HistIds |-> wanted'[id]]
  BY DEF EndTransaction
<1>9. /\ DOMAIN compsNow = GroupIds \cup EnvIds /\ compsNow \in [GroupIds \cup EnvIds -> HsMembers]
      /\ wanted \in [HistIds -> HsReasons]
  BY <1>1 DEF HsTypes
<1>10. \A c \in GroupIds \cup EnvIds :
          compsNow'[c] = IF Outcome = "ERROR" \/ NewComps(c) = {} THEN compsNow[c]
                         ELSE items[CHOOSE i \in NewComps(c) : TRUE].members
  BY <1>9 DEF EndTransaction
<1>11. compsNow' = [c \in GroupIds \cup EnvIds |-> compsNow'[c]]
  BY <1>9 DEF EndTransaction
<1>12. \A id : NewOf(id) \subseteq DOMAIN items /\ \A c : NewComps(c) \subseteq DOMAIN items
  OBVIOUS
<1>13. wanted' \in [HistIds -> HsReasons]
  <2>1. ASSUME NEW id \in HistIds PROVE wanted'[id] \in HsReasons
    <3> HIDE DEF NewOf, items
    <3>1. CASE Outcome = "ERROR" \/ NewOf(id) = {}
      BY <1>7, <1>9, <3>1
    <3>2. CASE ~ (Outcome = "ERROR" \/ NewOf(id) = {})
      <4> DEFINE i == CHOOSE i \in NewOf(id) : TRUE
      <4>1. i \in NewOf(id)
        BY <3>2
      <4>2. items[i] \in HsItems
        BY <1>4, <1>12, <4>1
      <4>3. wanted'[id] = items[i].reason
        BY <1>7, <3>2
      <4> QED
        BY <4>2, <4>3, ItemsAre
    <3> QED
      BY <3>1, <3>2
  <2> QED
    BY <1>8, <2>1
<1>14. compsNow' \in [GroupIds \cup EnvIds -> HsMembers]
  <2>1. ASSUME NEW c \in GroupIds \cup EnvIds PROVE compsNow'[c] \in HsMembers
    <3>1. CASE Outcome = "ERROR" \/ NewComps(c) = {}
      <4> HIDE DEF NewComps, items
      <4> QED
        BY <1>9, <1>10, <3>1
    <3>2. CASE ~ (Outcome = "ERROR" \/ NewComps(c) = {})
      <4> DEFINE i == CHOOSE i \in NewComps(c) : TRUE
      <4>1. i \in NewComps(c)
        BY <3>2
      <4>2. items[i] \in HsItems /\ items[i].kind # "RPM"
        BY <1>4, <4>1
      <4> HIDE DEF NewComps, items
      <4>3. compsNow'[c] = items[i].members
        BY <1>10, <3>2
      <4> QED
        BY <4>2, <4>3, ItemsAre
    <3> QED
      BY <3>1, <3>2
  <2> QED
    BY <1>11, <2>1
<1>15. Outcome \in {"DONE", "ERROR"}
  BY DEF Outcome
<1> DEFINE row == [trans[n] EXCEPT !.state = Outcome]
<1>16. row \in HsTrans /\ row.state = Outcome /\ row.items = items
  BY <1>3, <1>15 DEF HsTrans, HsStates
<1> HIDE DEF row
<1>17. /\ trans' \in Seq(HsTrans) /\ Len(trans') = n /\ DOMAIN trans' = DOMAIN trans /\ trans'[n] = row
       /\ \A t \in DOMAIN trans : t # n => trans'[t] = trans[t]
  BY <1>3, <1>6, <1>16 DEF row
<1>18. HsTypes'
  BY <1>1, <1>6, <1>13, <1>14, <1>17 DEF HsTypes
<1>19. ~ AtWork' /\ RowAtWork' = 0 /\ \A id, action : ~ DoneNow(id, action)'
  <2>1. ~ AtWork'
    BY <1>6, <1>15, <1>16, <1>17 DEF AtWork
  <2> QED
    BY <2>1 DEF RowAtWork, DoneNow
<1>20. HsPlaced'
  <2>1. inProgress.begun /\ inProgress.there
    BY <1>1, <1>2, AtWorkIsLast
  <2> QED
    BY <1>1, <1>3, <1>6, <1>16, <1>17, <1>19, <2>1 DEF HsPlaced
<1>21. \A id : ~ Touched(trans', 0, id) =>
          /\ ~ Touched(trans, n, id)
          /\ ~ (Outcome = "ERROR" /\ \E i \in DOMAIN items : items[i].id = id /\ items[i].state = "DONE")
  <2> SUFFICES ASSUME NEW id, ~ Touched(trans', 0, id)
               PROVE  /\ ~ Touched(trans, n, id)
                      /\ ~ (Outcome = "ERROR" /\ \E i \in DOMAIN items :
                                                    items[i].id = id /\ items[i].state = "DONE")
    OBVIOUS
  <2>1. ~ Touched(trans', n, id)
    BY <1>3, <1>17 DEF Touched
  <2>2. ~ Touched(trans, n, id)
    BY <1>17, <2>1, TouchedSame
  <2>3. ASSUME Outcome = "ERROR", NEW i \in DOMAIN items, items[i].id = id, items[i].state = "DONE"
        PROVE  FALSE
    <3>1. /\ n \in DOMAIN trans' /\ n # 0 /\ trans'[n].state # "DONE"
          /\ trans'[n].items = items
      BY <1>3, <1>16, <1>17, <2>3
    <3> HIDE DEF items, n
    <3> QED
      BY <2>3, <3>1 DEF Touched
  <2> QED
    BY <2>2, <2>3
<1> HIDE DEF NewOf, NewComps, n, items, Own
<1>22. CASE Outcome = "ERROR"
  <2>1. \A kind, id, x : Tells(trans, kind, id, x) <=> Tells(trans', kind, id, x)
    <3>1. \A t \in DOMAIN trans' :
             \/ t \in DOMAIN trans /\ trans[t].state = trans'[t].state /\ trans[t].items = trans'[t].items
             \/ trans'[t].state # "DONE" /\ (t \in DOMAIN trans => trans[t].state # "DONE")
      BY <1>3, <1>16, <1>17, <1>22
    <3>2. DOMAIN trans \subseteq DOMAIN trans'
      BY <1>17
    <3> QED
      BY <3>1, <3>2, SameTells
  <2>2. wanted' = wanted /\ compsNow' = compsNow
    BY <1>7, <1>8, <1>9, <1>10, <1>11, <1>22
  <2>3. \A id \in HistIds : ~ Touched(trans', RowAtWork', id) => ~ DoneNow(id, "INSTALL")
    BY <1>19, <1>21, <1>22 DEF DoneNow, items
  <2> QED
    BY <1>3, <1>6, <1>18, <1>19, <1>20, <1>21, <2>1, <2>2, <2>3, HsKept
<1>23. CASE Outcome = "DONE"
  <2>1. \A i \in DOMAIN items : items[i].state = "DONE"
    <3>1. \A i \in DOMAIN items : items[i].state # "UNKNOWN" /\ items[i].state # "ERROR"
      BY <1>23 DEF EndTransaction, AllSet, Outcome, items
    <3>2. \A i \in DOMAIN items : items[i].state \in HsStates
      BY <1>4, ItemsAre
    <3> QED
      BY <3>1, <3>2 DEF HsStates
  <2>2. ASSUME NEW kind, NEW id, NEW x
        PROVE  /\ (Own(kind, id) = {} /\ Tells(trans, kind, id, x)) => Tells(trans', kind, id, x)
               /\ (Own(kind, id) # {} /\ \A i \in Own(kind, id) : Answer(items[i]) = x)
                     => Tells(trans', kind, id, x)
    <3>1. /\ DOMAIN trans' \subseteq Nat /\ n \in DOMAIN trans' /\ trans'[n].state = "DONE"
          /\ \A t \in DOMAIN trans' : t <= n
          /\ trans[n].state # "DONE"
          /\ \A t \in DOMAIN trans' \ {n} : t \in DOMAIN trans /\ trans[t] = trans'[t]
          /\ DOMAIN trans \subseteq DOMAIN trans'
      BY <1>3, <1>16, <1>17, <1>23
    <3>2. trans'[n].items = items
      BY <1>16, <1>17
    <3>3. LET own == Of(trans'[n].items, kind, id, Skipped(kind)) IN
          /\ (own = {} /\ Tells(trans, kind, id, x)) => Tells(trans', kind, id, x)
          /\ (own # {} /\ \A i \in own : Answer(trans'[n].items[i]) = x) => Tells(trans', kind, id, x)
      BY <3>1, DoneAdded
    <3> QED
      BY <3>2, <3>3 DEF Own
  <2>3. ASSUME NEW id \in HistIds, ~ Touched(trans', RowAtWork', id), hsRpmdb[id] # NoEvr
        PROVE  Tells(trans', "RPM", id, wanted'[id])
    <3>1. ~ Touched(trans, RowAtWork, id)
      BY <1>3, <1>19, <1>21, <2>3
    <3>2. HsTold(id)
      BY <1>3 DEF HsInv
    <3>3. DoneNow(id, "INSTALL") \/ Tells(trans, "RPM", id, wanted[id])
      BY <2>3, <3>1, <3>2 DEF HsTold
    <3>4. \A i \in NewOf(id) : i \in Own("RPM", id)
      BY DEF NewOf, Own, Of, Skipped
    <3>5. CASE Own("RPM", id) = {}
      <4>1. ~ DoneNow(id, "INSTALL")
        BY <3>5 DEF DoneNow, Own, Of, Skipped, items
      <4>2. wanted'[id] = wanted[id]
        BY <1>7, <3>4, <3>5
      <4> QED
        BY <2>2, <3>3, <3>5, <4>1, <4>2
    <3>6. ASSUME NEW i \in Own("RPM", id)
          PROVE  Tells(trans', "RPM", id, wanted'[id])
      <4>1. Own("RPM", id) = {i}
        BY <1>3, <1>5, <3>6, OneDecides DEF Own
      <4>2. /\ i \in DOMAIN items /\ items[i].kind = "RPM" /\ items[i].id = id
            /\ items[i].action \notin Skipped("RPM") /\ items[i].state = "DONE"
        BY <2>1, <3>6 DEF Own, Of
      <4>3. items[i].action # "REMOVE"
        <5>1. SUFFICES ASSUME items[i].action = "REMOVE" PROVE FALSE
          OBVIOUS
        <5>2. DoneNow(id, "REMOVE")
          BY <1>2, <4>2, <5>1 DEF DoneNow, items
        <5> QED
          BY <2>3, <3>2, <5>2 DEF HsTold
      <4>4. Answer(items[i]) = items[i].reason
        BY <4>2, <4>3 DEF Answer
      <4>5. CASE items[i].action \in {"INSTALL", "REASON_CHANGE"}
        <5>1. i \in NewOf(id)
          BY <4>2, <4>5 DEF NewOf
        <5>2. NewOf(id) = {i}
          BY <3>4, <4>1, <5>1
        <5>3. wanted'[id] = items[i].reason
          BY <1>7, <1>23, <5>2
        <5> QED
          BY <2>2, <4>1, <4>4, <5>3
      <4>6. CASE items[i].action \notin {"INSTALL", "REASON_CHANGE"}
        <5>1. NewOf(id) = {}
          <6>1. \A j \in NewOf(id) : j = i /\ items[j].action \in {"INSTALL", "REASON_CHANGE"}
            BY <3>4, <4>1 DEF NewOf
          <6> QED
            BY <4>6, <6>1
        <5>2. wanted'[id] = wanted[id]
          BY <1>7, <5>1
        <5>3. ~ DoneNow(id, "INSTALL")
          <6>1. SUFFICES ASSUME DoneNow(id, "INSTALL") PROVE FALSE
            OBVIOUS
          <6>2. PICK j \in DOMAIN items : items[j].kind = "RPM" /\ items[j].id = id
                                            /\ items[j].action = "INSTALL"
            BY <6>1 DEF DoneNow, items
          <6>3. j \in NewOf(id)
            BY <6>2 DEF NewOf
          <6> QED
            BY <5>1, <6>3
        <5>4. Tells(trans, "RPM", id, wanted[id])
          BY <3>3, <5>3
        <5>5. items[i].reason = wanted[id]
          BY <1>5, <1>9, <4>2, <4>6, <5>4 DEF Repeats
        <5> QED
          BY <2>2, <4>1, <4>4, <5>2, <5>5
      <4> QED
        BY <4>5, <4>6
    <3> QED
      BY <3>5, <3>6
  <2>4. ASSUME NEW id \in HistIds PROVE HsTold(id)'
    BY <1>6, <1>19, <2>3 DEF HsTold
  <2>5. ASSUME NEW kind \in {"GROUP", "ENVIRONMENT"}, NEW c \in GroupIds \cup EnvIds,
               kind = "GROUP" <=> c \in GroupIds, Tells(trans, kind, c, compsNow[c])
        PROVE  Tells(trans', kind, c, compsNow'[c])
    <3>1. NewComps(c) = Own(kind, c)
      <4>1. ASSUME NEW i \in DOMAIN items
            PROVE  i \in NewComps(c) <=> i \in Own(kind, c)
        <5>1. /\ items[i].kind \in {"RPM", "GROUP", "ENVIRONMENT"}
              /\ items[i].kind = "GROUP" => items[i].id \in GroupIds
              /\ items[i].kind = "ENVIRONMENT" => items[i].id \in EnvIds
              /\ items[i].kind # "RPM" => items[i].action \in {"INSTALL", "UPGRADE", "REMOVE"}
          BY <1>4, <4>1, ItemsAre
        <5>2. items[i].kind # "RPM" /\ items[i].id = c => items[i].kind = kind
          BY <2>5, <5>1, HistoryAssumption
        <5> QED
          BY <2>5, <4>1, <5>1, <5>2 DEF NewComps, Own, Of, Skipped
      <4>2. NewComps(c) \subseteq DOMAIN items /\ Own(kind, c) \subseteq DOMAIN items
        BY DEF NewComps, Own, Of
      <4> QED
        BY <4>1, <4>2
    <3>2. CASE Own(kind, c) = {}
      <4>1. compsNow'[c] = compsNow[c]
        BY <1>10, <3>1, <3>2
      <4> QED
        BY <2>2, <2>5, <3>2, <4>1
    <3>3. ASSUME NEW i \in Own(kind, c)
          PROVE  Tells(trans', kind, c, compsNow'[c])
      <4>1. Own(kind, c) = {i}
        BY <1>3, <1>5, <3>3, OneDecides DEF Own
      <4>2. compsNow'[c] = items[i].members
        BY <1>10, <1>23, <3>1, <4>1
      <4>3. Answer(items[i]) = items[i].members
        BY <2>5, <3>3 DEF Own, Of, Answer
      <4> QED
        BY <2>2, <4>1, <4>2, <4>3
    <3> QED
      BY <3>2, <3>3
  <2>6. \A g \in GroupIds : Tells(trans', "GROUP", g, compsNow'[g])
    BY <1>3, <2>5 DEF HsInv
  <2>7. \A e \in EnvIds : Tells(trans', "ENVIRONMENT", e, compsNow'[e])
    <3> TAKE e \in EnvIds
    <3>1. e \notin GroupIds /\ e \in GroupIds \cup EnvIds
      BY HistoryAssumption
    <3>2. Tells(trans, "ENVIRONMENT", e, compsNow[e])
      BY <1>3 DEF HsInv
    <3> QED
      BY <2>5, <3>1, <3>2
  <2> QED
    BY <1>18, <1>20, <2>4, <2>6, <2>7 DEF HsInv
<1> QED
  BY <1>15, <1>22, <1>23

LEMMA ResetKept ==
    ASSUME HsInv, ResetDatabase
    PROVE  HsInv'
<1>1. HsTypes /\ HsPlaced
  BY DEF HsInv
<1>2. /\ ~ inProgress.there /\ ~ inProgress.begun /\ inProgress.items = << >> /\ dbFile = "open"
      /\ UNCHANGED <<hsRpmdb, dbFile, inProgress>>
      /\ trans' = << >> /\ wanted' = [id \in HistIds |-> "UNKNOWN"] /\ compsNow' = NoComps
  BY <1>1 DEF ResetDatabase, HsPlaced
<1>3. NoComps = [c \in GroupIds \cup EnvIds |-> {}] /\ {} \in HsMembers
  BY DEF NoComps, HsMembers
<1>4. << >> \in Seq(HsTrans) /\ DOMAIN << >> = {}
  OBVIOUS
<1>5. HsTypes'
  BY <1>1, <1>2, <1>3, <1>4, ReasonsRanked DEF HsTypes
<1>6. HsPlaced'
  BY <1>1, <1>2 DEF HsPlaced, AtWork
<1>7. \A kind, id : Tells(trans', kind, id, NoAnswer(kind))
  BY <1>2, <1>4 DEF Tells
<1>8. /\ \A id \in HistIds : Tells(trans', "RPM", id, wanted'[id])
      /\ \A g \in GroupIds : Tells(trans', "GROUP", g, compsNow'[g])
      /\ \A e \in EnvIds : Tells(trans', "ENVIRONMENT", e, compsNow'[e])
  BY <1>2, <1>3, <1>7 DEF NoAnswer
<1>9. \A id : ~ DoneNow(id, "REMOVE")'
  BY <1>2 DEF DoneNow, AtWork
<1> QED
  BY <1>5, <1>6, <1>8, <1>9 DEF HsInv, HsTold


\* Adding an item whose name is not there yet.
LEMMA AddedFresh ==
    ASSUME NEW items, NEW x, \A i \in DOMAIN items : ~ SameItem(items[i], x)
    PROVE  AddItem(items, x) = Append(items, x)
  BY DEF AddItem

RunOf(items, new, r) ==
    r = [k \in 0 .. Len(new) |-> IF k = 0 THEN items ELSE AddItem(r[k - 1], new[k])]

LEMMA AllAddedIs ==
    ASSUME NEW items \in Seq(HsItems), NEW new \in Seq(HsItems), Len(new) \in {1, 2},
           \A i \in DOMAIN items : <<items[i].kind, items[i].id>> # <<new[1].kind, new[1].id>>,
           Len(new) = 2 => /\ new[2].kind = new[1].kind /\ new[2].id = new[1].id
                           /\ new[2].action # new[1].action
    PROVE  AllAdded(items, new) = items \o new
<1> DEFINE r == CHOOSE r : RunOf(items, new, r)
           one == Append(items, new[1])
           w == [k \in 0 .. Len(new) |-> IF k = 0 THEN items
                                         ELSE IF k = 1 THEN one ELSE Append(one, new[2])]
<1>1. AllAdded(items, new) = r[Len(new)]
  BY DEF AllAdded, RunOf
<1>2. /\ DOMAIN items = 1 .. Len(items) /\ Len(items) \in Nat /\ new[1] \in HsItems
      /\ Len(new) = 2 => new[2] \in HsItems
      /\ \A i \in DOMAIN items : items[i] \in HsItems
  OBVIOUS
<1>3. AddItem(items, new[1]) = one
  BY <1>2, AddedFresh DEF SameItem
<1>4. /\ one \in Seq(HsItems) /\ DOMAIN one = 1 .. Len(items) + 1 /\ one[Len(items) + 1] = new[1]
      /\ \A i \in DOMAIN items : one[i] = items[i]
  BY <1>2
<1>5. ASSUME Len(new) = 2 PROVE AddItem(one, new[2]) = Append(one, new[2])
  <2>1. ASSUME NEW i \in DOMAIN one PROVE ~ SameItem(one[i], new[2])
    <3>1. i \in DOMAIN items \/ i = Len(items) + 1
      BY <1>2, <1>4
    <3>2. CASE i \in DOMAIN items
      BY <1>4, <1>5, <3>2 DEF SameItem
    <3>3. CASE i = Len(items) + 1
      BY <1>4, <1>5, <3>3 DEF SameItem
    <3> QED
      BY <3>1, <3>2, <3>3
  <2> HIDE DEF one
  <2> QED
    BY <2>1, AddedFresh
<1>6. RunOf(items, new, w)
  <2>1. \A k \in 0 .. Len(new) : w[k] = IF k = 0 THEN items ELSE AddItem(w[k - 1], new[k])
    <3> HIDE DEF one
    <3>1. CASE Len(new) = 1
      BY <1>3, <3>1
    <3>2. CASE Len(new) = 2
      <4>1. w[0] = items /\ w[1] = one /\ w[2] = Append(one, new[2])
        BY <3>2
      <4> HIDE DEF w
      <4> QED
        <5>1. w[1] = AddItem(w[0], new[1]) /\ w[2] = AddItem(w[1], new[2])
          BY <1>3, <1>5, <3>2, <4>1
        <5>2. \A k \in 0 .. 2 : k = 0 \/ k = 1 \/ k = 2
          OBVIOUS
        <5>3. 1 - 1 = 0 /\ 2 - 1 = 1
          OBVIOUS
        <5> QED
          BY <3>2, <4>1, <5>1, <5>2, <5>3
    <3> QED
      BY <3>1, <3>2
  <2> QED
    BY <2>1 DEF RunOf
<1>7. RunOf(items, new, r)
  BY <1>6
<1> HIDE DEF r, w, one
<1>8. r[0] = items /\ r[1] = one /\ (Len(new) = 2 => r[2] = Append(one, new[2]))
  <2>1. r[0] = items /\ r[1] = AddItem(r[0], new[1]) /\ (Len(new) = 2 => r[2] = AddItem(r[1], new[2]))
    <3>1. CASE Len(new) = 1
      BY <1>7, <3>1 DEF RunOf
    <3>2. CASE Len(new) = 2
      BY <1>7, <3>2 DEF RunOf
    <3> QED
      BY <3>1, <3>2
  <2> QED
    BY <1>3, <1>5, <2>1
<1>9. CASE Len(new) = 1
  <2>1. new = <<new[1]>>
    BY <1>9
  <2>2. Append(items, new[1]) = items \o <<new[1]>>
    OBVIOUS
  <2> QED
    BY <1>1, <1>8, <1>9, <2>1, <2>2 DEF one
<1>10. CASE Len(new) = 2
  <2>1. new = <<new[1], new[2]>>
    BY <1>10
  <2>2. Append(Append(items, new[1]), new[2]) = items \o <<new[1], new[2]>>
    BY <1>2, <1>10
  <2> QED
    BY <1>1, <1>8, <1>10, <2>1, <2>2 DEF one
<1> QED
  BY <1>9, <1>10

\* The items of one change.
Change(new) ==
    /\ new \in Seq(HsItems) /\ Len(new) \in {1, 2}
    /\ Len(new) = 2 => /\ new[2].kind = new[1].kind /\ new[2].id = new[1].id
                       /\ new[2].action # new[1].action /\ Follower(new[2])
    /\ \A i \in 1 .. Len(new) : new[i].state = "UNKNOWN" /\ Repeats(new[i], trans) /\ Present(new[i], hsRpmdb)

LEMMA ItemsAdded ==
    ASSUME HsInv, NEW new, AddItems(new), Change(new)
    PROVE  HsInv'
<1> DEFINE old == inProgress.items
           items == old \o new
           n == Len(old)
<1>1. HsTypes /\ HsPlaced
  BY DEF HsInv
<1>2. /\ inProgress.there /\ ~ inProgress.begun /\ dbFile = "open"
      /\ UNCHANGED <<hsRpmdb, wanted, compsNow, dbFile, trans>>
      /\ \A i \in DOMAIN old : <<old[i].kind, old[i].id>> # <<new[1].kind, new[1].id>>
      /\ inProgress' = [inProgress EXCEPT !.items = AllAdded(old, new)]
  BY <1>1 DEF AddItems, HsPlaced
<1>3. /\ inProgress \in [there : BOOLEAN, id : Nat, items : Seq(HsItems), begun : BOOLEAN]
      /\ old \in Seq(HsItems)
  BY <1>1 DEF HsTypes
<1>4. AllAdded(old, new) = items
  BY <1>2, <1>3, AllAddedIs DEF Change
<1>5. /\ new \in Seq(HsItems) /\ Len(new) \in {1, 2} /\ n \in Nat /\ DOMAIN old = 1 .. n
      /\ items \in Seq(HsItems) /\ DOMAIN items = 1 .. n + Len(new)
      /\ \A i \in 1 .. n : items[i] = old[i]
      /\ \A i \in 1 .. Len(new) : items[n + i] = new[i]
      /\ DOMAIN new = 1 .. Len(new)
      /\ \A k \in 1 .. Len(new) : k = 1 \/ (k = 2 /\ Len(new) = 2)
  <2>1. new \in Seq(HsItems) /\ Len(new) \in {1, 2}
    BY DEF Change
  <2>2. \A k \in 1 .. Len(new) : k = 1 \/ (k = 2 /\ Len(new) = 2)
    <3>1. \A k \in 1 .. 1 : k = 1
      OBVIOUS
    <3>2. \A k \in 1 .. 2 : k = 1 \/ k = 2
      OBVIOUS
    <3> QED
      BY <2>1, <3>1, <3>2
  <2> QED
    BY <1>3, <2>1, <2>2
<1>6. \A i \in DOMAIN items : i \in 1 .. n \/ \E j \in 1 .. Len(new) : i = n + j
  <2> HIDE DEF n, items
  <2>1. ASSUME NEW i \in DOMAIN items, i \notin 1 .. n
        PROVE  i - n \in 1 .. Len(new) /\ i = n + (i - n)
    BY <1>5, <2>1
  <2> QED
    BY <2>1
<1>7. /\ inProgress' \in [there : BOOLEAN, id : Nat, items : Seq(HsItems), begun : BOOLEAN]
      /\ inProgress'.items = items /\ inProgress'.there /\ ~ inProgress'.begun
  <2> HIDE DEF items
  <2> QED
    BY <1>2, <1>3, <1>4, <1>5
<1> HIDE DEF items, n
<1>8. /\ \A i \in DOMAIN old : old[i].state = "UNKNOWN" /\ Repeats(old[i], trans) /\ Present(old[i], hsRpmdb)
      /\ Lone(old)
  BY <1>1, <1>2 DEF HsPlaced
<1>9. \A i \in DOMAIN items : items[i].state = "UNKNOWN" /\ Repeats(items[i], trans) /\ Present(items[i], hsRpmdb)
  BY <1>5, <1>6, <1>8 DEF Change
<1>10. Lone(items)
  <2> SUFFICES ASSUME NEW i \in DOMAIN items, NEW j \in DOMAIN items, i # j,
                      items[i].kind = items[j].kind, items[i].id = items[j].id
               PROVE  Follower(items[i]) \/ Follower(items[j])
    BY DEF Lone
  <2>1. \A k \in 1 .. Len(new) : new[k].kind = new[1].kind /\ new[k].id = new[1].id
    BY <1>5 DEF Change
  <2>2. CASE i \in 1 .. n /\ j \in 1 .. n
    BY <1>5, <1>8, <2>2 DEF Lone
  <2>3. ASSUME NEW a \in DOMAIN old, NEW b \in 1 .. Len(new)
        PROVE  old[a].kind # new[b].kind \/ old[a].id # new[b].id
    BY <1>2, <2>1
  <2>4. ASSUME i \notin 1 .. n, j \in 1 .. n PROVE FALSE
    <3>1. PICK k \in 1 .. Len(new) : i = n + k
      BY <1>6, <2>4
    <3>2. items[i] = new[k] /\ items[j] = old[j] /\ j \in DOMAIN old
      BY <1>5, <2>4, <3>1
    <3> QED
      BY <2>3, <3>2
  <2>5. ASSUME i \in 1 .. n, j \notin 1 .. n PROVE FALSE
    <3>1. PICK k \in 1 .. Len(new) : j = n + k
      BY <1>6, <2>5
    <3>2. items[j] = new[k] /\ items[i] = old[i] /\ i \in DOMAIN old
      BY <1>5, <2>5, <3>1
    <3> QED
      BY <2>3, <3>2
  <2>6. CASE \E k \in 1 .. Len(new), m \in 1 .. Len(new) : i = n + k /\ j = n + m
    <3>1. PICK k \in 1 .. Len(new), m \in 1 .. Len(new) : i = n + k /\ j = n + m
      BY <2>6
    <3>2. k # m /\ (k = 1 \/ (k = 2 /\ Len(new) = 2)) /\ (m = 1 \/ (m = 2 /\ Len(new) = 2))
      BY <1>5, <3>1
    <3>3. Len(new) = 2 /\ (Follower(new[1]) \/ Follower(new[2]))
      BY <3>2 DEF Change
    <3>4. Follower(new[k]) \/ Follower(new[m])
      BY <3>2, <3>3
    <3> QED
      BY <1>5, <3>1, <3>4
  <2> QED
    BY <1>6, <2>2, <2>6, <2>4, <2>5
<1>11. HsPlaced'
  BY <1>2, <1>7, <1>9, <1>10 DEF HsPlaced
<1> QED
  BY <1>2, <1>7, <1>11, QuietKept

\* The items that calls put together.
LEMMA NewItemsAre ==
    /\ \A id \in HistIds, evr \in Evrs3, action \in RpmActions, reason \in HsReasons :
          LET x == Rpm(id, evr, action, reason)
          IN /\ x \in HsItems /\ x.kind = "RPM" /\ x.id = id /\ x.action = action /\ x.reason = reason
             /\ x.state = "UNKNOWN"
    /\ \A g \in GroupIds, action \in {"INSTALL", "UPGRADE"}, M \in HsMembers :
          LET x == GroupItem(g, action, M)
          IN x \in HsItems /\ x.kind = "GROUP" /\ x.state = "UNKNOWN"
    /\ \A g \in GroupIds :
          LET x == GroupItem(g, "REMOVE", {})
          IN x \in HsItems /\ x.kind = "GROUP" /\ x.state = "UNKNOWN"
    /\ \A e \in EnvIds, action \in {"INSTALL", "UPGRADE"}, M \in HsMembers :
          LET x == EnvItem(e, action, M)
          IN x \in HsItems /\ x.kind = "ENVIRONMENT" /\ x.state = "UNKNOWN"
    /\ \A e \in EnvIds :
          LET x == EnvItem(e, "REMOVE", {})
          IN x \in HsItems /\ x.kind = "ENVIRONMENT" /\ x.state = "UNKNOWN"
<1>1. << >> \in Seq(Nat) /\ "UNKNOWN" \in HsStates /\ "USER" \in HsReasons
  BY ReasonsRanked DEF HsStates
<1>2. ASSUME NEW id \in HistIds, NEW evr \in Evrs3, NEW action \in RpmActions, NEW reason \in HsReasons
      PROVE  Rpm(id, evr, action, reason) \in HsRpms
  BY <1>1 DEF Rpm, Item, HsRpms, HsItem
<1>3. ASSUME NEW kind, NEW ids, NEW c \in ids, NEW action \in {"INSTALL", "UPGRADE"}, NEW M \in HsMembers
      PROVE  Item(kind, c, NoEvr, action, "USER", M) \in HsComps(kind, ids)
  BY <1>1 DEF Item, HsComps, HsItem
<1>4. ASSUME NEW kind, NEW ids, NEW c \in ids
      PROVE  Item(kind, c, NoEvr, "REMOVE", "USER", {}) \in HsComps(kind, ids)
  BY <1>1 DEF Item, HsComps, HsItem
<1>5. /\ HsRpms \subseteq HsItems /\ HsComps("GROUP", GroupIds) \subseteq HsItems
      /\ HsComps("ENVIRONMENT", EnvIds) \subseteq HsItems
  BY DEF HsItems
<1>6. \A kind, id, evr, action, reason, members :
         LET x == Item(kind, id, evr, action, reason, members)
         IN x.kind = kind /\ x.id = id /\ x.action = action /\ x.reason = reason /\ x.state = "UNKNOWN"
  BY DEF Item
<1>7. ASSUME NEW id \in HistIds, NEW evr \in Evrs3, NEW action \in RpmActions, NEW reason \in HsReasons
      PROVE  LET x == Rpm(id, evr, action, reason)
             IN /\ x \in HsItems /\ x.kind = "RPM" /\ x.id = id /\ x.action = action /\ x.reason = reason
                /\ x.state = "UNKNOWN"
  <2>1. Rpm(id, evr, action, reason) \in HsItems
    BY <1>2, <1>5
  <2> QED
    BY <1>6, <2>1 DEF Rpm
<1>8. ASSUME NEW c, NEW action, NEW M, 
             (action \in {"INSTALL", "UPGRADE"} /\ M \in HsMembers) \/ (action = "REMOVE" /\ M = {})
      PROVE  /\ c \in GroupIds => LET x == GroupItem(c, action, M)
                                  IN x \in HsItems /\ x.kind = "GROUP" /\ x.state = "UNKNOWN"
             /\ c \in EnvIds => LET x == EnvItem(c, action, M)
                                IN x \in HsItems /\ x.kind = "ENVIRONMENT" /\ x.state = "UNKNOWN"
  <2>1. c \in GroupIds => Item("GROUP", c, NoEvr, action, "USER", M) \in HsItems
    BY <1>3, <1>4, <1>5, <1>8
  <2>2. c \in EnvIds => Item("ENVIRONMENT", c, NoEvr, action, "USER", M) \in HsItems
    BY <1>3, <1>4, <1>5, <1>8
  <2> QED
    BY <1>6, <2>1, <2>2 DEF GroupItem, EnvItem
<1>9. /\ \A g \in GroupIds, action \in {"INSTALL", "UPGRADE"}, M \in HsMembers :
             LET x == GroupItem(g, action, M) IN x \in HsItems /\ x.kind = "GROUP" /\ x.state = "UNKNOWN"
      /\ \A g \in GroupIds :
             LET x == GroupItem(g, "REMOVE", {}) IN x \in HsItems /\ x.kind = "GROUP" /\ x.state = "UNKNOWN"
  BY <1>8
<1>10. /\ \A e \in EnvIds, action \in {"INSTALL", "UPGRADE"}, M \in HsMembers :
              LET x == EnvItem(e, action, M) IN x \in HsItems /\ x.kind = "ENVIRONMENT" /\ x.state = "UNKNOWN"
       /\ \A e \in EnvIds :
              LET x == EnvItem(e, "REMOVE", {}) IN x \in HsItems /\ x.kind = "ENVIRONMENT" /\ x.state = "UNKNOWN"
  BY <1>8
<1> QED
  BY <1>7, <1>9, <1>10

LEMMA ChangesName ==
    ASSUME NEW id, NEW new \in Changes(id)
    PROVE  new[1].kind = "RPM" /\ new[1].id = id
<1>1. \A evr, action, r : LET x == Rpm(id, evr, action, r) IN x.kind = "RPM" /\ x.id = id
  BY DEF Rpm, Item
<1>2. CASE hsRpmdb[id] = NoEvr
  <2>1. new \in {<<Rpm(id, evr, "INSTALL", r)>> : evr \in Evrs3, r \in {"USER", "DEPENDENCY"}}
    BY <1>2 DEF Changes
  <2> QED
    BY <1>1, <2>1
<1>3. CASE hsRpmdb[id] # NoEvr
  <2> DEFINE old == hsRpmdb[id]
             why == ReasonNow(id)
  <2> HIDE DEF why
  <2>1. \/ \E a \in {"REMOVE", "OBSOLETED"} : new = <<Rpm(id, old, a, why)>>
        \/ \E r \in {"USER", "DEPENDENCY"} : new = <<Rpm(id, old, "REASON_CHANGE", r)>>
        \/ new = <<Rpm(id, old, "REINSTALL", why), Rpm(id, old, "REINSTALLED", why)>>
        \/ \E evr \in Evrs3 : new = <<Rpm(id, evr, "UPGRADE", why), Rpm(id, old, "UPGRADED", why)>>
        \/ \E evr \in Evrs3 : new = <<Rpm(id, evr, "DOWNGRADE", why), Rpm(id, old, "DOWNGRADED", why)>>
    BY <1>3 DEF Changes, why
  <2> QED
    BY <1>1, <2>1
<1> QED
  BY <1>2, <1>3

LEMMA ChangesAre ==
    ASSUME HsInv, NEW id \in HistIds,
           \A i \in DOMAIN inProgress.items : <<inProgress.items[i].kind, inProgress.items[i].id>> # <<"RPM", id>>,
           NEW new \in Changes(id)
    PROVE  Change(new) /\ new[1].kind = "RPM" /\ new[1].id = id
<1> DEFINE old == hsRpmdb[id]
           why == ReasonNow(id)
<1>1. HsTypes /\ trans \in Seq(HsTrans) /\ DOMAIN trans \subseteq Nat
  BY DEF HsInv, HsTypes
<1>2. why = ResolveReason(id) /\ why \in HsReasons
  <2>1. ReasonNow(id) = ResolveReason(id)
    BY DEF ReasonNow
  <2> QED
    BY <1>1, <2>1, ReasonsAnswered
<1>3. \A r \in HsReasons : Tells(trans, "RPM", id, r) => why = r
  BY <1>1, <1>2, TellsReason
<1>4. old \in Evrs3 \cup {NoEvr} /\ NoEvr \notin Evrs3 /\ (old # NoEvr => old \in Evrs3)
  BY <1>1, HistoryAssumption DEF HsTypes
<1>5. {"USER", "DEPENDENCY"} \subseteq HsReasons
  <2>1. ReasonOrder[4] = "DEPENDENCY" /\ 4 \in 1 .. 6
    BY DEF ReasonOrder
  <2> QED
    BY <2>1, ReasonsRanked DEF HsReasons
<1>6. ASSUME NEW evr \in Evrs3, NEW action \in RpmActions, NEW r \in HsReasons,
             r = why \/ action \in {"INSTALL", "REASON_CHANGE"},
             action \in {"UPGRADE", "DOWNGRADE", "REINSTALL"} => old # NoEvr
      PROVE  LET x == Rpm(id, evr, action, r)
             IN x \in HsItems /\ x.state = "UNKNOWN" /\ Repeats(x, trans) /\ Present(x, hsRpmdb)
  <2> DEFINE x == Rpm(id, evr, action, r)
  <2>1. /\ x \in HsItems /\ x.kind = "RPM" /\ x.id = id /\ x.action = action /\ x.reason = r
        /\ x.state = "UNKNOWN"
    BY NewItemsAre
  <2> HIDE DEF x, why
  <2>2. Repeats(x, trans)
    BY <1>3, <1>6, <2>1 DEF Repeats
  <2>3. Present(x, hsRpmdb)
    BY <1>6, <2>1 DEF Present
  <2> QED
    BY <2>1, <2>2, <2>3 DEF x
<1> DEFINE Good(x) == x \in HsItems /\ x.state = "UNKNOWN" /\ Repeats(x, trans) /\ Present(x, hsRpmdb)
<1>7. ASSUME NEW x, Good(x)
      PROVE  Change(<<x>>)
  <2>1. /\ <<x>> \in Seq(HsItems) /\ Len(<<x>>) = 1 /\ <<x>>[1] = x
        /\ \A i \in 1 .. 1 : i = 1
    BY <1>7
  <2> QED
    BY <1>7, <2>1 DEF Change
<1>8. ASSUME NEW x, NEW y, Good(x), Good(y), y.kind = x.kind, y.id = x.id, y.action # x.action, Follower(y)
      PROVE  Change(<<x, y>>)
  <2>1. /\ <<x, y>> \in Seq(HsItems) /\ Len(<<x, y>>) = 2 /\ <<x, y>>[1] = x /\ <<x, y>>[2] = y
        /\ \A i \in 1 .. 2 : i = 1 \/ i = 2
    BY <1>8
  <2> QED
    BY <1>8, <2>1 DEF Change
<1>9. ASSUME NEW evr \in Evrs3, NEW a \in {"INSTALL", "REMOVE", "OBSOLETED", "REASON_CHANGE"}, NEW r \in HsReasons,
             r = why \/ a \in {"INSTALL", "REASON_CHANGE"}, new = <<Rpm(id, evr, a, r)>>
      PROVE  Change(new) /\ new[1].kind = "RPM" /\ new[1].id = id
  <2>1. a \in RpmActions /\ a \notin {"UPGRADE", "DOWNGRADE", "REINSTALL"}
    BY DEF RpmActions
  <2> DEFINE x == Rpm(id, evr, a, r)
  <2>2. Good(x) /\ x.kind = "RPM" /\ x.id = id
    BY <1>6, <1>9, <2>1, NewItemsAre
  <2> HIDE DEF x, Good
  <2>3. new = <<x>> /\ <<x>>[1] = x
    BY <1>9 DEF x
  <2> QED
    BY <1>7, <2>2, <2>3
<1>10. ASSUME old # NoEvr, NEW evr \in Evrs3,
              NEW a, NEW b, <<a, b>> \in {<<"REINSTALL", "REINSTALLED">>, <<"UPGRADE", "UPGRADED">>, <<"DOWNGRADE", "DOWNGRADED">>},
              new = <<Rpm(id, evr, a, why), Rpm(id, old, b, why)>>
      PROVE  Change(new) /\ new[1].kind = "RPM" /\ new[1].id = id
  <2>1. /\ a \in RpmActions /\ b \in RpmActions /\ b \notin {"UPGRADE", "DOWNGRADE", "REINSTALL"} /\ a # b
        /\ b \in {"UPGRADED", "DOWNGRADED", "REINSTALLED"}
    BY <1>10 DEF RpmActions
  <2> DEFINE x == Rpm(id, evr, a, why)
             y == Rpm(id, old, b, why)
  <2> HIDE DEF why
  <2>2. Good(x) /\ x.kind = "RPM" /\ x.id = id /\ x.action = a
    BY <1>2, <1>6, <1>10, <2>1, NewItemsAre
  <2>3. Good(y) /\ y.kind = "RPM" /\ y.id = id /\ y.action = b
    BY <1>2, <1>4, <1>6, <1>10, <2>1, NewItemsAre
  <2>4. new = <<x, y>> /\ <<x, y>>[1] = x
    BY <1>10
  <2> HIDE DEF x, y, Good
  <2>5. Follower(y) /\ y.action # x.action
    BY <2>1, <2>2, <2>3 DEF Follower
  <2> QED
    BY <1>8, <2>2, <2>3, <2>4, <2>5
<1>11. CASE old = NoEvr
  <2>1. new \in {<<Rpm(id, evr, "INSTALL", r)>> : evr \in Evrs3, r \in {"USER", "DEPENDENCY"}}
    BY <1>11 DEF Changes
  <2>2. PICK evr \in Evrs3, r \in {"USER", "DEPENDENCY"} : new = <<Rpm(id, evr, "INSTALL", r)>>
    BY <2>1
  <2> HIDE DEF why
  <2> QED
    BY <1>5, <1>9, <2>2
<1>12. CASE old # NoEvr
  <2>0. old \in Evrs3
    BY <1>4, <1>12
  <2>1. \/ \E a \in {"REMOVE", "OBSOLETED"} : new = <<Rpm(id, old, a, why)>>
        \/ \E r \in {"USER", "DEPENDENCY"} : new = <<Rpm(id, old, "REASON_CHANGE", r)>>
        \/ new = <<Rpm(id, old, "REINSTALL", why), Rpm(id, old, "REINSTALLED", why)>>
        \/ \E evr \in Evrs3 : new = <<Rpm(id, evr, "UPGRADE", why), Rpm(id, old, "UPGRADED", why)>>
        \/ \E evr \in Evrs3 : new = <<Rpm(id, evr, "DOWNGRADE", why), Rpm(id, old, "DOWNGRADED", why)>>
    <3> HIDE DEF why
    <3> QED
      BY <1>12 DEF Changes, why
  <2> HIDE DEF why
  <2>2. ASSUME NEW a \in {"REMOVE", "OBSOLETED"}, new = <<Rpm(id, old, a, why)>>
        PROVE  Change(new) /\ new[1].kind = "RPM" /\ new[1].id = id
    BY <1>2, <1>9, <2>0, <2>2
  <2>3. ASSUME NEW r \in {"USER", "DEPENDENCY"}, new = <<Rpm(id, old, "REASON_CHANGE", r)>>
        PROVE  Change(new) /\ new[1].kind = "RPM" /\ new[1].id = id
    BY <1>5, <1>9, <2>0, <2>3
  <2>4. ASSUME NEW evr \in Evrs3,
               NEW a, NEW b, <<a, b>> \in {<<"REINSTALL", "REINSTALLED">>, <<"UPGRADE", "UPGRADED">>, <<"DOWNGRADE", "DOWNGRADED">>},
               new = <<Rpm(id, evr, a, why), Rpm(id, old, b, why)>>
        PROVE  Change(new) /\ new[1].kind = "RPM" /\ new[1].id = id
    BY <1>10, <1>12, <2>4
  <2> QED
    BY <2>0, <2>1, <2>2, <2>3, <2>4
<1> QED
  BY <1>11, <1>12

LEMMA CompsChangesAre ==
    ASSUME NEW kind \in {"GROUP", "ENVIRONMENT"}, NEW c, NEW kept,
           c \in IF kind = "GROUP" THEN GroupIds ELSE EnvIds,
           NEW new \in CompsChanges(kind, c, kept)
    PROVE  Change(new)
<1>1. MemberSets[kind] \subseteq HsMembers
  BY DEF HsMembers
<1>2. PICK x : new = <<x>> /\ x \in HsItems /\ x.kind # "RPM" /\ x.state = "UNKNOWN"
  <2> DEFINE New(action, members) == IF kind = "GROUP" THEN GroupItem(c, action, members)
                                     ELSE EnvItem(c, action, members)
  <2>1. \/ \E action \in {"INSTALL", "UPGRADE"} : \E M \in MemberSets[kind] : new = <<New(action, M)>>
        \/ new = <<New("REMOVE", {})>>
    BY DEF CompsChanges
  <2>2. \A action \in {"INSTALL", "UPGRADE"}, M \in HsMembers :
           LET x == New(action, M) IN x \in HsItems /\ x.kind # "RPM" /\ x.state = "UNKNOWN"
    BY NewItemsAre
  <2>3. LET x == New("REMOVE", {}) IN x \in HsItems /\ x.kind # "RPM" /\ x.state = "UNKNOWN"
    BY NewItemsAre
  <2> HIDE DEF New
  <2> QED
    BY <1>1, <2>1, <2>2, <2>3
<1>3. Repeats(x, trans) /\ Present(x, hsRpmdb)
  BY <1>2 DEF Repeats, Present
<1>4. new \in Seq(HsItems) /\ Len(new) = 1 /\ new[1] = x /\ \A i \in 1 .. 1 : i = 1
  BY <1>2
<1> QED
  BY <1>2, <1>3, <1>4 DEF Change

LEMMA ChangesKept ==
    ASSUME HsInv, HistRpms \/ HistComps
    PROVE  HsInv'
<1>1. ASSUME NEW id \in HistIds, NEW new \in Changes(id), AddItems(new)
      PROVE  HsInv'
  <2>1. new[1].kind = "RPM" /\ new[1].id = id
    BY <1>1, ChangesName
  <2>2. \A i \in DOMAIN inProgress.items :
           <<inProgress.items[i].kind, inProgress.items[i].id>> # <<"RPM", id>>
    BY <1>1, <2>1 DEF AddItems
  <2>3. Change(new)
    BY <1>1, <2>2, ChangesAre
  <2> QED
    BY <1>1, <2>3, ItemsAdded
<1>2. ASSUME NEW g \in GroupIds, NEW new \in CompsChanges("GROUP", g, LastGroup(g)), AddItems(new)
      PROVE  HsInv'
  <2>1. Change(new)
    BY CompsChangesAre
  <2> QED
    BY <1>2, <2>1, ItemsAdded
<1>3. ASSUME NEW e \in EnvIds, NEW new \in CompsChanges("ENVIRONMENT", e, LastEnvironment(e)), AddItems(new)
      PROVE  HsInv'
  <2>1. Change(new)
    BY CompsChangesAre
  <2> QED
    BY <1>3, <2>1, ItemsAdded
<1> QED
  BY <1>1, <1>2, <1>3 DEF HistRpms, HistComps

\* A loop over steps st that stay in D.
HsLoop(n, D, S, st, r) ==
    r \in [0 .. n -> D] /\ r[0] = S /\ \A k \in 1 .. n : r[k] = st[<<r[k - 1], k>>]

LEMMA HsLoopRuns ==
    ASSUME NEW n \in Nat, NEW D, NEW S \in D, NEW st, st \in [D \X (1 .. n) -> D]
    PROVE  \E r : HsLoop(n, D, S, st, r)
<1> DEFINE Some(m) == \E r \in [0 .. m -> D] : r[0] = S /\ \A k \in 1 .. m : r[k] = st[<<r[k - 1], k>>]
           G == {m \in 0 .. n : Some(m)}
<1>1. 0 \in G
  <2> DEFINE r == [k \in 0 .. 0 |-> S]
  <2>1. r \in [0 .. 0 -> D] /\ r[0] = S /\ 1 .. 0 = {}
    OBVIOUS
  <2> HIDE DEF r
  <2>2. Some(0)
    BY <2>1
  <2> HIDE DEF Some
  <2> QED
    BY <2>2
<1>2. ASSUME NEW m \in 1 .. n, m - 1 \in G PROVE m \in G
  <2>1. PICK r \in [0 .. m - 1 -> D] : r[0] = S /\ \A k \in 1 .. m - 1 : r[k] = st[<<r[k - 1], k>>]
    BY <1>2
  <2> DEFINE last == st[<<r[m - 1], m>>]
             w == [k \in 0 .. m |-> IF k = m THEN last ELSE r[k]]
  <2>2. m \in Nat /\ m # 0 /\ m - 1 \in 0 .. m - 1 /\ m \in 0 .. m
    OBVIOUS
  <2>3. last \in D
    <3>1. <<r[m - 1], m>> \in D \X (1 .. n)
      BY <2>1, <2>2
    <3> QED
      BY <3>1
  <2>4. \A k \in 0 .. m : k = m \/ k \in 0 .. m - 1
    BY <2>2
  <2> HIDE DEF last
  <2>5. w \in [0 .. m -> D] /\ w[m] = last /\ \A k \in 0 .. m - 1 : w[k] = r[k]
    BY <2>1, <2>2, <2>3, <2>4
  <2> HIDE DEF w
  <2>6. w[0] = S
    BY <2>1, <2>2, <2>5
  <2>7. ASSUME NEW k \in 1 .. m PROVE w[k] = st[<<w[k - 1], k>>]
    <3>1. k - 1 \in 0 .. m - 1 /\ w[k - 1] = r[k - 1]
      BY <2>2, <2>5
    <3>2. CASE k = m
      BY <2>5, <3>1, <3>2 DEF last
    <3>3. CASE k # m
      <4>1. k \in 1 .. m - 1 /\ k \in 0 .. m - 1
        BY <2>2, <3>3
      <4> QED
        BY <2>1, <2>5, <3>1, <4>1
    <3> QED
      BY <3>2, <3>3
  <2>8. Some(m)
    BY <2>5, <2>6, <2>7
  <2> HIDE DEF Some
  <2> QED
    BY <2>8
<1>3. n \in G
  <2> HIDE DEF G
  <2>1. \A m \in 1 .. n : m - 1 \in G => m \in G
    BY <1>2
  <2>2. n \in 0 .. n
    OBVIOUS
  <2> QED
    BY <1>1, <2>1, <2>2, HsReaches
<1> QED
  BY <1>3 DEF HsLoop

\* What is made from yum's rows: packages of S with the reason of yumdb.
HsOld(S) == {x \in HsRpms : x.id \in S /\ x.reason = OldReasons[x.id]}
HsAccs(S) == {a \in [items : Seq(HsOld(S)), obsoleted : SUBSET Nat, last : Nat] :
                  a.obsoleted \subseteq DOMAIN a.items}

OldRow == [id : HistIds, evr : Evrs3, action : RpmActions, done : BOOLEAN]

LEMMA OldItemsAre ==
    ASSUME NEW S \in SUBSET HistIds
    PROVE  /\ \A x \in HsOld(S) : /\ x \in HsRpms /\ x.kind = "RPM" /\ x.id \in S
                                  /\ x.reason = OldReasons[x.id] /\ x.by \in Seq(Nat)
           /\ \A x \in HsOld(S) : [x EXCEPT !.reason = OldReasons[x.id]] = x
           /\ \A x \in HsOld(S), action \in RpmActions : [x EXCEPT !.action = action] \in HsOld(S)
           /\ \A x \in HsOld(S), by \in Seq(Nat) : [x EXCEPT !.by = by] \in HsOld(S)
           /\ \A row \in OldRow : row.id \in S =>
                 LET y == [Rpm(row.id, row.evr, row.action, OldReasons[row.id]) EXCEPT
                             !.state = IF row.done THEN "DONE" ELSE "ERROR"]
                 IN y \in HsOld(S)
<1>1. \A id \in HistIds : OldReasons[id] \in HsReasons
  BY HistoryAssumption DEF HsReasons
<1>2. \A x \in HsRpms : x.kind = "RPM" /\ x.by \in Seq(Nat)
  BY DEF HsRpms, HsItem
<1>3. \A x \in HsRpms, action \in RpmActions :
         LET y == [x EXCEPT !.action = action] IN y \in HsRpms /\ y.id = x.id /\ y.reason = x.reason
  BY DEF HsRpms, HsItem
<1>4. \A x \in HsRpms, by \in Seq(Nat) :
         LET y == [x EXCEPT !.by = by] IN y \in HsRpms /\ y.id = x.id /\ y.reason = x.reason
  BY DEF HsRpms, HsItem
<1>5. \A x \in HsRpms : [x EXCEPT !.reason = x.reason] = x
  BY DEF HsRpms, HsItem
<1>6. ASSUME NEW row \in OldRow, row.id \in S
      PROVE  [Rpm(row.id, row.evr, row.action, OldReasons[row.id]) EXCEPT
                  !.state = IF row.done THEN "DONE" ELSE "ERROR"] \in HsOld(S)
  <2> DEFINE y == [Rpm(row.id, row.evr, row.action, OldReasons[row.id]) EXCEPT
                      !.state = IF row.done THEN "DONE" ELSE "ERROR"]
  <2>1. /\ row.id \in HistIds /\ row.evr \in Evrs3 /\ row.action \in RpmActions
        /\ (IF row.done THEN "DONE" ELSE "ERROR") \in HsStates
    BY DEF OldRow, HsStates
  <2> DEFINE st == IF row.done THEN "DONE" ELSE "ERROR"
             x == Rpm(row.id, row.evr, row.action, OldReasons[row.id])
  <2>2. st \in HsStates /\ y = [x EXCEPT !.state = st]
    BY <2>1
  <2>3. x \in HsRpms /\ x.id = row.id /\ x.reason = OldReasons[row.id]
    <3>1. << >> \in Seq(Nat) /\ OldReasons[row.id] \in HsReasons /\ "UNKNOWN" \in HsStates
      BY <1>1, <2>1 DEF HsStates
    <3> QED
      BY <2>1, <3>1 DEF Rpm, Item, HsRpms, HsItem
  <2>5. \A z \in HsRpms, s \in HsStates :
           LET u == [z EXCEPT !.state = s] IN u \in HsRpms /\ u.id = z.id /\ u.reason = z.reason
    BY DEF HsRpms, HsItem
  <2> HIDE DEF y, st, x
  <2>4. y \in HsRpms /\ y.id = row.id /\ y.reason = OldReasons[row.id]
    BY <2>2, <2>3, <2>5
  <2> QED
    BY <1>6, <2>4 DEF HsOld, y
<1> QED
  BY <1>2, <1>3, <1>4, <1>5, <1>6 DEF HsOld

LEMMA OldAdded ==
    ASSUME NEW S \in SUBSET HistIds, NEW items \in Seq(HsOld(S)), NEW item \in HsOld(S)
    PROVE  /\ AddItem(items, item) \in Seq(HsOld(S))
           /\ DOMAIN items \subseteq DOMAIN AddItem(items, item)
           /\ \E j \in DOMAIN AddItem(items, item) : SameItem(AddItem(items, item)[j], item)
<1> DEFINE new == AddItem(items, item)
<1>1. DOMAIN items = 1 .. Len(items) /\ Len(items) \in Nat /\ \A i \in DOMAIN items : items[i] \in HsOld(S)
  OBVIOUS
<1>2. CASE \A i \in DOMAIN items : ~ SameItem(items[i], item)
  <2>1. new = Append(items, item)
    BY <1>2, AddedFresh
  <2>2. /\ Append(items, item) \in Seq(HsOld(S))
        /\ DOMAIN Append(items, item) = 1 .. Len(items) + 1 /\ Append(items, item)[Len(items) + 1] = item
    OBVIOUS
  <2> HIDE DEF new
  <2>3. Len(items) + 1 \in DOMAIN new /\ new[Len(items) + 1] = item /\ DOMAIN items \subseteq DOMAIN new
    BY <1>1, <2>1, <2>2
  <2>4. SameItem(item, item)
    BY DEF SameItem
  <2> QED
    BY <2>1, <2>2, <2>3, <2>4 DEF new
<1>3. CASE \E i \in DOMAIN items : SameItem(items[i], item)
  <2> DEFINE First(k) == SameItem(items[k], item) /\ \A j \in 1 .. k - 1 : ~ SameItem(items[j], item)
             i == CHOOSE k \in DOMAIN items : First(k)
             H == {k \in DOMAIN items : SameItem(items[k], item)}
  <2>1. PICK k \in H : \A m \in H : k <= m
    <3>1. H \in SUBSET Nat /\ H # {}
      BY <1>1, <1>3
    <3> HIDE DEF H
    <3> QED
      BY <3>1, HsLeast
  <2>2. k \in DOMAIN items /\ First(k)
    BY <1>1, <2>1
  <2>3. i \in DOMAIN items /\ First(i)
    BY <2>2
  <2>4. new = [items EXCEPT ![i].reason = IF ReasonRank(item.reason) > ReasonRank(@) THEN item.reason ELSE @]
    BY <1>3 DEF AddItem
  <2> HIDE DEF i, H
  <2>5. SameItem(items[i], item)
    BY <2>3
  <2>6. /\ items[i] \in HsOld(S) /\ items[i].id = item.id
        /\ items[i].reason = OldReasons[item.id] /\ item.reason = OldReasons[item.id]
    BY <1>1, <2>3, <2>5, OldItemsAre DEF SameItem
  <2>7. new = [items EXCEPT ![i] = [items[i] EXCEPT !.reason = OldReasons[items[i].id]]]
    BY <2>3, <2>4, <2>6
  <2>8. [items[i] EXCEPT !.reason = OldReasons[items[i].id]] = items[i]
    BY <2>6, OldItemsAre
  <2>9. new = items
    BY <1>1, <2>3, <2>7, <2>8
  <2> HIDE DEF new
  <2> QED
    BY <2>3, <2>5, <2>9 DEF new
<1> QED
  BY <1>2, <1>3

LEMMA OldRowKept ==
    ASSUME NEW S \in SUBSET HistIds, NEW acc \in HsAccs(S), NEW row \in OldRow, row.id \in S
    PROVE  TransformRow(acc, row) \in HsAccs(S)
<1> DEFINE item == [Rpm(row.id, row.evr, row.action, OldReasons[row.id]) EXCEPT
                       !.state = IF row.done THEN "DONE" ELSE "ERROR"]
           past == {i \in acc.obsoleted : acc.items[i].id = row.id /\ acc.items[i].evr = row.evr}
           renamed == [i \in DOMAIN acc.items |-> IF i \in past
                         THEN [acc.items[i] EXCEPT !.action = row.action] ELSE acc.items[i]]
           items == IF past = {} THEN AddItem(acc.items, item) ELSE renamed
           Pointed(i) == IF past = {} THEN SameItem(items[i], item) ELSE i \in past
           at == CHOOSE i \in DOMAIN items : Pointed(i)
           linked == IF row.action \in {"OBSOLETED", "DOWNGRADED", "UPGRADED"} /\ acc.last # 0
                     THEN [items EXCEPT ![at].by = Append(@, acc.last)] ELSE items
           gone == acc.obsoleted \cup (IF row.action = "OBSOLETED" THEN {at} ELSE {})
<1>1. TransformRow(acc, row) = IF row.action = "OBSOLETE" THEN acc
                               ELSE [items |-> linked, obsoleted |-> gone, last |-> at]
  BY DEF TransformRow
<1>2. /\ acc.items \in Seq(HsOld(S)) /\ acc.obsoleted \in SUBSET Nat /\ acc.last \in Nat
      /\ acc.obsoleted \subseteq DOMAIN acc.items
      /\ DOMAIN acc.items = 1 .. Len(acc.items) /\ Len(acc.items) \in Nat
      /\ \A i \in DOMAIN acc.items : acc.items[i] \in HsOld(S)
  BY DEF HsAccs
<1>3. item \in HsOld(S) /\ row.action \in RpmActions
  BY OldItemsAre DEF OldRow
<1> HIDE DEF item
<1>4. /\ renamed \in Seq(HsOld(S)) /\ DOMAIN renamed = DOMAIN acc.items
  <2>1. \A i \in DOMAIN acc.items : renamed[i] \in HsOld(S)
    BY <1>2, <1>3, OldItemsAre
  <2>2. DOMAIN renamed = DOMAIN acc.items /\ renamed = [i \in DOMAIN acc.items |-> renamed[i]]
    OBVIOUS
  <2> HIDE DEF renamed
  <2>3. renamed \in [1 .. Len(acc.items) -> HsOld(S)]
    BY <1>2, <2>1, <2>2
  <2>4. \A n \in Nat : \A f \in [1 .. n -> HsOld(S)] : f \in Seq(HsOld(S))
    OBVIOUS
  <2> QED
    BY <1>2, <2>2, <2>3, <2>4
<1>5. /\ items \in Seq(HsOld(S)) /\ DOMAIN acc.items \subseteq DOMAIN items
      /\ \E i \in DOMAIN items : Pointed(i)
  <2> HIDE DEF renamed
  <2>1. CASE past = {}
    BY <1>2, <1>3, <2>1, OldAdded
  <2>2. CASE past # {}
    <3>1. past \subseteq DOMAIN acc.items
      BY <1>2
    <3> HIDE DEF past
    <3> QED
      BY <1>4, <2>2, <3>1
  <2> QED
    BY <2>1, <2>2
<1>6. at \in DOMAIN items
  <2> HIDE DEF items, Pointed
  <2> QED
    BY <1>5
<1> HIDE DEF items, at
<1>7. /\ DOMAIN items = 1 .. Len(items) /\ Len(items) \in Nat /\ at \in Nat
      /\ items[at] \in HsOld(S)
  BY <1>5, <1>6
<1>8. linked \in Seq(HsOld(S)) /\ DOMAIN linked = DOMAIN items
  <2>1. items[at].by \in Seq(Nat)
    BY <1>7, OldItemsAre
  <2>2. Append(items[at].by, acc.last) \in Seq(Nat)
    BY <1>2, <2>1
  <2>3. [items[at] EXCEPT !.by = Append(items[at].by, acc.last)] \in HsOld(S)
    BY <1>7, <2>2, OldItemsAre
  <2> DEFINE y == [items[at] EXCEPT !.by = Append(items[at].by, acc.last)]
  <2>4. [items EXCEPT ![at].by = Append(@, acc.last)] = [items EXCEPT ![at] = y]
    BY <1>5, <1>6
  <2>5. y \in HsOld(S)
    BY <2>3
  <2> HIDE DEF y
  <2>6. /\ [items EXCEPT ![at] = y] \in Seq(HsOld(S))
        /\ DOMAIN [items EXCEPT ![at] = y] = DOMAIN items
    BY <1>5, <1>6, <2>5
  <2> QED
    BY <1>5, <2>4, <2>6
<1>9. gone \in SUBSET Nat /\ gone \subseteq DOMAIN items
  BY <1>2, <1>5, <1>6, <1>7
<1> HIDE DEF linked, gone
<1>10. [items |-> linked, obsoleted |-> gone, last |-> at] \in HsAccs(S)
  BY <1>7, <1>8, <1>9 DEF HsAccs
<1> QED
  BY <1>1, <1>10

OldRun(rows, r) ==
    r = [k \in 0 .. Len(rows) |->
            IF k = 0 THEN [items |-> << >>, obsoleted |-> {}, last |-> 0]
            ELSE TransformRow(r[k - 1], rows[k])]

LEMMA OldTransformed ==
    ASSUME NEW S \in SUBSET HistIds, NEW rows \in Seq(OldRow), \A k \in 1 .. Len(rows) : rows[k].id \in S
    PROVE  TransformItems(rows) \in Seq(HsOld(S))
<1> DEFINE n == Len(rows)
           D == HsAccs(S)
           none == [items |-> << >>, obsoleted |-> {}, last |-> 0]
           st == [x \in D \X (1 .. n) |-> TransformRow(x[1], rows[x[2]])]
           r == CHOOSE r : OldRun(rows, r)
<1>1. TransformItems(rows) = r[n].items
  BY DEF TransformItems, OldRun
<1>2. n \in Nat /\ \A k \in 1 .. n : rows[k] \in OldRow
  OBVIOUS
<1>3. none \in D
  BY DEF HsAccs
<1>4. st \in [D \X (1 .. n) -> D]
  <2> SUFFICES ASSUME NEW x \in D \X (1 .. n) PROVE TransformRow(x[1], rows[x[2]]) \in D
    OBVIOUS
  <2>1. x[1] \in D /\ x[2] \in 1 .. n
    OBVIOUS
  <2>2. rows[x[2]] \in OldRow /\ rows[x[2]].id \in S
    BY <1>2, <2>1
  <2> QED
    BY <2>1, <2>2, OldRowKept
<1>5. \A a \in D, k \in 1 .. n : st[<<a, k>>] = TransformRow(a, rows[k])
  OBVIOUS
<1> HIDE DEF st, n, none
<1>6. PICK w : w \in [0 .. n -> D] /\ w[0] = none /\ \A k \in 1 .. n : w[k] = st[<<w[k - 1], k>>]
  <2> HIDE DEF D
  <2>1. PICK w : HsLoop(n, D, none, st, w)
    BY <1>2, <1>3, <1>4, HsLoopRuns
  <2> QED
    BY <2>1 DEF HsLoop
<1> HIDE DEF D
<1>7. \A k \in 1 .. n : w[k] = TransformRow(w[k - 1], rows[k])
  <2> SUFFICES ASSUME NEW k \in 1 .. n PROVE w[k] = TransformRow(w[k - 1], rows[k])
    OBVIOUS
  <2>1. w[k - 1] \in D
    BY <1>2, <1>6
  <2> QED
    BY <1>5, <1>6, <2>1
<1>8. OldRun(rows, w)
  <2>1. \A k \in 0 .. n : w[k] = IF k = 0 THEN none ELSE TransformRow(w[k - 1], rows[k])
    <3> SUFFICES ASSUME NEW k \in 0 .. n
                 PROVE  w[k] = IF k = 0 THEN none ELSE TransformRow(w[k - 1], rows[k])
      OBVIOUS
    <3>1. k = 0 \/ k \in 1 .. n
      BY <1>2
    <3> QED
      BY <1>6, <1>7, <3>1
  <2>2. w = [k \in 0 .. n |-> w[k]]
    BY <1>6
  <2>3. w = [k \in 0 .. n |-> IF k = 0 THEN none ELSE TransformRow(w[k - 1], rows[k])]
    BY <2>1, <2>2
  <2> QED
    BY <2>3 DEF OldRun, n, none
<1>9. OldRun(rows, r)
  BY <1>8
<1> HIDE DEF r
<1>10. r[0] = none /\ \A k \in 1 .. n : r[k] = TransformRow(r[k - 1], rows[k])
  <2>1. r = [k \in 0 .. n |-> IF k = 0 THEN none ELSE TransformRow(r[k - 1], rows[k])]
    BY <1>9 DEF OldRun, n, none
  <2> QED
    BY <1>2, <2>1
<1> DEFINE G == {k \in 0 .. n : r[k] = w[k]}
<1>11. 0 \in G /\ \A k \in 1 .. n : k - 1 \in G => k \in G
  <2>1. 0 \in G
    BY <1>2, <1>6, <1>10
  <2>2. ASSUME NEW k \in 1 .. n, k - 1 \in G PROVE k \in G
    <3>1. r[k - 1] = w[k - 1] /\ k \in 0 .. n
      BY <1>2, <2>2
    <3> QED
      BY <1>7, <1>10, <3>1
  <2> QED
    BY <2>1, <2>2
<1> HIDE DEF G
<1>12. n \in G
  <2>1. n \in 0 .. n
    BY <1>2
  <2> QED
    BY <1>2, <1>11, <2>1, HsReaches
<1>13. r[n] \in D
  BY <1>6, <1>12 DEF G
<1> QED
  BY <1>1, <1>13 DEF D, HsAccs, n

\* SetToSeq lists the elements of a finite set.
LEMMA ListsAll ==
    ASSUME NEW S, IsFiniteSet(S)
    PROVE  /\ SetToSeq(S) \in Seq(S)
           /\ \A x \in S : \E n \in DOMAIN SetToSeq(S) : SetToSeq(S)[n] = x
<1> DEFINE c == Cardinality(S)
           list == SetToSeq(S)
<1>1. c \in Nat /\ ExistsBijection(1 .. c, S)
  BY FS_CardinalityType
<1>2. \E h \in [1 .. c -> S] : IsInjective(h)
  BY <1>1 DEF ExistsBijection, Bijection, Injection
<1>3. list \in [1 .. c -> S] /\ IsInjective(list)
  BY <1>2 DEF SetToSeq
<1> HIDE DEF list
<1>4. IsFiniteSet(1 .. c) /\ Cardinality(1 .. c) = c
  <2> HIDE DEF c
  <2> QED
    BY <1>1, FS_Interval
<1>5. list \in Injection(1 .. c, S)
  BY <1>3 DEF Injection
<1>6. list \in Surjection(1 .. c, S)
  BY <1>4, <1>5, FS_Injection
<1>7. \A x \in S : \E n \in 1 .. c : list[n] = x
  BY <1>6 DEF Surjection
<1>8. DOMAIN list = 1 .. c /\ list \in Seq(S)
  <2> HIDE DEF c
  <2> QED
    BY <1>1, <1>3
<1> QED
  BY <1>7, <1>8 DEF list

\* The transactions made from the first n of yum.
LEMMA OldTransIs ==
    ASSUME NEW n \in 0 .. Len(OldHistory)
    PROVE  LET T == TransformTrans(n) IN
           /\ T \in Seq(HsTrans) /\ DOMAIN T = 1 .. n /\ Len(T) = n /\ n \in Nat
           /\ \A t \in 1 .. n : \A i \in DOMAIN T[t].items :
                 LET x == T[t].items[i]
                 IN x.kind = "RPM" /\ Named(n, x.id) /\ x.reason = OldReasons[x.id]
<1> DEFINE T == TransformTrans(n)
           Ids(t) == {id \in HistIds : \E k \in 1 .. Len(OldHistory[t].rows) : OldHistory[t].rows[k].id = id}
<1>1. n \in Nat /\ OldHistory \in Seq([done : BOOLEAN, rows : Seq(OldRow)])
  <2>1. OldHistory \in Seq([done : BOOLEAN, rows : Seq(OldRow)])
    BY HistoryAssumption DEF OldRow
  <2>2. Len(OldHistory) \in Nat
    BY <2>1
  <2> QED
    BY <2>1, <2>2
<1>2. \A t \in 1 .. n : OldHistory[t].rows \in Seq(OldRow)
  <2> DEFINE R == [done : BOOLEAN, rows : Seq(OldRow)]
  <2>1. \A r \in R : r.rows \in Seq(OldRow)
    OBVIOUS
  <2>2. OldHistory \in Seq(R)
    BY <1>1
  <2> HIDE DEF R
  <2>3. Len(OldHistory) \in Nat /\ \A t \in 1 .. Len(OldHistory) : OldHistory[t] \in R
    BY <2>2
  <2>4. \A t \in 1 .. n : t \in 1 .. Len(OldHistory)
    BY <1>1, <2>3
  <2> QED
    BY <2>1, <2>3, <2>4
<1>3. ASSUME NEW t \in 1 .. n
      PROVE  TransformItems(OldHistory[t].rows) \in Seq(HsOld(Ids(t)))
  <2> DEFINE rows == OldHistory[t].rows
  <2>1. rows \in Seq(OldRow)
    BY <1>2
  <2>2. \A k \in 1 .. Len(rows) : rows[k].id \in Ids(t)
    <3> SUFFICES ASSUME NEW k \in 1 .. Len(rows) PROVE rows[k].id \in Ids(t)
      OBVIOUS
    <3>1. rows[k] \in OldRow
      BY <2>1
    <3>2. rows[k].id \in HistIds
      BY <3>1 DEF OldRow
    <3> QED
      BY <3>2
  <2>3. Ids(t) \in SUBSET HistIds
    OBVIOUS
  <2> HIDE DEF Ids, rows
  <2>4. TransformItems(rows) \in Seq(HsOld(Ids(t)))
    BY <2>1, <2>2, <2>3, OldTransformed
  <2> QED
    BY <2>4 DEF rows
<1>4. /\ DOMAIN T = 1 .. n
      /\ \A t \in 1 .. n : T[t] = [state |-> IF OldHistory[t].done THEN "DONE" ELSE "ERROR",
                                   items |-> TransformItems(OldHistory[t].rows)]
      /\ T = [t \in 1 .. n |-> T[t]]
  BY DEF TransformTrans
<1> HIDE DEF T
<1>5. ASSUME NEW t \in 1 .. n
      PROVE  /\ T[t] \in HsTrans
             /\ \A i \in DOMAIN T[t].items : LET x == T[t].items[i]
                   IN x.kind = "RPM" /\ Named(n, x.id) /\ x.reason = OldReasons[x.id]
  <2> DEFINE items == TransformItems(OldHistory[t].rows)
  <2>1. items \in Seq(HsOld(Ids(t))) /\ Ids(t) \in SUBSET HistIds
    BY <1>3
  <2>2. T[t].items = items /\ T[t].state \in HsStates
        /\ T[t] = [state |-> T[t].state, items |-> items]
    BY <1>4 DEF HsStates
  <2> HIDE DEF items, Ids
  <2>3. \A i \in DOMAIN items : items[i] \in HsOld(Ids(t))
    BY <2>1
  <2>4. \A x \in HsOld(Ids(t)) : x.kind = "RPM" /\ x.id \in Ids(t) /\ x.reason = OldReasons[x.id]
    BY <2>1, OldItemsAre
  <2>5. HsOld(Ids(t)) \subseteq HsItems
    BY DEF HsOld, HsItems
  <2>6. items \in Seq(HsItems)
    BY <2>1, <2>5
  <2>7. T[t] \in HsTrans
    BY <2>2, <2>6 DEF HsTrans
  <2>8. \A id \in Ids(t) : Named(n, id)
    BY DEF Ids, Named
  <2> QED
    BY <2>2, <2>3, <2>4, <2>7, <2>8
<1>6. T \in Seq(HsTrans) /\ Len(T) = n
  <2>1. T \in [1 .. n -> HsTrans]
    BY <1>4, <1>5
  <2> QED
    BY <1>1, <2>1
<1> QED
  BY <1>1, <1>4, <1>5, <1>6 DEF T

\* The transaction made from groups.json.
LEMMA OldGroupsAre ==
           /\ TransformGroups = <<TransformGroups[1]>> /\ TransformGroups[1] \in HsTrans
           /\ TransformGroups[1].state = "DONE"
           /\ \A i \in DOMAIN TransformGroups[1].items :
                 LET x == TransformGroups[1].items[i]
                 IN /\ x.kind = "GROUP" /\ x.id \in DOMAIN OldGroups /\ x.action = "INSTALL"
                    /\ x.members = OldGroups[x.id]
           /\ \A g \in DOMAIN OldGroups : \E i \in DOMAIN TransformGroups[1].items :
                 TransformGroups[1].items[i].id = g
<1> DEFINE Of1(g) == [GroupItem(g, "INSTALL", OldGroups[g]) EXCEPT !.state = "DONE"]
           S == {Of1(g) : g \in DOMAIN OldGroups}
           row == [state |-> "DONE", items |-> SetToSeq(S)]
<1>1. IsFiniteSet(DOMAIN OldGroups) /\ DOMAIN OldGroups \subseteq GroupIds
  BY HistoryAssumption, FS_Subset
<1>2. \A g \in DOMAIN OldGroups :
         LET x == Of1(g)
         IN /\ x \in HsItems /\ x.kind = "GROUP" /\ x.id = g /\ x.action = "INSTALL"
            /\ x.members = OldGroups[g]
  <2> SUFFICES ASSUME NEW g \in DOMAIN OldGroups
               PROVE  /\ Of1(g) \in HsItems /\ Of1(g).kind = "GROUP" /\ Of1(g).id = g
                      /\ Of1(g).action = "INSTALL" /\ Of1(g).members = OldGroups[g]
    OBVIOUS
  <2> DEFINE x == GroupItem(g, "INSTALL", OldGroups[g])
  <2>1. OldGroups[g] \in HsMembers /\ g \in GroupIds
    BY <1>1 DEF HsMembers
  <2>2. x \in HsItems /\ x.kind = "GROUP" /\ x.id = g /\ x.action = "INSTALL" /\ x.members = OldGroups[g]
    BY <2>1, NewItemsAre DEF GroupItem, Item
  <2>3. "DONE" \in HsStates
    BY DEF HsStates
  <2> HIDE DEF x
  <2> QED
    BY <2>2, <2>3, ItemsAre DEF x
<1>3. IsFiniteSet(S)
  <2> HIDE DEF Of1
  <2> DEFINE f == [g \in DOMAIN OldGroups |-> Of1(g)]
  <2>1. f \in [DOMAIN OldGroups -> S] /\ \A x \in S : \E g \in DOMAIN OldGroups : f[g] = x
    OBVIOUS
  <2>2. f \in Surjection(DOMAIN OldGroups, S)
    BY <2>1 DEF Surjection
  <2> HIDE DEF f, S
  <2> QED
    BY <1>1, <2>2, FS_Surjection
<1>4. TransformGroups = <<row>>
  BY DEF TransformGroups
<1> HIDE DEF Of1, S
<1>5. /\ SetToSeq(S) \in Seq(S)
      /\ \A x \in S : \E n \in DOMAIN SetToSeq(S) : SetToSeq(S)[n] = x
  BY <1>3, ListsAll
<1>6. \A x \in S : /\ x \in HsItems /\ x.kind = "GROUP" /\ x.id \in DOMAIN OldGroups /\ x.action = "INSTALL"
                   /\ x.members = OldGroups[x.id]
  BY <1>2 DEF S
<1>7. \A i \in DOMAIN SetToSeq(S) : SetToSeq(S)[i] \in S
  BY <1>5
<1>8. SetToSeq(S) \in Seq(HsItems)
  BY <1>5, <1>6
<1>9. row \in HsTrans /\ row.state = "DONE" /\ row.items = SetToSeq(S)
  BY <1>8 DEF HsTrans, HsStates
<1> HIDE DEF row
<1>10. TransformGroups = <<TransformGroups[1]>> /\ TransformGroups[1] = row
  BY <1>4, <1>9
<1>11. \A g \in DOMAIN OldGroups : \E i \in DOMAIN SetToSeq(S) : SetToSeq(S)[i].id = g
  <2>1. \A g \in DOMAIN OldGroups : Of1(g) \in S
    BY DEF S
  <2> QED
    BY <1>2, <1>5, <2>1
<1> QED
  BY <1>6, <1>7, <1>9, <1>10, <1>11

LEMMA OneMore ==
    ASSUME NEW A, A \in Seq(HsTrans), NEW b \in HsTrans
    PROVE  /\ A \o <<b>> \in Seq(HsTrans) /\ DOMAIN (A \o <<b>>) = 1 .. Len(A) + 1
           /\ (A \o <<b>>)[Len(A) + 1] = b
           /\ \A t \in 1 .. Len(A) : (A \o <<b>>)[t] = A[t]
<1>1. A \o <<b>> = Append(A, b)
  OBVIOUS
<1>2. /\ Append(A, b) \in Seq(HsTrans) /\ DOMAIN Append(A, b) = 1 .. Len(A) + 1
      /\ Append(A, b)[Len(A) + 1] = b
      /\ \A t \in 1 .. Len(A) : Append(A, b)[t] = A[t]
  OBVIOUS
<1> QED
  BY <1>1, <1>2

LEMMA OpenNewKept ==
    ASSUME HsInv, OpenNew, OldHistoryTells
    PROVE  HsInv'
<1>1. HsTypes /\ HsPlaced
  BY DEF HsInv
<1>2. /\ ~ inProgress.there /\ ~ inProgress.begun /\ inProgress.items = << >>
      /\ hsRpmdb = OldRpmdb /\ dbFile' = "open" /\ UNCHANGED <<hsRpmdb, inProgress>>
  BY <1>1 DEF OpenNew, HsPlaced
<1> DEFINE Known(n) == {id \in HistIds : \E i \in 1 .. n : \E r \in ToSet(OldHistory[i].rows) : r.id = id}
<1>3. PICK n \in 0 .. Len(OldHistory) :
         /\ trans' = IF n = Len(OldHistory) THEN TransformTrans(n) \o TransformGroups ELSE TransformTrans(n)
         /\ wanted' = [id \in HistIds |-> IF id \in Known(n) THEN OldReasons[id] ELSE "UNKNOWN"]
         /\ compsNow' = IF n < Len(OldHistory) THEN NoComps
                        ELSE [c \in DOMAIN NoComps |-> IF c \in DOMAIN OldGroups THEN OldGroups[c] ELSE {}]
  BY DEF OpenNew
<1> DEFINE T == TransformTrans(n)
           all == n = Len(OldHistory)
<1>4. /\ T \in Seq(HsTrans) /\ DOMAIN T = 1 .. n /\ Len(T) = n /\ n \in Nat
      /\ \A t \in 1 .. n : \A i \in DOMAIN T[t].items :
            LET x == T[t].items[i] IN x.kind = "RPM" /\ Named(n, x.id) /\ x.reason = OldReasons[x.id]
  BY OldTransIs
<1>5. \A id \in HistIds : id \in Known(n) <=> Named(n, id)
  <2> DEFINE R == [done : BOOLEAN, rows : Seq(OldRow)]
  <2>1. OldHistory \in Seq(R)
    BY HistoryAssumption DEF OldRow
  <2>2. \A r \in R : \A x : x \in ToSet(r.rows) <=> \E k \in 1 .. Len(r.rows) : x = r.rows[k]
    BY DEF ToSet
  <2> HIDE DEF R
  <2>3. \A t \in 1 .. n : OldHistory[t] \in R
    <3>1. Len(OldHistory) \in Nat /\ \A t \in 1 .. Len(OldHistory) : OldHistory[t] \in R
      BY <2>1
    <3> QED
      BY <1>4, <3>1
  <2>4. \A t \in 1 .. n : \A id : (\E r \in ToSet(OldHistory[t].rows) : r.id = id)
                               <=> \E k \in 1 .. Len(OldHistory[t].rows) : OldHistory[t].rows[k].id = id
    <3> SUFFICES ASSUME NEW t \in 1 .. n, NEW id
                 PROVE  (\E r \in ToSet(OldHistory[t].rows) : r.id = id)
                          <=> \E k \in 1 .. Len(OldHistory[t].rows) : OldHistory[t].rows[k].id = id
      OBVIOUS
    <3> DEFINE rows == OldHistory[t].rows
    <3>1. \A x : x \in ToSet(rows) <=> \E k \in 1 .. Len(rows) : x = rows[k]
      BY <2>2, <2>3
    <3> HIDE DEF rows
    <3>2. (\E r \in ToSet(rows) : r.id = id) <=> \E k \in 1 .. Len(rows) : rows[k].id = id
      BY <3>1
    <3> QED
      BY <3>2 DEF rows
  <2> QED
    BY <2>4 DEF Named
<1> HIDE DEF Known, T
<1>6. /\ all => trans' = T \o TransformGroups
      /\ ~ all => trans' = T
  BY <1>3 DEF T
<1> DEFINE row == TransformGroups[1]
<1>7. /\ row \in HsTrans /\ row.state = "DONE"
      /\ \A i \in DOMAIN row.items :
            LET x == row.items[i]
            IN x.kind = "GROUP" /\ x.id \in DOMAIN OldGroups /\ x.action = "INSTALL" /\ x.members = OldGroups[x.id]
      /\ \A g \in DOMAIN OldGroups : \E i \in DOMAIN row.items : row.items[i].id = g
      /\ TransformGroups = <<row>>
  BY OldGroupsAre
<1> HIDE DEF row
<1>8. /\ trans' \in Seq(HsTrans)
      /\ all => /\ DOMAIN trans' = 1 .. n + 1 /\ trans'[n + 1] = row
                /\ \A t \in 1 .. n : trans'[t] = T[t]
  <2>1. CASE all
    <3>1. /\ T \o TransformGroups \in Seq(HsTrans) /\ DOMAIN (T \o TransformGroups) = 1 .. n + 1
          /\ (T \o TransformGroups)[n + 1] = TransformGroups[1]
          /\ \A t \in 1 .. n : (T \o TransformGroups)[t] = T[t]
      <4>1. TransformGroups = <<row>> /\ row = TransformGroups[1] /\ row \in HsTrans /\ T \in Seq(HsTrans)
        BY <1>4, <1>7 DEF row
      <4>2. /\ T \o <<row>> \in Seq(HsTrans) /\ DOMAIN (T \o <<row>>) = 1 .. Len(T) + 1
            /\ (T \o <<row>>)[Len(T) + 1] = row
            /\ \A t \in 1 .. Len(T) : (T \o <<row>>)[t] = T[t]
        BY <4>1, OneMore
      <4> QED
        BY <1>4, <4>1, <4>2
    <3> HIDE DEF all
    <3> QED
      BY <1>6, <2>1, <3>1 DEF row
  <2> HIDE DEF all
  <2>2. CASE ~ all
    BY <1>4, <1>6, <2>2
  <2> QED
    BY <2>1, <2>2
<1>9. /\ \A id \in HistIds : wanted'[id] = IF Named(n, id) THEN OldReasons[id] ELSE "UNKNOWN"
      /\ wanted' \in [HistIds -> HsReasons]
  <2>1. \A id \in HistIds : OldReasons[id] \in HsReasons
    BY HistoryAssumption DEF HsReasons
  <2> QED
    BY <1>3, <1>5, <2>1, ReasonsRanked
<1>10. DOMAIN OldGroups \subseteq GroupIds /\ GroupIds \cap EnvIds = {}
  BY HistoryAssumption
<1>11. /\ \A c \in GroupIds \cup EnvIds :
              compsNow'[c] = IF all /\ c \in DOMAIN OldGroups THEN OldGroups[c] ELSE {}
       /\ compsNow' \in [GroupIds \cup EnvIds -> HsMembers]
  <2>1. {} \in HsMembers /\ \A g \in DOMAIN OldGroups : OldGroups[g] \in HsMembers
    BY DEF HsMembers
  <2>2. DOMAIN NoComps = GroupIds \cup EnvIds /\ NoComps \in [GroupIds \cup EnvIds -> HsMembers]
        /\ \A c \in GroupIds \cup EnvIds : NoComps[c] = {}
    BY <2>1 DEF NoComps
  <2>3. Len(OldHistory) \in Nat
    BY HistoryAssumption
  <2>4. CASE all
    <3>1. compsNow' = [c \in GroupIds \cup EnvIds |-> IF c \in DOMAIN OldGroups THEN OldGroups[c] ELSE {}]
      BY <1>3, <1>4, <2>2, <2>3, <2>4
    <3> QED
      BY <2>1, <2>4, <3>1
  <2>5. CASE ~ all
    <3>1. compsNow' = NoComps
      BY <1>3, <1>4, <2>3, <2>5
    <3> QED
      BY <2>2, <2>5, <3>1
  <2> QED
    BY <2>4, <2>5
<1> HIDE DEF all
<1>12. HsTypes'
  BY <1>1, <1>2, <1>8, <1>9, <1>11 DEF HsTypes
<1>13. HsPlaced'
  BY <1>1, <1>2 DEF HsPlaced, Lone, AtWork
<1>14. ~ AtWork' /\ RowAtWork' = 0 /\ \A id, action : ~ DoneNow(id, action)'
  BY <1>2 DEF AtWork, RowAtWork, DoneNow
<1>15. ASSUME NEW kind, NEW id, NEW x,
              Tells(T, kind, id, x), kind # "GROUP" \/ id \notin DOMAIN OldGroups \/ ~ all
       PROVE  Tells(trans', kind, id, x)
  <2>1. CASE ~ all
    BY <1>6, <1>15, <2>1
  <2>2. CASE all
    <3>1. Of(trans'[n + 1].items, kind, id, Skipped(kind)) = {}
      BY <1>7, <1>8, <1>15, <2>2 DEF Of
    <3>2. /\ DOMAIN trans' \subseteq Nat /\ n + 1 \in DOMAIN trans' /\ trans'[n + 1].state = "DONE"
          /\ \A t \in DOMAIN trans' : t <= n + 1
          /\ n + 1 \notin DOMAIN T /\ DOMAIN T \subseteq DOMAIN trans'
          /\ \A t \in DOMAIN trans' \ {n + 1} : t \in DOMAIN T /\ T[t] = trans'[t]
      BY <1>4, <1>7, <1>8, <2>2
    <3> QED
      BY <1>15, <3>1, <3>2, DoneAdded
  <2> QED
    BY <2>1, <2>2
<1>16. ASSUME all, NEW g \in DOMAIN OldGroups
       PROVE  Tells(trans', "GROUP", g, OldGroups[g])
  <2>1. Of(trans'[n + 1].items, "GROUP", g, Skipped("GROUP")) # {}
    <3>1. PICK i \in DOMAIN row.items : row.items[i].id = g
      BY <1>7
    <3>2. row.items[i].kind = "GROUP" /\ row.items[i].action = "INSTALL" /\ "INSTALL" \notin Skipped("GROUP")
      BY <1>7 DEF Skipped
    <3> QED
      BY <1>8, <1>16, <3>1, <3>2 DEF Of
  <2>2. \A i \in Of(trans'[n + 1].items, "GROUP", g, Skipped("GROUP")) :
           Answer(trans'[n + 1].items[i]) = OldGroups[g]
    BY <1>7, <1>8, <1>16 DEF Of, Answer
  <2>3. /\ DOMAIN trans' \subseteq Nat /\ n + 1 \in DOMAIN trans' /\ trans'[n + 1].state = "DONE"
        /\ \A t \in DOMAIN trans' : t <= n + 1
        /\ n + 1 \notin DOMAIN T /\ DOMAIN T \subseteq DOMAIN trans'
        /\ \A t \in DOMAIN trans' \ {n + 1} : t \in DOMAIN T /\ T[t] = trans'[t]
    BY <1>4, <1>7, <1>8, <1>16
  <2> QED
    BY <2>1, <2>2, <2>3, DoneAdded
<1>17. \A kind \in {"GROUP", "ENVIRONMENT"} : \A c : Tells(T, kind, c, {})
  <2> SUFFICES ASSUME NEW kind \in {"GROUP", "ENVIRONMENT"}, NEW c PROVE Tells(T, kind, c, {})
    OBVIOUS
  <2>1. \A t \in DOMAIN T : Deciding(T, kind, c, t) = {}
    BY <1>4 DEF Deciding, Of
  <2> QED
    BY <2>1 DEF Tells, NoAnswer
<1>18. /\ \A g \in GroupIds : Tells(trans', "GROUP", g, compsNow'[g])
       /\ \A e \in EnvIds : Tells(trans', "ENVIRONMENT", e, compsNow'[e])
  <2>1. ASSUME NEW g \in GroupIds PROVE Tells(trans', "GROUP", g, compsNow'[g])
    <3>1. CASE all /\ g \in DOMAIN OldGroups
      BY <1>11, <1>16, <3>1
    <3>2. CASE ~ (all /\ g \in DOMAIN OldGroups)
      BY <1>11, <1>15, <1>17, <3>2
    <3> QED
      BY <3>1, <3>2
  <2>2. ASSUME NEW e \in EnvIds PROVE Tells(trans', "ENVIRONMENT", e, compsNow'[e])
    <3>1. compsNow'[e] = {}
      BY <1>10, <1>11
    <3> QED
      BY <1>15, <1>17, <3>1
  <2> QED
    BY <2>1, <2>2
<1>19. ASSUME NEW id \in HistIds, ~ Touched(trans', 0, id), hsRpmdb'[id] # NoEvr
       PROVE  Tells(trans', "RPM", id, wanted'[id])
  <2>1. CASE Named(n, id)
    <3>1. ~ Touched(T, 0, id)
      <4>1. ASSUME Touched(T, 0, id) PROVE Touched(trans', 0, id)
        <5>1. PICK t \in DOMAIN T : t # 0 /\ T[t].state # "DONE"
                   /\ \E i \in DOMAIN T[t].items : T[t].items[i].id = id /\ T[t].items[i].state = "DONE"
          BY <4>1 DEF Touched
        <5>2. t \in DOMAIN trans' /\ trans'[t] = T[t]
          BY <1>4, <1>6, <1>8
        <5> QED
          BY <5>1, <5>2 DEF Touched
      <4> QED
        BY <1>19, <4>1
    <3>2. OldRpmdb[id] # NoEvr
      BY <1>2, <1>19
    <3>3. PICK t \in 1 .. n : /\ LastDecides(T, "RPM", id, t)
                              /\ \A i \in Deciding(T, "RPM", id, t) : T[t].items[i].action # "REMOVE"
      BY <2>1, <3>1, <3>2 DEF OldHistoryTells, T
    <3>4. \A i \in Deciding(T, "RPM", id, t) : Answer(T[t].items[i]) = OldReasons[id]
      <4> SUFFICES ASSUME NEW i \in Deciding(T, "RPM", id, t) PROVE Answer(T[t].items[i]) = OldReasons[id]
        OBVIOUS
      <4>1. i \in DOMAIN T[t].items /\ T[t].items[i].kind = "RPM" /\ T[t].items[i].id = id
        BY RpmRows
      <4> QED
        BY <1>4, <3>3, <4>1 DEF Answer
    <3>5. Tells(T, "RPM", id, OldReasons[id])
      BY <1>4, <3>3, <3>4 DEF Tells
    <3> QED
      BY <1>9, <1>15, <2>1, <3>5
  <2>2. CASE ~ Named(n, id)
    <3>1. \A t \in DOMAIN T : Deciding(T, "RPM", id, t) = {}
      BY <1>4, <2>2 DEF Deciding, Of
    <3>2. Tells(T, "RPM", id, "UNKNOWN")
      BY <3>1 DEF Tells, NoAnswer
    <3> QED
      BY <1>9, <1>15, <2>2, <3>2
  <2> QED
    BY <2>1, <2>2
<1> QED
  BY <1>2, <1>12, <1>13, <1>14, <1>18, <1>19 DEF HsInv, HsTold

LEMMA HsInvStarts == HistInit => HsInv
<1> SUFFICES ASSUME HistInit PROVE HsInv
  OBVIOUS
<1>1. /\ hsRpmdb = OldRpmdb /\ wanted = OldReasons /\ compsNow = NoComps /\ dbFile = "none"
      /\ trans = << >> /\ inProgress = NoTransaction
  BY DEF HistInit
<1>2. NoComps \in [GroupIds \cup EnvIds -> HsMembers]
  BY DEF NoComps, HsMembers
<1>3. OldReasons \in [HistIds -> HsReasons] /\ OldRpmdb \in [HistIds -> Evrs3 \cup {NoEvr}]
  BY HistoryAssumption DEF HsReasons
<1>4. << >> \in Seq(HsTrans)
  OBVIOUS
<1>5. HsTypes
  BY <1>1, <1>2, <1>3, <1>4, NoTransactionIs DEF HsTypes
<1>6. HsPlaced
  BY <1>1, NoTransactionIs DEF HsPlaced, Lone, AtWork
<1> QED
  BY <1>1, <1>5, <1>6 DEF HsInv

LEMMA HsInvKept ==
    ASSUME HsInv, OldHistoryTells, [HistNext]_histVars
    PROVE  HsInv'
<1>1. CASE UNCHANGED histVars
  <2>1. UNCHANGED <<hsRpmdb, wanted, compsNow, dbFile, trans, inProgress>>
    BY <1>1 DEF histVars
  <2>2. HsTypes' /\ HsPlaced' /\ \A id \in HistIds : HsTold(id)' <=> HsTold(id)
    BY <2>1 DEF HsInv, HsTypes, HsPlaced, AtWork, HsTold, DoneNow, RowAtWork
  <2> QED
    BY <2>1, <2>2 DEF HsInv
<1>2. CASE OpenNew
  BY <1>2, OpenNewKept
<1>3. CASE OpenExisting \/ InitTransaction \/ CloseTransaction \/ HistCrash
                    \/ \E t \in DOMAIN trans : MergeTrans(t)
  BY <1>3, QuietSteps
<1>4. CASE BeginTransaction
  BY <1>4, BeginKept
<1>5. CASE \E i \in 1 .. MaxItems : SetItemDone(i)
  BY <1>5, SetItemDoneKept
<1>6. CASE EndTransaction
  BY <1>6, EndKept
<1>7. CASE FailItems
  BY <1>7, FailItemsKept
<1>8. CASE ResetDatabase
  BY <1>8, ResetKept
<1>9. CASE HistRpms \/ HistComps
  BY <1>9, ChangesKept
<1> QED
  BY <1>1, <1>2, <1>3, <1>4, <1>5, <1>6, <1>7, <1>8, <1>9 DEF HistNext, HistStep

\* Through upgrades, removals, crashes and failed transactions the database
\* keeps telling why a package is installed and which groups hold it, whatever
\* the packages, the groups and the history of yum it was made from, as long as
\* that history does not end with the removal of a package that is installed
\* (Swdb and its Transaction, Transformer, RPMItem::resolveTransactionItemReason,
\* getPackageCompsGroups, getCompsGroupEnvironments).
THEOREM HistoryStaysRemembered == OldHistoryTells => (HistSpec => []HistoryRemembers)
<1> SUFFICES ASSUME OldHistoryTells PROVE HistSpec => []HistoryRemembers
  OBVIOUS
<1>1. HistInit => HsInv
  BY HsInvStarts
<1>2. HsInv /\ [HistNext]_histVars => HsInv'
  BY HsInvKept
<1>3. HsInv => HistoryRemembers
  BY HsInvRemembers
<1> QED
  BY <1>1, <1>2, <1>3, PTL DEF HistSpec

=============================================================================
