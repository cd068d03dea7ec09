---------------------------- MODULE ConfigParser ----------------------------
(***************************************************************************)
(* Configuration files: libdnf/utils/iniparser.cpp reads one line by line, *)
(* libdnf/conf/config_parser.{hpp,cpp} keeps what it said, edits it and    *)
(* writes it back.  The parser stores the values and, apart from them, the *)
(* raw text each came from; comments and empty lines are stored as values  *)
(* under keys that no option can have.                                     *)
(*                                                                         *)
(* A file is a sequence of lines; a line is a record, t its kind; one that *)
(* ends with its file, without a delimiter, has a field eof.  A value is   *)
(* the sequence of its lines.                                              *)
(***************************************************************************)
EXTENDS Naturals, Sequences, FiniteSets, SequencesExt

CONSTANTS CpFiles,     \* the files that may be read
          CpSections,  \* the sections,
          CpKeys,      \* keys
          CpValues,    \* and values that a program sets
          CpUnquoted,  \* what is between the quotes of a quoted line
          CpFirst,     \* the lines that some texts make in the first column
          MaxCpEdits   \* bound: edits

VARIABLES cpData,    \* PreserveOrderMap: sequence of [name, items]
          cpRaw,     \* raw_items: <<section>> or <<section, key>> -> lines
          cpHeader,  \* the lines before the first section
          cpItems,   \* item_number: comments numbered so far
          cpFile,    \* what write() produced
          cpFrom,    \* history: the files read
          cpTouched, \* history: sections and options edited since
          cpEdits    \* bound

cpVars == <<cpData, cpRaw, cpHeader, cpItems, cpFile, cpFrom, cpTouched, cpEdits>>

NoItem == [none |-> TRUE]

EmptyLine == [t |-> "empty"]
BlankLine == [t |-> "blank"]
KeyLine(k, v) == [t |-> "key", key |-> k, eq |-> TRUE, val |-> v]
ContLine(v) == [t |-> "cont", val |-> v]
SectLine(s) == [t |-> "sect", name |-> s, closed |-> TRUE, tail |-> "none"]
Bare(v) == [t |-> "key", key |-> v, eq |-> FALSE, val |-> ""]

\* A line without its delimiter, which the next text that is written continues:
\* the kind of line the two make, with a text that is nobody's.
AtEof(l) == l @@ [eof |-> TRUE]
IsOpen(l) == "eof" \in DOMAIN l

Glued(l, m) ==
  LET nothing == m.t \in {"empty", "blank"}
      one == CASE l.t = "comment" -> [t |-> "comment", c |-> "glued"]
               [] l.t \in {"key", "cont"} /\ ~nothing -> [l EXCEPT !.val = "glued"]
               [] l.t = "sect" /\ ~nothing /\ l.tail # "comment" ->
                    [l EXCEPT !.tail = IF m.t = "comment" /\ @ = "none" THEN "comment" ELSE "text"]
               [] l.t = "blank" /\ m.t \in {"cont", "sect"} -> m
               [] l.t = "blank" /\ m.t \in {"key", "comment"} -> ContLine("glued")
               [] OTHER -> l
  IN [x \in (DOMAIN one \ {"eof"}) \cup (DOMAIN m \cap {"eof"}) |-> IF x = "eof" THEN TRUE ELSE one[x]]

-----------------------------------------------------------------------------
(* PreserveOrderMap: linear search, new keys at the end.                    *)

Keyed(map, field, k) == {i \in DOMAIN map : map[i][field] = k}
Has(map, field, k) == Keyed(map, field, k) # {}
At(map, field, k) == CHOOSE i \in Keyed(map, field, k) : TRUE
Without(map, field, k) == SelectSeq(map, LAMBDA e : e[field] # k)

\* The key of an option, and of the n-th comment.
Opt(k) == <<k, 0>>
Comment(n) == <<"#", n>>
IsOption(e) == e.key[2] = 0

PutItem(items, k, v) ==
  IF Has(items, "key", k) THEN [items EXCEPT ![At(items, "key", k)].val = v]
  ELSE Append(items, [key |-> k, val |-> v])

-----------------------------------------------------------------------------
(* IniParser::next, as a fold over the lines: the items read, the section,  *)
(* the option whose value may go on in the next line, and the error that    *)
(* ended the reading.                                                       *)

Item(kind, st, k, v, raw) == [kind |-> kind, section |-> st.section, key |-> k, val |-> v, raw |-> raw]

\* trim_value: empty lines at the end, unless there is nothing else; quotes.
TrimValue(v) ==
  LET full == {i \in DOMAIN v : v[i] # ""}
      cut == IF full = {} THEN v ELSE SubSeq(v, 1, CHOOSE i \in full : \A j \in full : j <= i)
  IN IF Len(cut) = 1 /\ cut[1] \in DOMAIN CpUnquoted THEN <<CpUnquoted[cut[1]]>> ELSE cut

Closed(st) ==
  IF st.open = NoItem THEN st
  ELSE [st EXCEPT !.open = NoItem,
                  !.items = Append(@, Item("KEY_VAL", st, st.open.key, TrimValue(st.open.val), st.open.raw))]

\* The text after a section name is checked up to, and without, the last
\* character of the line.
BadLine(st, l) ==
  \/ l.t = "sect" /\ (~l.closed \/ l.name = "" \/ l.tail = "text")
  \/ l.t = "key" /\ (st.section = "" \/ l.key = "" \/ ~l.eq)
  \/ l.t = "cont" /\ (st.section = "" \/ st.open = NoItem)

Extended(st, v, l) == [st EXCEPT !.open.val = Append(@, v), !.open.raw = Append(@, l)]

NextLine(st, l) ==
  LET c == Closed(st)
  IN IF st.bad THEN st
     ELSE IF l.t = "blank" /\ st.open # NoItem THEN Extended(st, "", l)
     ELSE IF l.t \in {"empty", "comment", "blank"}
     THEN [c EXCEPT !.items = Append(@, Item("COMMENT", c, "", <<>>, <<l>>))]
     ELSE IF l.t = "cont" /\ ~BadLine(st, l) THEN Extended(st, l.val, l)
     ELSE IF BadLine(c, l) THEN [c EXCEPT !.bad = TRUE]
     ELSE IF l.t = "sect"
     THEN [c EXCEPT !.section = l.name,
                    !.items = Append(@, Item("SECTION", [c EXCEPT !.section = l.name], "", <<>>, <<l>>))]
     ELSE [c EXCEPT !.open = [key |-> l.key, val |-> <<l.val>>, raw |-> <<l>>]]

Parsed(file) ==
  LET st == FoldLeft(NextLine, [items |-> <<>>, section |-> "", open |-> NoItem, bad |-> FALSE], file)
  IN Closed(st)

-----------------------------------------------------------------------------
(* ConfigParser, as a record of its fields.                                 *)

NoConfig == [data |-> <<>>, raw |-> [k \in {} |-> <<>>], header |-> <<>>, count |-> 0]
Config == [data |-> cpData, raw |-> cpRaw, header |-> cpHeader, count |-> cpItems]

SetRaw(raw, k, lines) == [x \in DOMAIN raw \cup {k} |-> IF x = k THEN lines ELSE raw[x]]
DropRaw(raw, k) == [x \in DOMAIN raw \ {k} |-> raw[x]]

AddSectionTo(c, s, raw) ==
  IF Has(c.data, "name", s) THEN c
  ELSE [c EXCEPT !.data = Append(@, [name |-> s, items |-> <<>>]),
                 !.raw = IF raw = <<>> THEN @ ELSE SetRaw(@, <<s>>, raw)]

Put(c, s, k, v) == [c EXCEPT !.data[At(c.data, "name", s)].items = PutItem(@, k, v)]

\* set_value with raw text: it looks whether there is any raw text at all, not
\* whether this one is empty.
SetValueRaw(c, s, k, v, raw) ==
  Put([c EXCEPT !.raw = IF DOMAIN @ = {} THEN DropRaw(@, <<s, k>>) ELSE SetRaw(@, <<s, k>>, raw)],
      s, Opt(k), v)

\* slip: the count of comments stays
AddCommentSlip(c, s, raw) == Put(c, s, Comment(c.count + 1), raw)

\* add_comment_line
AddComment(c, s, raw) == Put([c EXCEPT !.count = @ + 1], s, Comment(c.count + 1), raw)

ParserReadItem(c, it) ==
  CASE it.kind = "SECTION" -> AddSectionTo(c, it.section, it.raw)
    [] it.kind = "KEY_VAL" -> SetValueRaw(c, it.section, it.key, it.val, it.raw)
    [] it.kind = "COMMENT" ->
         IF it.section = "" THEN [c EXCEPT !.header = @ \o it.raw] ELSE AddComment(c, it.section, it.raw)

\* read: what came before a bad line stays when the exception leaves.
ReadInto(c, file) == FoldLeft(ParserReadItem, c, Parsed(file).items)

\* create_raw_item: the old key and delimiter and the new value, whose further
\* lines start in the first column.
FirstColumn(v) == IF v = "" THEN EmptyLine ELSE IF v \in DOMAIN CpFirst THEN CpFirst[v] ELSE Bare(v)

CreateRawItem(k, v, old) ==
  IF old = <<>> THEN <<>>
  ELSE [i \in DOMAIN v |-> IF i = 1 THEN KeyLine(k, v[1]) ELSE FirstColumn(v[i])]

SetValueIn(c, s, k, v) ==
  SetValueRaw(c, s, k, v, CreateRawItem(k, v, IF <<s, k>> \in DOMAIN c.raw THEN c.raw[<<s, k>>] ELSE <<>>))

\* write_key_vals: comments, raw text, or key and value with the further lines
\* indented.
WriteItem(c, s, e) ==
  IF ~IsOption(e) THEN e.val
  ELSE IF <<s, e.key[1]>> \in DOMAIN c.raw THEN c.raw[<<s, e.key[1]>>]
  ELSE [i \in DOMAIN e.val |-> IF i = 1 THEN KeyLine(e.key[1], e.val[1])
                               ELSE IF e.val[i] = "" THEN BlankLine ELSE ContLine(e.val[i])]

WriteSection(c, d) ==
  (IF <<d.name>> \in DOMAIN c.raw THEN c.raw[<<d.name>>] ELSE <<SectLine(d.name)>>)
    \o FlattenSeq([i \in DOMAIN d.items |-> WriteItem(c, d.name, d.items[i])])

\* write: the texts one after the other.
Texts(c) == c.header \o FlattenSeq([i \in DOMAIN c.data |-> WriteSection(c, c.data[i])])

Written(c) ==
  FoldLeft(LAMBDA out, l : IF out # <<>> /\ IsOpen(Last(out)) THEN Append(Front(out), Glued(Last(out), l))
                           ELSE Append(out, l), <<>>, Texts(c))

-----------------------------------------------------------------------------

Become(c) == cpData' = c.data /\ cpRaw' = c.raw /\ cpHeader' = c.header /\ cpItems' = c.count

CpRead(f) ==
  /\ Len(cpFrom) < 2
  /\ Become(ReadInto(Config, f))
  /\ cpFrom' = Append(cpFrom, f)
  /\ UNCHANGED <<cpFile, cpTouched, cpEdits>>

Edit(c, touched) ==
  /\ cpEdits < MaxCpEdits
  /\ Become(c)
  /\ cpEdits' = cpEdits + 1
  /\ cpTouched' = cpTouched \cup touched
  /\ UNCHANGED <<cpFile, cpFrom>>

CpSetValue(s, k, v) ==
  Has(cpData, "name", s) /\ Edit(SetValueIn(Config, s, k, v), {<<s, k>>})

CpAddSection(s) ==
  Edit(AddSectionTo(Config, s, <<>>), IF Has(cpData, "name", s) THEN {} ELSE {<<s>>})

\* remove_section forgets the raw text of the section and keeps that of its
\* options.
CpRemoveSection(s) ==
  /\ Has(cpData, "name", s)
  /\ Edit([Config EXCEPT !.data = Without(@, "name", s), !.raw = DropRaw(@, <<s>>)], {<<s>>})

CpRemoveOption(s, k) ==
  /\ Has(cpData, "name", s)
  /\ LET i == At(cpData, "name", s)
     IN /\ Has(cpData[i].items, "key", Opt(k))
        /\ Edit([Config EXCEPT !.data[i].items = Without(@, "key", Opt(k)), !.raw = DropRaw(@, <<s, k>>)], {<<s, k>>})

CpWrite ==
  /\ cpFile' = Written(Config)
  /\ UNCHANGED <<cpData, cpRaw, cpHeader, cpItems, cpFrom, cpTouched, cpEdits>>

CpInit ==
  /\ cpData = <<>> /\ cpRaw = NoConfig.raw /\ cpHeader = <<>> /\ cpItems = 0
  /\ cpFile = <<>> /\ cpFrom = <<>> /\ cpTouched = {} /\ cpEdits = 0

CpNext ==
  \/ \E f \in CpFiles : CpRead(f)
  \/ \E s \in CpSections :
       \/ CpAddSection(s) \/ CpRemoveSection(s)
       \/ \E k \in CpKeys : CpRemoveOption(s, k) \/ \E v \in CpValues : CpSetValue(s, k, v)
  \/ CpWrite

-----------------------------------------------------------------------------

\* What a configuration says outside of what was edited: header, sections with
\* their order, options and comments with theirs.
Outside(c, touched) ==
  LET rest == SelectSeq(c.data, LAMBDA d : <<d.name>> \notin touched)
      body(d) == SelectSeq(d.items, LAMBDA e : <<d.name, e.key[1]>> \notin touched)
      plain(e) == <<e.key[1], e.val>>
  IN <<c.header, [i \in DOMAIN rest |-> <<rest[i].name, [j \in DOMAIN body(rest[i]) |-> plain(body(rest[i])[j])]>>]>>

\* No line that lacks its delimiter is in the middle of what is written, and the
\* further lines of every value are indented.
LinesEnd(c) == \A i \in DOMAIN Texts(c) : IsOpen(Texts(c)[i]) => i = Len(Texts(c))

ValuesIndented(c) ==
  \A i \in DOMAIN c.data : \A e \in ToSet(SelectSeq(c.data[i].items, IsOption)) :
     LET text == WriteItem(c, c.data[i].name, e)
     IN \A n \in 2 .. Len(text) : text[n].t \in {"cont", "blank"}

(* "preserve order of items. Comments and empty lines are kept": whatever   *)
(* edits come between reading files and writing one, reading the result     *)
(* gives every untouched option, comment and empty line in its place, and   *)
(* as long as no section came or went every comment line is there.  Not so  *)
(* behind a line that lost its end, or when create_raw_item puts a further  *)
(* line of a new value in the first column, where it is no continuation.    *)
UntouchedIsKept ==
  [][cpFile' # cpFile /\ LinesEnd(Config) =>
       LET comments(file) == {file[i] : i \in {j \in DOMAIN file : file[j].t = "comment"}}
           again == ReadInto(NoConfig, cpFile')
           known(c) == [c EXCEPT !.data = SelectSeq(@, LAMBDA d : <<d.name>> \notin cpTouched
                                   /\ \E i \in DOMAIN cpFrom :
                                        Has(ReadInto(NoConfig, cpFrom[i]).data, "name", d.name))]
           before == FoldLeft(ReadInto, NoConfig, cpFrom)
       IN /\ ValuesIndented(Config) =>
               Outside(known(again), cpTouched) = Outside(known(before), cpTouched)
          /\ (\A x \in cpTouched : Len(x) = 2) =>
                \A i \in DOMAIN cpFrom :
                  Parsed(cpFrom[i]).bad \/ comments(cpFrom[i]) \subseteq comments(cpFile')]_cpVars

(* "Writes all data (all sections) to INI file": what is written reads back *)
(* as the options that the parser holds, unless a read() before it threw.   *)
AllDataWritten ==
  [][cpFile' # cpFile /\ (\A i \in DOMAIN cpFrom : ~Parsed(cpFrom[i]).bad) =>
       LET options(c) ==
             [i \in DOMAIN c.data |->
                <<c.data[i].name, SelectSeq(c.data[i].items, IsOption)>>]
       IN options(ReadInto(NoConfig, cpFile')) = options(Config)]_cpVars
=============================================================================
