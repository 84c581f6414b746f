----------------------------- MODULE ParamText -----------------------------
(***************************************************************************)
(* Parameters as text, end to end (host/host.c): get_parameters gives the  *)
(* program a name and a value for each parameter, the program keeps them,  *)
(* and in this session or in another, with another version of the plugin,  *)
(* hands them to set_parameter, which queues what realtime_run applies to  *)
(* the parameter of that name.                                             *)
(*                                                                         *)
(* The value in the host's tree is also the plugin's, as each push makes   *)
(* it (HostValues has the races); removals are in ParamLink.               *)
(***************************************************************************)
EXTENDS Integers, Sequences, FiniteSets, SequencesExt

CONSTANTS
  Char,             \* characters of names
  Layouts,          \* versions of the plugin
  Foreign,          \* texts of values that get_parameters did not make
  Fallible,         \* allocations that may fail
  BufferInitial,    \* SERIALIZE_BUFFER_INITIAL_SIZE
  BufferIncrement,  \* SERIALIZE_BUFFER_INCREMENT_SIZE
  MaxCalls          \* bound on the set_parameter calls of a session

Separator == "/"
EscapeChar == "^"

(* A layout has groups, each with its parent (0 is the root) and its name,  *)
(* and parameters, each with its group, name, type, labels and whether it   *)
(* appears only in the course of the session.                               *)
Types == {"boolean", "int", "float", "enum"}
Name == Seq(Char)
Group == [parent : Nat, name : Name]
Param == [group : Nat, name : Name, type : Types, labels : Seq(STRING), late : BOOLEAN]
Params(l) == 1..Len(l.params)
Groups(l) == 1..Len(l.groups)

\* Each group is given after its parent, each parameter has a group, and an enum
\* a label.
IsLayout(l) ==
  /\ l.groups \in Seq(Group) /\ l.params \in Seq(Param)
  /\ \A g \in Groups(l) : l.groups[g].parent \in 0..(g - 1)
  /\ \A i \in Params(l) :
       /\ l.params[i].group \in 0..Len(l.groups)
       /\ l.params[i].type = "enum" => l.params[i].labels # <<>>

ASSUME ParamTextAssumption ==
  /\ {Separator, EscapeChar} \subseteq Char
  /\ BufferInitial \in Nat \ {0} /\ BufferIncrement \in Nat /\ MaxCalls \in Nat
  /\ Fallible \subseteq {"buffer", "locale", "name", "message", "second",
                         "change", "string"}
  /\ \A l \in Layouts : IsLayout(l)

VARIABLES
  layout,    \* the version in use
  present,   \* the parameters in the host's tree
  value,     \* their values
  saved,     \* what get_parameters gave, kept over sessions
  queue,     \* ui_to_realtime_queue, of set messages
  postponed, \* pending_parameter_value_changes
  draining,  \* realtime_run has the lock
  out,       \* chunks handed out, of each kind
  lost,      \* history: those of them the code has let go of
  locale,    \* LC_NUMERIC of the process
  broken,    \* what has ended the process, or "no"
  calls,     \* set_parameter calls of this session
  expect     \* history: what each parameter should mean

vars == <<layout, present, value, saved, queue, postponed, draining, out, lost,
          locale, broken, calls, expect>>

P(i) == layout.params[i]

\* The values of a parameter, for an enum the indices of its labels.  A float
\* counts tenths of a millionth.
Whole == 10000000
FloatValues == {4, 12000005}
ValuesOf(p) ==
  CASE p.type = "boolean" -> {0, 1}
    [] p.type = "int" -> {-1, 2}
    [] p.type = "float" -> FloatValues
    [] p.type = "enum" -> 0..(Len(p.labels) - 1)
FirstValue(p) == CHOOSE v \in ValuesOf(p) : \A w \in ValuesOf(p) : v <= w

\* What an enum can come to hold: the index behind its labels stands for all
\* those that have none.
Holdable(p) == IF p.type = "enum" THEN 0..Len(p.labels) ELSE ValuesOf(p)
Labelled(i) == P(i).type = "enum" => value[i] \in ValuesOf(P(i))

----------------------------------------------------------------------------
(* Names. *)

\* strdup_escape: what is written for a character.
\* Faulty: only the separator is escaped.
EscapedSeparator(c) == IF c = Separator THEN <<EscapeChar, c>> ELSE <<c>>
Escaped(c) == IF c \in {Separator, EscapeChar} THEN <<EscapeChar, c>> ELSE <<c>>
Escape(s) ==
  LET written[k \in 0..Len(s)] ==
        IF k = 0 THEN <<>> ELSE written[k - 1] \o Escaped(s[k])
  IN written[Len(s)]

\* prepend_string: room is what is left in front of the text.
\* Faulty: a new buffer is larger by the increment alone.
GrownByIncrement(b, s) ==
  IF Len(s) > b.room THEN [b EXCEPT !.room = @ + BufferIncrement] ELSE b
Grown(b, s) ==
  IF Len(s) > b.room THEN [b EXCEPT !.room = @ + Len(s) + BufferIncrement] ELSE b
Prepend(b, s) == LET n == Grown(b, s) IN [room |-> n.room - Len(s), text |-> s \o n.text]

\* The names of the groups from below the root down to a group, for each group.
GroupPath(l) ==
  LET above[g \in 0..Len(l.groups)] ==
        IF g = 0 THEN <<>> ELSE Append(above[l.groups[g].parent], l.groups[g].name)
  IN above
FullName(l, i) == Append(GroupPath(l)[l.params[i].group], l.params[i].name)
Path(i) == FullName(layout, i)

\* The buffer dynparam_get_parameter fills from its end: the parameter's name,
\* then group by group up to the root.
NameBuffer(i) ==
  LET groups == GroupPath(layout)[P(i).group]
      filled[k \in 0..Len(groups)] ==
        IF k = 0
          THEN Prepend([room |-> BufferInitial - 1, text |-> <<>>], Escape(P(i).name))
          ELSE Prepend(Prepend(filled[k - 1], <<Separator>>),
                       Escape(groups[Len(groups) - k + 1]))
  IN filled[Len(groups)]

\* string_unescape: the names the text is cut into; its buffer ends in two zeros.
CutAt(a, c) ==
  IF c = EscapeChar /\ ~a.escape THEN [a EXCEPT !.escape = TRUE]
  ELSE IF c = Separator /\ ~a.escape THEN [a EXCEPT !.names = Append(@, <<>>)]
  ELSE [names |-> Append(Front(a.names), Append(Last(a.names), c)), escape |-> FALSE]
Unescape(text) ==
  LET cut[k \in 0..Len(text)] ==
        IF k = 0 THEN [names |-> <<<<>>>>, escape |-> FALSE]
        ELSE CutAt(cut[k - 1], text[k])
  IN cut[Len(text)].names

\* find_parameter_asciizz: the first group of each name, and of the last name a
\* parameter.  An empty name ends the search, or makes the name before it the last.
NotFound == 0
Find(names) ==
  LET empty == SelectInSeq(names, LAMBDA n : n = <<>>)
      cut == IF empty = 0 THEN names ELSE SubSeq(names, 1, empty - 1)
      Child(g, n) == SelectInSeq(layout.groups, LAMBDA c : c.parent = g /\ c.name = n)
      \* the group the search is in after k names; -1 when it has ended
      at[k \in 0..Len(cut)] ==
        IF k = 0 THEN 0
        ELSE IF at[k - 1] = -1 \/ Child(at[k - 1], cut[k]) = 0 THEN -1
        ELSE Child(at[k - 1], cut[k])
      hits == {i \in present : P(i).group = at[Len(cut) - 1] /\ P(i).name = Last(cut)}
  IN IF cut = <<>> \/ hits = {} THEN NotFound ELSE CHOOSE i \in hits : \A j \in hits : i <= j

----------------------------------------------------------------------------
(* Values. *)

Point(loc) == IF loc = "POSIX" THEN "." ELSE ","
Text(letter, point, content) == [letter |-> letter, point |-> point, content |-> content]

\* "%f" keeps millionths.
Rounded(v) == ((v + 5) \div 10) * 10

\* Faulty: written as the program's user writes numbers.
WrittenForUser(p, v) ==
  CASE p.type = "boolean" -> Text("b", "", v)
    [] p.type = "int" -> Text("i", "", v)
    [] p.type = "float" -> Text("f", Point(locale), Rounded(v))
    [] p.type = "enum" -> Text("s", "", p.labels[v + 1])
\* The value dynparam_get_parameter writes while it has set the POSIX locale.
Written(p, v) ==
  CASE p.type = "boolean" -> Text("b", "", v)
    [] p.type = "int" -> Text("i", "", v)
    [] p.type = "float" -> Text("f", Point("POSIX"), Rounded(v))
    [] p.type = "enum" -> Text("s", "", p.labels[v + 1])

\* set_parameter: the type the letter stands for and the value read.
Unknown == [type |-> "unknown", data |-> 0]
LetterType == [b |-> "boolean", f |-> "float", i |-> "int", s |-> "string"]
ReadFloat(t) ==
  IF t.point = Point("POSIX") THEN t.content ELSE (t.content \div Whole) * Whole
Read(t) ==
  IF t.letter \notin DOMAIN LetterType \/ (t.letter = "b" /\ t.content \notin {0, 1})
    THEN Unknown
    ELSE [type |-> LetterType[t.letter],
          data |-> IF t.letter = "f" THEN ReadFloat(t) ELSE t.content]

\* The index of the first label that is the text.
\* Faulty: counted from one.
IndexFromOne(p, text) == SelectInSeq(p.labels, LAMBDA x : x = text)
IndexOf(p, text) == SelectInSeq(p.labels, LAMBDA x : x = text) - 1

\* What parameter_value_change may store: the value, or, when the text was of
\* another type, whatever the union's bytes are as a value of the parameter's.
\* Nothing for a text that is no label.
\* Faulty: the number is taken as it is, whichever type it was.
StoredAsGiven(p, read) ==
  IF p.type = "enum" \/ read.type = "string" THEN {} ELSE {read.data}
Stored(p, read) ==
  IF p.type = "enum"
    THEN IF read.type = "string"
           THEN IF IndexOf(p, read.data) < 0 THEN {} ELSE {IndexOf(p, read.data)}
           ELSE Holdable(p)
    ELSE IF read.type = p.type THEN {read.data} ELSE ValuesOf(p)

----------------------------------------------------------------------------
(* What a value means: for an enum its label, so that a version may order    *)
(* its labels as it likes.                                                   *)

NoLabel == "no label"
Meaning(p, v) ==
  [type |-> p.type,
   what |-> IF p.type # "enum" THEN v ELSE IF v < Len(p.labels) THEN p.labels[v + 1]
            ELSE NoLabel]
Anything == [type |-> "any", what |-> 0]

\* What a parameter should mean after a restored value has been applied to it.
Expected(p, before, meaning) ==
  IF meaning.type # p.type THEN Anything
  ELSE IF p.type = "enum" /\ IndexOf(p, meaning.what) < 0 THEN before
  ELSE meaning

----------------------------------------------------------------------------
(* get_parameters. *)

Entry(i) ==
  [name |-> NameBuffer(i).text, text |-> Written(P(i), value[i]),
   path |-> Path(i), meaning |-> Meaning(P(i), value[i])]

\* The parameters the callback is called for: all but those whose allocations
\* fail.
Told(failed) == present \ failed

\* When the name of the locale cannot be kept the process stays in POSIX.
GetParameters ==
  /\ broken = "no" /\ ~draining
  /\ \E failed \in SUBSET present, kept \in BOOLEAN :
       /\ failed # {} => "buffer" \in Fallible
       /\ ~kept => "locale" \in Fallible
       /\ LET told == Told(failed) IN
            IF \E i \in told : ~Labelled(i)
              THEN broken' = "label" /\ UNCHANGED saved
            ELSE IF \E i \in told : NameBuffer(i).room < 0
              THEN broken' = "buffer" /\ UNCHANGED saved
            ELSE saved' = {Entry(i) : i \in told} /\ UNCHANGED broken
       /\ locale' = IF kept THEN locale ELSE "POSIX"
  /\ UNCHANGED <<layout, present, value, queue, postponed, draining, out, lost,
                 calls, expect>>

----------------------------------------------------------------------------
(* set_parameter. *)

Kinds == {"messages", "changes", "names", "strings"}
None == [k \in Kinds |-> 0]
One(ks) == [k \in Kinds |-> IF k \in ks THEN 1 ELSE 0]
Plus(a, b) == [k \in Kinds |-> a[k] + b[k]]
Minus(a, b) == [k \in Kinds |-> a[k] - b[k]]

Allocations == <<"name", "message", "second", "change", "string">>
ChunkOf == [name |-> "names", message |-> "messages", change |-> "changes",
            string |-> "strings"]

\* What the labels give back when the step named at fails; the pointer to the
\* first message has been overwritten with that to the second.
\* Faulty: the name is forgotten when the value cannot be read.
SetGivesBackNotName(at) ==
  CASE at \in {"name", "message"} -> One(IF at = "message" THEN {"names"} ELSE {})
    [] at = "change" -> One({"messages", "names"})
    [] at = "value" -> One({"messages", "changes"})
SetGivesBack(at) ==
  CASE at \in {"name", "message"} -> One(IF at = "message" THEN {"names"} ELSE {})
    [] at = "change" -> One({"messages", "names"})
    [] at = "value" -> One({"messages", "changes", "names"})

\* What has been taken before that step.
SetTook(at) ==
  CASE at = "name" -> None
    [] at = "message" -> One({"names"})
    [] at = "change" -> Plus(One({"names", "messages"}), One({"messages"}))
    [] at = "value" -> Plus(One({"names", "messages", "changes"}), One({"messages"}))

SetFails(text) ==
  /\ \E at \in {"name", "message", "change", "value"} :
       /\ at = "value" => Read(text) = Unknown
                          \/ (Read(text).type = "string" /\ "string" \in Fallible)
       /\ at # "value" => at \in Fallible
       /\ out' = Plus(out, Minus(SetTook(at), SetGivesBack(at)))
       /\ lost' = Plus(lost, One(IF at \in {"change", "value"} THEN {"messages"} ELSE {}))
  /\ UNCHANGED <<queue, broken>>

\* The second message is not tested before it is used.
SetBreaks ==
  /\ "second" \in Fallible
  /\ broken' = "message"
  /\ UNCHANGED <<queue, out, lost>>

SetQueued(entry, text) ==
  LET read == Read(text) IN
  /\ read # Unknown
  /\ queue' = Append(queue,
       [names |-> Unescape(entry.name), read |-> read, path |-> entry.path,
        meaning |-> IF text = entry.text THEN entry.meaning ELSE Anything])
  /\ out' = Plus(Plus(out, One({"messages"})),
                 One({"names", "messages", "changes"}
                     \cup IF read.type = "string" THEN {"strings"} ELSE {}))
  /\ lost' = Plus(lost, One({"messages"}))
  /\ UNCHANGED broken

SetParameter(entry, text) ==
  /\ broken = "no" /\ ~draining /\ calls < MaxCalls
  /\ calls' = calls + 1
  /\ SetFails(text) \/ SetBreaks \/ SetQueued(entry, text)
  /\ \/ UNCHANGED locale
     \/ "locale" \in Fallible /\ locale' = "POSIX"
  /\ UNCHANGED <<layout, present, value, saved, postponed, draining, expect>>

----------------------------------------------------------------------------
(* realtime_run and change_rt. *)

\* The plugin hears of a change and may let parameters appear.
Callback == \E new \in SUBSET (Params(layout) \ present) : present' = present \cup new

RealtimeEnter ==
  /\ broken = "no" /\ ~draining /\ queue # <<>>
  /\ draining' = TRUE
  /\ UNCHANGED <<layout, present, value, saved, queue, postponed, out, lost,
                 locale, broken, calls, expect>>

\* free_parameter_pending_value_change: the string only if an enum has taken it.
FreesString(p, read) == read.type = "string" /\ p.type = "enum"

Applied(i, m) ==
  /\ IF Stored(P(i), m.read) = {} THEN UNCHANGED <<value, present>>
     ELSE /\ \E v \in Stored(P(i), m.read) : value' = [value EXCEPT ![i] = v]
          /\ Callback
  /\ out' = Minus(out, One({"messages", "changes", "names"}
                           \cup IF FreesString(P(i), m.read) THEN {"strings"} ELSE {}))
  /\ lost' = Plus(lost, One(IF m.read.type = "string" /\ ~FreesString(P(i), m.read)
                              THEN {"strings"} ELSE {}))
  /\ UNCHANGED postponed

\* Nobody reads the list.
Postpone(m) ==
  /\ postponed' = Append(postponed, m.read.type)
  /\ out' = Minus(out, One({"messages"}))
  /\ UNCHANGED <<value, present, lost>>

RealtimeMessage ==
  LET m == Head(queue) IN
  /\ broken = "no" /\ draining
  /\ IF Find(m.names) = NotFound THEN Postpone(m) ELSE Applied(Find(m.names), m)
  /\ expect' = [i \in Params(layout) |->
       IF i \in present /\ Path(i) = m.path THEN Expected(P(i), expect[i], m.meaning)
       ELSE expect[i]]
  /\ queue' = Tail(queue)
  /\ draining' = (Len(queue) > 1)
  /\ UNCHANGED <<layout, saved, locale, broken, calls>>

\* Of an enum the program may give any index.
ChangeRt(i, v) ==
  /\ broken = "no" /\ ~draining
  /\ value' = [value EXCEPT ![i] = v]
  /\ Callback
  /\ expect' = [expect EXCEPT ![i] = Meaning(P(i), v)]
  /\ UNCHANGED <<layout, saved, queue, postponed, draining, out, lost, locale,
                 broken, calls>>

----------------------------------------------------------------------------
\* A session with version l of the plugin; the one before it may have ended in
\* any way, and what it had not saved is gone.
Fresh(l) ==
  [layout |-> l, present |-> {i \in Params(l) : ~l.params[i].late},
   value |-> [i \in Params(l) |-> FirstValue(l.params[i])]]

Init ==
  /\ layout \in Layouts
  /\ present = Fresh(layout).present /\ value = Fresh(layout).value
  /\ saved = {} /\ queue = <<>> /\ postponed = <<>> /\ draining = FALSE
  /\ out = None /\ lost = None /\ locale = "user" /\ broken = "no" /\ calls = 0
  /\ expect = [i \in Params(layout) |-> Meaning(P(i), value[i])]

NewSession(l) ==
  /\ layout' = l /\ present' = Fresh(l).present /\ value' = Fresh(l).value
  /\ queue' = <<>> /\ postponed' = <<>> /\ out' = None /\ lost' = None
  /\ locale' = "user" /\ calls' = 0 /\ draining' = FALSE /\ broken' = "no"
  /\ expect' = [i \in Params(l) |-> Meaning(l.params[i], Fresh(l).value[i])]
  /\ UNCHANGED saved

Next ==
  \/ GetParameters
  \/ \E entry \in saved : \E text \in {entry.text} \cup Foreign : SetParameter(entry, text)
  \/ RealtimeEnter \/ RealtimeMessage
  \/ \E i \in present : \E v \in Holdable(P(i)) : ChangeRt(i, v)
  \/ \E l \in Layouts : NewSession(l)

Spec == Init /\ [][Next]_vars
----------------------------------------------------------------------------
(* What a plugin keeps from version to version, and a program hands over, for *)
(* its values to come back.  The code tests none of it.                       *)

\* Nothing is without a name.
Named(l) ==
  /\ \A g \in Groups(l) : l.groups[g].name # <<>>
  /\ \A i \in Params(l) : l.params[i].name # <<>>

\* Below one group no two groups and no two parameters have one name.
Apart(l) ==
  /\ \A g, h \in Groups(l) :
       l.groups[g].parent = l.groups[h].parent /\ l.groups[g].name = l.groups[h].name
         => g = h
  /\ \A i, j \in Params(l) :
       l.params[i].group = l.params[j].group /\ l.params[i].name = l.params[j].name
         => i = j

VersionsAgree ==
  /\ \A l \in Layouts : Named(l) /\ Apart(l)
  /\ \A t \in Foreign : Read(t) = Unknown \/ Read(t).type = "string"

----------------------------------------------------------------------------
(* Properties. *)

TypeOK ==
  /\ layout \in Layouts /\ present \subseteq Params(layout)
  /\ DOMAIN value = Params(layout) /\ DOMAIN expect = Params(layout)
  /\ \A i \in Params(layout) :
       IF P(i).type = "float" THEN value[i] \in Nat ELSE value[i] \in Holdable(P(i))
  /\ draining \in BOOLEAN /\ broken \in {"no", "message", "label", "buffer"}
  /\ locale \in {"user", "POSIX"}
  /\ calls \in 0..MaxCalls /\ Len(queue) + Len(postponed) <= MaxCalls

\* A parameter means what was last asked for it, by change_rt or by restoring a
\* text that was saved from the parameter of the same full name, in this version
\* of the plugin or another: names with separators and escapes, reordered labels
\* and numbers come back as they were, and no text lands on another parameter.
SavedIsRestored ==
  \A i \in Params(layout) : expect[i] # Anything =>
    LET now == Meaning(P(i), value[i]) IN
      IF P(i).type = "float" THEN now.what - expect[i].what \in -5..5
      ELSE now = expect[i]

\* Every chunk that set_parameter has taken, and not let go of, is that of a
\* message in the queue or a change that was postponed: a step that fails gives
\* back what the steps before it took, and the drain what the message held.
ChunksAccounted ==
  LET queued == {k \in 1..Len(queue) : queue[k].read.type = "string"}
      waiting == {k \in 1..Len(postponed) : postponed[k] = "string"} IN
  Minus(out, lost) =
    [k \in Kinds |->
       CASE k = "messages" -> Len(queue)
         [] k = "strings" -> Cardinality(queued) + Cardinality(waiting)
         [] OTHER -> Len(queue) + Len(postponed)]

\* No name is written in front of its buffer (host.c:740).
NamesInBuffer == broken # "buffer"

\* An enum comes to an index that has no label, on which the next get_parameters
\* reads outside its labels (host.c:878), only by an index the program has given
\* change_rt for it or by a text of another type that was saved under its full name,
\* whose bytes are taken for an index (host.c:1046): never by restoring a label,
\* whichever version it comes from and however the labels have moved.
LabelsLostToNumbers ==
  [][\A i \in present :
       layout' = layout /\ Labelled(i) /\ ~Labelled(i)' =>
         IF draining
           THEN Head(queue).read.type # "string" /\ Find(Head(queue).names) = i
           ELSE \E v \in Holdable(P(i)) : ChangeRt(i, v)]_vars

\* Every enum has the label of its value.
EveryEnumLabelled == \A i \in present : Labelled(i)

\* Every text that was handed over has taken effect when the queue is empty.
NothingPostponed == postponed = <<>>

\* No chunk is handed out that nothing points to (host.c:1569, 1110).
NothingLost == lost = None

\* The program's locale is what it was.
LocaleKept == locale = "user"
=============================================================================
