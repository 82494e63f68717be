----------------------------- MODULE INIReader -----------------------------
(***************************************************************************)
(* src/src/util/INIReader.h: a settings file is parsed line by line, and   *)
(* each value read goes to a handler that collects them by section and     *)
(* name.  A line is what the reader returns (a longer one comes in         *)
(* pieces), and is known here by what the scanning of its characters       *)
(* makes of it:                                                            *)
(*   nothing  blank, or begins with a comment                              *)
(*   section  [word]                                                       *)
(*   open     [ and no closing bracket before the end or a comment         *)
(*   pair     word = value, or with a colon; either may be empty           *)
(*   text     anything else                                                *)
(* and whether it is indented.  The text of a value is named by the number *)
(* of its line.  A byte order mark before the first line does not matter.  *)
(***************************************************************************)
EXTENDS Integers, SequencesExt

CONSTANTS
  SectionWords, Names,
  Lower,   \* word -> it in lower case
  Cut,     \* word -> what strncpy0 keeps of it: 49 characters
  MaxLines \* bound

VARIABLES
  section, prev_name, error, \* of ini_parse_stream
  values, sections,          \* _values: key -> the lines in it, _sections
  lines                      \* the lines read

vars == <<section, prev_name, error, values, sections, lines>>

Line(kind, words, empty) ==
  [kind : {kind}, word : words, empty : empty, indented : BOOLEAN]
Lines ==
  Line("nothing", {""}, {TRUE}) \cup Line("section", SectionWords, {FALSE})
    \cup Line("open", {""}, {FALSE}) \cup Line("text", {""}, {FALSE})
    \cup Line("pair", Names, BOOLEAN)

Init ==
  /\ section = "" /\ prev_name = "" /\ error = 0
  /\ values = <<>> /\ sections = {} /\ lines = <<>>

MakeKey(s, n) == <<Lower[s], Lower[n]>>

\* The value of the current line is added to those of the key, after a newline
\* unless there is nothing yet.
ValueHandler(s, n, empty) ==
  LET key == MakeKey(s, n)
      old == IF key \in DOMAIN values THEN values[key] ELSE <<>>
      new == IF old = <<>> /\ empty THEN <<>> ELSE Append(old, Len(lines) + 1)
  IN /\ values' = [k \in DOMAIN values \cup {key} |->
                     IF k = key THEN new ELSE values[k]]
     /\ sections' = sections \cup {s}

Continues(l) == prev_name # "" /\ l.indented

Comment(l) ==
  /\ l.kind = "nothing"
  /\ UNCHANGED <<section, prev_name, error, values, sections>>

Continuation(l) ==
  /\ l.kind # "nothing" /\ Continues(l)
  /\ ValueHandler(section, prev_name, FALSE)
  /\ UNCHANGED <<section, prev_name, error>>

\* Mutant: the name read last stays.
HeadingKeepsName(l) ==
  /\ l.kind = "section" /\ ~Continues(l)
  /\ section' = Cut[l.word]
  /\ UNCHANGED <<prev_name, error, values, sections>>

Heading(l) ==
  /\ l.kind = "section" /\ ~Continues(l)
  /\ section' = Cut[l.word] /\ prev_name' = ""
  /\ UNCHANGED <<error, values, sections>>

\* The handler is given the whole name and never fails.
Pair(l) ==
  /\ l.kind = "pair" /\ ~Continues(l)
  /\ prev_name' = Cut[l.word]
  /\ ValueHandler(section, l.word, l.empty)
  /\ UNCHANGED <<section, error>>

\* Mutant: the last error is kept.
WrongLast(l) ==
  /\ l.kind \in {"open", "text"} /\ ~Continues(l)
  /\ error' = Len(lines) + 1
  /\ UNCHANGED <<section, prev_name, values, sections>>

Wrong(l) ==
  /\ l.kind \in {"open", "text"} /\ ~Continues(l)
  /\ error' = IF error = 0 THEN Len(lines) + 1 ELSE error
  /\ UNCHANGED <<section, prev_name, values, sections>>

ReadLine(l) ==
  /\ error # -1 /\ Len(lines) < MaxLines
  /\ lines' = Append(lines, l)
  /\ Comment(l) \/ Continuation(l) \/ Heading(l) \/ Pair(l) \/ Wrong(l)

\* There is no such file.
OpenFails ==
  /\ lines = <<>> /\ error' = -1
  /\ UNCHANGED <<section, prev_name, values, sections, lines>>

Next == OpenFails \/ \E l \in Lines : ReadLine(l)

Spec == Init /\ [][Next]_vars

Get(s, n, default) ==
  LET key == MakeKey(s, n)
  IN IF key \in DOMAIN values THEN values[key] ELSE default

-----------------------------------------------------------------------------
(* Properties *)

Before(i) == 1 .. i - 1

\* What a line is, from the lines before it: an indented one that is not blank
\* or a comment goes on with the value of the last pair, whatever it looks like,
\* unless a section has begun since or that pair has no name.
Role[i \in DOMAIN lines] ==
  LET l == lines[i]
      goesOn ==
        \E j \in Before(i) :
          /\ Role[j] = "pair" /\ lines[j].word # ""
          /\ \A k \in j + 1 .. i - 1 : Role[k] \notin {"section", "pair"}
  IN IF l.kind # "nothing" /\ l.indented /\ goesOn THEN "more" ELSE l.kind

Latest(i, role) ==
  LET found == {j \in 1 .. i : Role[j] = role}
  IN IF found = {} THEN 0 ELSE CHOOSE j \in found : \A k \in found : k <= j

SectionOf(i) ==
  LET j == Latest(i, "section") IN IF j = 0 THEN "" ELSE lines[j].word

\* The lines that go on with a value have its name.
NameOf(i) == lines[Latest(i, "pair")].word

HasValue(i) == Role[i] \in {"pair", "more"}
Valued == SelectSeq([i \in DOMAIN lines |-> i], HasValue)
Empty(i) == Role[i] = "pair" /\ lines[i].empty

\* The values of a section and a name: every line that has one, in their order.
ValuesOf(s, n) ==
  LET own(i) == MakeKey(SectionOf(i), NameOf(i)) = MakeKey(s, n)
      all == SelectSeq(Valued, own)
      full == {p \in DOMAIN all : ~Empty(all[p])}
  IN IF full = {} THEN <<>>
     ELSE SubSeq(all, CHOOSE p \in full : \A q \in full : p <= q, Len(all))

TypeOK ==
  /\ error \in -1 .. MaxLines /\ Len(lines) <= MaxLines
  /\ sections \subseteq DOMAIN Cut /\ {section, prev_name} \subseteq DOMAIN Cut

\* Nothing is lost of a section's name, nor of one whose value goes on in further
\* lines.  Where it is, two sections become one, and further lines of a value go
\* to another name than its first.
NothingCut ==
  \A i \in DOMAIN lines :
    /\ Role[i] = "section" => Cut[lines[i].word] = lines[i].word
    /\ Role[i] = "more" => Cut[NameOf(i)] = NameOf(i)

\* If nothing is cut that matters, Get answers with the lines of the file that
\* give its key a value, and only with these, and the sections are those that
\* have a value (not all that were found).  The error is always the first line
\* that is none of the forms.
SettingsRead ==
  /\ NothingCut =>
       /\ \A s \in DOMAIN Cut, n \in DOMAIN Cut : Get(s, n, <<>>) = ValuesOf(s, n)
       /\ sections = {SectionOf(i) : i \in {j \in DOMAIN lines : HasValue(j)}}
  /\ error # -1 =>
       LET wrong == {i \in DOMAIN lines : Role[i] \in {"open", "text"}}
       IN IF wrong = {} THEN error = 0
          ELSE error \in wrong /\ \A i \in wrong : error <= i
=============================================================================
