-------------------------- MODULE LiveTraceConfig --------------------------
(***************************************************************************)
(* The reader of the YAML subset configurations are written in             *)
(* (contrib/livetrace/helper/livetrace-config.cc).                         *)
(*                                                                         *)
(* A line is what is left of it without comment and blanks: whether it is  *)
(* indented (by spaces; a tab is not indentation), its key and its value.  *)
(* A key is the sequence of its dotted parts, so that a part of a section  *)
(* and the dotted key written out are the same entry of m_values.          *)
(***************************************************************************)
EXTENDS Integers, Sequences, SequencesExt

CONSTANTS
  Values,    \* the texts a value may have, none of them empty
  NotAnInt,  \* std::stoi throws
  Stoi       \* std::stoi of each, or NotAnInt

Empty == ""  \* nothing after the colon

ASSUME ValuesAssumption ==
  /\ Empty \notin Values
  /\ \A v \in Values : Stoi[v] = NotAnInt \/ Stoi[v] \in Int

\* A blank line, a comment, or one without a colon: it is skipped.
Skipped == [skipped |-> TRUE]
Line(indented, key, value) ==
  [skipped |-> FALSE, indented |-> indented, key |-> key, value |-> value]

Assign(values, key, value) ==
  [k \in (DOMAIN values) \cup {key} |-> IF k = key THEN value ELSE values[k]]

\* Mutant: a top-level value leaves the section of the lines before it open.
ReadLine_KeepsSection(st, line) ==
  CASE line.skipped -> st
    [] ~line.skipped /\ line.indented ->
         [st EXCEPT !.values = Assign(@, st.section \o line.key, line.value)]
    [] ~line.skipped /\ ~line.indented /\ line.value = Empty ->
         [st EXCEPT !.section = line.key]
    [] ~line.skipped /\ ~line.indented /\ line.value # Empty ->
         [st EXCEPT !.values = Assign(@, line.key, line.value)]

\* One turn of the loop.
ReadLine(st, line) ==
  CASE line.skipped -> st
    [] ~line.skipped /\ line.indented ->
         [st EXCEPT !.values = Assign(@, st.section \o line.key, line.value)]
    [] ~line.skipped /\ ~line.indented /\ line.value = Empty ->
         [st EXCEPT !.section = line.key]
    [] ~line.skipped /\ ~line.indented /\ line.value # Empty ->
         [section |-> <<>>, values |-> Assign(st.values, line.key, line.value)]

\* m_values once the file is read.
Load(lines) ==
  FoldLeft(ReadLine, [section |-> <<>>, values |-> <<>>], lines).values

\* A value that is not a number counts as absent; one that starts like an
\* integer counts as that integer.
GetInt(values, dottedKey, def) ==
  IF dottedKey \notin DOMAIN values THEN def
  ELSE IF values[dottedKey] = Empty THEN def
  ELSE IF Stoi[values[dottedKey]] = NotAnInt THEN def ELSE Stoi[values[dottedKey]]

-----------------------------------------------------------------------------
(***************************************************************************)
(* Reference definition, without state: what a line assigns is determined  *)
(* by the nearest line above it that is not indented.                      *)
(***************************************************************************)
SectionOf(lines, i) ==
  LET heads == {j \in 1..(i - 1) : ~lines[j].skipped /\ ~lines[j].indented}
      head  == CHOOSE j \in heads : \A k \in heads : k <= j
  IN  IF heads = {} THEN <<>>
      ELSE IF lines[head].value = Empty THEN lines[head].key ELSE <<>>

Assigns(lines, i) ==
  /\ ~lines[i].skipped
  /\ lines[i].indented \/ lines[i].value # Empty

AssignedKey(lines, i) ==
  IF lines[i].indented THEN SectionOf(lines, i) \o lines[i].key ELSE lines[i].key

\* The value of a key is that of the last line that assigns it.
LastAssignment(lines) ==
  LET at(i) == AssignedKey(lines, i)
      assigning == {i \in DOMAIN lines : Assigns(lines, i)}
      last(key) == CHOOSE i \in assigning :
                     /\ at(i) = key
                     /\ \A j \in assigning : at(j) = key => j <= i
  IN  [key \in {at(i) : i \in assigning} |-> lines[last(key)].value]
=============================================================================
