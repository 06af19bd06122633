----------------------------- MODULE MCSettings -----------------------------
(* Instance of SettingsStore for TLC. *)
EXTENDS SettingsStore

CONSTANTS PrintScreen, printscreen, dotted,   \* the last one is ./printscreen
          fps                                 \* the key

\* Two spellings that differ in case, and one with an entry of its own.
MCFold == [n \in Names |-> IF n = PrintScreen THEN printscreen ELSE n]

\* No file, a torn file, and files of every age: fps in any of the five places, with
\* a value of another type in each.
MCLegacyFiles ==
  {Unread("missing"), Unread("torn")} \cup
  {[kind   |-> "object",
    root   |-> [Blank EXCEPT ![fps] = r],
    other  |-> [Blank EXCEPT ![fps] = o],
    bucket |-> [string |-> [Blank EXCEPT ![fps] = s],
                int    |-> [Blank EXCEPT ![fps] = i],
                float  |-> [Blank EXCEPT ![fps] = f]]] :
    r \in {Absent, "int"}, o \in {Absent, "float"}, s \in {Absent, "string"},
    i \in {Absent, "int"}, f \in {Absent, "float"}}
================================================================================
