----------------------------- MODULE RawValues -------------------------------
(* Values as the gate reads them, before it has checked what they are.        *)
EXTENDS Integers

CONSTANTS
  None,      \* Python's None, and what is absent
  NaN        \* a number that is not finite, or a text that is no number

ASSUME RawAssumption == None \notin Int /\ NaN \notin Int /\ NaN # None

\* A number is whole: its type tells whether it was written as an integer, as
\* another number, or is something else, a boolean among them.
Raw == [type : {"int"}, value : Int] \cup [type : {"float", "other"}, value : Int \cup {NaN}]

IsInt(raw) == raw.type = "int"

IsNumber(raw) == raw.type \in {"int", "float"}

Finite(v) == v # NaN
=============================================================================
