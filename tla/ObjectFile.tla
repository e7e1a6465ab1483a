------------------------------ MODULE ObjectFile -----------------------------
(***************************************************************************)
(* What writing an object file promises, whatever the format: either the   *)
(* output file appears and, read back, means the object, or it does not    *)
(* and the program says so.  The two gaps the code has are part of the     *)
(* contract: an error that only fclose reports goes unnoticed, and so does *)
(* an object with more of something than the format's fields can count.    *)
(*                                                                         *)
(* object: the finished object; result: how the writer ended; output: what *)
(* became of the output file; file: what a reader finds in it, as a set    *)
(* of at most one meaning.                                                 *)
(***************************************************************************)
EXTENDS Integers, Sequences

CONSTANTS
  Objects,          \* the objects the assembler hands over
  Hidden            \* names that start with "L", which no format keeps

VARIABLES object, result, output, file

vars == <<object, result, output, file>>

-----------------------------------------------------------------------------
(* Meaning of an object: sections by place and name, the visible symbols,  *)
(* and relocations that name their symbol.                                 *)

Hide(s) == s.name \in Hidden

Exported(s) == ~s.defined \/ s.global \/ s.external

Visible(o) == {i \in DOMAIN o.symbols : ~Hide(o.symbols[i])}

HiddenReference(o) ==
  \E i \in DOMAIN o.sections : \E r \in DOMAIN o.sections[i].relocations :
    o.sections[i].relocations[r].symbol \notin Visible(o)

MeaningOfSymbol(s) ==
  [name     |-> s.name,
   exported |-> Exported(s),
   section  |-> IF s.defined THEN s.section ELSE 0,
   value    |-> IF s.defined THEN s.value ELSE 0]

MeaningOf(o) ==
  [sections |->
     {[index |-> i, name |-> o.sections[i].name, size |-> o.sections[i].size] :
        i \in DOMAIN o.sections},
   symbols |-> {MeaningOfSymbol(o.symbols[i]) : i \in Visible(o)},
   relocations |->
     UNION {{[section |-> i, offset |-> rel.offset, kind |-> rel.kind,
              name |-> o.symbols[rel.symbol].name] :
               rel \in {o.sections[i].relocations[r] :
                          r \in DOMAIN o.sections[i].relocations}} :
            i \in DOMAIN o.sections}]

-----------------------------------------------------------------------------
Init ==
  /\ object \in Objects
  /\ result = "running"
  /\ output = "untouched"
  /\ file = {}

(* The file holds the object, or its last bytes were lost in fclose.       *)
Finish ==
  /\ result = "running"
  /\ ~HiddenReference(object)
  /\ result' = "ok"
  /\ \/ output' = "written" /\ file' = {MeaningOf(object)}
     \/ output' = "partial" /\ file' = {}
  /\ UNCHANGED object

(* Out of memory, the file cannot be made, or writing comes up short.      *)
Give ==
  /\ result = "running"
  /\ result' = "failed"
  /\ output' \in IF HiddenReference(object) THEN {"untouched"}
                 ELSE {"untouched", "partial"}
  /\ UNCHANGED <<object, file>>

(* A number of the object was cut to fit its field: whatever the file      *)
(* says, nobody noticed.                                                   *)
Cut ==
  /\ result = "running"
  /\ ~HiddenReference(object)
  /\ result' = "unfit"
  /\ output' \in {"written", "partial"}
  /\ UNCHANGED object

Next == Finish \/ Give \/ Cut

Spec == Init /\ [][Next]_vars
=============================================================================
