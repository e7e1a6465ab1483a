------------------------------ MODULE ChsDriver ------------------------------
(***************************************************************************)
(* The command (src/main.c): the arguments are read one by one, and the    *)
(* options in force when they end choose the path through the assembler    *)
(* (chs_assemble_file in src/assembler.c, chs_find_arch_ops in             *)
(* src/arch.c).  What the chosen path does is in the modules of its parts; *)
(* here it succeeds or fails and touches its output file or not.           *)
(***************************************************************************)
EXTENDS Integers, Sequences, FiniteSets

CONSTANTS
  Arguments,   \* the command lines
  Nothing      \* a path that was not given, the null pointer

ASSUME ArgumentsAssumption == \A a \in Arguments : a \in Seq(STRING)

ASSUME NothingAssumption ==
  \A a \in Arguments : Nothing \notin {a[i] : i \in DOMAIN a}

VARIABLES
  argv,        \* the arguments after the program's name
  index,       \* the next one
  options,     \* ChsAssembleOptions
  stage,       \* parse, assemble, flat, bslash, object or exit
  printed,     \* what went to the terminal: usage, version, an error
  touched,     \* files written to
  status       \* the exit status, or -1 while the program runs

vars == <<argv, index, options, stage, printed, touched, status>>

-----------------------------------------------------------------------------
Arches  == {"arm64", "x86_64", "bslash"}
Formats == {"macho", "elf64", "bin"}

OutputFlags == {"--output", "-o"}
ValueFlags  == {"--arch", "--format"} \cup OutputFlags
DebugFlags  == {"-d", "--debug", "-vd", "--verbose-deep"}

(* Arguments that start with a dash.                                       *)
Dashed == ValueFlags \cup DebugFlags \cup {"--version", "-x"}

(* The enumerations' first members, which memset leaves.                   *)
Defaults ==
  [arch |-> "arm64", format |-> "macho", input |-> Nothing,
   output |-> Nothing]

Init ==
  /\ argv \in Arguments
  /\ index = 1
  /\ options = Defaults
  /\ stage = "parse"
  /\ printed = {}
  /\ touched = {}
  /\ status = -1

Exit(code, message) ==
  /\ status' = code
  /\ printed' = printed \cup message
  /\ stage' = "exit"
  /\ UNCHANGED <<argv, options>>

Usage == Exit(1, {"usage"}) /\ UNCHANGED <<index, touched>>

Parsing == stage = "parse" /\ index <= Len(argv)

Here     == argv[index]
HasValue == index < Len(argv)
Value    == argv[index + 1]

(* Wrong variant: the value is read as the next argument as well.          *)
PastFlagAlone == index + 1

PastValue == index + 2

Set(flag, field, allowed) ==
  /\ Parsing
  /\ Here \in flag
  /\ HasValue
  /\ Value \in allowed
  /\ options' = [options EXCEPT ![field] = Value]
  /\ index' = PastValue
  /\ UNCHANGED <<argv, stage, printed, touched, status>>

SetArch   == Set({"--arch"}, "arch", Arches)
SetFormat == Set({"--format"}, "format", Formats)

(* Any argument is a path, also one that looks like an option.             *)
SetOutput == Set(OutputFlags, "output", {argv[i] : i \in DOMAIN argv})

NoValue ==
  /\ Parsing
  /\ Here \in ValueFlags
  /\ ~HasValue
  /\ Usage

UnknownValue ==
  /\ Parsing
  /\ HasValue
  /\ \/ Here = "--arch" /\ Value \notin Arches
     \/ Here = "--format" /\ Value \notin Formats
  /\ Usage

Version ==
  /\ Parsing
  /\ Here = "--version"
  /\ Exit(0, {"version"})
  /\ UNCHANGED <<index, touched>>

Debug ==
  /\ Parsing
  /\ Here \in DebugFlags
  /\ index' = index + 1
  /\ UNCHANGED <<argv, options, stage, printed, touched, status>>

UnknownFlag ==
  /\ Parsing
  /\ Here \in Dashed \ (ValueFlags \cup DebugFlags \cup {"--version"})
  /\ Usage

SetInput ==
  /\ Parsing
  /\ Here \notin Dashed
  /\ options' = [options EXCEPT !.input = Here]
  /\ index' = index + 1
  /\ UNCHANGED <<argv, stage, printed, touched, status>>

Incomplete == options.input = Nothing \/ options.output = Nothing

NoPaths ==
  /\ stage = "parse"
  /\ index > Len(argv)
  /\ Incomplete
  /\ Usage

EndOfArguments ==
  /\ stage = "parse"
  /\ index > Len(argv)
  /\ ~Incomplete
  /\ stage' = "assemble"
  /\ UNCHANGED <<argv, index, options, printed, touched, status>>

-----------------------------------------------------------------------------
(* chs_assemble_file and the first steps of chs_assemble_bslash_file.      *)

(* chs_find_arch_ops                                                       *)
HasOps(arch) == arch \in {"arm64", "x86_64"}

(* Wrong variant: the format decides, whatever the architecture.           *)
RouteByFormat(o) ==
  CASE o.format = "bin" -> "flat"
    [] o.format # "bin" /\ o.arch = "bslash" -> "bslash"
    [] o.format # "bin" /\ o.arch # "bslash" -> "object"

Route(o) ==
  CASE o.arch = "bslash" /\ o.format = "bin" -> "flat"
    [] o.arch = "bslash" /\ o.format # "bin" -> "bslash"
    [] o.arch # "bslash" /\ o.format = "bin" -> "refused"
    [] o.arch # "bslash" /\ o.format # "bin" ->
         IF HasOps(o.arch) THEN "object" ELSE "refused"

Dispatch ==
  /\ stage = "assemble"
  /\ Route(options) # "refused"
  /\ stage' = Route(options)
  /\ UNCHANGED <<argv, index, options, printed, touched, status>>

Refuse ==
  /\ stage = "assemble"
  /\ Route(options) = "refused"
  /\ Exit(1, {"error"})
  /\ UNCHANGED <<index, touched>>

Running == {"flat", "bslash", "object"}

(* The file is closed, with or without its last bytes.                     *)
Succeed ==
  /\ stage \in Running
  /\ touched' = touched \cup {options.output}
  /\ Exit(0, {})
  /\ UNCHANGED index

(* An error before the file is opened, or after.                           *)
GiveUp ==
  /\ stage \in Running
  /\ touched' \in {touched, touched \cup {options.output}}
  /\ Exit(1, {"error"})
  /\ UNCHANGED index

Exited ==
  /\ stage = "exit"
  /\ UNCHANGED vars

Next ==
  \/ SetArch \/ SetFormat \/ SetOutput \/ NoValue \/ UnknownValue
  \/ Version \/ Debug \/ UnknownFlag \/ SetInput \/ NoPaths \/ EndOfArguments
  \/ Dispatch \/ Refuse \/ Succeed \/ GiveUp \/ Exited

Spec == Init /\ [][Next]_vars

-----------------------------------------------------------------------------
(* Properties.                                                             *)

(* What each argument is, given what those before it are: the value of an  *)
(* option, an option, or the input.                                        *)
Role ==
  LET role[i \in 1 .. Len(argv)] ==
        IF i > 1 /\ role[i - 1] = "option" THEN "value"
        ELSE IF argv[i] \in ValueFlags THEN "option"
        ELSE IF argv[i] \in Dashed THEN "flag"
        ELSE "input"
  IN  role

Greatest(S) == CHOOSE i \in S : \A j \in S : j <= i

LastValue(flag, default) ==
  LET at == {i \in 2 .. Len(argv) : Role[i] = "value" /\ argv[i - 1] \in flag}
  IN  IF at = {} THEN default ELSE argv[Greatest(at)]

LastInput ==
  LET at == {i \in 1 .. Len(argv) : Role[i] = "input"}
  IN  IF at = {} THEN Nothing ELSE argv[Greatest(at)]

(* A file is written only when the whole command line was understood, and  *)
(* for the options as it reads from left to right: of every option and of  *)
(* the inputs the last one counts, and an argument that is some option's   *)
(* value is nothing else.                                                  *)
OptionsAreTheLast ==
  touched # {} =>
    /\ options = [arch   |-> LastValue({"--arch"}, "arm64"),
                  format |-> LastValue({"--format"}, "macho"),
                  input  |-> LastInput,
                  output |-> LastValue(OutputFlags, Nothing)]
    /\ touched = {options.output}
    /\ \A i \in DOMAIN argv :
         /\ Role[i] = "flag" => argv[i] \in DebugFlags
         /\ Role[i] = "option" => i < Len(argv)

(* The exit status tells a caller all it needs: zero means that the        *)
(* version was asked for or that the output was written by the assembler   *)
(* of that architecture, flat binaries by bas only; one comes with a       *)
(* message.                                                                *)
StatusTellsOutcome ==
  /\ stage = "exit" <=> status \in {0, 1}
  /\ status = 0 =>
       \/ printed = {"version"} /\ touched = {}
       \/ /\ printed = {} /\ touched = {options.output}
          /\ options.format = "bin" => options.arch = "bslash"
  /\ status = 1 => printed \in {{"usage"}, {"error"}}
  /\ printed = {"usage"} => touched = {}
=============================================================================
