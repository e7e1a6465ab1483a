--------------------------- MODULE ChsDriver_proofs --------------------------
(***************************************************************************)
(* Proofs about the command.  The invariant says of every step what the    *)
(* arguments before it amount to: the reader's index never stops between   *)
(* an option and its value, and the options in force are those that the    *)
(* roles of the arguments read so far give.  Role is a recursive function; *)
(* that it exists at all is proved by induction over the arguments.        *)
(***************************************************************************)
EXTENDS ChsDriver, ChsLemmas

-----------------------------------------------------------------------------
(* The role of an argument.                                                *)

RoleIn(role, i) ==
  IF i > 1 /\ role[i - 1] = "option" THEN "value"
  ELSE IF argv[i] \in ValueFlags THEN "option"
  ELSE IF argv[i] \in Dashed THEN "flag"
  ELSE "input"

(* Role is what its definition says of every argument.                     *)
LEMMA RoleUnfolds ==
  ASSUME argv \in Seq(STRING)
  PROVE  Role = [i \in 1 .. Len(argv) |-> RoleIn(Role, i)]
<1> DEFINE Fits(role, n) == role = [i \in 1 .. n |-> RoleIn(role, i)]
           S == {n \in Nat : \E role : Fits(role, n)}
<1>1. 0 \in S
  <2>1. Fits([i \in 1 .. 0 |-> "input"], 0)
    OBVIOUS
  <2> QED
    BY <2>1
<1>2. ASSUME NEW n \in Nat, n \in S
      PROVE  n + 1 \in S
  <2>1. PICK role : Fits(role, n)
    BY <1>2
  <2> DEFINE longer == [i \in 1 .. n + 1 |->
                          IF i = n + 1 THEN RoleIn(role, i) ELSE role[i]]
  <2>2. Fits(longer, n + 1)
    <3>1. ASSUME NEW i \in 1 .. n + 1
          PROVE  longer[i] = RoleIn(longer, i)
      <4>1. i > 1 => longer[i - 1] = role[i - 1]
        BY <3>1
      <4>2. RoleIn(longer, i) = RoleIn(role, i)
        BY <4>1 DEF RoleIn
      <4> QED
        BY <2>1, <3>1, <4>2
    <3> QED
      BY <3>1
  <2> HIDE DEF longer
  <2> QED
    BY <2>2
<1>3. Len(argv) \in S
  <2>1. Len(argv) \in Nat
    OBVIOUS
  <2> HIDE DEF S
  <2> QED
    BY <1>1, <1>2, <2>1, Induction
<1>4. \E role : Fits(role, Len(argv))
  BY <1>3
<1> QED
  BY <1>4 DEF Role, RoleIn

LEMMA RoleOfArgument ==
  ASSUME argv \in Seq(STRING), NEW i \in 1 .. Len(argv)
  PROVE  /\ i > 1 /\ Role[i - 1] = "option" => Role[i] = "value"
         /\ ~(i > 1 /\ Role[i - 1] = "option") =>
              /\ argv[i] \in ValueFlags => Role[i] = "option"
              /\ argv[i] \in Dashed \ ValueFlags => Role[i] = "flag"
              /\ argv[i] \notin Dashed => Role[i] = "input"
<1>1. Role[i] = RoleIn(Role, i)
  BY RoleUnfolds
<1>2. ValueFlags \subseteq Dashed
  BY DEF Dashed
<1> QED
  BY <1>1, <1>2 DEF RoleIn

-----------------------------------------------------------------------------
(* What the arguments before number n amount to.                           *)

ValueBefore(n, flag, default) ==
  LET at == {i \in 2 .. n - 1 : Role[i] = "value" /\ argv[i - 1] \in flag}
  IN  IF at = {} THEN default ELSE argv[Greatest(at)]

InputBefore(n) ==
  LET at == {i \in 1 .. n - 1 : Role[i] = "input"}
  IN  IF at = {} THEN Nothing ELSE argv[Greatest(at)]

OptionsBefore(n) ==
  [arch   |-> ValueBefore(n, {"--arch"}, "arm64"),
   format |-> ValueBefore(n, {"--format"}, "macho"),
   input  |-> InputBefore(n),
   output |-> ValueBefore(n, OutputFlags, Nothing)]

(* Every argument before number n is understood, and an option before it   *)
(* has its value before it.                                                *)
Understood(n) ==
  /\ n \in 1 .. Len(argv) + 1
  /\ n > 1 => Role[n - 1] # "option"
  /\ \A i \in 1 .. n - 1 :
       /\ Role[i] = "flag" => argv[i] \in DebugFlags
       /\ Role[i] = "option" => i < Len(argv)

LEMMA GreatestIsLast ==
  ASSUME NEW S \in SUBSET Int, NEW m \in S, \A j \in S : j <= m
  PROVE  Greatest(S) = m
<1>1. \A i \in S : (\A j \in S : j <= i) => i = m
  OBVIOUS
<1> QED
  BY <1>1 DEF Greatest

(* An option and its value: the value is what that option now has, every   *)
(* other option and the input stay as they were.                           *)
LEMMA AfterOption ==
  ASSUME argv \in Seq(STRING), NEW n \in 1 .. Len(argv) - 1, Understood(n),
         argv[n] \in ValueFlags
  PROVE  /\ Understood(n + 2)
         /\ \A flag, default :
              ValueBefore(n + 2, flag, default) =
                IF argv[n] \in flag THEN argv[n + 1]
                ELSE ValueBefore(n, flag, default)
         /\ InputBefore(n + 2) = InputBefore(n)
<1> n \in Int /\ Len(argv) \in Nat
  OBVIOUS
<1>1. Role[n] = "option"
  BY RoleOfArgument DEF Understood
<1>2. Role[n + 1] = "value"
  <2>1. n + 1 \in 1 .. Len(argv) /\ (n + 1) - 1 = n /\ n + 1 > 1
    OBVIOUS
  <2> QED
    BY <1>1, <2>1, RoleOfArgument
<1>3. Understood(n + 2)
  <2>1. \A i \in 1 .. (n + 2) - 1 : i \in 1 .. n - 1 \/ i = n \/ i = n + 1
    OBVIOUS
  <2> QED
    BY <1>1, <1>2, <2>1 DEF Understood
<1>4. ASSUME NEW flag, NEW default
      PROVE  ValueBefore(n + 2, flag, default) =
               IF argv[n] \in flag THEN argv[n + 1]
               ELSE ValueBefore(n, flag, default)
  <2> DEFINE At(m) ==
        {i \in 2 .. m - 1 : Role[i] = "value" /\ argv[i - 1] \in flag}
  <2>1. At(n + 2) = At(n) \cup IF argv[n] \in flag THEN {n + 1} ELSE {}
    <3>1. \A i \in 2 .. (n + 2) - 1 : i \in 2 .. n - 1 \/ i = n \/ i = n + 1
      OBVIOUS
    <3>2. n + 1 \in 2 .. (n + 2) - 1 /\ (n + 1) - 1 = n
      OBVIOUS
    <3> QED
      BY <1>1, <1>2, <3>1, <3>2
  <2>2. CASE argv[n] \in flag
    <3>1. n + 1 \in At(n + 2) /\ \A j \in At(n + 2) : j <= n + 1
      BY <2>1, <2>2
    <3>2. At(n + 2) \in SUBSET Int
      OBVIOUS
    <3>3. Greatest(At(n + 2)) = n + 1
      <4> HIDE DEF At
      <4> QED
        BY <3>1, <3>2, GreatestIsLast
    <3> QED
      BY <2>2, <3>1, <3>3 DEF ValueBefore
  <2>3. CASE argv[n] \notin flag
    <3>1. At(n + 2) = At(n)
      BY <2>1, <2>3
    <3> QED
      BY <2>3, <3>1 DEF ValueBefore
  <2> QED
    BY <2>2, <2>3
<1>5. InputBefore(n + 2) = InputBefore(n)
  <2>1. \A i \in 1 .. (n + 2) - 1 : i \in 1 .. n - 1 \/ i = n \/ i = n + 1
    OBVIOUS
  <2>2. {i \in 1 .. (n + 2) - 1 : Role[i] = "input"} =
          {i \in 1 .. n - 1 : Role[i] = "input"}
    BY <1>1, <1>2, <2>1
  <2> QED
    BY <2>2 DEF InputBefore
<1> QED
  BY <1>3, <1>4, <1>5

(* A debug flag or an input: no option changes.                            *)
LEMMA AfterSingle ==
  ASSUME argv \in Seq(STRING), NEW n \in 1 .. Len(argv), Understood(n),
         argv[n] \in DebugFlags \/ argv[n] \notin Dashed
  PROVE  /\ Understood(n + 1)
         /\ \A flag, default :
              ValueBefore(n + 1, flag, default) = ValueBefore(n, flag, default)
         /\ InputBefore(n + 1) =
              IF argv[n] \in Dashed THEN InputBefore(n) ELSE argv[n]
<1> n \in Int /\ Len(argv) \in Nat
  OBVIOUS
<1>1. Role[n] = IF argv[n] \in Dashed THEN "flag" ELSE "input"
  <2>1. DebugFlags \cap ValueFlags = {} /\ DebugFlags \subseteq Dashed
    BY DEF DebugFlags, ValueFlags, OutputFlags, Dashed
  <2>2. argv[n] \in Dashed => argv[n] \in Dashed \ ValueFlags
    BY <2>1
  <2> QED
    BY <2>2, RoleOfArgument DEF Understood
<1>2. Understood(n + 1)
  <2>1. \A i \in 1 .. (n + 1) - 1 : i \in 1 .. n - 1 \/ i = n
    OBVIOUS
  <2> QED
    BY <1>1, <2>1 DEF Understood
<1>3. ASSUME NEW flag, NEW default
      PROVE  ValueBefore(n + 1, flag, default) = ValueBefore(n, flag, default)
  <2>1. \A i \in 2 .. (n + 1) - 1 : i \in 2 .. n - 1 \/ i = n
    OBVIOUS
  <2>2. {i \in 2 .. (n + 1) - 1 : Role[i] = "value" /\ argv[i - 1] \in flag} =
          {i \in 2 .. n - 1 : Role[i] = "value" /\ argv[i - 1] \in flag}
    BY <1>1, <2>1
  <2> QED
    BY <2>2 DEF ValueBefore
<1>4. InputBefore(n + 1) = IF argv[n] \in Dashed THEN InputBefore(n)
                           ELSE argv[n]
  <2> DEFINE At(m) == {i \in 1 .. m - 1 : Role[i] = "input"}
  <2>1. At(n + 1) = At(n) \cup IF argv[n] \in Dashed THEN {} ELSE {n}
    <3>1. \A i \in 1 .. (n + 1) - 1 : i \in 1 .. n - 1 \/ i = n
      OBVIOUS
    <3>2. n \in 1 .. (n + 1) - 1
      OBVIOUS
    <3> QED
      BY <1>1, <3>1, <3>2
  <2>2. CASE argv[n] \in Dashed
    <3>1. At(n + 1) = At(n)
      BY <2>1, <2>2
    <3> QED
      BY <2>2, <3>1 DEF InputBefore
  <2>3. CASE argv[n] \notin Dashed
    <3>1. n \in At(n + 1) /\ \A j \in At(n + 1) : j <= n
      BY <2>1, <2>3
    <3>2. At(n + 1) \in SUBSET Int
      OBVIOUS
    <3>3. Greatest(At(n + 1)) = n
      <4> HIDE DEF At
      <4> QED
        BY <3>1, <3>2, GreatestIsLast
    <3> QED
      BY <2>3, <3>1, <3>3 DEF InputBefore
  <2> QED
    BY <2>2, <2>3
<1> QED
  BY <1>2, <1>3, <1>4

-----------------------------------------------------------------------------
(* The invariant.                                                          *)

(* The program runs: nothing is printed, written or decided.               *)
Quiet == status = -1 /\ printed = {} /\ touched = {}

(* The options are what the arguments before number n give.                *)
InForce(n) == Understood(n) /\ options = OptionsBefore(n)

(* How the program ended: the version or the usage message, or an          *)
(* assembler that had all the options and wrote nothing but its output.    *)
Ended ==
  \/ status = 0 /\ printed = {"version"} /\ touched = {}
  \/ status = 1 /\ printed = {"usage"} /\ touched = {}
  \/ status = 1 /\ printed = {"error"} /\ touched = {}
  \/ /\ status = 1 /\ printed = {"error"} /\ touched = {options.output}
     /\ InForce(Len(argv) + 1)
  \/ /\ status = 0 /\ printed = {} /\ touched = {options.output}
     /\ InForce(Len(argv) + 1)
     /\ options.format = "bin" => options.arch = "bslash"

IInv ==
  /\ argv \in Seq(STRING)
  /\ \/ stage = "parse" /\ Quiet /\ InForce(index)
     \/ stage = "assemble" /\ Quiet /\ InForce(Len(argv) + 1)
     \/ /\ stage \in Running /\ Quiet /\ InForce(Len(argv) + 1)
        /\ options.format = "bin" => options.arch = "bslash"
     \/ stage = "exit" /\ Ended

LEMMA InitInv == Init => IInv
<1> SUFFICES ASSUME Init
             PROVE  IInv
  OBVIOUS
<1> USE DEF Init
<1>1. argv \in Seq(STRING)
  BY ArgumentsAssumption
<1>2. Len(argv) \in Nat
  BY <1>1
<1>3. Understood(1)
  BY <1>2 DEF Understood
<1>4. \A flag, default : ValueBefore(1, flag, default) = default
  <2>1. 2 .. 1 - 1 = {}
    OBVIOUS
  <2> QED
    BY <2>1 DEF ValueBefore
<1>5. InputBefore(1) = Nothing
  <2>1. 1 .. 1 - 1 = {}
    OBVIOUS
  <2> QED
    BY <2>1 DEF InputBefore
<1>6. InForce(index)
  BY <1>3, <1>4, <1>5 DEF InForce, OptionsBefore, Defaults
<1> QED
  BY <1>1, <1>6 DEF IInv, Quiet

(* All of this is about the arguments, which do not change.                *)
LEMMA ArgumentsStay ==
  ASSUME UNCHANGED argv
  PROVE  /\ Role' = Role
         /\ \A n : Understood(n)' = Understood(n)
         /\ \A n : OptionsBefore(n)' = OptionsBefore(n)
<1>1. Role' = Role
  BY DEF Role
<1>2. \A n : Understood(n)' = Understood(n)
  BY <1>1 DEF Understood
<1>3. \A n : InputBefore(n)' = InputBefore(n)
  BY <1>1 DEF InputBefore
<1>4. \A n, flag, default :
        ValueBefore(n, flag, default)' = ValueBefore(n, flag, default)
  BY <1>1 DEF ValueBefore
<1>5. \A n : OptionsBefore(n)' = OptionsBefore(n)
  BY <1>3, <1>4 DEF OptionsBefore
<1> QED
  BY <1>1, <1>2, <1>5

(* An option whose value is accepted.                                      *)
LEMMA SetInv ==
  ASSUME IInv, NEW flag, NEW field, NEW allowed, Set(flag, field, allowed),
         \/ flag = {"--arch"} /\ field = "arch"
         \/ flag = {"--format"} /\ field = "format"
         \/ flag = OutputFlags /\ field = "output"
  PROVE  IInv'
<1> USE DEF Set, Parsing, Here, HasValue, Value, PastValue
<1>1. /\ stage = "parse" /\ Quiet /\ InForce(index)
      /\ argv \in Seq(STRING) /\ Len(argv) \in Nat
  BY DEF IInv, Running
<1>2. index \in 1 .. Len(argv) - 1
  BY <1>1 DEF InForce, Understood
<1>3. flag \subseteq ValueFlags
  BY DEF ValueFlags
<1>4. /\ Understood(index + 2)
      /\ \A f, default : ValueBefore(index + 2, f, default) =
           IF argv[index] \in f THEN argv[index + 1]
           ELSE ValueBefore(index, f, default)
      /\ InputBefore(index + 2) = InputBefore(index)
  <2>1. argv[index] \in ValueFlags
    BY <1>3
  <2> QED
    BY <1>1, <1>2, <2>1, AfterOption DEF InForce
<1>5. [options EXCEPT ![field] = argv[index + 1]] = OptionsBefore(index + 2)
  <2>1. options = [arch   |-> ValueBefore(index, {"--arch"}, "arm64"),
                   format |-> ValueBefore(index, {"--format"}, "macho"),
                   input  |-> InputBefore(index),
                   output |-> ValueBefore(index, OutputFlags, Nothing)]
    BY <1>1 DEF InForce, OptionsBefore
  <2>2. CASE flag = {"--arch"} /\ field = "arch"
    <3>1. [options EXCEPT ![field] = argv[index + 1]] =
            [options EXCEPT !.arch = argv[index + 1]]
      BY <2>1, <2>2
    <3> DEFINE new ==
            [arch |-> argv[index + 1],
             format |-> ValueBefore(index, {"--format"}, "macho"),
             input |-> InputBefore(index),
             output |-> ValueBefore(index, OutputFlags, Nothing)]
    <3>2. [options EXCEPT !.arch = argv[index + 1]] = new
      BY <2>1
    <3>3. OptionsBefore(index + 2) = new
      BY <1>4, <2>2 DEF OptionsBefore, OutputFlags
    <3> QED
      BY <3>1, <3>2, <3>3
  <2>3. CASE flag = {"--format"} /\ field = "format"
    <3>1. [options EXCEPT ![field] = argv[index + 1]] =
            [options EXCEPT !.format = argv[index + 1]]
      BY <2>1, <2>3
    <3> DEFINE new ==
            [arch |-> ValueBefore(index, {"--arch"}, "arm64"),
             format |-> argv[index + 1],
             input |-> InputBefore(index),
             output |-> ValueBefore(index, OutputFlags, Nothing)]
    <3>2. [options EXCEPT !.format = argv[index + 1]] = new
      BY <2>1
    <3>3. OptionsBefore(index + 2) = new
      BY <1>4, <2>3 DEF OptionsBefore, OutputFlags
    <3> QED
      BY <3>1, <3>2, <3>3
  <2>4. CASE flag = OutputFlags /\ field = "output"
    <3>1. [options EXCEPT ![field] = argv[index + 1]] =
            [options EXCEPT !.output = argv[index + 1]]
      BY <2>1, <2>4
    <3> DEFINE new ==
            [arch |-> ValueBefore(index, {"--arch"}, "arm64"),
             format |-> ValueBefore(index, {"--format"}, "macho"),
             input |-> InputBefore(index),
             output |-> argv[index + 1]]
    <3>2. [options EXCEPT !.output = argv[index + 1]] = new
      BY <2>1
    <3>3. OptionsBefore(index + 2) = new
      BY <1>4, <2>4 DEF OptionsBefore, OutputFlags
    <3> QED
      BY <3>1, <3>2, <3>3
  <2> QED
    BY <2>2, <2>3, <2>4
<1>6. InForce(index)'
  BY <1>4, <1>5, ArgumentsStay DEF InForce
<1> QED
  BY <1>1, <1>6 DEF IInv, Quiet

(* A debug flag or an input file.                                          *)
LEMMA SingleInv ==
  ASSUME IInv, Debug \/ SetInput
  PROVE  IInv'
<1> USE DEF Parsing, Here
<1>1. /\ stage = "parse" /\ Quiet /\ InForce(index) /\ index <= Len(argv)
      /\ argv \in Seq(STRING) /\ Len(argv) \in Nat
  BY DEF IInv, Running, Debug, SetInput
<1>2. index \in 1 .. Len(argv)
  BY <1>1 DEF InForce, Understood
<1>3. UNCHANGED <<argv, stage, printed, touched, status>> /\ index' = index + 1
  BY DEF Debug, SetInput
<1>4. argv[index] \in DebugFlags \/ argv[index] \notin Dashed
  BY DEF Debug, SetInput
<1>5. /\ Understood(index + 1)
      /\ \A f, default : ValueBefore(index + 1, f, default) =
                           ValueBefore(index, f, default)
      /\ InputBefore(index + 1) =
           IF argv[index] \in Dashed THEN InputBefore(index) ELSE argv[index]
  BY <1>1, <1>2, <1>4, AfterSingle DEF InForce
<1>6. options' = OptionsBefore(index + 1)
  <2>1. options = OptionsBefore(index)
    BY <1>1 DEF InForce
  <2>2. CASE Debug
    <3>1. argv[index] \in Dashed
      BY <2>2 DEF Debug, Dashed
    <3> QED
      BY <1>5, <2>1, <2>2, <3>1 DEF OptionsBefore, Debug
  <2>3. CASE SetInput
    BY <1>5, <2>1, <2>3 DEF OptionsBefore, SetInput
  <2> QED
    BY <2>2, <2>3
<1>7. InForce(index)'
  BY <1>3, <1>5, <1>6, ArgumentsStay DEF InForce
<1> QED
  BY <1>1, <1>3, <1>7 DEF IInv, Quiet

(* The steps that end the run, and those after the arguments.              *)
LEMMA NextInv == IInv /\ [Next]_vars => IInv'
<1> SUFFICES ASSUME IInv, [Next]_vars
             PROVE  IInv'
  OBVIOUS
<1> USE DEF Exit, Usage, Parsing
<1>1. ASSUME SetArch \/ SetFormat \/ SetOutput
      PROVE  IInv'
  BY <1>1, SetInv DEF SetArch, SetFormat, SetOutput
<1>2. ASSUME Debug \/ SetInput
      PROVE  IInv'
  BY <1>2, SingleInv
<1>3. ASSUME NoValue \/ UnknownValue \/ UnknownFlag \/ NoPaths \/ Version
      PROVE  IInv'
  <2>1. stage = "parse" /\ Quiet
    BY <1>3 DEF NoValue, UnknownValue, UnknownFlag, NoPaths, Version, IInv,
       Running
  <2>2. /\ UNCHANGED <<argv, touched>> /\ stage' = "exit"
        /\ \/ status' = 1 /\ printed' = printed \cup {"usage"}
           \/ status' = 0 /\ printed' = printed \cup {"version"}
    BY <1>3 DEF NoValue, UnknownValue, UnknownFlag, NoPaths, Version
  <2>3. Ended'
    BY <2>1, <2>2 DEF Ended, Quiet
  <2> QED
    BY <2>2, <2>3 DEF IInv
<1>4. ASSUME EndOfArguments
      PROVE  IInv'
  <2>1. stage = "parse" /\ Quiet /\ InForce(index) /\ argv \in Seq(STRING)
    BY <1>4 DEF EndOfArguments, IInv, Running
  <2>2. index = Len(argv) + 1
    BY <1>4, <2>1 DEF EndOfArguments, InForce, Understood
  <2>3. InForce(Len(argv) + 1)'
    BY <1>4, <2>1, <2>2, ArgumentsStay DEF EndOfArguments, InForce
  <2> QED
    BY <1>4, <2>1, <2>3 DEF EndOfArguments, IInv, Quiet
<1>5. ASSUME Dispatch
      PROVE  IInv'
  <2>1. stage = "assemble" /\ Quiet /\ InForce(Len(argv) + 1)
    BY <1>5 DEF Dispatch, IInv, Running
  <2>2. /\ Route(options) \in Running
        /\ options.format = "bin" => options.arch = "bslash"
    BY <1>5 DEF Dispatch, Route, Running
  <2>3. InForce(Len(argv) + 1)'
    BY <1>5, <2>1, ArgumentsStay DEF Dispatch, InForce
  <2> QED
    BY <1>5, <2>1, <2>2, <2>3 DEF Dispatch, IInv, Quiet
<1>6. ASSUME Refuse
      PROVE  IInv'
  <2>1. stage = "assemble" /\ Quiet
    BY <1>6 DEF Refuse, IInv, Running
  <2>2. Ended'
    BY <1>6, <2>1 DEF Refuse, Ended, Quiet
  <2> QED
    BY <1>6, <2>2 DEF Refuse, IInv
<1>7. ASSUME Succeed \/ GiveUp
      PROVE  IInv'
  <2>1. /\ stage \in Running /\ Quiet /\ InForce(Len(argv) + 1)
        /\ options.format = "bin" => options.arch = "bslash"
    BY <1>7 DEF Succeed, GiveUp, IInv, Running
  <2>2. InForce(Len(argv) + 1)'
    BY <1>7, <2>1, ArgumentsStay DEF Succeed, GiveUp, InForce
  <2>3. CASE Succeed
    <3>1. Ended'
      BY <2>1, <2>2, <2>3 DEF Succeed, Ended, Quiet
    <3> QED
      BY <2>3, <3>1 DEF Succeed, IInv
  <2>4. CASE GiveUp
    <3>1. Ended'
      BY <2>1, <2>2, <2>4 DEF GiveUp, Ended, Quiet
    <3> QED
      BY <2>4, <3>1 DEF GiveUp, IInv
  <2> QED
    BY <1>7, <2>3, <2>4
<1>8. ASSUME UNCHANGED vars
      PROVE  IInv'
  <2>1. InForce(index)' = InForce(index)
    BY <1>8, ArgumentsStay DEF InForce, vars
  <2>2. InForce(Len(argv) + 1)' = InForce(Len(argv) + 1)
    BY <1>8, ArgumentsStay DEF InForce, vars
  <2>3. Ended' = Ended
    BY <1>8, <2>2 DEF Ended, vars
  <2> QED
    BY <1>8, <2>1, <2>2, <2>3 DEF IInv, Quiet, vars
<1> QED
  BY <1>1, <1>2, <1>3, <1>4, <1>5, <1>6, <1>7, <1>8 DEF Next, Exited

THEOREM Invariance == Spec => []IInv
<1> QED
  BY InitInv, NextInv, PTL DEF Spec

(* No file is written unless the whole command line was understood, and    *)
(* then for the options as it reads from left to right, the last of each   *)
(* counting and an option's value being nothing else: the loop over argv   *)
(* in main, for every command line.                                        *)
THEOREM LastOptionsCount == Spec => []OptionsAreTheLast
<1>1. IInv => OptionsAreTheLast
  <2> SUFFICES ASSUME IInv, touched # {}
               PROVE  /\ options = OptionsBefore(Len(argv) + 1)
                      /\ Understood(Len(argv) + 1)
                      /\ touched = {options.output}
    <3>1. Len(argv) \in Nat /\ (Len(argv) + 1) - 1 = Len(argv)
      BY DEF IInv
    <3>2. DOMAIN argv = 1 .. Len(argv)
      BY DEF IInv
    <3> QED
      BY <3>1, <3>2 DEF OptionsAreTheLast, OptionsBefore, ValueBefore,
         InputBefore, LastValue, LastInput, Understood
  <2> QED
    BY DEF IInv, Quiet, Ended, InForce
<1> QED
  BY <1>1, Invariance, PTL

(* The exit status tells the outcome, and a flat binary is only ever       *)
(* written for Bslash.                                                     *)
THEOREM StatusCorrect == Spec => []StatusTellsOutcome
<1>1. IInv => StatusTellsOutcome
  <2> SUFFICES ASSUME IInv
               PROVE  StatusTellsOutcome
    OBVIOUS
  <2>1. /\ {"version"} # {"usage"} /\ {"error"} # {"usage"}
        /\ {} # {"usage"}
    OBVIOUS
  <2>2. CASE stage = "exit"
    <3>1. Ended
      BY <2>2 DEF IInv, Running
    <3>2. status \in {0, 1}
      BY <3>1 DEF Ended
    <3> QED
      BY <2>1, <2>2, <3>1, <3>2 DEF Ended, StatusTellsOutcome
  <2>3. CASE stage # "exit"
    <3>1. Quiet
      BY <2>3 DEF IInv
    <3> QED
      BY <2>1, <2>3, <3>1 DEF Quiet, StatusTellsOutcome
  <2> QED
    BY <2>2, <2>3
<1> QED
  BY <1>1, Invariance, PTL
=============================================================================
