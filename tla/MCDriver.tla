------------------------------- MODULE MCDriver ------------------------------
(***************************************************************************)
(* Command lines for the driver: all short lists of arguments, and longer  *)
(* ones put together from options with their values.                       *)
(***************************************************************************)
EXTENDS ChsDriver

Tokens ==
  {"--arch", "x86_64", "bslash", "--format", "elf64", "bin", "-o",
   "--version", "-d", "-x", "p", "q"}

Short == UNION {[1 .. n -> Tokens] : n \in 0 .. 3}

Phrases ==
  {<<"--arch", "x86_64">>, <<"--arch", "bslash">>, <<"--format", "elf64">>,
   <<"--format", "bin">>, <<"--output", "p">>, <<"-o", "q">>,
   <<"-o", "--version">>, <<"p">>, <<"q">>, <<"-vd">>, <<"--version">>,
   <<"--arch">>}

Long == {a \o b \o c \o d : a \in Phrases, b \in Phrases, c \in Phrases,
                            d \in Phrases}

CommandLines == Short \cup Long
==============================================================================
