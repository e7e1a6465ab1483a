# A formal model of CHS

CHS (`src/` of the repository) assembles arm64 and x86_64 sources in GNU-like
syntax into ELF64 or Mach-O objects, and embeds a second assembler, Bslash,
for a small architecture of its own.  This directory holds TLA+ models of it,
the TLC configurations that check them on small instances, and proofs that
TLAPS checks.

## 1. The system

| Component | Code | State it keeps | Operations |
|---|---|---|---|
| Object model | `src/object.c`, `include/chs/assembler.h`, `object.h` | sections (bytes, alignment, relocations) and symbols (place, flags) in growing arrays, referred to by index | get-or-create by name, append, pad, align, add a relocation, find |
| Generic assembler | `src/assembler.c` | current section, pending instruction list | pass one over the lines, pass two over the list, hand-over to a writer |
| arm64 encoder | `src/arch_arm64.c` | none; reads the finished object | one instruction to one word, a displacement or a symbol reference |
| x86_64 encoder | `src/arch_x86_64.c` | none | one instruction to 1..16 bytes, a symbol reference with its offset |
| Common | `src/common.c` | growing buffer, strings, files | align, read, write, temporary path |
| ELF64 writer | `src/format_elf64.c` | symbol order, index map, section header layout | order, map, lay out, write |
| Mach-O writer | `src/format_macho.c` | symbol ranks, string table, file offsets | rank, map, lay out, write |
| Bslash bridge | `src/bslash.c`, `bso_format.h` | temporary BSO file | assemble, translate a BSO object into a ChsObject, write |
| bas assembler | `src/bslash_embed.c` | program counter, symbol table, item list, include stack | sizing pass, encoding pass, flat or BSO output |
| Driver | `src/main.c`, `arch.c` | options | choose the back end, report |

How they interact: the driver calls the generic assembler or the Bslash
bridge; both build a ChsObject; the generic assembler calls the encoder of the
architecture through `ChsArchOps`, and a writer through `chs_emit_output`.
There is one thread and no callback: what is hard is not interleaving but the
order of steps over shared, index-linked tables, and what is left behind when
a step fails.

What is hard, and what makes each component correct:

* **Object model.** Relocations, labels and pending instructions hold indices
  and offsets into tables that keep growing.  Correct if names stay unique,
  indices keep leading to the name they were made for, and bytes never move.
* **Generic assembler.** The layout is fixed in pass one, the encoding happens
  in pass two.  Correct if every label marks its place, slots are disjoint from
  everything else, pass two leaves the layout alone, each reference ends as a
  displacement or a relocation, and no error leaves an output behind.
* **Encoders.** Correct if what a processor reads from the bytes is the
  instruction written, a displacement leads to the label, and a relocated field
  lies where the encoding has it.  Hard are the exceptions of the two
  instruction sets: prefixes, register numbers that mean something else in some
  places, fields of many widths.  Neither encoder checks every range.
* **Writers.** Correct if the symbol order of the format is met, the index map
  agrees with it, no relocation is lost, and all offsets and sizes agree with
  what is written.
* **Bslash bridge and bas assembler.** Correct if both passes agree on sizes,
  nested includes hand the program counter over and back, indices survive the
  translation, and addends keep the address they stand for.
* **Driver.** Correct if no path leaves a temporary file behind and success is
  reported only for a written output.

`PROJECT.json` lists the hazards at their lines.

## 2. Plan

| Step | Modules | Contents | Status |
|---|---|---|---|
| 1 | `ChsObject`, `ChsAlign`, `ChsAssembler`, `AssemblerContract` | object model, alignment, two-pass assembler with the encoders' symbol references | done |
| 1 | `MCChsAssembler`, `MCAlign` | small instances, refinement of the contract | done |
| 1 | `ChsAssembler_proofs` | inductive invariant and the safety theorems; later the contract, and that what the x86_64 encoder returns fits its slot | done |
| 2 | `ChsBuffer`, `ObjectFile` | the growing buffer; what writing an object file promises in any format | done |
| 2 | `ChsElfWriter`, `ChsMachoWriter` | symbol order, index map, layout, buffer capacity, failures; each implements `ObjectFile` | done |
| 3 | `BasAssembler` | includes, symbols, origin, literals, sizing and encoding pass, BSO output | done |
| 3 | `BslashBridge` | composition: `BasAssembler`, the translation of its BSO file, a writer by its contract, the temporary file | done |
| 4 | `ChsDriver` | command line, dispatch, exit status | done |
| 5 | `X86Encoder`, `Arm64Encoder` | the two encoders from parsed operands to bytes or the word | done |
| 5 | `X86Semantics`, `Arm64Semantics` | how a processor reads them, and what the source meant: the reference the encoders are checked against | done |
| 6 | `ChsLemmas`, `ChsBuffer_proofs` | arithmetic, sums, appending to tables; the buffer and alignment | done |
| 6 | `ChsElfWriter_proofs`, `ChsMachoWriter_proofs` | every invariant of the writers, and each step mapped to `ObjectFile` | done |
| 6 | `BasAssembler_proofs`, `ChsDriver_proofs` | every invariant of bas and of the driver | done |
| 6 | `BslashBridge_proofs` | every invariant of the bridge, on top of what is proved of bas | done |
| 7 | `ChsAssembler_proofs`, `ChsBuffer_proofs` | the step-by-step mapping of the assembler to its contract; the x86_64 encodings; `AlignUpWord` for every alignment and word | done |

Every module is written to be proved about: no recursive operators, parameters
with named assumptions where a proof needs them, one action per operation.

How the modules compose:

    ChsDriver -- dispatches to --> ChsAssembler ---- contract: AssemblerContract
        |                              |
        |                          ChsObject --- ChsAlign
        +--> BslashBridge = BasAssembler + translation + ObjectFile
                                                          ^       ^
                                                ChsElfWriter   ChsMachoWriter
                                                     (both on ChsBuffer)

`BslashBridge` takes one step of `BasAssembler` (by `INSTANCE`) at a time and
then one step of `ObjectFile`, which the two writers are proved to implement;
`ChsAssembler` writes its output in one action
with the same outcomes.  It takes encodings by their size and the place of their
field only; that a relocated field lies within its encoding, which it assumes,
is `RelocationCoversField` of `MCX86Encoder`, checked by the `x86_encoder` run and
proved for every operand, and an arm64 encoding is one word.

## 3. The modules

### ChsObject

Pure operators over the tables.  An index is the code's plus one; `None`
stands for `(size_t) -1`.  A section's `data` is a sequence of bytes, each
abstracted to `by` (the statement that wrote it), `is` (data, zero, code or
fill) and `imm` (the displacement field of the instruction it belongs to).
Growth beyond `MaxSectionSize` stands for a failing `realloc`; sizes are words
of `SizeWord` values, and the two ways in which the code misses that failure
for a run of zeros are `DoublesForever` (the doubled capacity comes to zero)
and `Overruns` (the sum of size and amount wraps around, and `memset` goes on
behind the section).

| Definition | Code |
|---|---|
| `Find`, `GetOrCreateSection`, `GetOrCreateSymbol` | `chs_object_find_symbol`, `chs_object_get_or_create_*` |
| `AppendBytes`, `Extended`, `Fits` | `chs_section_append_data`, `chs_section_append_zeros` |
| `Needed`, `DoublesForever`, `Overruns` | the doubling loop of `chs_section_append_zeros` and the sum it goes by |
| `AlignSection`, `Padding` | `chs_section_align` |
| `AddRelocation` | `chs_section_add_relocation` |

### ChsAlign

`AlignUpWord` is `chs_align_up_u64`: `(value + a - 1) & ~(a - 1)` over a word of
`WordBits` bits.  `ChsObject` takes it as the constant `AlignUp`, of which it
only assumes that the result is a word: near the end of the word the sum wraps
around, and `Padding` takes the difference as a `size_t`, as `chs_section_align`
does.  The `align` run and the theorems about alignment show what the result is
where the sum stays in the word.

### ChsAssembler

`phase` is the place in `chs_assemble_file`: `pass1` (the loop over lines),
`pass2` (the loop over the pending list), `emit`, `done` or `failed` (the
`cleanup` label with `success` false); `growing` is the doubling loop of
`chs_section_append_zeros` once it can no longer end, and `killed` a process
that the operating system ends because it writes behind a section.  A source
is a sequence of statements: a line is its labels followed by at most one
directive or instruction.

| Variable | Code |
|---|---|
| `cursor` | position in the line loop |
| `current` | `current_section_index` |
| `sections`, `symbols` | `object.sections`, `object.symbols` |
| `pending`, `next` | `instructions`, `instruction_index` |
| `output` | the file at `output_path` |

| Action | Code |
|---|---|
| `DefineLabel` | the label loop of a line: get or create, set section and value, also of an already defined symbol |
| `SelectSection`, `DeclareGlobal`, `DeclareExtern`, `Align`, `AppendData`, `AppendQuad`, `SkipDirective` | the branches of `chs_handle_directive` |
| `ReserveSlot` | pending entry and zeroed slot of an instruction |
| `EndPassOne`, `EndPassTwo` | the loop ends |
| `RejectStatement`, `ExhaustSection`, `RejectInstruction`, `OutOfMemory` | the error exits |
| `GrowForever` and then `KeepGrowing`, `OverrunSection` | a run of zeros that leaves the word: the loop that never ends, the bytes behind the section |
| `EncodeInstruction` | encode, copy into the slot, fill, then symbol and relocation |
| `EmitOutput`, `RejectHidden`, `WriteFails` | the writer: refusal of relocations against `L` names, a written file, an untouched or partial file |

Instructions appear by how they refer to a symbol.  arm64: `b` (b, bl: an
in-section label is encoded, any other name relocated), `b.cond` (b.cond, cbz,
cbnz: only in-section labels), `adrp`, `pageoff` (add with `@PAGEOFF`), `plain`,
`invalid`.  x86_64: `rel32` (call, jmp, jcc), `rip` (memory operands), both
always relocated, `plain`, `invalid`.  An x86_64 instruction carries the size of
its encoding and the offset of its field.

`WriteFails` has three outcomes: `fopen` fails (file untouched), `fwrite` comes
up short after `fopen` truncated the file (partial, error), and data still in
the stdio buffer is lost at `fclose`, whose result `chs_write_entire_file`
ignores (partial, success).

### AssemblerContract

What the output means, without passes, tables or indices: bytes by section and
offset, symbols with their place, links (relocations by name) and jumps
(displacements), all as functions of the source text (`Lengths` by recursion over
it).  `WellFormed` says which sources have an object at all.  `ChsAssembler` gives
the refinement mapping, `Outcome` and `AbstractObject`, which replaces indices by
names.

### ChsBuffer

`ChsBuffer` of `common.c`: `length`, `capacity` and the pieces appended, each
with its place and size.  `Reserved` is the doubling of `chs_buffer_reserve`
(from 64, until the new length fits), `HasRoom` says that memory lasts for it.
`Skip` is the one place where the code changes `length` itself: the ELF writer
moves it to the next multiple of eight and never writes the bytes between.

### ObjectFile

The contract of a writer.  `MeaningOf` gives the meaning of an object: sections
by place, visible symbols, relocations by name.  A run ends with the output
holding that meaning, with a partial file (reported, unless only `fclose` saw
it), or with the output untouched, which it must be when a relocation refers to
a hidden name.  `Cut` is the file of an object whose numbers do not fit the
format's fields: the writers do not notice, and nothing is said of what it means.

### ChsElfWriter

| Variable | Code |
|---|---|
| `pc`, `k`, `rank` | the loop of `chs_write_elf64_object` that runs, its index, `rank_index` |
| `order`, `map`, `symtab`, `locals` | `symbol_order`, `symbol_index_map`, `symbols`, `local_symbol_count` |
| `headers`, `shoff` | `section_headers`, `section_header_offset` |
| `buffer`, `strtab`, `shstrtab` | the buffers of these names |

`Swap` and `InPlace` are single steps of the insertion sort, `AddSymbol` one
turn of the loop that fills the table and the map, `PutSection` and `PutRelas`
one section, and so on to `WriteFile`.  A piece of the file is a record (a
section header, a symbol, a relocation) and not its bytes.  `ReadBack` is not
code: it reads the finished file the way a linker does, by offset and index,
and the refinement compares what it finds with the object.  It uses the only
symbol table of the file and ignores which section a relocation section's
`sh_link` names: the code puts `.strtab` there and not `.symtab`
(`format_elf64.c:321`), so for a linker that follows `sh_link` the refinement
says nothing. `uint32` and `uint16` are the casts of the code: section
numbers, the number of headers and the index of their names have 16 bits,
symbol numbers and places of names 32.  `HalfSpan` and `WordSpan` are how many
values these have, `LoReserve` is the first reserved section number
(`SHN_LORESERVE`); `FieldsFit` says that an object stays within them, and is
the premise of the refinement. The name of a relocation section is appended by
a call whose arguments are the name and `strlen` of a buffer the same call
fills; C leaves open which comes first, so `RelaNameSizes` has both lengths.

### ChsMachoWriter

The same for `chs_write_macho_object`.  `Insert` is one turn of the outer sort
loop.  `DataPlace`, `RelocationPlace`, `SymbolPlace`, `StringPlace` and
`FileSize` are sums over the exact sizes; `DataOffset`, `RelocationOffset`,
`SymbolOffset` and `StringOffset` are what the load commands hold, their lower
32 bits.  `WordSpan`, `SectionSpan` and `SymbolSpan` are the number of values
of 32-bit offsets, 8-bit section ordinals and 24-bit symbol numbers,
`FixedName` is a name cut to 16 bytes.  The code checks none of them;
`OffsetsFit` says that the file is below 4 GiB, `FieldsFit` that everything
fits, and these are the premises of the properties and the refinement.

### BasAssembler

| Variable | Code |
|---|---|
| `frames` | the calls of `process_source_file`: file, next line, `local_pc` |
| `shared` | `*pc`, the counter the calls hand over |
| `included`, `origin` | `included_files`, `g_origin_base` with its source |
| `symbols`, `literals`, `items` | `symbols`, `string_literals`, `program` |
| `length`, `placed`, `fields`, `relocs` | `output->count`, where items and fields start in it, `relocs` |
| `bso`, `output` | the object file's records, the state of the output file |

A statement is a label, data, `%align`, `%origin`, `%incbin`, `%includefile`, a
string literal or an instruction.  Instructions appear as their format: what
`g_instructions` and the RRPIN parser count (`Size`) and what
`encode_instruction` appends (`BytesWritten`) are two tables, written from the
two places, and no action assumes them equal.  `Include` and `EndOfFile` are call
and return; `EncodeItem` encodes one item, its fields and its relocations;
`fatal` is a `longjmp` and ends the run in `failed` from anywhere.  A forced
include is not interned, so a file can include itself; it ends when no more
files can be opened (`MaxOpen`).

### BslashBridge

`chs_assemble_bslash_file`: `MakeTemp` or `NoTemp`, `RunBas` (one step of
`BasAssembler`), then `ReadBso`, `TranslateSymbol`, `TranslateRelocation`
(`chs_bslash_translate_bso`), `WriteObject` and `Cleanup`.  A section of the
object holds its operand fields, which `FieldsWith` overwrites with the addend
as `chs_bslash_write_addend` does.  A BSO file that lost its end in `fclose` is
shorter than its header says and refused (`TruncatedBso`).  `NoTemp` includes the
case in which `mkstemps` made a file and the memory for its name ran out: the
file stays.  `WriteCut` is an object that does not fit the fields of its format,
which 32-bit counts of a BSO file allow: the call succeeds, and what a reader then
finds is left out.

### ChsDriver

`main`: one action per branch of the option loop; `Route` is the choice at the
top of `chs_assemble_file` and in `arch.c`; `Succeed` and `GiveUp` are the
results of the components above.

### X86Encoder and X86Semantics

`X86Encoder` is `chs_x86_64_encode_instruction` with every function it calls.
An instruction is a mnemonic with its operands split from the text: a register,
a constant, a memory operand as the list of its signed terms (`ParseMem` adds
them up as `chs_x86_parse_mem` does), or a label.  There is one action per branch
of the dispatch, each of which ends in `accepted` with the bytes, the relocation
and its place, or `refused`.

`X86Semantics` is not code of CHS: it reads prefixes, opcode, ModRM, SIB,
displacement and immediate as a processor does (`Readings`) and gives what the
source meant (`Meaning`).

### Arm64Encoder and Arm64Semantics

The same for `arch_arm64.c`.  A word is the set of its one bits, so that joining
fields with `|` is union; immediates and offsets keep their real widths.  A
label carries the distance to it if it is defined in the section of the
instruction, as `chs_arm64_find_defined_symbol` requires.  `PostIndexed` is the
joining of a bracket with the number behind it.  A constant is the set of the one
bits of its 64, so that a cast to `unsigned` or a mask is an intersection (`Cut`,
`Low`).

`Arm64Semantics` states about 200 instruction forms of the architecture, each by
its fixed bits and its fields, and reads a word by all forms it matches.

### Wrong variants

Operators introduced as "wrong variant" are never used by an action.  Each is a
plausible mistake in the code (an index taken after the count went up, a slot
overrun, a distance from the wrong instruction, ...) that one property must
tell from the code; `PROJECT.json` pairs them.

## 4. The runs

| Run | Instance | Distinct states | Shows |
|---|---|---|---|
| `arm64` (`MCArm64.cfg`) | all sources of up to 3 of 24 statements after `.text`, up to 2 without it, and of up to 5 of 7 statements around branches | 528,699 | all invariants, `LayoutFrozen`, the contract, `Terminates`; branches lead to their labels |
| `x86_64` (`MCX86.cfg`) | up to 3 of 14 statements | 38,621 | the contract, with encodings shorter than the slot and field offsets |
| `section_growth` (`MCGrowth.cfg`) | up to 3 of 9 statements around the ends of `size_t` | violated (6,720) | the second finding below |
| `x86_encoder` (`MCX86Encoder.cfg`) | 31,975 instructions: every mnemonic over all pairs of operands | 63,950 | the bytes mean the instruction |
| `x86_scalar` (`MCX86Scalar.cfg`) | the same | violated | the first finding below |
| `arm64_encoder` (`MCArm64Encoder.cfg`) | 27,433 instructions | 54,866 | the word means the instruction |
| `align` (`MCAlign.cfg`) | 5-bit words | 1,024 | `chs_align_up_u64` |
| `elf64` (`MCElf.cfg`) | all lists of up to 3 symbols of 4 bindings, hidden or not, over sections with every relocation kind; objects at and past the ends of the 16-bit and 32-bit fields | 197,294 | the ELF64 writer implements `ObjectFile` |
| `macho` (`MCMacho.cfg`) | the same, with and without a build version; objects at and past the ends of each field | 119,031 | the Mach-O writer implements `ObjectFile` |
| `bas` (`MCBas.cfg`) | 1,728 programs of two files, and chosen ones for formats, ranges, wrap-around and includes; flat and object | 100,498 | both passes agree, references resolve, includes end |
| `bslash` (`MCBslash.cfg`) | 1,007 programs in three formats, anything failing anywhere | 240,019 | the file means the program, the temporary file is removed |
| `driver` (`MCDriver.cfg`) | all command lines of up to 3 of 12 arguments, all of 4 of 12 options with their values | 116,145 | last option wins, exit status |

Why the bounds are enough.  Interesting interactions need a definition, a use
and something between or after them; three statements give definition, use and
redefinition, or use, alignment and section change, in every order.  Two names
(one hidden, `Lx`), two sections and two alignments (one a power of two, one
not) give each equality and inequality.  `MaxSectionSize` of 20 lets three
statements run out of memory, and a `size_t` of 256 values lets one statement ask
for more than half of them or, behind another, for more than all; statements may
ask for anything in between.  `Imm26Span` = 8 and `Imm19Span` = 4 make both
fields small enough that five statements reach past them, and different so that
mixing them up shows.

For the writers, three symbols are enough for every pair in and out of order and
a third between them; name lengths differ (3 to 10 bytes) so that a wrong offset
or length shows; buffers double from 64 bytes on, so that the files of a few
hundred bytes cross several capacities, and the stale bytes of the name buffer
have two lengths.  Fields are narrow enough for TLC to reach both sides of them:
ELF numbers of 16 bits count to 16 (of which 14 and 15 are reserved) and those of
32 bits to 512, Mach-O offsets to 1,024, section ordinals to 4 and symbol numbers
to 3, and there are objects that just fit and objects that just do not for each,
but for the 2^32 symbols of an ELF file: no instance has as many as `WordSpan`.
For bas, a byte has 3 bits and a word 12: short branches
reach from -4 to 3 and the counter wraps at 4,096, and programs are placed on both
sides of each limit.  The two files of a shuffled program include each other,
so offsets cross two calls and two returns; `MaxOpen` of 4 is more than the files
of any program without a forced include need.

For the encoders, x86_64 registers are numbers 0, 1, 4, 5, 8, 12 and 13 of each
width, xmm 0, 5 and 9, and `rip`: with and without an extension bit, and all
numbers whose ModRM or SIB bits mean something else.  Fields of 1, 2, 4 and 8
bytes have 3, 4, 6 and 10 bits, with constants on both sides of each limit.
arm64 registers include all ways to write number 31, constants and distances lie
on both sides of each field's real limits, and constants also on both sides of
16, 32 and 64 bits, which the code casts and masks them to.  The
encoder runs set `CHECK_DEADLOCK FALSE`: the call that is modelled returns.

**Properties.**

* `TypeOK`: types, and the current section inside the table.
* `NamesUnique`: one entry per name.
* `RelocationsNameTheirTarget`: a relocation covers bytes of the statement that
  asked for it and its index leads to the name written there.
* `SlotsIntact`: slots share no byte with anything else.
* `LabelsMarkTheirPlace`: a label separates earlier from later bytes; a name
  defined twice means its last definition.
* `ReferencesResolved`: every encoded reference is a displacement to the label's
  final place or a relocation of its kind.
* `BranchesReachTheirLabel`: decoding the field gives the label, within range
  and at word distance.  Outside, the code truncates silently: the property has
  that precondition because the code does not check it.
* `OutputIsComplete`: the output file is touched only for a completely encoded
  object without hidden relocations.
* `LayoutFrozen`: pass two only turns reserved bytes into code and appends
  relocations and undefined symbols.
* `ImplementsContract`: the finished object is the one the source stands for.
* `Terminates`: every assembly ends whose source is `Countable`: with every
  statement appended the section stays within half of what `size_t` counts,
  however much more than memory that is.  Beyond, the code may not end.
* `GrowthIsRefused`: what a section cannot hold ends in an error.  The code
  does not keep this; see the second finding.
* `LeastMultiple`, `PaddingIsSmall`: alignment, also for operands that are no
  powers of two, which `.balign` accepts.  Both have the premise that the sum of
  size and alignment stays in the word.  Nothing checks that: an alignment near
  2^64 wraps, and what the assembler then does is part of the `section_growth`
  run (`AlignTo(255)` in a word of 256 values).

* `elf64`: `LocalsPrecedeGlobals` (the sort is a stable partition and
  `sh_info` names the first global, if 32 bits count the symbols),
  `BufferInBounds` (the length moved by hand stays in what was reserved),
  `SectionsLaidOut` (sections are aligned, disjoint, before the header table,
  and hold no byte that was skipped), `ImplementsObjectFile` (the file means
  its object if that fits the fields), `Terminates`.
* `macho`: `RangesCounted` (the ranges counted in one loop are the ranges
  sorted in another), `PromisesKept` (everything is where the load commands
  say: in a file below 4 GiB exactly, beyond it in the lower 32 bits),
  `ImplementsObjectFile` (the file means its object if that fits the fields).
* `bas`: `LayoutHolds` (first-pass offsets and labels are second-pass places),
  `ReferencesResolved` (a field leads to its label, or has a relocation that
  makes up for it, the only one there as long as the code is no longer than a
  word can count), `IncludesAreAcyclic` (only `force` nests a file in itself),
  `OutputIsComplete`, `Terminates`.
* `bslash`: `TranslationIsFaithful` (indices, addends, fields and flags of the
  object against bas's tables), `OutputMeansProgram` (the output, if its
  numbers fit, against the source, and success against what happened), `TemporaryRemoved`, `Terminates`.
* `x86_encoder`: `EncodingMeansInstruction` (outside the cases named in
  `MCX86Encoder`, the bytes read as a processor reads them are the operation,
  width, operands and constant written), `RelocationCoversField` (a relocation
  covers one whole 32-bit field, and any encoding fits its slot of 16 bytes).
* `arm64_encoder`: `WordMeansInstruction` (an accepted word is the instruction
  written if and only if it is none of the cases of `EncodedOtherwise`, over the
  operands of the run).  The
  cases are part of the property in both directions, so that neither a new case
  nor a repaired one goes unnoticed.
* `driver`: `OptionsAreTheLast` (against a reading of the whole command line from
  left to right), `StatusTellsOutcome`.

**Fairness.** `WF_vars(Progress)`: the program is one thread that never blocks,
so an enabled step of it is eventually taken.  Running out of memory and failing
to write are not part of `Progress` and carry no fairness: they may happen at any
time and never need to.  The same holds for `ChsElfWriter`, `BasAssembler` and
`BslashBridge`.  In `BasAssembler` the limit of open files is part of
`Progress`, since every nested call keeps its file open; without it a file that
forces itself would recurse until the stack ends.

**First finding** (`x86_scalar`).  The message of the scalar
arithmetic instructions says that their source has to be xmm or memory
(`arch_x86_64.c:1344`); the guard in the line above it does not test that a
register is an xmm register, and a general register is encoded by its number.

**Second finding** (`section_growth`).  `chs_section_append_zeros` doubles the
capacity until it reaches the size needed (`object.c:145`).  If that is more
than 2^63, as for `.space 0x8000000000000001`, the capacity goes from 2^63 to
0 and the loop never ends, where the code has the message "out of memory
growing section" (`object.c:150`).  If the sum of size and amount wraps
around, nothing is grown, and `memset` writes behind the section.  The model
takes the endless loop literally (`KeepGrowing`) and the overrun as the end of
the process (`OverrunSection`): so many bytes behind an allocation are not all
mapped.  An alignment near 2^64 gets there in the same way.
`chs_section_append_data`
has the same loop, but only for bytes that are in memory already.

**Met while modelling**, without a document that says otherwise:

* Driver: the usage message brackets only `[-d|-vd]` (`main.c:33`), but only the
  two paths are required (`main.c:135`); without `--arch` and `--format` the program
  assembles arm64 to Mach-O, the zeros of both enumerations.
* ELF: section numbers are cut to 16 bits, with no check against the reserved
  ones; `sh_link` of relocation sections is `total - 2`, `.strtab`; the bytes
  skipped before relocation sections are whatever the heap held, and are
  written to the file; `sh_addralign` is the operand of `.balign`, power of
  two or not.
* Mach-O: sections start where the one before ends, whatever their alignment;
  the alignment field rounds up and ends at 2^15; names are cut to 16 bytes, and
  offsets to 32 bits: of a file of more than 4 GiB the load commands name places
  other than those of its parts.
* bas: the section of an object keeps alignment 1, so `%align` holds only within
  it, and `%origin` has no effect in an object; every label that does not start
  with `L` is global, also `__str_0`; an absolute reference to an `L` label is
  accepted by bas and refused by the writers; a short branch to an undefined
  name further than 128 bytes into the program is refused by the bridge, because
  its addend is minus the address of the next instruction; errors of the
  second pass name no file; offsets of relocations are places modulo a word, so
  that in code longer than a word can count two fields may share one.
* x86_64 (outside `EncodingMeansInstruction`, by `EncodedOtherwise` in
  `MCX86Encoder` or `HasForm` in `X86Semantics`): a shift drops its operand's
  symbol; the predicate byte of `cmpsd` and `cmpss` follows a relocated field
  whose place does not count it; a base with a symbol gets a pc-relative
  relocation; of two registers in brackets the last one counts; an absolute
  address is encoded relative to `rip`; a narrow base register is encoded as
  its 64-bit one; no REX for `setcc` and byte moves of spl to dil; 16-bit
  arithmetic lacks its prefix and 8-bit registers get 32-bit arithmetic;
  `movzx` and `movsx` ignore a 64-bit destination and a 16-bit source,
  `movsxd` always has REX.W; `movsd` and `mov` of xmm registers encode the
  integer mov; 64-bit constants of arithmetic are cut to 32 bits, as
  displacements are; general registers are taken as xmm sources. On ELF64
  relocations carry no addend, so that a pc-relative field is four bytes off;
  the property checks the convention of Mach-O.
* arm64 (the cases of `EncodedOtherwise`): `ldrsb` and `ldrsh` have the
  opcodes of the 32-bit and 64-bit destination exchanged (`arch_arm64.c:541`,
  `:551`); `sp` is accepted where number 31 is a zero register and the
  reverse; registers of mixed widths in `add`, `sub` and `cmp`, a 32-bit base,
  and 32-bit registers of `stp`, `ldp`, `sxtw`, `uxtw`, `adrp` and `add` with
  `@PAGEOFF` are encoded as 64-bit ones (or as the first one's width);
  constants of `add`, `sub`, `movz` and `movk`, scaled offsets, offsets of
  pairs and distances are cut to their fields, the latter also to multiples;
  shift amounts are cut to 32 bits before their range is checked, so that `lsl
  #4294967312` of `movz` and `movk` is `lsl #16` (`arch_arm64.c:457`) and `lsl
  x0, x1, #4294967297` shifts by one (`:1739`); a constant of `mov` to a `w`
  register is cut to 32 bits if `movn` can make what is left of it (`:926`,
  `:935`); `[x0, #8], #4` and `[x0, #8]!, #4` lose one of their offsets; `sub`
  with `@PAGEOFF` is an add; `adrp` accepts `@PAGEOFF`; `cset` with `al` never
  sets.

## 5. The proofs

Every invariant of the assembler, the two writers, bas, the bridge and the driver
is a theorem, for every value of the constants that meets the assumptions of the
modules.  The assembler is proved to implement `AssemblerContract`, and both
writers `ObjectFile`.  Alignment is proved right in words of every width, and
what the x86_64 encoder returns to fit its slot, for all operands.

`ChsLemmas` holds what several proofs need and the provers do not find alone:
that a set of numbers which holds 0 and the successor of each member holds all
numbers (`Induction`, from the well-foundedness of `<` on the naturals),
remainders, powers of two, and what appending and joining tables keep.
`ChsBuffer_proofs` says the same of a buffer: that what a writer appends starts
where the buffer ended, that older pieces stay, and that a capacity which was
enough stays enough.

### The assembler

`ChsAssembler_proofs` starts with what the table operators of `ChsObject`
return and keep (`FindFacts`, `GetOrCreateSymbolFacts`,
`GetOrCreateSectionFacts`, `ExtendedFacts`, `PaddingFacts`).  It proves, for
every set of programs, names, alignments, memory limit and field width:

| Theorem | States |
|---|---|
| `Invariance` | `Spec => []IInv` |
| `TypeCorrect`, `NamesStayUnique`, `RelocationsCorrect`, `SlotsStayIntact`, `LabelsCorrect`, `ReferencesCorrect`, `OutputCorrect` | each invariant of the `arm64` run |
| `LayoutStaysFrozen` | `Spec => LayoutFrozen` |
| `BranchesCorrect` | `Spec => []BranchesReachTheirLabel` |
| `MeaningKept` | `Spec => []AInv` |
| `ContractImplemented` | `Spec => ImplementsContract` |

Assumptions: `AlignUp` of a size in memory is any `size_t`
(`AlignAssumption`), memory is less than half of what `size_t` counts
(`SizeAssumption`), programs are parsed sources whose encodings fit their slot
(`ProgramAssumption`), field spans are positive and even (`SpanAssumption`),
the architecture is one of two (`ArchAssumption`), hidden names are names, and
no section has the name that marks the place before the first section
(`NameAssumption`, which only the last two theorems use).

The properties are not inductive one by one: that a relocation
stays on bytes of its statement needs to know that pass two writes only into
slots, that slots belong to their instruction, and that no two pending
instructions come from one statement.  `IInv` is their conjunction with
`Bookkeeping`, which ties the counters to the phase (pass two starts behind the
last statement; the emit phase behind the last instruction), bounds every byte's
author by the cursor, and makes the lines of the pending list distinct.

Pass one is treated once.  `PassOneEffect` says what any step of it may do:
old bytes stay, new bytes belong to the statement read, symbols keep their names,
at most the label read changes its place.  `PassOnePreserves` shows that this
effect keeps `IInv`, and one lemma per action shows the effect.  Likewise
`EncodeEffect` and `EncodePreserves` for pass two, and `KeptPreserves` for the
steps that change only phase and output.  `BranchesCorrect` follows from
`ReferencesResolved` and the arithmetic of `SignExtension`: within its range, a
number masked to the field and sign-extended is itself.

`ContractImplemented` says what the two passes are for: the object, if there is
one, is the one that `AssemblerContract` reads off the source text, which has no
passes, tables or indices.  `IInv` does not give that, since it says that
the tables agree with each other and not with the source.  `AInv` adds, with
`Contract` for the text read so far:

| Part | Says |
|---|---|
| `CurrentMeant` | the current section is the one the contract has for the next statement |
| `LengthsMeant` | every section is as long as the statements read make it |
| `BytesMeant` | a byte has an author exactly where the contract puts a byte of that statement |
| `StatementsMeant` | the statements read are well formed, and the instructions among them are the pending ones, each at its place |
| `EncodedMeant` | the instructions encoded are valid, and a conditional arm64 branch among them leads to a label of its section |
| `NamesMeant` | the symbols are the names mentioned or linked so far, each defined by its last label, global exactly if exported |
| `LinksMeant` | the relocations are the links of the statements settled so far |

As before, pass one is treated once: `ReadEffect` says what reading a statement
does to the lengths, the bytes and the names, one lemma per action shows it, and
`ReadPreserves` that it keeps `AInv`, with one lemma per part.  `EncodeMeaning`
does the same for pass two, and `KeptMeaning` for the other steps.
The refinement itself needs the invariant in one step: all others leave
`Outcome` alone or refuse.  In the step that writes the output, `BytesAgree`,
`SymbolsAgree`, `LinksAgree` and `JumpsAgree` show part by part that the object
written is the contract's, and `SourceIsWellFormed` that there is one.

### The x86_64 encodings

The last part of `ChsAssembler_proofs` is about the encoder that pass two calls.
It takes `MCX86Encoder` by `INSTANCE`, with any set of instructions, any operands
and any field widths:

| Theorem | States |
|---|---|
| `EncodingsFitTheirSlot` | `RelocationCoversField`, an invariant of the `x86_encoder` run: an accepted encoding has one to sixteen bytes, and if it refers to a symbol, four of them from its offset on are one whole field |

The only assumption is the length of `encoded->bytes`, 16.  There is one lemma
per function of `arch_x86_64.c`, which says that what it returns is a
run of bytes in which the relocated field lies whole (`...Sound`), and
`WithRmCovers` for the ModRM bytes most of them share.  What the terms of
a memory operand add up to does not matter for it.  With this,
`ProgramAssumption` asks nothing of an x86_64 encoding that the encoder does not
keep.

### Alignment

`ChsBuffer_proofs` ends with `chs_align_up_u64`, for words of every width
(`MCAlign` by `INSTANCE`, with the width as parameter):

| Theorem | States |
|---|---|
| `AlignedIsLeast` | `[]LeastMultiple`, an invariant of the `align` run |
| `PaddingStaysSmall` | `[]PaddingIsSmall`, the other |
| `EightIsMet` | what `AlignUpAssumption` asks of an alignment of 8, for every value less than 8 below the end of the word |

`AndNot` collects, bit by bit, what the mask leaves of a number.
`MaskTakesLittle`: after `b` bits it lies below the number modulo `2^b` by at
most the mask modulo `2^b`; `MaskLeavesMultiple`: with a mask of ones from the
bottom it is a multiple. Both go by `Induction` over the bits.

### The writers

| Theorem | ELF64 | Mach-O |
|---|---|---|
| `Invariance` | `Spec => []Inv` | `Spec => []Inv` |
| `TypeCorrect` | `[]TypeOK` | `[]TypeOK` |
| the order of symbols | `OrderCorrect`: `[]LocalsPrecedeGlobals` | `RangesCorrect`: `[]RangesCounted` |
| the layout | `InBounds`: `[]BufferInBounds`; `LayoutCorrect`: `[]SectionsLaidOut` | `PromisesHold`: `[]PromisesKept` |
| `ObjectFileImplemented` | `Spec => File!Spec` | `Spec => File!Spec` |

`Inv` is built in layers, each proved with those below it.  `OrderInv` says how
far the sort has come: which indices were collected, which places are sorted,
and where the one being inserted belongs.  It gives a stable sort, of which the
counts of locals and ranges are a consequence.  `TableInv` says that the buffers
are buffers and the tables as long as the loops that fill them have run, and
`SymbolInv` that map, order and symbol table agree entry by entry and that the
string table holds each name where its symbol says.  For ELF, `LayoutInv` then
says of every section header that its bytes are where it says, behind those of
the header before it; for Mach-O, where offsets are promised before anything is
written, `LengthInv` says of every step how long the file is by then, as a sum
over the sections already written.  `ContentInv` says that the pieces in the file
are the records the loops made, at the place of their number.

What the tables and the load commands hold is the exact number cut to its field.
Lengths and places in the invariants are exact, and the premise (`FieldsFit`,
`OffsetsFit`) is used only where a reader goes by the number in the file.

The refinement needs the invariant in its last steps only.  When the file is
written, `ContentInv` gives what a reader finds at every offset the headers name:
exactly one piece, which is the record for that symbol or relocation.  Going back
through map and order, the sets of sections, symbols and relocations read are
those of `MeaningOf(object)`.  All other steps stutter.

Assumptions: objects are tables of sections and symbols in which relocations
name symbols of the table (`ObjectsAssumption`), every name takes a positive
number of bytes in the string table (`NameSizeAssumption`), capacities are
multiples of 64 up to a limit (`CapacityAssumption`), `AlignUp` of 8 gives the
next multiple of 8 (`AlignUpAssumption`, shown of `AlignUpWord` by
`EightIsMet`), fields have at least one value (`WidthAssumption`), and for
Mach-O relocations start within their section (`ObjectsAssumption`) and a name
of up to 16 bytes is kept whole (`NamesAssumption`).  That an object fits the
fields is no assumption but the premise of what is said of its file: the steps
and all invariants are those of any object.

### bas

| Theorem | States |
|---|---|
| `Invariance` | `Spec => []Inv` |
| `TypeCorrect`, `LayoutCorrect`, `ReferencesCorrect`, `IncludesCorrect`, `OutputCorrect` | each invariant of the `bas` run |

`Inv` follows the passes.  `LayoutInv`: an item starts, modulo a word, where
the one before it ends, and has the size its format has in the table of the
first pass; a label stands where the items before it end, also through
includes, since the counter handed over is the one the caller goes on with.
That the second pass follows this layout (`EncodeInv`) rests on one lemma:
both tables, sizes counted and bytes written, agree for every format,
repetitions included (MUL, DIV and UDIV, with three registers, among them).
`FieldsInv`: a field lies within its item and a relative one at its end, so
that the address it is relative to is the first-pass offset of the next item;
displacement or addend then are right modulo a word.  `RelocsInv`: every open
field has a relocation, and as long as the code is no longer than a word can
count, relocations are in the order of their offsets, so it has only one.
`SpansInv`: fields do not overlap, and a relocation covers exactly one of
them. `IncludeInv`: without a forced include open files are distinct and
interned.

Assumptions: bytes have a positive number of bits (`WordAssumption`), at least one
file can be opened (`OpenAssumption`), the root file exists
(`RootAssumption`), programs are finite sets of files of parsed statements
(`ProgramsAssumption`), the origin is a word (`OriginAssumption`).

### The bridge

| Theorem | States |
|---|---|
| `Invariance` | `Spec => []BridgeInv` |
| `TypeCorrect`, `TranslationCorrect`, `OutputCorrect`, `TemporaryCorrect` | each invariant of the `bslash` run |

The bridge runs bas, so what is proved of bas is proved of it:
`BslashBridge_proofs` takes `BasAssembler_proofs` by `INSTANCE`, shows that
both name the same steps (`SameBas`) and that its own assumptions are those of
bas (`BasAssumptions`), and has bas's invariant as its first conjunct.  From
it comes `HandedOver`: a BSO file that was written whole holds a table without
duplicate names, which covers every label and every relocation, relocations in
the order of their offsets, each on a field of its width, and fields that do
not overlap.

The rest of `BridgeInv` is the bridge's own.  `StageInv` says which stages can be
reached with which result, `TempInv` when the file exists and its path is known.
`TranslationInv` says how far the object has come: the first symbols are
the first records, one by one, because a name is never in the table yet
(`TableStep`); the first relocations are in the section, and the fields are those
of bas except that each relocation made has put its addend in (`FieldsStep`).
This last step is where overlapping fields, or two relocations on one field, would
destroy a value that was right.  With everything read, `ObjectMeans` gives the
output: by index and through the table the relocation records lead to the names
bas made them for.

Assumptions: those of bas.

### The driver

| Theorem | States |
|---|---|
| `Invariance` | `Spec => []IInv` |
| `LastOptionsCount`, `StatusCorrect` | both invariants of the `driver` run |

`OptionsAreTheLast` compares the options with `Role`, which reads the whole
command line by recursion.  `IInv` says it of every prefix: the arguments read so
far give the options in force, and the index never stops between an option and
its value.  `RoleUnfolds` proves that the recursive function is what its
definition says, by `Induction` over the arguments; the operators it is made of
overlap in no case.  Assumptions: arguments are strings, and none is the value
that stands for a null pointer (`ArgumentsAssumption`, `NothingAssumption`).

TLC evaluates all assumptions in the runs of these modules.

### What is only model-checked

* Liveness, `Terminates` in every run: fairness is out of the prover's reach.
* The encoders' `EncodingMeansInstruction` and `WordMeansInstruction`: what the
  encoder writes and how a processor reads it are two tables, one case for each
  mnemonic and form of operands, and the property compares them case by case.  A
  proof would repeat that enumeration with one step per case; TLC does it, with
  registers and constants on both sides of every exception and field.
* The two violations of section 4, which are counterexamples.

## 6. What is not modelled

* Text: comment stripping, the label scan, splitting of operands, literals,
  escapes and constant expressions, in both assemblers.  Statements are parsed;
  a syntax error is a failure that may happen anywhere.
* Byte values in `ChsAssembler`, except who wrote a byte, branch fields and
  operand fields: the bytes of arm64 and x86_64 instructions are in the models of
  the encoders.  Opcodes and register encodings of Bslash's own architecture
  appear as the sizes of its formats.
* How either encoder splits the text of its operands.  A number of more than 64
  bits arrives as the nearest one (`strtoll`, `common.c:192`).
* Section types and flags, processor numbers, and the other constants of
  the file formats.
* In `ChsObject` memory is one limit per section plus a failure anywhere
  (`OutOfMemory`), not the capacities of each array; `ChsBuffer` has them.
* `chs_assemble_file` writes its output in one action; the writers are models of
  their own.  That they implement `ObjectFile` is proved for every object that
  meets their assumptions; that the assemblers build only such objects is not
  stated as a theorem.
* `bas_assemble_file`'s `has_origin`, which no caller sets; lines longer than
  `fgets` reads at once; the files a `longjmp` leaves open and the memory it
  leaves allocated.
* `chs_run_process`, which nothing calls; the Makefile and the tests.
* The check that an encoding exceeds its slot happens after the copy.  With the
  current encoders (at most 4 of 4 and 16 of 16 bytes) it cannot fail, and the
  model assumes so.
