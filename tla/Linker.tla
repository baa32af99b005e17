------------------------------- MODULE Linker -------------------------------
(***************************************************************************)
(* The static linker: parse_elf of src/src/linker/parseElf.c and link_elf  *)
(* of staticlink.c, which resolves symbols, lays out sections, merges the  *)
(* lines of the symbols that are kept and relocates them.                  *)
(*                                                                         *)
(* A file is a sequence of lines with a table of sections; what a line     *)
(* says is a record.  A line that refers to a symbol has an operand, which *)
(* is Placeholder until it is relocated.  An assertion, an exit or a wild  *)
(* pointer ends the linker and leaves the reason in "stop".  A definition  *)
(* named after a fault is not part of the model.                           *)
(***************************************************************************)
EXTENDS Integers, SequencesExt

CONSTANTS Inputs,       \* the sequences of files it may be started with
          MaxLines,     \* MAX_ELF_FILE_LENGTH
          MaxSymbols,   \* MAX_SYMBOL_MAP_LENGTH
          Placeholder

ASSUME LinkerAssumption == MaxLines \in Nat /\ MaxSymbols \in Nat \ {0}

VARIABLES srcs,     \* the parsed files
          phase,    \* the function of link_elf that runs
          cursor,   \* how many symbols, sections or relocations it has done
          smap,     \* the map table: a source symbol and its place in dst
          dst,      \* the result: section headers, symbols, lines of sections
          stop      \* why the linker ended early

vars == <<srcs, phase, cursor, smap, dst, stop>>

-----------------------------------------------------------------------------
(* parse_elf                                                                *)

\* Lines of a section of a file; offsets count from 0.
Section(file, name) ==
    LET at == SelectInSeq(file.sht, LAMBDA sh : sh.name = name)
    IN  IF at = 0 THEN << >>
        ELSE SubSeq(file.buffer, file.sht[at].offset + 1, file.sht[at].offset + file.sht[at].size)

parse_elf(file) ==
    [buffer |-> file.buffer, sht |-> file.sht,
     symt |-> Section(file, ".symtab"),
     rel |-> [s \in {".text", ".data"} |->
                Section(file, IF s = ".text" THEN ".rel.text" ELSE ".rel.data")]]

Empty == [sht |-> << >>, symt |-> << >>, lines |-> << >>]

Init ==
    /\ \E files \in Inputs : srcs = [i \in DOMAIN files |-> parse_elf(files[i])]
    /\ phase = "symbol_processing"
    /\ cursor = 0
    /\ smap = << >>
    /\ dst = Empty
    /\ stop = "none"

-----------------------------------------------------------------------------
(* symbol_processing                                                        *)

\* The symbols of all files in the order of the two loops
SymbolOrder == FlattenSeq([i \in DOMAIN srcs |-> [j \in DOMAIN srcs[i].symt |-> <<i, j>>]])
SymbolAt(place) == srcs[place[1]].symt[place[2]]

symbol_precedence(sym) ==
    CASE sym.shndx = "SHN_UNDEF" /\ sym.type = "STT_NOTYPE" -> 0
      [] sym.shndx = "COMMON" /\ sym.type = "STT_OBJECT" -> 1
      [] sym.shndx = ".text" /\ sym.type = "STT_FUNC" -> 2
      [] sym.shndx \in {".data", ".rodata", ".bss"} /\ sym.type = "STT_OBJECT" -> 2
      [] OTHER -> -1

\* The cached global symbol of the same name, if any
AnyBinding(sym) == SelectInSeq(smap, LAMBDA e : SymbolAt(e.src).name = sym.name)
Candidate(sym) ==
    SelectInSeq(smap, LAMBDA e : /\ SymbolAt(e.src).bind = "STB_GLOBAL"
                                 /\ SymbolAt(e.src).name = sym.name)

\* simple_resolution, rules 2 and 3: the new symbol replaces the cached one.
Supersedes(sym, cached) == symbol_precedence(sym) > symbol_precedence(cached)
\* Rule 1, and a symbol that is in no row of the table
Redeclared(sym, cached) == symbol_precedence(sym) = 2 /\ symbol_precedence(cached) = 2
NoPrecedence(sym, cached) == symbol_precedence(sym) = -1 \/ symbol_precedence(cached) = -1

StopFor(reason) ==
    /\ stop' = reason
    /\ UNCHANGED <<srcs, phase, cursor, smap, dst>>

\* The bound of the map table.  For a global symbol the assertion lets one more
\* entry pass, which is written behind the table; the run is over then, too.
Cache(place) ==
    IF Len(smap) >= MaxSymbols THEN StopFor("map table")
    ELSE /\ smap' = Append(smap, [src |-> place, dst |-> 0])
         /\ cursor' = cursor + 1
         /\ UNCHANGED <<srcs, phase, dst, stop>>

Skip == cursor' = cursor + 1 /\ UNCHANGED <<srcs, phase, smap, dst, stop>>

ProcessSymbol ==
    LET place == SymbolOrder[cursor + 1]
        sym == SymbolAt(place)
        k == Candidate(sym)
    IN  /\ phase = "symbol_processing" /\ cursor < Len(SymbolOrder)
        /\ \/ sym.bind = "STB_WEAK" /\ Skip
           \/ sym.bind = "STB_LOCAL" /\ Cache(place)
           \/ sym.bind = "STB_GLOBAL" /\ k = 0 /\ Cache(place)
           \/ /\ sym.bind = "STB_GLOBAL" /\ k # 0
              /\ LET cached == SymbolAt(smap[k].src) IN
                 IF NoPrecedence(sym, cached) THEN StopFor("precedence")
                 ELSE IF Redeclared(sym, cached) THEN StopFor("redeclared")
                 ELSE /\ smap' = IF Supersedes(sym, cached)
                                 THEN [smap EXCEPT ![k].src = place] ELSE smap
                      /\ cursor' = cursor + 1
                      /\ UNCHANGED <<srcs, phase, dst, stop>>

\* What is tentative to the end goes to .bss, in the symbol table it came from.
ToBss(sym) == [sym EXCEPT !.shndx = ".bss", !.value = 0]

Kept == {smap[k].src : k \in DOMAIN smap}

FinishSymbols ==
    /\ phase = "symbol_processing" /\ cursor = Len(SymbolOrder)
    /\ IF \E place \in Kept : \/ SymbolAt(place).shndx = "SHN_UNDEF"
                              \/ SymbolAt(place).type = "STT_NOTYPE"
       THEN StopFor("undefined")
       ELSE /\ srcs' = [i \in DOMAIN srcs |-> [srcs[i] EXCEPT !.symt =
                           [j \in DOMAIN srcs[i].symt |->
                               IF <<i, j>> \in Kept /\ SymbolAt(<<i, j>>).shndx = "COMMON"
                               THEN ToBss(SymbolAt(<<i, j>>)) ELSE SymbolAt(<<i, j>>)]]]
            /\ phase' = "compute_section_header" /\ cursor' = 0
            /\ UNCHANGED <<smap, dst, stop>>

-----------------------------------------------------------------------------
(* compute_section_header                                                   *)

InstChars == 64     \* MAX_INSTRUCTION_CHAR
InstSize == 40      \* sizeof(inst_t)
DataSize == 8       \* sizeof(uint64_t)
TextBase == 4194304 \* 0x00400000

LoadedSections == <<".text", ".rodata", ".data">>

\* Lines of the kept symbols of a section
LinesOf(section) ==
    FoldLeft(LAMBDA sum, e : IF SymbolAt(e.src).shndx = section
                             THEN sum + SymbolAt(e.src).size ELSE sum, 0, smap)

ComputeSectionHeader ==
    LET count == [s \in ToSet(LoadedSections) |-> LinesOf(s)]
        present == SelectSeq(LoadedSections, LAMBDA s : count[s] # 0)
        rodata == TextBase + count[".text"] * InstChars
        Addr(s) == CASE s = ".text" -> TextBase [] s = ".rodata" -> rodata
                     [] s = ".data" -> rodata + count[".rodata"] * DataSize
        first == 2 + Len(present) + 1
        Offset(n) == first + FoldLeft(LAMBDA sum, s : sum + count[s], 0, SubSeq(present, 1, n - 1))
    IN  /\ phase = "compute_section_header"
        /\ dst' = [dst EXCEPT !.sht =
               Append([n \in DOMAIN present |-> [name |-> present[n], addr |-> Addr(present[n]),
                                                 offset |-> Offset(n), size |-> count[present[n]]]],
                      [name |-> ".symtab", addr |-> 0,
                       offset |-> Offset(Len(present) + 1), size |-> Len(smap)])]
        /\ phase' = "merge_section"
        /\ UNCHANGED <<srcs, cursor, smap, stop>>

-----------------------------------------------------------------------------
(* merge_section                                                            *)

\* The kept symbols of a section, in the order of the source files
KeptIn(section) ==
    SelectSeq(SymbolOrder, LAMBDA place : place \in Kept /\ SymbolAt(place).shndx = section)

SourceLines(place) ==
    LET sym == SymbolAt(place)
    IN  SubSeq(Section(srcs[place[1]], sym.shndx), sym.value + 1, sym.value + sym.size)

\* What has been written: symbols, lines, and the places in the map table.
\* "offset" counts the lines of the section.
FileOffsetKept(done, place) == SymbolAt(place).value
OffsetInSection(done, place) == done.offset

CopySymbol(done, place) ==
    [symt |-> Append(done.symt, [SymbolAt(place) EXCEPT !.value = OffsetInSection(done, place)]),
     lines |-> done.lines \o SourceLines(place),
     smap |-> [k \in DOMAIN smap |-> IF smap[k].src = place
                                      THEN [smap[k] EXCEPT !.dst = Len(done.symt) + 1]
                                      ELSE done.smap[k]],
     offset |-> done.offset + SymbolAt(place).size]

FirstLine == 2 + Len(dst.sht)

\* One turn of the outer loop; .symtab, the last section, has no symbols.
MergeSection ==
    LET merged == FoldLeft(CopySymbol,
                           [symt |-> dst.symt, lines |-> dst.lines, smap |-> smap, offset |-> 0],
                           KeptIn(dst.sht[cursor + 1].name))
    IN  /\ phase = "merge_section" /\ cursor < Len(dst.sht)
        /\ IF FirstLine + Len(merged.lines) > MaxLines THEN StopFor("lines")
           ELSE /\ dst' = [dst EXCEPT !.symt = merged.symt, !.lines = merged.lines]
                /\ smap' = merged.smap
                /\ cursor' = cursor + 1
                /\ UNCHANGED <<srcs, phase, stop>>

(***************************************************************************)
(* The lines of .symtab.  Entries that were not written, those of symbols  *)
(* in .bss, hold what malloc returned: get_stb_string ends the linker, or  *)
(* not.  A table that does not fit into the buffer overwrites the counters *)
(* behind it, and the last assertion fails at the latest.                  *)
(***************************************************************************)
FinishSections ==
    /\ phase = "merge_section" /\ cursor = Len(dst.sht)
    /\ \/ /\ FirstLine + Len(dst.lines) + Len(smap) <= MaxLines
          /\ phase' = "relocation_processing" /\ cursor' = 0
          /\ UNCHANGED <<srcs, smap, dst, stop>>
       \/ /\ Len(dst.symt) < Len(smap)
          /\ StopFor("symbol never written")
       \/ /\ FirstLine + Len(dst.lines) + Len(smap) > MaxLines
          /\ StopFor("lines")

-----------------------------------------------------------------------------
(* relocation_processing                                                    *)

\* All relocations in the order of the loops
RelocationOrder ==
    LET Of(i, s) == [n \in DOMAIN srcs[i].rel[s] |-> [file |-> i, section |-> s, rel |-> srcs[i].rel[s][n]]]
    IN  FlattenSeq([i \in DOMAIN srcs |-> Of(i, ".text") \o Of(i, ".data")])

\* get_symbol_runtime_address
SizeOf(section) ==
    LET at == SelectInSeq(dst.sht, LAMBDA sh : sh.name = section)
    IN  IF at = 0 THEN 0 ELSE dst.sht[at].size
RuntimeAddress(sym) ==
    LET rodata == TextBase + SizeOf(".text") * InstSize
    IN  CASE sym.shndx = ".text" -> TextBase + InstSize * sym.value
          [] sym.shndx = ".rodata" -> rodata + DataSize * sym.value
          [] sym.shndx = ".data" -> rodata + DataSize * SizeOf(".rodata") + DataSize * sym.value

\* The symbol of the file whose lines hold the relocation, and its entry
Referencing(r) ==
    SelectInSeq(srcs[r.file].symt,
        LAMBDA sym : /\ sym.shndx = r.section
                     /\ sym.value <= r.rel.row /\ r.rel.row <= sym.value + sym.size - 1)
EntryOf(place) == SelectInSeq(smap, LAMBDA e : e.src = place)

\* The entry of the map table whose symbol has the name and is global
Referenced(r) ==
    SelectInSeq(smap, LAMBDA e :
        /\ e.dst # 0
        /\ dst.symt[e.dst].name = srcs[r.file].symt[r.rel.sym].name
        /\ dst.symt[e.dst].bind = "STB_GLOBAL")

\* The line of the relocation in its section of dst
SourceRow(r, from, to) == r.rel.row
TargetRow(r, from, to) == r.rel.row - from.value + to.value

Operand(r, row, sym) ==
    IF r.rel.type = "R_X86_64_32" THEN RuntimeAddress(sym)
    ELSE RuntimeAddress(sym) - (TextBase + (row + 1) * InstSize)

\* Lines of a section start at this index of dst.lines.
LinesBefore(section) ==
    dst.sht[SelectInSeq(dst.sht, LAMBDA sh : sh.name = section)].offset - FirstLine

Relocate ==
    LET r == RelocationOrder[cursor + 1]
        k == Referencing(r)
        t == EntryOf(<<r.file, k>>)
        u == Referenced(r)
        from == srcs[r.file].symt[k]
        row == TargetRow(r, from, dst.symt[smap[t].dst])
        line == LinesBefore(r.section) + row + 1
    IN  /\ phase = "relocation_processing" /\ cursor < Len(RelocationOrder)
        /\ \/ k = 0 /\ Skip
           \/ k # 0 /\ t = 0 /\ StopFor("referencing symbol")
           \* The search for the name reads through entries in turn; one that
           \* has no place in dst is a wild pointer.
           \/ /\ k # 0 /\ t # 0
              /\ \E e \in DOMAIN smap : smap[e].dst = 0 /\ (u = 0 \/ e < u)
              /\ StopFor("wild pointer")
           \/ k # 0 /\ t # 0 /\ u = 0 /\ Skip
           \/ /\ k # 0 /\ t # 0 /\ u # 0
              /\ IF r.rel.type # "R_X86_64_32" /\ r.section # ".text"
                 THEN StopFor("relocation type")
                 ELSE /\ dst' = [dst EXCEPT !.lines[line].operand =
                                     Operand(r, row, dst.symt[smap[u].dst])]
                      /\ cursor' = cursor + 1
                      /\ UNCHANGED <<srcs, phase, smap, stop>>

\* write_eof.  The dictionary of constants that parse_elf built has nine entries
\* and a bucket that two directory entries share, so that hashtable_free frees
\* it twice; the C library notices, or not.
Finish ==
    /\ phase = "relocation_processing" /\ cursor = Len(RelocationOrder)
    /\ phase' = "done"
    /\ stop' \in {"none", "freed twice"}
    /\ UNCHANGED <<srcs, cursor, smap, dst>>

Next ==
    /\ stop = "none"
    /\ \/ ProcessSymbol \/ FinishSymbols
       \/ ComputeSectionHeader
       \/ MergeSection \/ FinishSections
       \/ Relocate \/ Finish

Spec == Init /\ [][Next]_vars

-----------------------------------------------------------------------------
(* Properties                                                               *)

Places == ToSet(SymbolOrder)
Locals == {p \in Places : SymbolAt(p).bind = "STB_LOCAL"}
Globals == {p \in Places : SymbolAt(p).bind = "STB_GLOBAL"}
Names(places) == {SymbolAt(p).name : p \in places}
Declaring(name) == {p \in Globals : SymbolAt(p).name = name}

\* The table in the comment of symbol_precedence (staticlink.c:238)
In(rows, p) == <<SymbolAt(p).type, SymbolAt(p).shndx>> \in rows
UndefinedRows == {<<"STT_NOTYPE", "SHN_UNDEF">>}
TentativeRows == {<<"STT_OBJECT", "COMMON">>}
DefinedRows == {<<"STT_FUNC", ".text">>} \cup {"STT_OBJECT"} \X {".data", ".bss", ".rodata"}
Strong(name) == {p \in Declaring(name) : In(DefinedRows, p)}
Tentative(name) == {p \in Declaring(name) : In(TentativeRows, p)}
Unclassed(name) ==
    {p \in Declaring(name) : ~In(UndefinedRows \cup TentativeRows \cup DefinedRows, p)}

\* Whatever the order of the files (staticlink.c:281): the map table gets every
\* local symbol, and for each global name its only strong definition or, if there
\* is none, one of its tentative ones.  Resolution fails only for a name that has
\* two strong definitions, or no definition at all, or several declarations one
\* of which is in no row of the table, or for more symbols than the map holds.
SymbolsResolved ==
    [][/\ phase = "symbol_processing" /\ phase' = "compute_section_header" =>
            /\ Len(smap) = Cardinality(Kept) /\ Locals \subseteq Kept
            /\ Kept \subseteq Locals \cup Globals
            /\ \A p \in Globals :
                  LET name == SymbolAt(p).name IN
                  /\ Cardinality(Strong(name)) <= 1
                  /\ \E q \in Kept : Kept \cap Declaring(name) = {q} /\
                        q \in (IF Strong(name) # {} THEN Strong(name) ELSE Tentative(name))
       /\ stop' = "redeclared" => \E name \in Names(Globals) : Cardinality(Strong(name)) > 1
       /\ stop' = "undefined" =>
            \E name \in Names(Globals) : Strong(name) \cup Tentative(name) = {}
       /\ stop' = "precedence" =>
            \E name \in Names(Globals) :
                Unclassed(name) # {} /\ Cardinality(Declaring(name)) > 1
       /\ stop' = "map table" =>
            Cardinality(Locals) + Cardinality(Names(Globals)) > MaxSymbols]_vars

Merged == phase \in {"relocation_processing", "done"}
Loaded == {k \in DOMAIN smap : SymbolAt(smap[k].src).shndx \in ToSet(LoadedSections)}
Placed(k) == dst.symt[smap[k].dst]
LineOf(k, row) == dst.lines[LinesBefore(Placed(k).shndx) + Placed(k).value + row]
Unit(section) == IF section = ".text" THEN InstSize ELSE DataSize

\* What is merged (staticlink.c:483): every kept symbol has its own entry, with
\* its own lines at the place the entry says; no two symbols overlap at the
\* addresses that get_symbol_runtime_address gives them.
SectionsHoldDefinitions ==
    Merged => \A k \in Loaded :
        LET sym == SymbolAt(smap[k].src) IN
        /\ smap[k].dst \in DOMAIN dst.symt
        /\ Placed(k).name = sym.name /\ Placed(k).shndx = sym.shndx
        /\ \A row \in 1 .. sym.size : LineOf(k, row).code = SourceLines(smap[k].src)[row].code
        /\ \A other \in Loaded \ {k} :
              LET Start(e) == RuntimeAddress(Placed(e))
                  End(e) == Start(e) + Unit(Placed(e).shndx) * Placed(e).size
              IN  /\ smap[other].dst # smap[k].dst
                  /\ End(k) <= Start(other) \/ End(other) <= Start(k)

\* The definition a reference is to: that of the global name, if it is loaded
DefinitionOf(r) ==
    LET sym == srcs[r.file].symt[r.rel.sym]
    IN  {k \in Loaded : /\ sym.bind = "STB_GLOBAL"
                        /\ smap[k].src \in Declaring(sym.name)}

\* When the linker is done (staticlink.c:629), each reference of a kept line to
\* a global symbol has been written where the line is now, for the row that the
\* line has now and for the entry that the definition has now.  What the handler
\* of the relocation makes of row and entry is not judged here: at run time an
\* instruction is 64 bytes long (isa.c:29), in the handlers it is sizeof(inst_t).
\* A reference to a local symbol is not promised anything.
ReferencesRelocated ==
    phase = "done" => \A n \in DOMAIN RelocationOrder :
        LET r == RelocationOrder[n]
            j == Referencing(r)
            t == EntryOf(<<r.file, j>>)
        IN  \A k \in DefinitionOf(r) : j # 0 =>
                LET line == r.rel.row - srcs[r.file].symt[j].value
                IN  LineOf(t, line + 1).operand = Operand(r, Placed(t).value + line, Placed(k))
=============================================================================
