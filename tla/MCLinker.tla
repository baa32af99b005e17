------------------------------ MODULE MCLinker ------------------------------
(***************************************************************************)
(* Object files of a compiler: a variable "x" and a function "f" of two    *)
(* lines each, in the ways a file can declare them.                        *)
(***************************************************************************)
EXTENDS Linker

Symbol(name, bind, type, shndx, value, size) ==
    << [name |-> name, bind |-> "STB_" \o bind, type |-> "STT_" \o type,
        shndx |-> shndx, value |-> value, size |-> size] >>

\* Ways to declare a variable, as lines of .symtab
Variable(way) ==
    CASE way = "none" -> << >>
      [] way = "undef" -> Symbol("x", "GLOBAL", "NOTYPE", "SHN_UNDEF", 0, 0)
      [] way = "common" -> Symbol("x", "GLOBAL", "OBJECT", "COMMON", 8, 2)
      [] way = "static" -> Symbol("x", "LOCAL", "OBJECT", ".data", 0, 2)
      [] OTHER -> Symbol("x", "GLOBAL", "OBJECT", way, 0, 2)

\* Ways to declare a function; "g" is static and has one line.
Function(way) ==
    CASE way = "none" -> << >>
      [] way = "undef" -> Symbol("f", "GLOBAL", "NOTYPE", "SHN_UNDEF", 0, 0)
      [] way = "label" -> Symbol("f", "GLOBAL", "NOTYPE", ".text", 0, 2)
      [] way = "weak" -> Symbol("f", "WEAK", "FUNC", ".text", 0, 2)
      [] way = "defined" -> Symbol("f", "GLOBAL", "FUNC", ".text", 0, 2)
      [] way = "helper" -> Symbol("g", "LOCAL", "FUNC", ".text", 0, 1)
      [] way = "second" -> Symbol("g", "LOCAL", "FUNC", ".text", 0, 1)
                           \o Symbol("f", "GLOBAL", "FUNC", ".text", 1, 2)

Lines(section, n) == [row \in 1 .. n |-> [code |-> <<section, row>>, operand |-> Placeholder]]

\* The lines of a file: data, text, symbols, and a relocation for the last line
\* of the data (a pointer to f) and for each of the last two of the text.
Assembled(variable, function) ==
    LET v == Variable(variable)
        f == Function(function)
        symtab == v \o f
        SizeIn(section) == FoldLeft(LAMBDA sum, s : IF s.shndx = section THEN sum + s.size ELSE sum,
                                    0, symtab)
        text == SizeIn(".text")
        Rel(row, type, sym) == << [row |-> row, type |-> "R_X86_64_" \o type, sym |-> sym] >>
        RelText == IF text = 0 THEN << >>
                   ELSE Rel(text - 1, "PLT32", Len(symtab))
                        \o (IF v = << >> \/ text = 1 THEN << >> ELSE Rel(text - 2, "PC32", 1))
        RelData == IF SizeIn(".data") = 0 \/ f = << >> THEN << >> ELSE Rel(1, "32", Len(symtab))
        parts == SelectSeq(<< [name |-> ".text", content |-> Lines(<<".text", variable, function>>, text)],
                              [name |-> ".rodata", content |-> Lines(<<".rodata", variable>>, SizeIn(".rodata"))],
                              [name |-> ".data", content |-> Lines(<<".data", variable>>, SizeIn(".data"))],
                              [name |-> ".symtab", content |-> symtab],
                              [name |-> ".rel.text", content |-> RelText],
                              [name |-> ".rel.data", content |-> RelData] >>,
                           LAMBDA part : part.content # << >> \/ part.name = ".symtab")
        header == [n \in 1 .. 2 + Len(parts) |-> << >>]
        Contents(n) == FlattenSeq([i \in 1 .. n |-> parts[i].content])
    IN  [sht |-> [n \in DOMAIN parts |-> [name |-> parts[n].name, size |-> Len(parts[n].content),
                                          offset |-> Len(header) + Len(Contents(n - 1))]],
         buffer |-> header \o Contents(Len(parts))]

Files(variables, functions) == {Assembled(v, f) : v \in variables, f \in functions}

\* Any two files, and any three of the kinds whose order could matter
AnyFile == Files({"none", "undef", "common", "static", ".data", ".rodata", ".bss"},
                 {"none", "undef", "label", "weak", "defined", "helper", "second"})
PlainFile == Files({"undef", "common", ".data", "static"}, {"undef", "defined", "helper"})
MCInputs == {<<a, b>> : a, b \in AnyFile} \cup {<<a, b, c>> : a, b, c \in PlainFile}
=============================================================================
