----------------------------- MODULE ElfLoader -----------------------------
(***************************************************************************)
(* load_elf32 of src/sim/cpp/elf_loader.cpp: what it reads out of an ELF   *)
(* file, as operators on the file.  A file is a record                     *)
(*                                                                         *)
(*   defect   what is wrong with it, one of Defects, or "none"             *)
(*   phdrs    the program headers, in order: [load, paddr, vaddr, data,    *)
(*            memsz], where data is the sequence of the segment's bytes in *)
(*            the file, so that p_filesz = Len(data)                       *)
(*   symtabs  the symbol-table sections, in order: [linked, syms], where   *)
(*            linked says that sh_link names a section of the file and     *)
(*            syms is a sequence of [name, value]; "" is an unnamed symbol *)
(*                                                                         *)
(* A word is the sequence of its four bytes, the lowest address first.     *)
(***************************************************************************)
EXTENDS Integers, SequencesExt

Zero == <<0, 0, 0, 0>>

\* The system calls of the constructor of Mapped, then the header's checks.
MapDefects == {"open", "fstat", "mmap"}
HeaderDefects == {"small", "magic", "class", "data", "machine"}
Defects == MapDefects \cup HeaderDefects

Bytes == 0 .. 255
ProgramHeader == [load : BOOLEAN, paddr : Nat, vaddr : Nat, data : Seq(Bytes), memsz : Nat]
SymbolTable == [linked : BOOLEAN, syms : Seq([name : STRING, value : Nat])]
ElfFile ==
  [defect : Defects \cup {"none"}, phdrs : Seq(ProgramHeader), symtabs : Seq(SymbolTable)]

\* The number of words a copy loop with "off += 4" emits for len bytes.
WordsFor(len) == IF len > 0 THEN (len + 3) \div 4 ELSE 0

LoadAddr(ph) == IF ph.paddr # 0 THEN ph.paddr ELSE ph.vaddr

FileWords(ph) ==
  [k \in 1 .. WordsFor(Len(ph.data)) |->
     [byte_addr |-> LoadAddr(ph) + 4 * (k - 1),
      data |-> [b \in 1 .. 4 |-> IF 4 * (k - 1) + b <= Len(ph.data)
                                 THEN ph.data[4 * (k - 1) + b] ELSE 0]]]

\* A loader that copies the file and trusts the memory to be clear (a mutant).
NoBssWords(ph) == <<>>

BssWords(ph) ==
  [k \in 1 .. WordsFor(ph.memsz - Len(ph.data)) |->
     [byte_addr |-> LoadAddr(ph) + Len(ph.data) + 4 * (k - 1), data |-> Zero]]

SegmentWords(ph) == IF ph.load THEN FileWords(ph) \o BssWords(ph) ELSE <<>>

ElfWords(elf) == FlattenSeq([i \in DOMAIN elf.phdrs |-> SegmentWords(elf.phdrs[i])])

\* The first symbol table counts, and only if its string table exists.
ElfSymbols(elf) ==
  IF elf.symtabs = <<>> \/ ~Head(elf.symtabs).linked THEN <<>> ELSE Head(elf.symtabs).syms

\* An unnamed symbol is skipped, and a later one of a name replaces an earlier
\* one; 0 when there is none.
SymbolValue(elf, name) ==
  LET s == ElfSymbols(elf)
      at == { i \in DOMAIN s : s[i].name # "" /\ s[i].name = name }
  IN  IF at = {} THEN 0 ELSE s[Max(at)].value

-----------------------------------------------------------------------------
(* What the program headers promise, byte by byte: the reference for the   *)
(* words above.                                                            *)

Covering(elf, a) ==
  { i \in DOMAIN elf.phdrs :
      /\ elf.phdrs[i].load
      /\ a - LoadAddr(elf.phdrs[i]) >= 0
      /\ \/ a - LoadAddr(elf.phdrs[i]) < Len(elf.phdrs[i].data)
         \/ a - LoadAddr(elf.phdrs[i]) < elf.phdrs[i].memsz }

\* The byte the last segment that covers address a puts there.
ImageByte(elf, a) ==
  LET ph == elf.phdrs[Max(Covering(elf, a))]
      off == a - LoadAddr(ph)
  IN  IF off < Len(ph.data) THEN ph.data[off + 1] ELSE 0
=============================================================================
