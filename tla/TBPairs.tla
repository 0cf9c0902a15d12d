------------------------------ MODULE TBPairs --------------------------------
(***************************************************************************)
(* How a tablebase file is read (set_sizes, set_symlen and                 *)
(* decompress_pairs of syzygy/tbprobe.cpp): values are expanded from       *)
(* symbols, symbols from a canonical Huffman code, blocks of symbols are   *)
(* found through a sparse index. The writer of the file is external: it is *)
(* modelled from what the reader's comments say of the format.             *)
(***************************************************************************)
EXTENDS Integers, Sequences, FiniteSets, FiniteSetsExt, SequencesExt

CONSTANTS Books,     \* dictionaries, [tree, len]: what each symbol (0, 1, ..) expands
                     \* into, a pair of symbols or <<value>>, and the length of its code
          Messages,  \* sequences of symbols
          Half,      \* bits of a word of the data; the code reads 32
          BlockWords, \* words of a block
          Spans,
          Trailer    \* words of the checksum at the end of a file

ASSUME HalfAssumption == Half \in Nat \ {0} /\ BlockWords \in Nat \ {0, 1}
ASSUME BooksAssumption == \* longer codes have lower numbers, and all codes are used
  \A book \in Books :
    /\ \A i \in 1 .. Len(book.len) : book.len[i] \in 1 .. Half
    /\ \A i \in 2 .. Len(book.len) : book.len[i] <= book.len[i - 1]
    /\ MapThenSumSet(LAMBDA i : 2 ^ (Half - book.len[i]), DOMAIN book.len) = 2 ^ Half

VARIABLES book, message, span, \* the file
          idx,                 \* the position asked for
          block, offset,       \* where it is, relative to the start of a block
          buf, bufSize, ptr,   \* buf64, buf64Size, the next word of the data
          sym, step

pairsVars == <<book, message, span, idx, block, offset, buf, bufSize, ptr, sym, step>>

Symbols == 0 .. Len(book.len) - 1
CodeLen(s) == book.len[s + 1]
Tree(s) == book.tree[s + 1]
IsLeaf(s) == Len(Tree(s)) = 1
Bits == 2 * Half \* of the buffer; 64 in the code

-----------------------------------------------------------------------------
(* The writer.                                                             *)

\* The values that a symbol stands for.
RECURSIVE Values(_)
Values(s) == IF IsLeaf(s) THEN Tree(s) ELSE Values(Tree(s)[1]) \o Values(Tree(s)[2])

\* The code of a symbol: those before it fill the space below.
CodeOf(s) ==
  MapThenSumSet(LAMBDA t : 2 ^ (Half - CodeLen(t)), 0 .. s - 1) \div 2 ^ (Half - CodeLen(s))

\* Blocks of as many symbols as fit.
LengthOf(symbols) == FoldLeft(LAMBDA acc, s : acc + CodeLen(s), 0, symbols)
Blocks ==
  FoldLeft(LAMBDA acc, s :
             IF acc # <<>> /\ LengthOf(Append(Last(acc), s)) <= BlockWords * Half
             THEN [acc EXCEPT ![Len(acc)] = Append(@, s)] ELSE Append(acc, <<s>>),
           <<>>, message)
Spread(symbols) == FlattenSeq([i \in DOMAIN symbols |-> Values(symbols[i])])
AllValues == Spread(message)

\* blockLength, padded by blocks that no position is in.
BlockSizes == [i \in DOMAIN Blocks |-> Len(Spread(Blocks[i]))] \o <<span, span>>
BlockLength(b) == BlockSizes[b + 1] - 1
Before(b) == MapThenSumSet(LAMBDA i : BlockSizes[i], 1 .. b)

\* The bits of a block, zeroes after the last symbol.
BitsOfBlock(b) ==
  LET bits(s) == [i \in 1 .. CodeLen(s) |-> (CodeOf(s) \div 2 ^ (CodeLen(s) - i)) % 2]
  IN  FlattenSeq([i \in DOMAIN Blocks[b + 1] |-> bits(Blocks[b + 1][i])])
Word(b, w) ==
  LET bits == BitsOfBlock(b)
      Bit(i) == IF i <= Len(bits) THEN bits[i] ELSE 0
  IN  MapThenSumSet(LAMBDA i : Bit(w * Half + i) * 2 ^ (Half - i), 1 .. Half)

\* sparseIndex[k]: the block and the offset of the value at I(k).
SparseIndex(k) ==
  LET at == k * span + span \div 2
      b  == CHOOSE x \in 0 .. Len(BlockSizes) - 1 : Before(x) <= at /\ at < Before(x) + BlockSizes[x + 1]
  IN  [block |-> b, offset |-> at - Before(b)]

-----------------------------------------------------------------------------
(* set_sizes and set_symlen.                                               *)

RECURSIVE symlen(_)
symlen(s) == IF IsLeaf(s) THEN 0 ELSE symlen(Tree(s)[1]) + symlen(Tree(s)[2]) + 1

maxSymLen == CodeLen(0)
minSymLen == CodeLen(Len(book.len) - 1)
\* Of a length that no symbol has, the lowest symbol of the next shorter one.
lowestSym(l) == Cardinality({s \in Symbols : CodeLen(s) > l})

RECURSIVE base(_)
base(l) == IF l = maxSymLen THEN 0 ELSE (base(l + 1) + lowestSym(l) - lowestSym(l + 1)) \div 2
base64(l) == base(l) * 2 ^ (Bits - l)

-----------------------------------------------------------------------------
(* decompress_pairs.                                                       *)

PairsInit ==
  /\ book \in Books /\ span \in Spans
  /\ message \in {m \in Messages : ToSet(m) \subseteq Symbols}
  /\ idx \in 0 .. Len(AllValues) - 1
  /\ block = 0 /\ offset = 0 /\ buf = 0 /\ bufSize = 0 /\ ptr = 0 /\ sym = 0
  /\ step = "sparse"

File == <<book, message, span, idx>>

\* A table of one value stores that value instead of minSymLen: no block is read.
ReadSparse ==
  /\ step = "sparse" /\ step' = "blocks"
  /\ LET k == idx \div span IN
     /\ block' = SparseIndex(k).block
     /\ offset' = SparseIndex(k).offset + (idx % span) - span \div 2
  /\ UNCHANGED <<File, buf, bufSize, ptr, sym>>

PreviousBlock ==
  /\ step = "blocks" /\ offset < 0
  /\ block' = block - 1 /\ offset' = offset + BlockLength(block - 1) + 1
  /\ UNCHANGED <<File, buf, bufSize, ptr, sym, step>>

NextBlock ==
  /\ step = "blocks" /\ offset > BlockLength(block)
  /\ offset' = offset - (BlockLength(block) + 1) /\ block' = block + 1
  /\ UNCHANGED <<File, buf, bufSize, ptr, sym, step>>

StartBlock ==
  /\ step = "blocks" /\ offset \in 0 .. BlockLength(block)
  /\ buf' = Word(block, 0) * 2 ^ Half + Word(block, 1)
  /\ bufSize' = Bits /\ ptr' = 2 /\ step' = "symbols"
  /\ UNCHANGED <<File, block, offset, sym>>

\* The length of the code at the start of the buffer, and its symbol.
Length == CHOOSE l \in minSymLen .. maxSymLen :
            buf >= base64(l) /\ \A m \in minSymLen .. l - 1 : buf < base64(m)
NextSym == (buf - base64(Length)) \div 2 ^ (Bits - Length) + lowestSym(Length)

FindSymbol ==
  /\ step = "symbols" /\ offset < symlen(NextSym) + 1
  /\ sym' = NextSym /\ step' = "expand"
  /\ UNCHANGED <<File, block, offset, buf, bufSize, ptr>>

\* The symbol is consumed; the buffer is refilled when half of it is used.
SkipSymbol ==
  /\ step = "symbols" /\ offset >= symlen(NextSym) + 1
  /\ offset' = offset - (symlen(NextSym) + 1)
  /\ LET rest == (buf * 2 ^ Length) % 2 ^ Bits
         left == bufSize - Length
     IN  IF left <= Half
         THEN /\ bufSize' = left + Half /\ ptr' = ptr + 1
              /\ buf' = rest + Word(block, ptr) * 2 ^ (Bits - (left + Half))
         ELSE bufSize' = left /\ buf' = rest /\ UNCHANGED ptr
  /\ UNCHANGED <<File, block, sym, step>>

\* Mutant: the last value of the left symbol is looked for on the right.
ExpandShort ==
  /\ step = "expand" /\ symlen(sym) > 0
  /\ LET left == Tree(sym)[1] IN
     IF offset < symlen(left) \/ offset = 0 THEN sym' = left /\ UNCHANGED offset
     ELSE sym' = Tree(sym)[2] /\ offset' = 0
  /\ UNCHANGED <<File, block, buf, bufSize, ptr, step>>

Expand ==
  /\ step = "expand" /\ symlen(sym) > 0
  /\ LET left == Tree(sym)[1] IN
     IF offset < symlen(left) + 1 THEN sym' = left /\ UNCHANGED offset
     ELSE sym' = Tree(sym)[2] /\ offset' = offset - (symlen(left) + 1)
  /\ UNCHANGED <<File, block, buf, bufSize, ptr, step>>

Found ==
  /\ step = "expand" /\ symlen(sym) = 0
  /\ step' = "found"
  /\ UNCHANGED <<File, block, offset, buf, bufSize, ptr, sym>>

PairsNext ==
  \/ ReadSparse \/ PreviousBlock \/ NextBlock \/ StartBlock
  \/ FindSymbol \/ SkipSymbol \/ Expand \/ Found

-----------------------------------------------------------------------------
(* Properties.                                                             *)

PairsTypeOK ==
  /\ block \in 0 .. Len(BlockSizes) - 1 /\ offset \in Int /\ sym \in Symbols
  /\ buf \in 0 .. 2 ^ Bits - 1 /\ bufSize \in 0 .. Bits
  /\ step \in {"sparse", "blocks", "symbols", "expand", "found"}

\* What is read at a position is what was written there.
ReadsWhatWasWritten == step = "found" => Tree(sym)[1] = AllValues[idx + 1]

\* The buffer always holds a whole code, and it is filled from the block and
\* the checksum that ends the file: the reader never leaves the mapped file.
BufferSuffices ==
  /\ step = "symbols" => bufSize >= maxSymLen
  /\ block = Len(Blocks) - 1 => ptr <= BlockWords + Trailer

\* decompress_pairs finds the value that was written for an index, from whatever block and
\* offset the sparse index leads to, and never runs out of its 64-bit buffer.
PairsRight == PairsTypeOK /\ ReadsWhatWasWritten /\ BufferSuffices
=============================================================================
