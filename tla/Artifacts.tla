----------------------------- MODULE Artifacts -----------------------------
(***************************************************************************)
(* The compiler's outputs that the workbench decodes: bytecode with its    *)
(* source map, byte offsets in a text, storage layouts, and the outline of *)
(* an IR dump.  Each is read in one pass that carries a little state, so   *)
(* that a mistake about one element shifts everything after it.            *)
(*                                                                         *)
(* The document is written element by element (external: the compiler):    *)
(*   code    instructions [op, push, source] or data bytes, push the bytes *)
(*           of the operand and source a source-map entry                  *)
(*   text    characters [bytes, units, end], end for "cr" and "lf"         *)
(*   layout  storage entries [label, slot, offset]                         *)
(*   yul     tokens [type, name, before, after], with their line breaks    *)
(***************************************************************************)
EXTENDS Naturals, Integers, Sequences, FiniteSets, SequencesExt, FiniteSetsExt

CONSTANTS Elements, MaxElements, None      \* by kind of document: what it is written of, and its bound

VARIABLE document                          \* [kind, content]

Content == document.content
IsPush(byte) == byte \in 96..127           \* PUSH1 to PUSH32
-----------------------------------------------------------------------------
(* Bytecode.  A byte is its opcode; operands are bytes that look like PUSH2. *)
Operand == 97
BytesOf(e) == <<e.op>> \o [k \in 1..e.push |-> Operand]
Bytecode == FlattenSeq([i \in DOMAIN Content |-> BytesOf(Content[i])])
Width(byte) == IF IsPush(byte) THEN byte - 94 ELSE 1

\* buildPcToInstructionIndex: one entry for each byte; program counters are from 0.
InstructionStep(walk, pc) ==
  IF pc = walk.next
  THEN [next |-> pc + Width(Bytecode[pc + 1]), count |-> walk.count + 1, indexes |-> Append(walk.indexes, walk.count)]
  ELSE [walk EXCEPT !.indexes = Append(@, walk.count - 1)]
PcMap == FoldLeft(InstructionStep, [next |-> 0, count |-> 0, indexes |-> <<>>],
                  [k \in 1..Len(Bytecode) |-> k - 1]).indexes

\* disassemble, which a truncated operand ends.
DisassembleStep(walk, pc) ==
  IF pc # walk.next THEN walk
  ELSE LET op == Bytecode[pc + 1]
       IN  [next |-> pc + Width(op),
            out  |-> Append(walk.out, [pc |-> pc, op |-> op, immediate |-> Min({Width(op) - 1, Len(Bytecode) - pc - 1})])]
Disassembly == FoldLeft(DisassembleStep, [next |-> 0, out |-> <<>>], [k \in 1..Len(Bytecode) |-> k - 1]).out

\* handleDisassemble: a window from a program counter.
Window(from, want) ==
  LET starts == {i \in DOMAIN Disassembly : Disassembly[i].pc >= from}
      first  == IF starts = {} THEN Len(Disassembly) + 1 ELSE Min(starts)
  IN  SubSeq(Disassembly, first, Min({first + want - 1, Len(Disassembly)}))

\* parseSourceMap: a missing field is the one before.
Fields == 1..5                                     \* start, length, file, jump, modifier depth
DefaultEntry == <<0, 0, -1, "-", 0>>
SourceMapStep(out, segment) ==
  Append(out, [f \in Fields |-> IF f \in DOMAIN segment /\ segment[f] # None THEN segment[f]
                                ELSE IF out = <<>> THEN DefaultEntry[f] ELSE Last(out)[f]])
ParseSourceMap(segments) == FoldLeft(SourceMapStep, <<>>, segments)

\* resolveSourcePosition.
ResolveSourcePosition(pc, map) ==
  IF pc >= Len(PcMap) \/ PcMap[pc + 1] >= Len(map) \/ map[PcMap[pc + 1] + 1][3] < 0 THEN None ELSE map[PcMap[pc + 1] + 1]

\* The compiler leaves out the fields that are as before, and the last of them altogether.
Compress(entries) ==
  [i \in DOMAIN entries |->
     LET before == IF i = 1 THEN DefaultEntry ELSE entries[i - 1]
         kept   == {f \in Fields : entries[i][f] # before[f]}
     IN  [f \in 1..(IF kept = {} THEN 0 ELSE Max(kept)) |-> IF f \in kept THEN entries[i][f] ELSE None]]
-----------------------------------------------------------------------------
(* LineIndex: the starts of the lines, in bytes, and a position by halving. *)
LineStep(lines, c) ==
  LET line == Last(lines)
      ends == line.end # None
      glued == ends /\ line.end = "cr" /\ c.end = "lf"
  IN  IF glued THEN Append(Front(lines), [line EXCEPT !.end = "crlf", !.ended = @ + 1])
      ELSE LET into == IF ends THEN Append(lines, [start |-> line.ended, chars |-> <<>>, end |-> None, ended |-> 0]) ELSE lines
               last == Last(into)
               size == FoldLeft(LAMBDA n, d : n + d.bytes, 0, last.chars)
           IN  Append(Front(into), IF c.end = None THEN [last EXCEPT !.chars = Append(@, c)]
                                   ELSE [last EXCEPT !.end = c.end, !.ended = last.start + size + 1])
Closed(lines) == IF Last(lines).end = None THEN lines
                 ELSE Append(lines, [start |-> Last(lines).ended, chars |-> <<>>, end |-> None, ended |-> 0])
Lines == Closed(FoldLeft(LineStep, <<[start |-> 0, chars |-> <<>>, end |-> None, ended |-> 0]>>, Content))
Size(chars, what) == FoldLeft(LAMBDA n, c : n + c[what], 0, chars)

Halve[lo \in Nat, hi \in Nat, offset \in Nat] ==
  IF lo >= hi THEN lo
  ELSE LET mid == (lo + hi + 1) \div 2
       IN  IF Lines[mid].start <= offset THEN Halve[mid, hi, offset] ELSE Halve[lo, mid - 1, offset]

PositionAt(offset) ==
  LET total == Last(Lines).start + Size(Last(Lines).chars, "bytes")
      line  == Halve[1, Len(Lines), offset]
      chars == Lines[line].chars
      fits  == {k \in 0..Len(chars) : Size(SubSeq(chars, 1, k), "bytes") <= offset - Lines[line].start}
  IN  IF offset <= 0 THEN <<0, 0>>
      ELSE IF offset >= total THEN <<Len(Lines) - 1, Size(Last(Lines).chars, "units")>>
      ELSE <<line - 1, Size(SubSeq(chars, 1, Max(fits)), "units")>>
-----------------------------------------------------------------------------
(* Storage layouts: a slot is a number that the layout spells in decimal and
   a trace in hexadecimal with leading zeros. *)
DigitsOf[n \in Nat, base \in {10, 16}] == IF n < base THEN <<n>> ELSE Append(DigitsOf[n \div base, base], n % base)
Number(digits, base) == FoldLeft(LAMBDA n, digit : n * base + digit, 0, digits)
TraceKey(slot) == <<0, 0>> \o DigitsOf[slot, 16]
Trimmed(digits) ==
  LET shown == {i \in DOMAIN digits : digits[i] # 0}
  IN  IF shown = {} THEN <<0>> ELSE SubSeq(digits, Min(shown), Len(digits))
NormaliseSlot(key) == DigitsOf[Number(Trimmed(key), 16), 10]
BySlot(entries, key) == SelectSeq(entries, LAMBDA e : DigitsOf[e.slot, 10] = key)
LookupSlot(entries, key) == BySlot(entries, NormaliseSlot(key))

\* evmStorageVariables: the variables of every slot of a trace, or the raw slot.
StorageVariables(entries, slots) ==
  FlattenSeq([i \in DOMAIN slots |->
    LET named == LookupSlot(entries, TraceKey(slots[i]))
    IN  IF named = <<>> THEN <<[label |-> None, slot |-> slots[i]]>>
        ELSE [k \in DOMAIN named |-> [label |-> named[k].label, slot |-> slots[i]]]])
-----------------------------------------------------------------------------
(* parseYulOutline: brace depth, the objects that are open and the functions. *)
YulStart == [depth |-> 0, line |-> 1, objects |-> <<>>, objectStack |-> <<>>, fnStack |-> <<>>]

Open(s, t) == [s EXCEPT !.depth = @ + 1, !.line = @ + t.before + t.after]
OpenObject(s, t) ==
  [Open(s, t) EXCEPT !.objects = Append(@, [name |-> t.name, start |-> s.line, end |-> -1, depth |-> s.depth + 1, functions |-> <<>>]),
                     !.objectStack = Append(@, Len(s.objects) + 1)]
OpenFunction(s, t) ==
  [Open(s, t) EXCEPT !.fnStack = IF s.objectStack = <<>> THEN @
                                 ELSE Append(@, [name |-> t.name, start |-> s.line + t.before, body |-> s.depth + 1,
                                                 object |-> Last(s.objectStack)])]
\* Mutant of CloseFunctions: a function is of the object opened last.
CloseFunctionsInLast(s) ==
  LET fn == Last(s.fnStack)
  IN  IF s.fnStack = <<>> \/ fn.body - 1 # s.depth THEN s
      ELSE [s EXCEPT !.fnStack = Front(@),
                     !.objects[Len(s.objects)].functions = Append(@, [name |-> fn.name, start |-> fn.start, end |-> s.line])]
CloseFunctions(s) ==
  LET fn == Last(s.fnStack)
  IN  IF s.fnStack = <<>> \/ fn.body - 1 # s.depth THEN s
      ELSE [s EXCEPT !.fnStack = Front(@),
                     !.objects[fn.object].functions = Append(@, [name |-> fn.name, start |-> fn.start, end |-> s.line])]
CloseObjects(s) ==
  IF s.objectStack = <<>> \/ s.objects[Last(s.objectStack)].depth - 1 # s.depth THEN s
  ELSE [s EXCEPT !.objectStack = Front(@), !.objects[Last(s.objectStack)].end = s.line]

YulStep(s, t) ==
  CASE t.type = "skip" -> [s EXCEPT !.line = @ + t.before]      \* comments, strings and words, with their line breaks
    [] t.type = "open" -> Open(s, t)
    [] t.type = "object" -> OpenObject(s, t)
    [] t.type = "function" -> OpenFunction(s, t)
    [] t.type = "close" -> CloseObjects(CloseFunctions([s EXCEPT !.depth = @ - 1]))
YulOutline == FoldLeft(YulStep, YulStart, Content).objects
-----------------------------------------------------------------------------
Write ==
  /\ Len(Content) < MaxElements[document.kind]
  /\ \E e \in Elements[document.kind] :
       /\ (document.kind = "code" /\ e.source # None) => \A i \in DOMAIN Content : Content[i].source # None  \* data comes last
       /\ document' = [document EXCEPT !.content = Append(@, e)]
ArtifactsInit == document \in [kind : DOMAIN Elements, content : {<<>>}]
ArtifactsNext == Write
-----------------------------------------------------------------------------
Code == {i \in DOMAIN Content : Content[i].source # None}
Begins(i) == Len(FlattenSeq([k \in 1..(i - 1) |-> BytesOf(Content[k])]))
CodeIsRead ==
  LET segments == Compress([i \in 1..Cardinality(Code) |-> Content[i].source])
      map == ParseSourceMap(segments)
  IN  /\ \A i \in Code : \A k \in 0..Content[i].push :
           ResolveSourcePosition(Begins(i) + k, map) = (IF Content[i].source[3] < 0 THEN None ELSE Content[i].source)
      /\ \A i \in Code : /\ Disassembly[i] = [pc |-> Begins(i), op |-> Content[i].op, immediate |-> Content[i].push]
                         /\ Window(Begins(i), 2)[1] = Disassembly[i]
      /\ FoldLeft(LAMBDA n, x : n + 1 + x.immediate, 0, Disassembly) = Len(Bytecode)

\* An end of line is a line feed, a carriage return, or both.
TextIsRead ==
  \A k \in 0..Len(Content) :
    LET within(j) == ~(j < Len(Content) /\ j > 0 /\ Content[j].end = "cr" /\ Content[j + 1].end = "lf")
        ends  == {j \in 1..k : Content[j].end # None /\ within(j)}
        begin == IF ends = {} THEN 0 ELSE Max(ends)
        line  == SubSeq(Content, begin + 1, k)
    IN  within(k) => PositionAt(Size(SubSeq(Content, 1, k), "bytes")) = <<Cardinality(ends), Size(line, "units")>>

LayoutIsRead ==
  LET slots == SetToSeq({e.slot : e \in ToSet(Content)} \cup {17})
      shown == StorageVariables(Content, slots)
  IN  \A slot \in ToSet(slots) :
        LET of == {e.label : e \in {x \in ToSet(Content) : x.slot = slot}}
        IN  {v.label : v \in {x \in ToSet(shown) : x.slot = slot}} = (IF of = {} THEN {None} ELSE of)

Opens(i) == Content[i].type \in {"open", "object", "function"}
Balance(i, j) == Cardinality({k \in i..j : Opens(k)}) - Cardinality({k \in i..j : Content[k].type = "close"})
Balanced == Balance(1, Len(Content)) = 0 /\ \A k \in DOMAIN Content : Balance(1, k) >= 0
Breaks(i) == FoldLeft(LAMBDA n, t : n + t.before + t.after, 1, SubSeq(Content, 1, i))
ClosedAt(i) == Min({j \in i..Len(Content) : Balance(i, j) = 0})
YulIsRead ==
  LET objects == SetToSortSeq({i \in DOMAIN Content : Content[i].type = "object"}, <)
      around(i) == {o \in ToSet(objects) : o < i /\ i < ClosedAt(o)}
      within(o) == {i \in DOMAIN Content : Content[i].type = "function" /\ around(i) # {} /\ Max(around(i)) = o}
      inner(i)  == {[name |-> Content[i].name, start |-> Breaks(i - 1) + Content[i].before, end |-> Breaks(ClosedAt(i))]}
  IN  Balanced =>
        /\ Len(YulOutline) = Len(objects)
        /\ \A k \in DOMAIN objects :
             LET o == objects[k]
             IN  /\ YulOutline[k].name = Content[o].name
                 /\ YulOutline[k].start = Breaks(o - 1) /\ YulOutline[k].end = Breaks(ClosedAt(o))
                 /\ ToSet(YulOutline[k].functions) = UNION {inner(i) : i \in within(o)}
                 /\ Len(YulOutline[k].functions) = Cardinality(within(o))

(* What is decoded is what was encoded.  Every byte of an instruction is at
   the source the compiler gave it and the disassembly has the instructions,
   whatever their operands look like; a byte offset is at the line and the
   column an editor counts, with every end of line and width of character; the
   variables of a slot are those of the layout; the outline has each object
   from its header to its end, with the functions in it and in none inside. *)
DecodesWhatWasEncoded ==
  CASE document.kind = "code"   -> CodeIsRead
    [] document.kind = "text"   -> TextIsRead
    [] document.kind = "layout" -> LayoutIsRead
    [] document.kind = "yul"    -> YulIsRead
=============================================================================
