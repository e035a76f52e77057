------------------------------- MODULE TextScans -------------------------------
(***************************************************************************)
(* How the server finds its way in a text without a parser: what is a      *)
(* comment or a string, which words are identifiers, where a function's    *)
(* body is, what the arguments of a call are and which of them the cursor  *)
(* is in.  Each scan goes over the characters once and carries a state, so *)
(* that a quote in a comment or a brace in a string may shift all that     *)
(* follows.                                                                *)
(*                                                                         *)
(* A character stands for itself, a word for a whole identifier; "dq",     *)
(* "sq", "esc" and "nl" are the quotes, the backslash and the end of a     *)
(* line.  A document is written of pieces, which are sequences of lexemes  *)
(* [class, chars], class "code", "comment" or "string" (external: the      *)
(* author, by Solidity's lexer).                                           *)
(***************************************************************************)
EXTENDS Naturals, Integers, Sequences, FiniteSets, SequencesExt, FiniteSetsExt

CONSTANTS None,
          Pieces, MaxPieces    \* by kind of document: what it is written of, and its bound

VARIABLE document              \* [kind, content, entry], the last what the parser keeps of it

Quotes  == {"dq", "sq"}
Blank   == {" ", "nl"}
Opening == {"(", "[", "{"}
Closing == {")", "]", "}"}
IsWord(c) == c \notin Quotes \cup Blank \cup Opening \cup Closing \cup {None, "/", "*", "esc", ",", ";", "."}
At(t, i) == IF i \in DOMAIN t THEN t[i] ELSE None
Places(from, to) == [k \in 1..(to - from + 1) |-> from + k - 1]
LineStart(t, i) == 1 + Max({0} \cup {j \in 1..(i - 1) : t[j] = "nl"})
LineEnd(t, i)   == Min({j \in i..Len(t) : t[j] = "nl"} \cup {Len(t) + 1}) - 1
-----------------------------------------------------------------------------
(* The automaton of most scans: what each character is.  Two at once are what
   opens or closes a comment, or an escape.  A string that is not closed ends
   with its line, but for the scans that carry it across. *)
Marked(s, n, mode, class) == [mode |-> mode, skip |-> n - 1, marks |-> Append(s.marks, class)]

CodeStep(s, c, next) ==
  CASE c = "/" /\ next \in {"/", "*"} -> Marked(s, 2, IF next = "/" THEN "line" ELSE "block", "comment")
    [] c \in Quotes -> Marked(s, 1, c, "string")
    [] OTHER -> Marked(s, 1, "code", "code")
CommentStep(s, c, next) ==
  CASE s.mode = "line" /\ c = "nl" -> Marked(s, 1, "code", "code")
    [] s.mode = "block" /\ c = "*" /\ next = "/" -> Marked(s, 2, "code", "comment")
    [] OTHER -> Marked(s, 1, s.mode, "comment")
StringStep(s, c, next, across) ==
  CASE c = "nl" /\ ~across -> Marked(s, 1, "code", "code")
    [] c = "esc" -> Marked(s, IF next = "nl" /\ ~across THEN 1 ELSE 2, s.mode, "string")
    [] OTHER     -> Marked(s, 1, IF c = s.mode THEN "code" ELSE s.mode, "string")
ScanStep(s, c, next, across) ==
  IF s.skip > 0 THEN [s EXCEPT !.skip = @ - 1, !.marks = Append(@, Last(@))]
  ELSE CASE s.mode = "code" -> CodeStep(s, c, next)
         [] s.mode \in Quotes -> StringStep(s, c, next, across)
         [] OTHER -> CommentStep(s, c, next)
Marks(t, across) ==
  FoldLeft(LAMBDA s, i : ScanStep(s, t[i], At(t, i + 1), across), [mode |-> "code", skip |-> 0, marks |-> <<>>], Places(1, Len(t))).marks

FindCommentRanges(t) == {i \in DOMAIN t : Marks(t, FALSE)[i] = "comment"}
MaskWith(t, marks) == [i \in DOMAIN t |-> IF marks[i] = "code" \/ t[i] = "nl" THEN t[i] ELSE " "]
StripCommentsAndStrings(t) == MaskWith(t, Marks(t, FALSE))
MaskCommentsAndStrings(t) == MaskWith(t, Marks(t, TRUE))

\* scanIdentifiersInRange: with a state of its own from the start of the range.
WordsOf(code, from) == {from + i - 1 : i \in {j \in DOMAIN code : IsWord(code[j])}}
ScanIdentifiersInRange(t, from, to) == WordsOf(StripCommentsAndStrings(SubSeq(t, from, to)), from)
-----------------------------------------------------------------------------
(* The index of references: first what is between the marks of block comments
   is blanked, wherever the marks are, and the second half of a mark may be
   that of the other; then each line is cut at its line comment, and words in
   strings are left out. *)
BlockStep(s, c, next) ==
  IF s.in /\ s.skip = 1 THEN [in |-> FALSE, skip |-> 0, out |-> Append(s.out, " ")]
  ELSE IF s.in /\ c = "*" /\ next = "/" THEN [s EXCEPT !.skip = 1, !.out = Append(@, " ")]
  ELSE IF s.in \/ (c = "/" /\ next = "*") THEN [s EXCEPT !.in = TRUE, !.out = Append(@, IF c = "nl" THEN c ELSE " ")]
  ELSE [s EXCEPT !.out = Append(@, c)]
StripBlockComments(t) ==
  FoldLeft(LAMBDA s, i : BlockStep(s, t[i], At(t, i + 1)), [in |-> FALSE, skip |-> 0, out |-> <<>>], Places(1, Len(t))).out

\* isInsideString: from the start of the line, with the character before as the only escape.
Toggled(quote, t, i) ==
  IF t[i] \in Quotes /\ quote \in {None, t[i]} /\ (i = 1 \/ t[i - 1] # "esc")
  THEN IF quote = None THEN t[i] ELSE None ELSE quote
IsInsideString(t, i) == FoldLeft(LAMBDA quote, j : Toggled(quote, t, j), None, Places(LineStart(t, i), i - 1)) # None

\* findLineCommentStart.
LineCommentStarts(t) == {i \in DOMAIN t : t[i] = "/" /\ At(t, i + 1) = "/" /\ ~IsInsideString(t, i)}
IndexLines(code, comments) ==
  {i \in DOMAIN code : IsWord(code[i]) /\ ~IsInsideString(code, i) /\ comments \cap LineStart(code, i)..i = {}}
IndexFile(t) ==
  UNION {IndexLines(code, LineCommentStarts(code)) : code \in {StripBlockComments(t)}}
-----------------------------------------------------------------------------
(* getFunctionBodyRange: from the start of the function's line, the first brace
   to the one that closes it, unless a semicolon comes first; None if there is
   none. *)
BodyStep(s, c, i) ==
  IF s.done THEN s
  ELSE CASE c = "{" -> [s EXCEPT !.depth = @ + 1, !.open = IF @ = 0 THEN i ELSE @]
         [] c = "}" -> [s EXCEPT !.depth = @ - 1, !.close = i, !.done = s.open # 0 /\ s.depth = 1]
         [] c = ";" -> [s EXCEPT !.done = s.open = 0]
         [] OTHER -> s
BodyWalk(code, from) ==
  FoldLeft(LAMBDA s, i : BodyStep(s, code[i], from + i - 1),
           [depth |-> 0, open |-> 0, close |-> 0, done |-> FALSE], Places(1, Len(code)))
BodyFound(walk) == IF walk.done /\ walk.open # 0 THEN <<walk.open + 1, walk.close - 1>> ELSE None
GetFunctionBodyRange(t, at) ==
  BodyFound(BodyWalk(MaskCommentsAndStrings(SubSeq(t, LineStart(t, at), Len(t))), LineStart(t, at)))
-----------------------------------------------------------------------------
(* The arguments of a call, by the inlay hints: where each starts, or None if
   the parenthesis is not closed.  Strings are passed over, comments are not. *)
Pushed(s) == IF s.start = 0 THEN s ELSE [s EXCEPT !.args = Append(@, s.start), !.start = 0]
Started(s, i) == IF s.start = 0 THEN [s EXCEPT !.start = i] ELSE s
QuotedStep(s, c) ==
  IF s.escaped THEN [s EXCEPT !.escaped = FALSE]
  ELSE [s EXCEPT !.escaped = c = "esc", !.quote = IF c = @ THEN None ELSE @]
ArgumentStep(s, c, i) ==
  IF s.closed THEN s
  ELSE IF s.quote # None THEN QuotedStep(s, c)
  ELSE CASE c \in Quotes  -> [Started(s, i) EXCEPT !.quote = c]
         [] c \in Opening -> [Started(s, i) EXCEPT !.depth = @ + 1]
         [] c \in Closing -> IF s.depth = 1 THEN [Pushed(s) EXCEPT !.closed = TRUE] ELSE [s EXCEPT !.depth = @ - 1]
         [] c = "," /\ s.depth = 1 -> Pushed(s)
         [] OTHER         -> IF c \in Blank THEN s ELSE Started(s, i)
ParseArgumentList(t, open) ==
  LET walk == FoldLeft(LAMBDA s, i : ArgumentStep(s, t[i], i),
                       [depth |-> 1, start |-> 0, args |-> <<>>, quote |-> None, escaped |-> FALSE, closed |-> FALSE],
                       Places(open + 1, Len(t)))
  IN  IF walk.closed THEN walk.args ELSE None

(* The call around the cursor, by the signature help: backwards over every
   character to the parenthesis that is open, counting commas. *)
ContextStep(s, c, i) ==
  IF s.open # 0 THEN s
  ELSE CASE c \in Closing -> [s EXCEPT !.depth = @ + 1]
         [] c \in Opening -> IF c = "(" /\ s.depth = 0 THEN [s EXCEPT !.open = i] ELSE [s EXCEPT !.depth = @ - 1]
         [] c = "," /\ s.depth = 0 -> [s EXCEPT !.commas = @ + 1]
         [] OTHER -> s
\* Backwards over a word, or a path; of the place itself any character will do.
RunBefore(t, end, others) == Min({i \in 1..end : \A j \in i..(end - 1) : IsWord(t[j]) \/ t[j] \in others})
ContainerName(t, from) ==
  IF from > 2 /\ t[from - 1] = "." THEN SubSeq(t, RunBefore(t, from - 2, {"."}), from - 2) ELSE <<>>
FindCallContext(t, offset) ==
  LET walk == FoldLeft(LAMBDA s, i : ContextStep(s, t[i], i), [depth |-> 0, open |-> 0, commas |-> 0],
                       Reverse(Places(1, offset)))
      end  == Max({0} \cup {i \in 1..(walk.open - 1) : t[i] \notin Blank})
      from == RunBefore(t, end, {})
  IN  IF end = 0 THEN None
      ELSE [functionName |-> SubSeq(t, from, end), activeParameter |-> walk.commas, containerName |-> ContainerName(t, from)]
-----------------------------------------------------------------------------
Code(c) == [class |-> "code", chars |-> <<c>>]
CharsOf(ls)   == FlattenSeq([i \in DOMAIN ls |-> ls[i].chars])
ClassesOf(ls) == FlattenSeq([i \in DOMAIN ls |-> [k \in DOMAIN ls[i].chars |-> ls[i].class]])
PlaceOf(ls, i) == 1 + FoldLeft(LAMBDA n, l : n + Len(l.chars), 0, SubSeq(ls, 1, i - 1))

ScanInit == document \in [kind : DOMAIN Pieces, content : {<<>>}, entry : {None}]
Write(p) ==
  /\ Len(document.content) < MaxPieces[document.kind]
  /\ document' = [document EXCEPT !.content = Append(@, p)]
ScanNext == \E p \in Pieces[document.kind] : Write(p)

HasPair(l, a, b) == \E i \in 1..(Len(l.chars) - 1) : l.chars[i] = a /\ l.chars[i + 1] = b

(* Comments and strings are told from code as the language does it, by every
   scan; a string that is not closed misleads those that carry it across.  The index of references is misled by the mark of a block comment in a
   string or a line comment, by a block comment that starts with a slash, and
   by a string that ends with a backslash. *)
Unended(l) == l.class = "string" /\ Last(l.chars) # l.chars[1]
MisleadsIndex(l) ==
  \/ HasPair(l, "/", "*") /\ ~(l.class = "comment" /\ l.chars[2] = "*")
  \/ l.class = "comment" /\ At(l.chars, 2) = "*" /\ At(l.chars, 3) = "/"
  \/ l.class = "string" /\ HasPair(l, "esc", "esc")
ScansFindTheCode ==
  document.kind = "scan" =>
    \A ls \in {FlattenSeq(document.content)} : \A t \in {CharsOf(ls)}, classes \in {ClassesOf(ls)} :
      /\ Marks(t, FALSE) = classes
      /\ MaskCommentsAndStrings(t) = MaskWith(t, classes) \/ \E l \in ToSet(ls) : Unended(l)
      /\ \/ \E l \in ToSet(ls) : MisleadsIndex(l)
         \/ IndexFile(t) = {i \in DOMAIN t : IsWord(t[i]) /\ classes[i] = "code"}

(* In a call "a(...": the cursor at the end is in the parameter, and the
   arguments start, where the delimiters in the code say.  Signature help takes
   those in strings and comments too, hints those in comments; there is no help
   in an index or a struct's braces, and none where no name, or a comment, is
   before the parenthesis. *)
CallText == <<Code("a"), Code("(")>> \o FlattenSeq(document.content)
Delimiters == Opening \cup Closing \cup {","}
Nested(cs, i, n) == n + (IF cs[i] \in Opening THEN 1 ELSE IF cs[i] \in Closing THEN -1 ELSE 0)
DepthAt(cs, i) == FoldLeft(LAMBDA n, j : Nested(cs, j, n), 0, Places(1, i))
CommasIn(cs, from, to, depth) == {i \in from..to : cs[i] = "," /\ DepthAt(cs, i) = depth}
\* The places that a bracket still open at the end opened at.
Unclosed(cs) == {i \in DOMAIN cs : cs[i] \in Opening /\ \A j \in i..Len(cs) : DepthAt(cs, j) >= DepthAt(cs, i)}
ArgumentStarts(cs, t, close) ==
  LET cuts == {2, close} \cup CommasIn(cs, 3, close, 1)
      between(c) == {i \in (c + 1)..(Min({d \in cuts : d > c}) - 1) : t[i] \notin Blank}
  IN  {Min(between(c)) : c \in {d \in cuts \ {close} : between(d) # {}}}

CalledAt(cs, open) == {i \in 1..(open - 1) : cs[i] \notin Blank}
HelpIsMisled(ls, cs) ==
  \/ Unclosed(cs) = {} \/ cs[Max(Unclosed(cs))] # "(" \/ ~IsWord(cs[Max(CalledAt(cs, Max(Unclosed(cs))))])
  \/ \E i \in DOMAIN ls : /\ ls[i].class # "code"
                         /\ \/ (ToSet(ls[i].chars) \cap Delimiters) # {}
                            \/ (i < Len(ls) /\ ls[i + 1].chars = <<"(">>)
ContextIn(cs, open) ==
  LET name == Max(CalledAt(cs, open))
      path == {i \in 1..name : \A j \in i..name : cs[j] = "." \/ IsWord(cs[j])}
  IN  [functionName |-> <<cs[name]>>, containerName |-> SubSeq(cs, Min(path), name - 2),
       activeParameter |-> Cardinality(CommasIn(cs, open, Len(cs), DepthAt(cs, Len(cs))))]

HintsAreMisled(ls) == \E l \in ToSet(ls) : l.class = "comment" /\ (ToSet(l.chars) \cap (Delimiters \cup Quotes)) # {}

CallsAreRead ==
  document.kind = "call" =>
    \A ls \in {CallText} : \A t \in {CharsOf(ls)}, cs \in {MaskWith(CharsOf(ls), ClassesOf(ls))} :
      /\ HelpIsMisled(ls, cs) \/ FindCallContext(t, Len(t)) = ContextIn(cs, Max(Unclosed(cs)))
      /\ HintsAreMisled(ls) \/
           (LET closes == {i \in DOMAIN cs : cs[i] \in Closing /\ DepthAt(cs, i) = 0}
            IN  IF closes = {} THEN ParseArgumentList(t, 2) = None
                ELSE ToSet(ParseArgumentList(t, 2)) = ArgumentStarts(cs, t, Min(closes)))
=============================================================================
