-------------------------------- MODULE Object --------------------------------
(***************************************************************************)
(* The object format (backend/object.rs), in which `lumenc build' leaves a *)
(* program for `lumenc exec'.  A file is a sequence of lines, a line its   *)
(* first word, a name, the numbers after it, and a quoted string as bytes. *)
(***************************************************************************)
EXTENDS Bytecode

ASSUME MaxArgcAssumption == MaxArgc \in Nat

Line(word, name, nums, str) == [word |-> word, name |-> name, nums |-> nums, str |-> str]

----------------------------------------------------------------------------
(* Strings.                                                                *)

Quotation == 34
Backslash == 92
\* The bytes that are escaped, and the letters that stand for them.
ObjectEscapes == {<<34, 34>>, <<92, 92>>, <<10, 110>>, <<9, 116>>, <<13, 114>>}

\* Faulty variant: a backslash is written as it is.
QuoteByteRaw(b) ==
  IF \E e \in ObjectEscapes : e[1] = b /\ b # Backslash
  THEN <<Backslash, (CHOOSE e \in ObjectEscapes : e[1] = b)[2]>> ELSE <<b>>

QuoteByte(b) ==
  IF \E e \in ObjectEscapes : e[1] = b
  THEN <<Backslash, (CHOOSE e \in ObjectEscapes : e[1] = b)[2]>> ELSE <<b>>

\* The bytes between the quotation marks, byte by byte.
Escaped(str) ==
  LET upto[k \in 0 .. Len(str)] == IF k = 0 THEN <<>> ELSE upto[k - 1] \o QuoteByte(str[k])
  IN upto[Len(str)]

Quote(str) == <<Quotation>> \o Escaped(str) \o <<Quotation>>

\* Any other byte after a backslash is itself.
Unescaped(b) ==
  IF \E e \in ObjectEscapes : e[2] = b THEN (CHOOSE e \in ObjectEscapes : e[2] = b)[1] ELSE b

Inner(text) == SubSeq(text, 2, Len(text) - 1)

\* A backslash takes the byte after it with it.
Unquote(text) ==
  LET inner == Inner(text)
      from[k \in 1 .. Len(inner) + 2] ==
        IF k > Len(inner) THEN <<>>
        ELSE IF inner[k] = Backslash /\ k < Len(inner)
             THEN <<Unescaped(inner[k + 1])>> \o from[k + 2]
             ELSE <<inner[k]>> \o from[k + 1]
  IN from[1]

\* The last byte is a backslash that nothing escapes.
Dangling(text) ==
  \E k \in DOMAIN Inner(text) :
    /\ \A j \in k .. Len(Inner(text)) : Inner(text)[j] = Backslash
    /\ k = 1 \/ Inner(text)[k - 1] # Backslash
    /\ (Len(Inner(text)) - k) % 2 = 0

----------------------------------------------------------------------------
(* Writing.                                                                *)

NumberOps == {"PushInt", "PushFloat", "PushStr", "LoadLocal", "StoreLocal", "MakeArray"} \cup JumpOps

OpLine(o) ==
  CASE o.op = "PushBool"    -> Line(o.op, IF o.n = 1 THEN "true" ELSE "false", <<>>, <<>>)
    [] o.op = "Call"        -> Line(o.op, "", <<o.n, o.argc>>, <<>>)
    [] o.op = "CallBuiltin" -> Line(o.op, o.x, <<o.argc>>, <<>>)
    [] o.op \in NumberOps   -> Line(o.op, "", <<o.n>>, <<>>)
    [] OTHER                -> Line(o.op, "", <<>>, <<>>)

WriteChunk(c) ==
  <<Line("fn", "", <<c.n_params, c.n_locals, Len(c.consts), Len(c.code)>>, <<>>)>>
  \o [k \in DOMAIN c.consts |-> Line("const", "", <<>>, Quote(c.consts[k]))]
  \o [k \in DOMAIN c.code |-> OpLine(c.code[k])]

\* The text after so many functions.
TextUpTo(p) ==
  LET upto[k \in 0 .. Len(p.functions)] ==
        IF k = 0 THEN <<Line("lumen-obj", "", <<p.main>>, <<>>)>>
        ELSE upto[k - 1] \o WriteChunk(p.functions[k])
  IN upto

ToText(p) == TextUpTo(p)[Len(p.functions)]

----------------------------------------------------------------------------
(* Reading.                                                                *)

\* An argument count is narrowed to a u8.
ParseOp(l) ==
  CASE l.word = "PushBool"    -> WithN("PushBool", IF l.name = "true" THEN 1 ELSE 0)
    [] l.word = "Call"        -> Call(l.nums[1], l.nums[2] % (MaxArgc + 1))
    [] l.word = "CallBuiltin" -> CallBuiltin(l.name, l.nums[1] % (MaxArgc + 1))
    [] l.word \in NumberOps   -> WithN(l.word, l.nums[1])
    [] OTHER                  -> Plain(l.word)

\* Faulty variant: the count is not read, the code goes on to the next function.
CodeEndNextFn(lines, at) ==
  CHOOSE k \in at .. Len(lines) :
    /\ \A j \in at + 1 .. k : lines[j].word # "fn"
    /\ k = Len(lines) \/ lines[k + 1].word = "fn"

\* The last line of the function whose header is at `at'.
CodeEnd(lines, at) == at + lines[at].nums[3] + lines[at].nums[4]

\* The function whose header is at `at', and whether its lines can be read.
ReadFn(lines, at) ==
  LET h      == lines[at].nums
      consts == SubSeq(lines, at + 1, at + h[3])
      code   == SubSeq(lines, at + 1 + h[3], CodeEnd(lines, at))
  IN [n_params |-> h[1], n_locals |-> h[2],
      code   |-> [k \in DOMAIN code |-> ParseOp(code[k])],
      consts |-> [k \in DOMAIN consts |-> Unquote(consts[k].str)]]

Readable(lines, at) ==
  /\ lines[at].word = "fn" /\ CodeEnd(lines, at) <= Len(lines)
  /\ \A k \in at + 1 .. CodeEnd(lines, at) :
       IF k <= at + lines[at].nums[3]
       THEN lines[k].word = "const" /\ ~ Dangling(lines[k].str)
       ELSE lines[k].word \in OpNames

\* The functions from a line on, up to the first that cannot be read.
ReadFns(lines) ==
  LET from[at \in 2 .. Len(lines) + 1] ==
        IF at > Len(lines) THEN [ok |-> TRUE, functions |-> <<>>]
        ELSE IF ~ Readable(lines, at) THEN [ok |-> FALSE, functions |-> <<>>]
        ELSE LET rest == from[CodeEnd(lines, at) + 1]
             IN [rest EXCEPT !.functions = <<ReadFn(lines, at)>> \o @]
  IN from[2]

\* [ok, functions, main]; only the first line says which function is main.
FromText(lines) ==
  IF lines = <<>> \/ (lines # <<>> /\ lines[1].word # "lumen-obj")
  THEN [ok |-> FALSE, functions |-> <<>>, main |-> 0]
  ELSE LET read == ReadFns(lines)
       IN [ok |-> read.ok, functions |-> read.functions, main |-> lines[1].nums[1]]

----------------------------------------------------------------------------
(* What may happen to a file: it loses its end, or a line, or has one      *)
(* twice.                                                                  *)

Damaged(lines) ==
  {SubSeq(lines, 1, n) : n \in 0 .. Len(lines) - 1}
  \cup {SubSeq(lines, 1, k - 1) \o SubSeq(lines, k + 1, Len(lines)) : k \in DOMAIN lines}
  \cup {SubSeq(lines, 1, k) \o SubSeq(lines, k, Len(lines)) : k \in DOMAIN lines}
=============================================================================
