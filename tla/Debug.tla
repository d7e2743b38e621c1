-------------------------------- MODULE Debug --------------------------------
(***************************************************************************)
(* Text output: vprintf() of the kernel and of the loader (sys/debug.cpp), *)
(* itoa() (algo/itoa.hpp, the same file in both), and the kernel's strings *)
(* (algo/string.cpp).  A step is one turn of the loop over the format, or  *)
(* one turn of a loop of itoa() in the buffer that all conversions of a    *)
(* call share.                                                             *)
(*                                                                         *)
(* A call is a sequence of directives with their arguments.  The code sees *)
(* the characters and the argument words they are written as; what should  *)
(* be printed is defined from the directives.                              *)
(***************************************************************************)
EXTENDS Integers, Sequences

LOCAL Seqs == INSTANCE SequencesExt

CONSTANTS
  NarrowBits,   \* bits of a uint32_t (32)
  WideBits,     \* bits of an itoa::ValueType (64)
  Calls         \* [prog, dirs, ...]: see the operators that read them

ASSUME WidthAssumption == NarrowBits \in Nat \ {0} /\ WideBits = 2 * NarrowBits

VARIABLES
  call, fmt,        \* the call, and its format as characters
  pc,
  at, args,         \* the character vprintf() is at, the arguments left
  pad,              \* padChar and padCount
  out,              \* what has gone to the serial port
  conv,             \* the conversion that is under way
  buf,              \* vprintf()'s buffer, never cleared
  val, n, j, r, sign,   \* locals of itoa()
  view              \* a str: offset and length

scan == <<call, fmt, args, pad, conv, view>>
itoavars == <<val, n, j, r, sign>>
vars == <<scan, pc, at, out, buf, itoavars>>

Narrow == 2 ^ NarrowBits
Wide == 2 ^ WideBits

(* itoa() is called for a word, in a base. *)
ASSUME CallsAssumption ==
  \A c \in Calls : c.value \in 0 .. (Wide - 1) /\ c.base \in Nat /\ c.base >= 2

NUL == "NUL"
NoPad == "char(-1)"

(* constexpr char chars[] *)
chars == [d \in 0 .. 15 |->
  <<"0", "1", "2", "3", "4", "5", "6", "7", "8", "9", "a", "b", "c", "d", "e", "f">>[d + 1]]
Digits == {chars[d] : d \in 0 .. 9}
DigitValue(c) == CHOOSE d \in 0 .. 9 : chars[d] = c

(* Mutant of BufferSize: no room for the terminator. *)
BufferSizeBits == WideBits

BufferSize == WideBits + 1

Fill(c, k) == [x \in 1 .. k |-> c]
Padded(s, c, p) == Fill(c, p - Len(s)) \o s

Numeral(base, v) ==
  LET N[k \in Nat] == IF k < base THEN <<chars[k]>>
                                  ELSE Append(N[k \div base], chars[k % base])
  IN N[v]

-----------------------------------------------------------------------------
(* The conversions of numbers.                                             *)

Conv(base, unsigned, prefix) ==
  [base |-> base, unsigned |-> unsigned, prefix |-> prefix, char |-> NoPad, width |-> 0]

KernelNumbers ==
  [d |-> Conv(10, FALSE, <<>>), u |-> Conv(10, TRUE, <<>>), x |-> Conv(16, FALSE, <<>>),
   a |-> Conv(16, FALSE, <<"0", "x">>)]

LoaderNumbers ==
  [d |-> Conv(10, FALSE, <<>>), x |-> Conv(16, FALSE, <<>>), X |-> Conv(16, FALSE, <<>>),
   a |-> Conv(16, FALSE, <<"0", "x">>), A |-> Conv(16, FALSE, <<"0", "x">>)]

Numbers(prog) == IF prog = "kernel" THEN KernelNumbers ELSE LoaderNumbers

(* The padding of addresses: 8 and 16 *)
FullDigits(wide) == (IF wide THEN WideBits ELSE NarrowBits) \div 4

(* 64 bits are taken for %l of the kernel and capitals of the loader. *)
TakesWide(prog, long, c) == IF prog = "kernel" THEN long ELSE c \in {"X", "A"}

-----------------------------------------------------------------------------
(* How a call is written: directives are [kind, char, long, pad, width,    *)
(* arg] with kind "text", "number", "string", "odd" (an unknown letter) or *)
(* "cut" (the format ends in the middle of it).                            *)

Spelling(d) ==
  IF d.kind = "text" THEN <<d.char>>
  ELSE <<"%">> \o d.pad \o (IF d.width = 0 THEN <<>> ELSE Numeral(10, d.width))
       \o (IF d.long THEN <<"l">> ELSE <<>>) \o (IF d.kind = "cut" THEN <<>> ELSE <<d.char>>)

(* An argument has a register or stack slot of its own on x86-64; on i386  *)
(* a 64-bit one is two words.                                              *)
Passed(prog, d) ==
  CASE d.kind = "number" /\ prog = "loader" /\ TakesWide(prog, d.long, d.char) ->
         <<d.arg % Narrow, d.arg \div Narrow>>
    [] d.kind = "number" /\ prog = "loader" -> <<d.arg % Narrow>>
    [] d.kind \in {"number", "string"} -> <<d.arg>>
    [] OTHER -> <<>>

Flat(seqs) == Seqs!FoldLeft(LAMBDA x, y : x \o y, <<>>, seqs)

Init ==
  /\ call \in Calls
  /\ fmt = Flat([k \in DOMAIN call.dirs |-> Spelling(call.dirs[k])])
  /\ args = Flat([k \in DOMAIN call.dirs |-> Passed(call.prog, call.dirs[k])])
  /\ pc = CASE call.prog = "itoa" -> "itoa" [] call.prog = "str" -> "str" [] OTHER -> "scan"
  /\ at = 1 /\ out = <<>>
  /\ pad = [char |-> NoPad, count |-> 0]
  /\ buf = [k \in 0 .. (WideBits + 2) |-> IF k = WideBits + 2 THEN NUL ELSE "?"]
  /\ val = call.value /\ n = 0 /\ j = 0 /\ r = 0 /\ sign = FALSE
  /\ conv = Conv(call.base, call.unsigned, <<>>)
  /\ view = [off |-> 0, len |-> Len(call.data)]

-----------------------------------------------------------------------------
(* vprintf().                                                              *)

Kernel == call.prog = "kernel"
CharAt(p) == IF p <= Len(fmt) THEN fmt[p] ELSE NUL
Reading == pc = "scan" /\ at <= Len(fmt) + 1

EndOfFormat ==
  /\ Reading /\ CharAt(at) = NUL
  /\ pc' = "done"
  /\ UNCHANGED <<scan, at, out, buf, itoavars>>

Text ==
  /\ Reading /\ CharAt(at) \notin {NUL, "%"}
  /\ out' = Append(out, CharAt(at))
  /\ at' = at + 1
  /\ UNCHANGED <<scan, pc, buf, itoavars>>

(* What stands between the % and the letter *)
PadGiven == Kernel /\ CharAt(at + 1) \in {"0", " "}
WidthAt == IF PadGiven THEN at + 2 ELSE at + 1
LetterAt == CHOOSE p \in WidthAt .. (Len(fmt) + 1) :
              /\ ~Kernel \/ CharAt(p) \notin Digits
              /\ \A q \in WidthAt .. (p - 1) : Kernel /\ CharAt(q) \in Digits
Long == Kernel /\ CharAt(LetterAt) = "l"

(* Mutant of LastAt: the letter after an l is not the last one read. *)
LastAtLong == IF Long THEN LetterAt + 2 ELSE LetterAt

LastAt == IF Long THEN LetterAt + 1 ELSE LetterAt
Letter == CharAt(LastAt)

(* padCount goes on from where the conversion before left it. *)
NewPad ==
  [char |-> IF PadGiven THEN CharAt(at + 1) ELSE pad.char,
   count |-> Seqs!FoldLeft(LAMBDA k, c : 10 * k + DigitValue(c), pad.count,
                      SubSeq(fmt, WidthAt, LetterAt - 1))]

Conversion ==
  /\ Reading /\ CharAt(at) = "%"
  /\ pad' = NewPad
  /\ at' = LastAt + 1

(* va_arg() and the call of itoa() *)
PrintNumber ==
  LET c == Numbers(call.prog)[Letter]
      wide == TakesWide(call.prog, Long, Letter)
      address == Kernel /\ Letter = "a"
  IN
  /\ Conversion /\ Letter \in DOMAIN Numbers(call.prog)
  /\ pc' = "itoa"
  /\ out' = out \o c.prefix
  /\ val' = IF wide /\ ~Kernel THEN args[1] + Narrow * args[2]
            ELSE IF wide THEN args[1] ELSE args[1] % Narrow
  /\ args' = IF wide /\ ~Kernel THEN Tail(Tail(args)) ELSE Tail(args)
  /\ conv' = [c EXCEPT !.char = IF address THEN "0" ELSE NewPad.char,
                       !.width = IF ~address THEN NewPad.count
                                 ELSE FullDigits(wide)]
  /\ UNCHANGED <<call, fmt, view, buf, n, j, r, sign>>

PrintString ==
  /\ Conversion /\ Letter = "s" /\ ~Long
  /\ out' = out \o Padded(args[1], NewPad.char, NewPad.count)
  /\ args' = Tail(args)
  /\ UNCHANGED <<call, fmt, conv, view, pc, buf, itoavars>>

(* An unknown letter, or none; after an l nothing is printed. *)
PrintOther ==
  /\ Conversion /\ Letter \notin DOMAIN Numbers(call.prog) /\ (Long \/ Letter # "s")
  /\ out' = IF Long THEN out ELSE out \o <<"%", Letter>>
  /\ UNCHANGED <<call, fmt, args, conv, view, pc, buf, itoavars>>

-----------------------------------------------------------------------------
(* itoa<base, u>(buf, val).                                                *)

Zero ==
  /\ pc = "itoa" /\ val = 0
  /\ buf' = [buf EXCEPT ![0] = "0", ![1] = NUL]
  /\ pc' = "put"
  /\ UNCHANGED <<scan, at, out, itoavars>>

Negative == conv.base = 10 /\ ~conv.unsigned /\ val >= Wide \div 2

(* Mutant of Sign: the negative value is not a word. *)
SignPlain ==
  /\ pc = "itoa" /\ val # 0
  /\ sign' = Negative
  /\ val' = IF Negative THEN val - Wide ELSE val
  /\ n' = 0
  /\ pc' = "digits"
  /\ UNCHANGED <<scan, at, out, buf, j, r>>

Sign ==
  /\ pc = "itoa" /\ val # 0
  /\ sign' = Negative
  /\ val' = IF Negative THEN (Wide - val) % Wide ELSE val
  /\ n' = 0
  /\ pc' = "digits"
  /\ UNCHANGED <<scan, at, out, buf, j, r>>

(* Mutant of Digit: the value is not divided. *)
DigitOnly ==
  /\ pc = "digits" /\ val # 0
  /\ buf' = [buf EXCEPT ![n] = chars[val % conv.base]]
  /\ n' = IF n < WideBits THEN n + 1 ELSE n
  /\ UNCHANGED <<scan, pc, at, out, val, j, r, sign>>

Digit ==
  /\ pc = "digits" /\ val # 0
  /\ buf' = [buf EXCEPT ![n] = chars[val % conv.base]]
  /\ n' = n + 1
  /\ val' = val \div conv.base
  /\ UNCHANGED <<scan, pc, at, out, j, r, sign>>

Turn ==
  /\ pc = "digits" /\ val = 0
  /\ buf' = IF sign THEN [buf EXCEPT ![n] = "-"] ELSE buf
  /\ r' = IF sign THEN n + 1 ELSE n
  /\ n' = IF sign THEN n ELSE n - 1
  /\ j' = 0
  /\ pc' = "reverse"
  /\ UNCHANGED <<scan, at, out, val, sign>>

(* The exclusive-ors exchange two different characters. *)
Swap ==
  /\ pc = "reverse" /\ n > j
  /\ buf' = [buf EXCEPT ![n] = buf[j], ![j] = buf[n]]
  /\ n' = n - 1 /\ j' = j + 1
  /\ UNCHANGED <<scan, pc, at, out, val, r, sign>>

(* Mutant of Terminate: the buffer is taken for clear. *)
TerminateNot ==
  /\ pc = "reverse" /\ n <= j
  /\ pc' = "put"
  /\ UNCHANGED <<scan, at, out, buf, itoavars>>

Terminate ==
  /\ pc = "reverse" /\ n <= j
  /\ buf' = [buf EXCEPT ![r] = NUL]
  /\ pc' = "put"
  /\ UNCHANGED <<scan, at, out, itoavars>>

(* strlen() *)
CString ==
  LET end == CHOOSE k \in DOMAIN buf : buf[k] = NUL /\ \A i \in 0 .. (k - 1) : buf[i] # NUL
  IN [k \in 1 .. end |-> buf[k - 1]]

(* puts(s, padc, pad) of the kernel, puts(s) of the loader *)
Put ==
  /\ pc = "put"
  /\ out' = out \o (IF Kernel THEN Padded(CString, conv.char, conv.width) ELSE CString)
  /\ pc' = IF call.prog = "itoa" THEN "done" ELSE "scan"
  /\ UNCHANGED <<scan, at, buf, itoavars>>

-----------------------------------------------------------------------------
(* str: slices of slices, print(), ==.                                      *)

Least(a, b) == IF a < b THEN a ELSE b
Most(a, b) == IF a > b THEN a ELSE b

(* str::slice(begin, end) *)
slice(v, begin, end) ==
  LET start == Least(begin, v.len) IN
  [off |-> v.off + start, len |-> Least(Most(begin, end), v.len) - start]

Slice ==
  /\ pc = "str" /\ at <= Len(call.slices)
  /\ view' = slice(view, call.slices[at][1], call.slices[at][2])
  /\ at' = at + 1
  /\ UNCHANGED <<call, fmt, args, pad, conv, pc, out, buf, itoavars>>

Viewed == SubSeq(call.data, view.off + 1, view.off + view.len)

PrintStr ==
  /\ pc = "str" /\ at > Len(call.slices)
  /\ out' = Viewed
  /\ pc' = "compare"
  /\ UNCHANGED <<scan, at, buf, itoavars>>

(* strncmp() ends at a difference or where both strings end.               *)
strncmpEqual(a, b, lim) ==
  LET ends == {i \in 1 .. lim : a[i] # b[i] \/ (a[i] = NUL /\ b[i] = NUL)}
  IN \A i \in ends : a[i] = b[i] \/ \E k \in ends : k < i /\ a[k] = b[k]

(* operator ==, and != is its negation *)
Compare ==
  /\ pc = "compare"
  /\ out' = Append(out, IF view.len = Len(call.other)
                           /\ strncmpEqual(Viewed, call.other, view.len)
                        THEN "equal" ELSE "different")
  /\ pc' = "done"
  /\ UNCHANGED <<scan, at, buf, itoavars>>

(* What a call that has left its format goes on to print is not modelled.  *)
Ended == (pc = "done" \/ (pc = "scan" /\ ~Reading)) /\ UNCHANGED vars

Next ==
  \/ EndOfFormat \/ Text \/ PrintNumber \/ PrintString \/ PrintOther
  \/ Zero \/ Sign \/ Digit \/ Turn \/ Swap \/ Terminate \/ Put
  \/ Slice \/ PrintStr \/ Compare
  \/ Ended

Spec == Init /\ [][Next]_vars /\ WF_vars(Next)

-----------------------------------------------------------------------------
(* What should be printed.                                                 *)

Aligned(d, s) == IF d.pad = <<>> THEN s ELSE Padded(s, d.pad[1], d.width)

SignedNumeral(v) ==
  IF v >= Wide \div 2 THEN <<"-">> \o Numeral(10, Wide - v) ELSE Numeral(10, v)

Number(prog, d) ==
  LET c == Numbers(prog)[d.char]
      wide == TakesWide(prog, d.long, d.char)
      s == IF wide /\ d.char = "d" THEN SignedNumeral(d.arg)
           ELSE Numeral(c.base, IF wide THEN d.arg ELSE d.arg % Narrow)
  IN
  IF prog = "kernel" /\ d.char = "a"
  THEN c.prefix \o Padded(s, "0", FullDigits(wide))
  ELSE c.prefix \o Aligned(d, s)

Shown(prog, d) ==
  CASE d.kind = "text" -> <<d.char>>
    [] d.kind = "number" -> Number(prog, d)
    [] d.kind = "string" -> Aligned(d, d.arg)
    [] d.kind = "odd" -> IF d.long THEN <<>> ELSE <<"%", d.char>>

Expected ==
  CASE call.prog = "itoa" ->
         IF call.base = 10 /\ ~call.unsigned THEN SignedNumeral(call.value)
                                             ELSE Numeral(call.base, call.value)
    [] call.prog = "str" ->
         LET part == Seqs!FoldLeft(LAMBDA s, c : SubSeq(s, c[1] + 1, Least(c[2], Len(s))),
                              call.data, call.slices)
         IN Append(part, IF part = call.other THEN "equal" ELSE "different")
    [] OTHER -> Flat([k \in DOMAIN call.dirs |-> Shown(call.prog, call.dirs[k])])

IsCut(d) == d.kind = "cut"

(* A width stands with a pad character, and in front of text only.         *)
Regular ==
  \A k \in DOMAIN call.dirs :
    /\ ~IsCut(call.dirs[k])
    /\ call.dirs[k].width > 0 =>
         /\ call.dirs[k].pad # <<>>
         /\ \A m \in (k + 1) .. Len(call.dirs) : call.dirs[m].kind = "text"

-----------------------------------------------------------------------------
(* Properties.                                                             *)

(* TypeOK: whatever a call passes, itoa() works on a 64-bit word, and its  *)
(* indices are those of its buffer, or one before it.                      *)
TypeOK ==
  /\ pc \in {"scan", "itoa", "digits", "reverse", "put", "str", "compare", "done"}
  /\ at \in Nat \ {0}
  /\ val \in 0 .. (Wide - 1)
  /\ n \in -1 .. WideBits /\ j \in 0 .. WideBits /\ r \in 0 .. WideBits
  /\ sign \in BOOLEAN

(***************************************************************************)
(* PrintsAsWritten: a call that ends has printed each directive as if it   *)
(* stood alone, although the buffer, padChar and padCount are carried from *)
(* one conversion to the next (debug.cpp:50-56) and are never reset; given *)
(* that nothing but text follows a width.  itoa() yields the numeral of    *)
(* every value, the least signed one included, and a slice of a slice is   *)
(* the part of the string it names, wherever its bounds lie, and is equal  *)
(* to a string of those characters only.                                   *)
(***************************************************************************)
PrintsAsWritten == (pc = "done" /\ Regular) => out = Expected

(***************************************************************************)
(* ReadsInFormat: only a format that ends inside a conversion takes        *)
(* vprintf() beyond its terminator (debug.cpp:125), however conversions,   *)
(* pads and widths follow each other.                                      *)
(***************************************************************************)
ReadsInFormat ==
  (pc = "scan" /\ at > Len(fmt) + 1) => IsCut(call.dirs[Len(call.dirs)])

(***************************************************************************)
(* StaysInBuffer: itoa() writes no character, no sign and no terminator    *)
(* behind bufferSize (itoa.hpp:9), in any base it is used with; base 2     *)
(* fills the buffer to the last place.                                     *)
(***************************************************************************)
StaysInBuffer ==
  /\ (pc = "digits" /\ (val # 0 \/ sign)) => n < BufferSize
  /\ pc = "reverse" => r < BufferSize /\ n < r

(* EveryCallEnds: printing stops, and with it all that prints, for every   *)
(* format and value (debug.cpp:57, itoa.hpp:34).                           *)
EveryCallEnds == <>(pc = "done" \/ (pc = "scan" /\ ~Reading))

=============================================================================
