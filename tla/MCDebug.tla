------------------------------ MODULE MCDebug ------------------------------
(***************************************************************************)
(* Instances of Debug for TLC: words of four bits, values of eight.        *)
(***************************************************************************)
EXTENDS Debug

Directive(kind, char, long, padding, width, value) ==
  [kind |-> kind, char |-> char, long |-> long, pad |-> padding, width |-> width, arg |-> value]

Plain(kind, char, long, value) == Directive(kind, char, long, <<>>, 0, value)

(* One and two digits in both bases; the greatest 32-bit value; the least  *)
(* and the greatest of 64 bits as signed ones.                             *)
Values == {0, 7, 10, 15, 100, 128, 255}
Strings == {<<>>, <<"h", "i">>}

Numbered(letters, long, values) ==
  {Plain("number", c, long, v) : c \in letters, v \in values}

Others(strings) ==
  {Plain("text", "z", FALSE, 0), Plain("odd", "q", FALSE, 0)}
    \cup {Plain("string", "s", FALSE, s) : s \in strings}

KernelDirs(values, strings) ==
  Numbered(DOMAIN KernelNumbers, TRUE, values) \cup Numbered(DOMAIN KernelNumbers, FALSE, values)
    \cup Others(strings) \cup {Plain("odd", "s", TRUE, 0)}

LoaderDirs(values, strings) == Numbered(DOMAIN LoaderNumbers, FALSE, values) \cup Others(strings)

(* The same with a width, and with a pad character and without one *)
Widened(dirs) ==
  {[d EXCEPT !.pad = p, !.width = w] :
     d \in {x \in dirs : x.kind # "text"}, p \in {<<>>, <<"0">>, <<" ">>}, w \in {0, 3, 11}}

Cuts == {Directive("cut", "", long, padding, width, 0) :
           long \in BOOLEAN, padding \in {<<>>, <<"0">>}, width \in {0, 3}}

Printing(prog, dirs) ==
  [prog |-> prog, dirs |-> dirs, value |-> 0, base |-> 10, unsigned |-> FALSE,
   data |-> <<>>, slices |-> <<>>, other |-> <<>>]

First == {200}

KernelCalls ==
  {Printing("kernel", <<d, e>>) :
     d \in KernelDirs(First, {<<"h", "i">>}), e \in KernelDirs(Values, Strings)}
  \cup {Printing("kernel", <<d, e>>) :
     d \in KernelDirs(First, {<<"h", "i">>}),
     e \in Widened(KernelDirs({0, 15, 128}, Strings)) \cup Cuts}
  \cup {Printing("kernel", <<d, e>>) :
     d \in Widened(KernelDirs({100}, {<<>>})), e \in Others({<<"h">>}) \cup Numbered({"d", "a"}, TRUE, {10})}

LoaderCalls ==
  {Printing("loader", <<d, e>>) :
     d \in LoaderDirs(First, {<<"h", "i">>}), e \in LoaderDirs(Values, Strings)}
  \cup {Printing("loader", <<d, Directive("cut", "", FALSE, <<>>, 0, 0)>>) :
     d \in LoaderDirs(First, {<<"h", "i">>})}

ItoaCalls ==
  {[Printing("itoa", <<>>) EXCEPT !.value = v, !.base = b, !.unsigned = u] :
     v \in 0 .. 255, b \in {2, 10, 16}, u \in BOOLEAN}

StrCalls ==
  {[Printing("str", <<>>) EXCEPT !.data = s, !.slices = <<x, y>>, !.other = o] :
     s \in {<<>>, <<"a">>, <<"a", "b", "c">>}, x, y \in (0 .. 4) \X (0 .. 4),
     o \in {<<>>, <<"b">>, <<"a", "b">>, <<"a", "c">>}}

MCCalls == KernelCalls \cup LoaderCalls \cup ItoaCalls \cup StrCalls
=============================================================================
