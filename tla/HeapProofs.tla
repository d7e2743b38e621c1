----------------------------- MODULE HeapProofs -----------------------------
(***************************************************************************)
(* Proofs about the kernel heap, for every header size, word size, region, *)
(* set of sizes and set of alignments.                                     *)
(***************************************************************************)
EXTENDS Heap, TLAPS

USE HeaderSizeAssumption DEF NULL

-----------------------------------------------------------------------------
(* Facts about addresses.                                                  *)

(* Addresses are positive: no header is at NULL. *)
LEMMA AddrNat == Addr \subseteq Nat \ {0}
BY RegionsAssumption DEF Addr

(* The region given to reset() consists of addresses. *)
LEMMA RegionInAddr ==
  ASSUME Placed, m_size # 0, NEW a \in Nat, m_base <= a, a < End
  PROVE  a \in Addr
BY RegionsAssumption DEF Placed, Addr, End

(* Sums of addresses and lengths are natural numbers. *)
LEMMA SumNat == \A x, y \in Nat : x + y \in Nat
OBVIOUS

(* alignUp() never moves an address down, and reaches a boundary. *)
LEMMA AlignUpReaches ==
  ASSUME NEW x \in Nat, NEW a \in Nat \ {0}
  PROVE  AlignUp(x, a) \in Nat /\ AlignUp(x, a) >= x
<1>1. (x + (a - 1)) % a \in 0 .. (a - 1)
  OBVIOUS
<1> QED
  BY <1>1 DEF AlignUp

(* Two headers of a tiled heap do not overlap, and the next header is the  *)
(* one that follows immediately.                                           *)
LEMMA NextFollows ==
  ASSUME TypeOK, Tiled, NEW h \in blocks, next[h] # NULL
  PROVE  /\ next[h] = After(h) /\ next[h] \in blocks /\ h < next[h]
         /\ \A g \in blocks : g < next[h] => g <= h
BY AddrNat DEF TypeOK, Tiled, ForwardLinked, Apart, After

(* No header follows the last one. *)
LEMMA LastIsLast ==
  ASSUME TypeOK, Tiled, NEW h \in blocks, next[h] = NULL
  PROVE  \A g \in blocks : g <= h
<1> SUFFICES ASSUME NEW g \in blocks, h < g PROVE FALSE
  BY AddrNat DEF TypeOK
<1>1. After(h) = End
  BY AddrNat DEF TypeOK, Tiled, ForwardLinked, After, End
<1>2. After(h) <= g /\ After(g) <= End /\ After(g) > g
  BY AddrNat DEF TypeOK, Tiled, ForwardLinked, Apart, After, End
<1> QED
  BY <1>1, <1>2, AddrNat DEF TypeOK, After, End

-----------------------------------------------------------------------------
(* What each kind of step does to the invariant.                           *)

Data == Placed /\ Tiled /\ HeadersMatchClients /\ BackLinked
Control == CursorLinked /\ ScanSound /\ OneWhenFree

(* A step that leaves memory, object and history alone keeps Data. *)
LEMMA DataUnchanged ==
  ASSUME Data, UNCHANGED <<memory, object, history>>
  PROVE  Data'
<1>1. Placed' /\ RootLinked' /\ Apart'
  BY DEF Data, Placed, Tiled, RootLinked, Apart, After, End, memory, object, history
<1>2. ForwardLinked'
  BY DEF Data, Tiled, ForwardLinked, Magic, After, End, memory, object, history
<1>3. HeadersMatchClients'
  BY DEF Data, HeadersMatchClients, Used, Block, memory, object, history
<1>4. BackLinked'
  BY DEF Data, BackLinked, memory, object, history
<1> QED
  BY <1>1, <1>2, <1>3, <1>4 DEF Data, Tiled

(* The invariant in the form the steps use it. *)
LEMMA InvParts ==
  HeapInv <=> TypeOK /\ (pc # "corrupt" => Data /\ Control)
BY DEF HeapInv, Data, Control

(* A panic, and a step of a stopped machine. *)
LEMMA PanicInv ==
  ASSUME HeapInv, pc # "corrupt", Panic
  PROVE  HeapInv'
<1>1. TypeOK'
  BY DEF HeapInv, TypeOK, Panic, Leave, Stopped, memory, object, history
<1>2. Data'
  BY InvParts, DataUnchanged DEF Panic
<1>3. Control'
  BY DEF Panic, Leave, Control, CursorLinked, ScanSound, OneWhenFree,
         Scanning, Freeing
<1> QED
  BY <1>1, <1>2, <1>3 DEF HeapInv, Data, Control

(* A return that changed nothing. *)
LEMMA ReturnInv ==
  ASSUME HeapInv, pc \in Scanning \/ pc = "idle", Return, UNCHANGED <<memory, object, history>>
  PROVE  HeapInv'
<1> pc # "corrupt"
  BY DEF Scanning
<1>1. TypeOK'
  BY DEF HeapInv, TypeOK, Return, Leave, memory, object, history
<1>2. Data'
  BY InvParts, DataUnchanged
<1>3. Control'
  BY InvParts DEF Return, Leave, Control, CursorLinked, ScanSound, OneWhenFree,
         Scanning, Freeing, object, history
<1> QED
  BY <1>1, <1>2, <1>3 DEF HeapInv, Data, Control

(* Returning with a new block: no loop is running, and someone holds one. *)
LEMMA ControlAfterTake ==
  ASSUME Return, NEW b, live' = live \cup {b}
  PROVE  Control'
BY DEF Return, Leave, Control, CursorLinked, ScanSound, OneWhenFree,
       Scanning, Freeing

(* Taking a whole free block. *)
LEMMA TakeWholeInv ==
  ASSUME HeapInv, pc # "corrupt", NEW h \in blocks, ~Used(h), TakeWhole(h)
  PROVE  HeapInv'
<1> USE AddrNat
<1>1. Data /\ TypeOK
  BY DEF HeapInv, Data
<1>2. h \in Addr /\ length[h] \in Nat /\ flags[h] \in SUBSET Flags
  BY <1>1 DEF TypeOK
<1>3. TypeOK'
  <2>1. flags' \in [Addr -> SUBSET Flags]
    BY <1>1, <1>2 DEF TypeOK, TakeWhole, Flags
  <2>2. live' \subseteq [ptr : Nat, size : Nat]
    BY <1>1, <1>2 DEF TypeOK, TakeWhole, Block
  <2> QED
    BY <1>1, <2>1, <2>2 DEF TypeOK, TakeWhole, Return, Leave, object
<1>4. Placed' /\ Tiled'
  <2>1. \A a \in blocks : Magic(a)'
    BY <1>1, <1>2 DEF TypeOK, TakeWhole, Data, Tiled, ForwardLinked, Magic
  <2> QED
    BY <1>1, <2>1 DEF TakeWhole, Data, Placed, Tiled, RootLinked, ForwardLinked,
                      Apart, After, End, object
<1>5. HeadersMatchClients'
  <2>1. \A a \in Addr : Used(a)' <=> (Used(a) \/ a = h)
    BY <1>1, <1>2 DEF TypeOK, TakeWhole, Used
  <2> QED
    BY <1>1, <1>2, <2>1 DEF TypeOK, TakeWhole, Data, HeadersMatchClients, Block
<1>6. BackLinked'
  BY <1>1, <1>2 DEF TypeOK, TakeWhole, Data, BackLinked, Tiled, ForwardLinked,
                    Magic, object
<1>7. Control'
  BY ControlAfterTake DEF TakeWhole
<1> QED
  BY <1>3, <1>4, <1>5, <1>6, <1>7 DEF HeapInv, Data, Control

(* Splitting block h in two at n keeps the region tiled and the headers    *)
(* linked, whichever of the two halves is given away.                      *)
LEMMA Split ==
  ASSUME TypeOK, Data, NEW h \in blocks,
         NEW n \in Nat, h + HeaderSize <= n, n + HeaderSize <= After(h),
         flags' \in [Addr -> SUBSET Flags],
         \A a \in Addr : a # h /\ a # n => flags'[a] = flags[a],
         "MAGIC" \in flags'[h], "MAGIC" \in flags'[n],
         length' = [length EXCEPT ![h] = n - h - HeaderSize,
                                  ![n] = After(h) - n - HeaderSize],
         prev' = [prev EXCEPT ![n] = h],
         next' = [next EXCEPT ![h] = n, ![n] = next[h]],
         blocks' = blocks \cup {n}, UNCHANGED object
  PROVE  /\ n \in Addr /\ n \notin blocks
         /\ length' \in [Addr -> Nat]
         /\ prev' \in [Addr -> Addr \cup {NULL}]
         /\ next' \in [Addr -> Addr \cup {NULL}]
         /\ Placed' /\ Tiled' /\ BackLinked'
<1> USE AddrNat
<1>2. h \in Addr /\ h \in Nat /\ length[h] \in Nat /\ h < n
  BY DEF TypeOK
<1>4. After(h) \in Nat
  BY <1>2 DEF After
<1>5. m_size # 0 /\ m_base <= h /\ After(h) <= End
  BY DEF Data, Tiled, RootLinked, ForwardLinked
<1>6. n \in Addr
  <2>1. m_base <= n /\ n < End
    BY <1>2, <1>4, <1>5 DEF TypeOK, End
  <2> QED
    BY <1>5, <2>1, RegionInAddr DEF Data
<1>7. n \notin blocks /\ (\A g \in blocks : g # h => After(g) <= h \/ After(h) <= g)
  BY <1>2, <1>4 DEF Data, Tiled, Apart, After, TypeOK
<1>8. /\ length' \in [Addr -> Nat]
      /\ prev' \in [Addr -> Addr \cup {NULL}]
      /\ next' \in [Addr -> Addr \cup {NULL}]
  <2>1. n - h - HeaderSize \in Nat /\ After(h) - n - HeaderSize \in Nat
    BY <1>2, <1>4
  <2> QED
    BY <1>2, <1>6, <2>1 DEF TypeOK
<1>9. /\ After(h)' = n /\ After(n)' = After(h)
      /\ \A g \in blocks : g # h => After(g)' = After(g)
      /\ \A g \in blocks : Magic(g)'
      /\ Magic(n)' /\ End' = End
  <2> h # n /\ \A g \in blocks : g # n /\ g \in Addr
    BY <1>2, <1>7 DEF TypeOK
  <2>1. length'[h] = n - h - HeaderSize /\ length'[n] = After(h) - n - HeaderSize
    BY <1>2, <1>6 DEF TypeOK
  <2>2. After(h)' = n /\ After(n)' = After(h)
    BY <1>2, <1>4, <2>1 DEF After
  <2>3. \A g \in blocks : g # h => After(g)' = After(g)
    BY DEF TypeOK, After
  <2>4. \A g \in blocks : Magic(g)'
    BY DEF Magic, Data, Tiled, ForwardLinked
  <2> QED
    BY <2>2, <2>3, <2>4 DEF Magic, End, object
<1>10. RootLinked' /\ Apart' /\ Placed'
  <2>1. RootLinked' /\ Placed'
    BY DEF Data, Tiled, RootLinked, Placed, object
  <2>2. \A g \in blocks : After(g) \in Nat /\ g \in Nat /\ g < After(g)
    BY DEF After, TypeOK
  <2>3. Apart'
    BY <1>2, <1>4, <1>7, <1>9, <2>2 DEF Data, Tiled, Apart
  <2> QED
    BY <2>1, <2>3
<1>11. ForwardLinked'
  <2>1. /\ next'[h] = n /\ next'[n] = next[h]
        /\ \A g \in blocks : g # h => next'[g] = next[g]
    BY <1>2, <1>6, <1>7 DEF TypeOK
  <2>2. m_base' = m_base
    BY DEF object
  <2>3. End \in Nat /\ m_base \in Nat
    BY DEF End, TypeOK
  <2>4. n # End
    BY <1>4, <1>5, <2>3
  <2> SUFFICES ASSUME NEW g \in blocks'
               PROVE  /\ m_base <= g /\ After(g)' <= End /\ Magic(g)'
                      /\ next'[g] = IF After(g)' = End THEN NULL ELSE After(g)'
                      /\ next'[g] # NULL => next'[g] \in blocks'
    BY <1>9, <2>2 DEF ForwardLinked
  <2>6. CASE g = h
    BY <1>4, <1>5, <1>9, <2>1, <2>3, <2>4, <2>6
  <2>7. CASE g = n
    BY <1>2, <1>4, <1>5, <1>9, <2>1, <2>3, <2>7 DEF Data, Tiled, ForwardLinked
  <2>8. CASE g \in blocks /\ g # h
    <3>1. /\ m_base <= g /\ After(g) <= End
          /\ next[g] = IF After(g) = End THEN NULL ELSE After(g)
          /\ next[g] # NULL => next[g] \in blocks
      BY <2>8 DEF Data, Tiled, ForwardLinked
    <3>2. After(g)' = After(g) /\ Magic(g)'
      BY <1>9, <2>8
    <3>3. next'[g] = next[g]
      BY <2>1, <2>8
    <3> QED
      BY <3>1, <3>2, <3>3
  <2> QED
    BY <2>6, <2>7, <2>8
<1>12. BackLinked'
  <2>1. prev'[n] = h /\ \A g \in blocks : prev'[g] = prev[g] /\ g # n
    BY <1>6, <1>7 DEF TypeOK
  <2>2. \A a \in Addr : flags[a] = {} => (a \in blocks' \/ flags'[a] = {})
    BY DEF TypeOK
  <2>3. n # m_base /\ m_base' = m_base
    BY <1>2, <1>5 DEF object, TypeOK
  <2> SUFFICES ASSUME NEW g \in blocks'
               PROVE  /\ prev'[g] = NULL <=> g = m_base
                      /\ prev'[g] # NULL =>
                           /\ prev'[g] < g
                           /\ prev'[g] \in blocks' \/ flags'[prev'[g]] = {}
    BY <2>3 DEF BackLinked
  <2>4. CASE g = n
    BY <1>2, <2>1, <2>3, <2>4
  <2>5. CASE g \in blocks
    BY <2>1, <2>2, <2>5 DEF TypeOK, Data, BackLinked
  <2> QED
    BY <2>4, <2>5
<1> QED
  BY <1>6, <1>7, <1>8, <1>10, <1>11, <1>12 DEF Tiled

(* Cutting the end of a free block off, when the cut lies inside it. *)
LEMMA CutEndInv ==
  ASSUME HeapInv, pc # "corrupt", NEW h \in blocks, ~Used(h),
         NEW sz \in Nat, sz + HeaderSize <= length[h], CutEnd(h, sz)
  PROVE  HeapInv'
<1> USE AddrNat
<1> DEFINE n == h + HeaderSize + sz
<1>1. Data /\ TypeOK
  BY DEF HeapInv, Data
<1>2. h \in Addr /\ h \in Nat /\ length[h] \in Nat /\ flags[h] \in SUBSET Flags
  BY <1>1 DEF TypeOK
<1>3. /\ flags' = [flags EXCEPT ![h] = @ \cup {"ALLOC"}, ![n] = {"MAGIC"}]
      /\ length' = [length EXCEPT ![h] = sz, ![n] = length[h] - sz - HeaderSize]
      /\ prev' = [prev EXCEPT ![n] = h]
      /\ next' = [next EXCEPT ![h] = n, ![n] = next[h]]
      /\ blocks' = blocks \cup {n}
      /\ live' = live \cup {Block(h, sz)}
      /\ Return /\ UNCHANGED object
  BY DEF CutEnd
<1>4. /\ n \in Nat /\ h + HeaderSize <= n /\ n + HeaderSize <= After(h)
      /\ sz = n - h - HeaderSize
      /\ length[h] - sz - HeaderSize = After(h) - n - HeaderSize
  BY <1>2 DEF After
<1>5. flags' \in [Addr -> SUBSET Flags]
  BY <1>1, <1>2, <1>3 DEF TypeOK, Flags
<1>6. /\ \A a \in Addr : a # h /\ a # n => flags'[a] = flags[a]
      /\ "MAGIC" \in flags'[h] /\ h # n
  BY <1>1, <1>2, <1>3, <1>4 DEF TypeOK, Data, Tiled, ForwardLinked, Magic
<1>7. n \in Addr
  <2>1. m_size # 0 /\ m_base <= h /\ After(h) <= End
    BY <1>1 DEF Data, Tiled, RootLinked, ForwardLinked
  <2>2. m_base <= n /\ n < End
    BY <1>1, <1>2, <1>4, <2>1 DEF TypeOK, After, End
  <2> QED
    BY <1>1, <1>4, <2>1, <2>2, RegionInAddr DEF Data
<1>8. "MAGIC" \in flags'[n]
  BY <1>1, <1>3, <1>6, <1>7 DEF TypeOK
<1> HIDE DEF n
<1>9. length' = [length EXCEPT ![h] = n - h - HeaderSize,
                               ![n] = After(h) - n - HeaderSize]
  BY <1>3, <1>4
<1>10. /\ n \in Addr /\ n \notin blocks
       /\ length' \in [Addr -> Nat]
       /\ prev' \in [Addr -> Addr \cup {NULL}]
       /\ next' \in [Addr -> Addr \cup {NULL}]
       /\ Placed' /\ Tiled' /\ BackLinked'
  BY <1>1, <1>3, <1>4, <1>5, <1>6, <1>8, <1>9, Split
<1>11. TypeOK'
  <2>1. live' \subseteq [ptr : Nat, size : Nat]
    BY <1>1, <1>2, <1>3 DEF TypeOK, Block
  <2> QED
    BY <1>1, <1>3, <1>5, <1>10, <2>1 DEF TypeOK, Return, Leave, object
<1>12. HeadersMatchClients'
  <2>1. \A a \in Addr : Used(a)' <=> (Used(a) /\ a # n) \/ a = h
    BY <1>1, <1>2, <1>3, <1>6 DEF TypeOK, Used
  <2>2. ~Used(n)
    BY <1>1, <1>10 DEF Data, HeadersMatchClients
  <2>3. \A a \in Addr : a # h /\ a # n => length'[a] = length[a]
    BY <1>1, <1>3 DEF TypeOK
  <2>4. length'[h] = sz
    BY <1>1, <1>2, <1>3, <1>6 DEF TypeOK
  <2> QED
    BY <1>1, <1>2, <1>3, <1>10, <2>1, <2>2, <2>3, <2>4
    DEF TypeOK, Data, HeadersMatchClients, Block
<1>13. Control'
  BY <1>3, ControlAfterTake
<1> QED
  BY <1>10, <1>11, <1>12, <1>13 DEF HeapInv, Data, Control

-----------------------------------------------------------------------------
(* allocAligned: the padding in front of the block becomes a free block.   *)

(* The client gets everything behind the padding. *)
LEMMA AlignedTailInv ==
  ASSUME HeapInv, AlignedTail
  PROVE  HeapInv'
<1> USE AddrNat
<1>0. PICK h, n : h = hdr /\ n = nextAligned - HeaderSize
  OBVIOUS
<1>1. Data /\ TypeOK /\ h \in blocks /\ ~Used(h) /\ pc = "aligned"
  BY <1>0 DEF HeapInv, Data, AlignedTail, Candidate, AlignedAt, CursorLinked, Scanning
<1>2. h \in Addr /\ h \in Nat /\ length[h] \in Nat /\ nextAligned \in Nat /\ size \in Nat
  BY <1>1 DEF TypeOK
<1>3. /\ nextAligned - (h + HeaderSize) >= HeaderSize
      /\ length[h] - (nextAligned - (h + HeaderSize)) = size
  BY <1>0 DEF AlignedTail, padSize, actualSize
<1>4. /\ n \in Nat /\ h + HeaderSize <= n /\ n + HeaderSize <= After(h)
      /\ nextAligned - (h + HeaderSize) - HeaderSize = n - h - HeaderSize
      /\ size = After(h) - n - HeaderSize
      /\ n # h
  BY <1>0, <1>2, <1>3 DEF After
<1>5. /\ flags' = [flags EXCEPT ![n] = {"MAGIC", "ALLOC"}]
      /\ length' = [length EXCEPT ![h] = nextAligned - (h + HeaderSize) - HeaderSize,
                                  ![n] = size]
      /\ prev' = [prev EXCEPT ![n] = h]
      /\ next' = [next EXCEPT ![h] = n, ![n] = next[h]]
      /\ blocks' = blocks \cup {n}
      /\ live' = live \cup {Block(n, size)}
      /\ Return /\ UNCHANGED object
  BY <1>0 DEF AlignedTail, padSize
<1>6. flags' \in [Addr -> SUBSET Flags]
  BY <1>1, <1>5 DEF TypeOK, Flags
<1>7. n \in Addr
  <2>1. m_size # 0 /\ m_base <= h /\ After(h) <= End
    BY <1>1 DEF Data, Tiled, RootLinked, ForwardLinked
  <2>2. m_base <= n /\ n < End
    BY <1>1, <1>2, <1>4, <2>1 DEF TypeOK, After, End
  <2> QED
    BY <1>1, <1>4, <2>1, <2>2, RegionInAddr DEF Data
<1>8. /\ \A a \in Addr : a # n => flags'[a] = flags[a]
      /\ flags'[n] = {"MAGIC", "ALLOC"} /\ "MAGIC" \in flags'[h]
  BY <1>1, <1>2, <1>4, <1>5, <1>7 DEF TypeOK, Data, Tiled, ForwardLinked, Magic
<1>9. length' = [length EXCEPT ![h] = n - h - HeaderSize,
                               ![n] = After(h) - n - HeaderSize]
  BY <1>4, <1>5
<1>10. /\ n \in Addr /\ n \notin blocks
       /\ length' \in [Addr -> Nat]
       /\ prev' \in [Addr -> Addr \cup {NULL}]
       /\ next' \in [Addr -> Addr \cup {NULL}]
       /\ Placed' /\ Tiled' /\ BackLinked'
  BY <1>1, <1>4, <1>5, <1>6, <1>8, <1>9, Split
<1>11. TypeOK'
  <2>1. live' \subseteq [ptr : Nat, size : Nat]
    BY <1>1, <1>2, <1>4, <1>5 DEF TypeOK, Block
  <2> QED
    BY <1>1, <1>5, <1>6, <1>10, <2>1 DEF TypeOK, Return, Leave, object
<1>12. HeadersMatchClients'
  <2>1. \A a \in Addr : Used(a)' <=> Used(a) \/ a = n
    BY <1>8 DEF Used
  <2>2. ~Used(n)
    BY <1>1, <1>10 DEF Data, HeadersMatchClients
  <2>3. \A a \in Addr : a # h /\ a # n => length'[a] = length[a]
    BY <1>1, <1>5 DEF TypeOK
  <2>4. length'[n] = size
    BY <1>1, <1>5, <1>7 DEF TypeOK
  <2> QED
    BY <1>1, <1>2, <1>5, <1>10, <2>1, <2>2, <2>3, <2>4
    DEF TypeOK, Data, HeadersMatchClients, Block
<1>13. Control'
  BY <1>5, ControlAfterTake
<1> QED
  BY <1>10, <1>11, <1>12, <1>13 DEF HeapInv, Data, Control

(* The client gets the middle; the padding and the end are free blocks. *)
LEMMA AlignedMiddleInv ==
  ASSUME HeapInv, AlignedMiddle, size + HeaderSize <= actualSize
  PROVE  HeapInv'
<1> USE AddrNat
<1>0. PICK h, n, m : /\ h = hdr /\ n = nextAligned - HeaderSize
                      /\ m = nextAligned + size
  OBVIOUS
<1>1. Data /\ TypeOK /\ h \in blocks /\ ~Used(h) /\ pc = "aligned"
  BY <1>0 DEF HeapInv, Data, AlignedMiddle, Candidate, AlignedAt, CursorLinked, Scanning
<1>2. h \in Addr /\ h \in Nat /\ length[h] \in Nat /\ nextAligned \in Nat /\ size \in Nat
  BY <1>1 DEF TypeOK
<1>3. /\ nextAligned - (h + HeaderSize) >= HeaderSize
      /\ size + HeaderSize <= length[h] - (nextAligned - (h + HeaderSize))
  BY <1>0 DEF AlignedMiddle, padSize, actualSize
<1>4. /\ n \in Nat /\ m \in Nat /\ After(h) \in Nat
      /\ h + HeaderSize <= n /\ n + HeaderSize <= m /\ m + HeaderSize <= After(h)
      /\ nextAligned - (h + HeaderSize) - HeaderSize = n - h - HeaderSize
      /\ size = m - n - HeaderSize
      /\ length[h] - (nextAligned - (h + HeaderSize)) - size - HeaderSize
           = After(h) - m - HeaderSize
      /\ n # h /\ m # h /\ n # m
  BY <1>0, <1>2, <1>3 DEF After
<1>5. /\ flags' = [flags EXCEPT ![n] = {"MAGIC", "ALLOC"}, ![m] = {"MAGIC"}]
      /\ length' = [length EXCEPT ![h] = n - h - HeaderSize,
                                  ![n] = m - n - HeaderSize,
                                  ![m] = After(h) - m - HeaderSize]
      /\ prev' = [prev EXCEPT ![n] = h, ![m] = n]
      /\ next' = [next EXCEPT ![h] = n, ![n] = m, ![m] = next[h]]
      /\ blocks' = blocks \cup {n, m}
      /\ live' = live \cup {Block(n, size)}
      /\ Return /\ UNCHANGED object
  BY <1>0, <1>4 DEF AlignedMiddle, padSize, actualSize
<1>6. m_size # 0 /\ m_base <= h /\ After(h) <= End /\ m_base \in Nat /\ End \in Nat
  BY <1>1 DEF Data, Tiled, RootLinked, ForwardLinked, TypeOK, End
<1>7. n \in Addr /\ m \in Addr
  <2>1. m_base <= n /\ n < End /\ m_base <= m /\ m < End
    BY <1>2, <1>4, <1>6
  <2> QED
    BY <1>1, <1>4, <1>6, <2>1, RegionInAddr DEF Data
<1>8. /\ n \notin blocks /\ m \notin blocks
      /\ \A g \in blocks : g # h => After(g) <= h \/ After(h) <= g
  BY <1>1, <1>2, <1>4 DEF Data, Tiled, Apart, After, TypeOK
<1>9. TypeOK'
  <2>1. flags' \in [Addr -> SUBSET Flags]
    BY <1>1, <1>5 DEF TypeOK, Flags
  <2>2. n - h - HeaderSize \in Nat /\ m - n - HeaderSize \in Nat
        /\ After(h) - m - HeaderSize \in Nat
    BY <1>2, <1>4
  <2>3. length' \in [Addr -> Nat]
    BY <1>1, <1>5, <2>2 DEF TypeOK
  <2>4. prev' \in [Addr -> Addr \cup {NULL}]
    BY <1>1, <1>2, <1>5, <1>7 DEF TypeOK
  <2>5. next' \in [Addr -> Addr \cup {NULL}]
    BY <1>1, <1>2, <1>5, <1>7 DEF TypeOK
  <2>6. live' \subseteq [ptr : Nat, size : Nat]
    BY <1>1, <1>2, <1>4, <1>5 DEF TypeOK, Block
  <2> QED
    BY <1>1, <1>5, <1>7, <2>1, <2>3, <2>4, <2>5, <2>6 DEF TypeOK, Return, Leave, object
<1>10. /\ \A a \in Addr : a # n /\ a # m => flags'[a] = flags[a]
       /\ flags'[n] = {"MAGIC", "ALLOC"} /\ flags'[m] = {"MAGIC"}
       /\ length'[h] = n - h - HeaderSize /\ length'[n] = size
       /\ length'[m] = After(h) - m - HeaderSize
       /\ \A a \in Addr : a # h /\ a # n /\ a # m => length'[a] = length[a]
       /\ next'[h] = n /\ next'[n] = m /\ next'[m] = next[h]
       /\ \A g \in blocks : g # h => next'[g] = next[g]
       /\ prev'[n] = h /\ prev'[m] = n
       /\ \A g \in blocks : prev'[g] = prev[g]
  <2>1. \A g \in blocks : g \in Addr
    BY <1>1 DEF TypeOK
  <2>2. /\ \A a \in Addr : a # n /\ a # m => flags'[a] = flags[a]
        /\ flags'[n] = {"MAGIC", "ALLOC"} /\ flags'[m] = {"MAGIC"}
    BY <1>1, <1>4, <1>5, <1>7 DEF TypeOK
  <2>3. /\ length'[h] = n - h - HeaderSize /\ length'[n] = size
        /\ length'[m] = After(h) - m - HeaderSize
        /\ \A a \in Addr : a # h /\ a # n /\ a # m => length'[a] = length[a]
    BY <1>1, <1>2, <1>4, <1>5, <1>7 DEF TypeOK
  <2>4. /\ next'[h] = n /\ next'[n] = m /\ next'[m] = next[h]
        /\ \A g \in blocks : g # h => next'[g] = next[g]
    BY <1>1, <1>2, <1>4, <1>5, <1>7, <1>8, <2>1 DEF TypeOK
  <2>5. prev'[n] = h /\ prev'[m] = n /\ \A g \in blocks : prev'[g] = prev[g]
    BY <1>1, <1>4, <1>5, <1>7, <1>8, <2>1 DEF TypeOK
  <2> QED
    BY <2>2, <2>3, <2>4, <2>5
<1>11. /\ After(h)' = n /\ After(n)' = m /\ After(m)' = After(h)
       /\ \A g \in blocks : g # h => After(g)' = After(g)
       /\ \A g \in blocks : Magic(g)'
       /\ Magic(n)' /\ Magic(m)' /\ End' = End /\ m_base' = m_base
  <2>1. After(h)' = n /\ After(n)' = m /\ After(m)' = After(h)
    BY <1>2, <1>4, <1>10 DEF After
  <2>2. \A g \in blocks : g # h => After(g)' = After(g)
    BY <1>1, <1>8, <1>10 DEF TypeOK, After
  <2>3. \A g \in blocks : Magic(g)'
    BY <1>1, <1>8, <1>10 DEF Magic, Data, Tiled, ForwardLinked, TypeOK
  <2> QED
    BY <1>5, <1>10, <2>1, <2>2, <2>3 DEF Magic, End, object
<1>12. RootLinked' /\ Placed' /\ Apart'
  <2>1. RootLinked' /\ Placed'
    BY <1>1, <1>5 DEF Data, Tiled, RootLinked, Placed, object
  <2>2. \A g \in blocks : After(g) \in Nat /\ g \in Nat /\ g < After(g)
    BY <1>1 DEF After, TypeOK
  <2>3. Apart'
    BY <1>1, <1>2, <1>4, <1>5, <1>8, <1>11, <2>2 DEF Data, Tiled, Apart
  <2> QED
    BY <2>1, <2>3
<1>13. ForwardLinked'
  <2> SUFFICES ASSUME NEW g \in blocks'
               PROVE  /\ m_base <= g /\ After(g)' <= End /\ Magic(g)'
                      /\ next'[g] = IF After(g)' = End THEN NULL ELSE After(g)'
                      /\ next'[g] # NULL => next'[g] \in blocks'
    BY <1>11 DEF ForwardLinked
  <2>1. CASE g = h
    BY <1>2, <1>4, <1>5, <1>6, <1>10, <1>11, <2>1
  <2>2. CASE g = n
    BY <1>2, <1>4, <1>5, <1>6, <1>10, <1>11, <2>2
  <2>3. CASE g = m
    BY <1>1, <1>2, <1>4, <1>5, <1>6, <1>10, <1>11, <2>3 DEF Data, Tiled, ForwardLinked
  <2>4. CASE g \in blocks /\ g # h
    <3>1. /\ m_base <= g /\ After(g) <= End
          /\ next[g] = IF After(g) = End THEN NULL ELSE After(g)
          /\ next[g] # NULL => next[g] \in blocks
      BY <1>1, <2>4 DEF Data, Tiled, ForwardLinked
    <3>2. After(g)' = After(g) /\ Magic(g)' /\ next'[g] = next[g]
      BY <1>10, <1>11, <2>4
    <3>3. blocks \subseteq blocks'
      BY <1>5
    <3> QED
      BY <3>1, <3>2, <3>3
  <2> QED
    BY <1>5, <2>1, <2>2, <2>3, <2>4
<1>14. HeadersMatchClients'
  <2>1. Used(n)' /\ ~Used(m)'
    BY <1>10 DEF Used
  <2>2. \A a \in Addr : a # n /\ a # m => (Used(a)' <=> Used(a))
    BY <1>10 DEF Used
  <2>3. ~Used(n) /\ ~Used(m)
    BY <1>1, <1>7, <1>8 DEF Data, HeadersMatchClients
  <2>4. ASSUME NEW b \in live'
        PROVE  \E a \in blocks' : Used(a)' /\ b = Block(a, length[a])'
    <3>1. CASE b = Block(n, size)
      BY <1>5, <1>10, <2>1, <3>1 DEF Block
    <3>2. CASE b \in live
      <4>1. PICK a \in blocks : Used(a) /\ b = Block(a, length[a])
        BY <1>1, <3>2 DEF Data, HeadersMatchClients
      <4>2. a \in Addr /\ a \in blocks' /\ a # n /\ a # m /\ a # h
        BY <1>1, <1>5, <2>3, <4>1 DEF TypeOK
      <4>3. Used(a)' /\ length'[a] = length[a]
        BY <1>10, <2>2, <4>1, <4>2
      <4> QED
        BY <4>1, <4>2, <4>3 DEF Block
    <3> QED
      BY <1>5, <2>4, <3>1, <3>2
  <2>5. ASSUME NEW a \in Addr, Used(a)'
        PROVE  a \in blocks' /\ Block(a, length[a])' \in live'
    <3>1. CASE a = n
      BY <1>5, <1>10, <3>1 DEF Block
    <3>2. CASE a # n
      <4>1. a # m /\ Used(a)
        BY <2>1, <2>2, <2>5, <3>2
      <4>2. a # h /\ a \in blocks /\ Block(a, length[a]) \in live
        BY <1>1, <4>1 DEF Data, HeadersMatchClients
      <4> QED
        BY <1>5, <1>10, <3>2, <4>1, <4>2 DEF Block
    <3> QED
      BY <3>1, <3>2
  <2> QED
    BY <2>4, <2>5 DEF HeadersMatchClients
<1>15. BackLinked'
  <2>1. \A a \in Addr : flags[a] = {} => (a \in blocks' \/ flags'[a] = {})
    BY <1>5, <1>10
  <2> SUFFICES ASSUME NEW g \in blocks'
               PROVE  /\ prev'[g] = NULL <=> g = m_base
                      /\ prev'[g] # NULL =>
                           /\ prev'[g] < g
                           /\ prev'[g] \in blocks' \/ flags'[prev'[g]] = {}
    BY <1>11 DEF BackLinked
  <2>2. CASE g = n \/ g = m
    <3>1. m_base < n /\ m_base < m /\ h < n /\ n < m
      BY <1>2, <1>4, <1>6
    <3>2. n # m_base /\ m # m_base /\ h # NULL /\ n # NULL
      BY <1>2, <1>4, <1>6, <1>7
    <3>3. h \in blocks' /\ n \in blocks'
      BY <1>1, <1>5
    <3> QED
      BY <1>10, <2>2, <3>1, <3>2, <3>3
  <2>3. CASE g \in blocks
    <3>1. prev'[g] = prev[g] /\ blocks \subseteq blocks'
      BY <1>5, <1>10, <2>3
    <3>2. /\ prev[g] = NULL <=> g = m_base
          /\ prev[g] # NULL =>
               prev[g] < g /\ (prev[g] \in blocks \/ flags[prev[g]] = {})
          /\ prev[g] # NULL => prev[g] \in Addr
      BY <1>1, <2>3 DEF TypeOK, Data, BackLinked
    <3> QED
      BY <2>1, <3>1, <3>2
  <2> QED
    BY <1>5, <2>2, <2>3
<1>16. Control'
  BY <1>5, ControlAfterTake
<1> QED
  BY <1>9, <1>12, <1>13, <1>14, <1>15, <1>16 DEF HeapInv, Data, Control, Tiled

-----------------------------------------------------------------------------
(* Cuts that leave the block: the model stops, so only types matter.       *)

(* After a cut outside its block (CutEnd, AlignedMiddle) the types hold. *)
LEMMA CorruptInv ==
  ASSUME HeapInv, NEW b \in [ptr : Nat, size : Nat], live' = live \cup {b},
         Leave("corrupt"), UNCHANGED <<memory, object, blocks>>
  PROVE  HeapInv'
<1>1. live' \subseteq [ptr : Nat, size : Nat]
  BY DEF HeapInv, TypeOK
<1>2. TypeOK'
  BY <1>1 DEF HeapInv, TypeOK, Leave, Stopped, memory, object
<1> QED
  BY <1>2 DEF HeapInv, Leave

-----------------------------------------------------------------------------
(* free.                                                                   *)

(* The block is given back: its header stays, without HF_ALLOC. *)
LEMMA ClearUsedInv ==
  ASSUME HeapInv, NEW h \in Addr, Used(h), ClearUsed(h)
  PROVE  HeapInv'
<1> USE AddrNat
<1>1. Data /\ TypeOK /\ pc = "idle"
  BY DEF HeapInv, Data, ClearUsed, Enter
<1>2. h \in blocks /\ flags[h] \in SUBSET Flags
  BY <1>1 DEF Data, HeadersMatchClients, TypeOK
<1>3. TypeOK'
  <2>1. flags' \in [Addr -> SUBSET Flags]
    BY <1>1, <1>2 DEF TypeOK, ClearUsed, Flags
  <2> QED
    BY <1>1, <2>1 DEF TypeOK, ClearUsed, Enter, Freeing, object
<1>4. Placed' /\ Tiled'
  <2>1. \A a \in blocks : Magic(a)'
    BY <1>1, <1>2 DEF TypeOK, ClearUsed, Data, Tiled, ForwardLinked, Magic
  <2> QED
    BY <1>1, <2>1 DEF ClearUsed, Data, Placed, Tiled, RootLinked, ForwardLinked,
                      Apart, After, End, object
<1>5. \A a \in Addr : Used(a)' <=> (Used(a) /\ a # h)
  BY <1>1, <1>2 DEF TypeOK, ClearUsed, Used
<1>6. HeadersMatchClients'
  <2>1. \A a, c \in blocks : a + HeaderSize = c + HeaderSize => a = c
    BY <1>1 DEF TypeOK
  <2>2. \A a \in Addr : length'[a] = length[a]
    BY DEF ClearUsed
  <2>3. ASSUME NEW b \in live'
        PROVE  \E a \in blocks' : Used(a)' /\ b = Block(a, length[a])'
    <3>1. b \in live /\ b.ptr # h + HeaderSize
      BY <2>3 DEF ClearUsed
    <3>2. PICK a \in blocks : Used(a) /\ b = Block(a, length[a])
      BY <1>1, <3>1 DEF Data, HeadersMatchClients
    <3>3. a # h
      BY <3>1, <3>2 DEF Block
    <3>4. a \in Addr /\ a \in blocks'
      BY <1>1 DEF TypeOK, ClearUsed
    <3> QED
      BY <1>5, <2>2, <3>2, <3>3, <3>4 DEF Block
  <2>4. ASSUME NEW a \in Addr, Used(a)'
        PROVE  a \in blocks' /\ Block(a, length[a])' \in live'
    <3>1. Used(a) /\ a # h /\ a \in blocks /\ Block(a, length[a]) \in live
      BY <1>1, <1>5, <2>4 DEF Data, HeadersMatchClients
    <3>2. Block(a, length[a]).ptr # h + HeaderSize
      BY <1>2, <2>1, <3>1 DEF Block
    <3> QED
      BY <2>2, <3>1, <3>2 DEF ClearUsed, Block
  <2> QED
    BY <2>3, <2>4 DEF HeadersMatchClients
<1>7. BackLinked'
  BY <1>1, <1>2 DEF TypeOK, ClearUsed, Data, BackLinked, object
<1>8. Control'
  BY <1>2, <1>5 DEF ClearUsed, Enter, Control, CursorLinked, ScanSound,
                    OneWhenFree, Scanning, Freeing
<1> QED
  BY <1>3, <1>4, <1>6, <1>7, <1>8 DEF HeapInv, Data, Control

(* A step of the first loop moves to a header that is still there. *)
LEMMA WalkInv ==
  ASSUME HeapInv, WalkBack \/ WalkStop
  PROVE  HeapInv'
<1> USE AddrNat
<1>1. Data /\ Control /\ TypeOK /\ pc = "back"
  BY DEF HeapInv, Data, Control, WalkBack, WalkStop
<1>2. hdr \in blocks /\ ~Used(hdr)
  BY <1>1 DEF Control, CursorLinked, Freeing
<1>3. UNCHANGED <<memory, object, history>>
  BY DEF WalkBack, WalkStop
<1>4. Data'
  BY <1>1, <1>3, DataUnchanged
<1>5. CASE WalkBack
  <2>1. prev[hdr] \in blocks /\ ~Used(prev[hdr]) /\ hdr' = prev[hdr] /\ pc' = "back"
    BY <1>1, <1>2, <1>5 DEF WalkBack, Data, BackLinked, Magic
  <2>2. TypeOK'
    BY <1>1, <1>3, <1>5, <2>1 DEF TypeOK, WalkBack, memory, object, history
  <2>3. Control'
    BY <1>3, <2>1 DEF Control, CursorLinked, ScanSound, OneWhenFree, Scanning,
                      Freeing, Used, memory, history
  <2> QED
    BY <1>4, <2>2, <2>3 DEF HeapInv, Data, Control
<1>6. CASE WalkStop
  <2>1. hdr' = hdr /\ pc' = "merge"
    BY <1>6 DEF WalkStop, locals
  <2>2. TypeOK'
    BY <1>1, <1>3, <1>6, <2>1 DEF TypeOK, WalkStop, Freeing, locals, memory, object, history
  <2>3. live = {} => hdr = m_base
    <3>1. SUFFICES ASSUME live = {}, prev[hdr] # NULL PROVE FALSE
      BY <1>1, <1>2 DEF Data, BackLinked
    <3>2. Used(prev[hdr]) /\ prev[hdr] \in Addr
      BY <1>1, <1>2, <1>6, <3>1 DEF WalkStop, TypeOK
    <3> QED
      BY <1>1, <3>1, <3>2 DEF Data, HeadersMatchClients
  <2>4. Control'
    BY <1>2, <1>3, <2>1, <2>3 DEF Control, CursorLinked, ScanSound, OneWhenFree,
                                  Scanning, Freeing, Used, memory, object, history
  <2> QED
    BY <1>4, <2>2, <2>4 DEF HeapInv, Data, Control
<1> QED
  BY <1>5, <1>6

(* The last step: nothing free is left behind hdr. *)
LEMMA MergeStopInv ==
  ASSUME HeapInv, MergeStop
  PROVE  HeapInv'
<1> USE AddrNat
<1>1. Data /\ Control /\ TypeOK /\ pc = "merge" /\ hdr \in blocks
  BY DEF HeapInv, Data, Control, MergeStop, CursorLinked, Freeing
<1>2. TypeOK'
  BY <1>1 DEF MergeStop, TypeOK, Return, Leave, memory, object, history
<1>3. Data'
  BY <1>1, DataUnchanged DEF MergeStop
<1>4. live = {} => blocks \subseteq {m_base}
  <2> SUFFICES ASSUME live = {} PROVE blocks \subseteq {m_base}
    OBVIOUS
  <2>1. hdr = m_base
    BY <1>1 DEF Control, OneWhenFree
  <2>2. next[hdr] = NULL
    BY <1>1 DEF MergeStop, Data, HeadersMatchClients, TypeOK
  <2>3. \A g \in blocks : g <= hdr /\ m_base <= g
    BY <1>1, <2>2, LastIsLast DEF Data, Tiled, ForwardLinked
  <2> QED
    BY <1>1, <2>1, <2>3 DEF TypeOK
<1>5. Control'
  BY <1>4 DEF MergeStop, Return, Leave, Control, CursorLinked, ScanSound,
              OneWhenFree, Scanning, Freeing, object, history
<1> QED
  BY <1>2, <1>3, <1>5 DEF HeapInv, Data, Control

(* A step of the second loop swallows the free header that follows hdr. *)
LEMMA MergeNextInv ==
  ASSUME HeapInv, MergeNext
  PROVE  HeapInv'
<1> USE AddrNat
<1>0. PICK h, n, m : h = hdr /\ n = next[hdr] /\ m = next[n]
  OBVIOUS
<1>1. Data /\ Control /\ TypeOK /\ pc = "merge" /\ h \in blocks /\ ~Used(h)
  BY <1>0 DEF HeapInv, Data, Control, MergeNext, CursorLinked, Freeing
<1>2. /\ n # NULL /\ n = After(h) /\ n \in blocks /\ h < n
      /\ \A g \in blocks : g < n => g <= h
  BY <1>0, <1>1, NextFollows DEF MergeNext, Data
<1>3. Magic(n) /\ ~Used(n)
  BY <1>0, <1>1, <1>2 DEF MergeNext, Data, Tiled, ForwardLinked
<1>4. /\ flags' = [flags EXCEPT ![n] = {}]
      /\ length' = [length EXCEPT ![h] = @ + HeaderSize + length[n], ![n] = 0]
      /\ next' = [next EXCEPT ![h] = m, ![n] = NULL]
      /\ prev' = [a \in Addr |-> IF a = n THEN NULL ELSE IF a = m THEN h ELSE prev[a]]
      /\ blocks' = blocks \ {n}
      /\ UNCHANGED <<object, pc, locals, live>>
  BY <1>0, <1>3 DEF MergeNext
<1>5. h \in Addr /\ n \in Addr /\ length[h] \in Nat /\ length[n] \in Nat
  BY <1>1, <1>2 DEF TypeOK
<1>6. m \in Addr \cup {NULL} /\ (m # NULL => m \in blocks /\ n < m /\ m = After(n))
  BY <1>0, <1>1, <1>2, <1>5, NextFollows DEF TypeOK, Data
<1>7. TypeOK'
  <2>1. flags' \in [Addr -> SUBSET Flags]
    BY <1>1, <1>4 DEF TypeOK
  <2>2. length' \in [Addr -> Nat]
    BY <1>1, <1>4, <1>5 DEF TypeOK
  <2>3. next' \in [Addr -> Addr \cup {NULL}] /\ prev' \in [Addr -> Addr \cup {NULL}]
    BY <1>1, <1>4, <1>5, <1>6 DEF TypeOK
  <2> QED
    BY <1>1, <1>4, <2>1, <2>2, <2>3 DEF TypeOK, object, locals
<1>8. /\ After(h)' = After(n) /\ End' = End /\ m_base' = m_base /\ m_size' = m_size
      /\ \A g \in blocks : g # h /\ g # n => After(g)' = After(g)
      /\ \A g \in blocks : g # n => Magic(g)'
      /\ \A g \in blocks : g # h /\ g # n => next'[g] = next[g]
      /\ next'[h] = m
  <2>1. After(h)' = After(n)
    BY <1>1, <1>2, <1>4, <1>5 DEF TypeOK, After
  <2>2. \A g \in blocks : g # h /\ g # n => After(g)' = After(g)
    BY <1>1, <1>4 DEF TypeOK, After
  <2>3. \A g \in blocks : g # n => Magic(g)'
    BY <1>1, <1>4 DEF TypeOK, Magic, Data, Tiled, ForwardLinked
  <2>4. /\ \A g \in blocks : g # h /\ g # n => next'[g] = next[g]
        /\ next'[h] = m
    BY <1>1, <1>2, <1>4, <1>5 DEF TypeOK
  <2> QED
    BY <1>4, <2>1, <2>2, <2>3, <2>4 DEF End, object
<1>9. m_base <= h /\ m_base \in Nat
  BY <1>1 DEF Data, Tiled, ForwardLinked, TypeOK
<1>10. RootLinked' /\ Placed' /\ Apart'
  <2>1. n # m_base
    BY <1>2, <1>5, <1>9
  <2>2. RootLinked' /\ Placed'
    BY <1>1, <1>4, <1>8, <2>1 DEF Data, Tiled, RootLinked, Placed
  <2>3. \A g \in blocks : After(g) \in Nat /\ g \in Nat /\ g < After(g)
    BY <1>1 DEF After, TypeOK
  <2>4. Apart'
    BY <1>1, <1>2, <1>4, <1>8, <2>3 DEF Data, Tiled, Apart
  <2> QED
    BY <2>2, <2>4
<1>11. ForwardLinked'
  <2> SUFFICES ASSUME NEW g \in blocks'
               PROVE  /\ m_base <= g /\ After(g)' <= End /\ Magic(g)'
                      /\ next'[g] = IF After(g)' = End THEN NULL ELSE After(g)'
                      /\ next'[g] # NULL => next'[g] \in blocks'
    BY <1>8 DEF ForwardLinked
  <2> g \in blocks /\ g # n
    BY <1>4
  <2>1. CASE g = h
    <3>1. /\ After(n) <= End
          /\ next[n] = IF After(n) = End THEN NULL ELSE After(n)
      BY <1>1, <1>2 DEF Data, Tiled, ForwardLinked
    <3>2. m = next[n]
      BY <1>0
    <3>3. m # NULL => m \in blocks'
      BY <1>4, <1>5, <1>6
    <3> QED
      BY <1>8, <1>9, <2>1, <3>1, <3>2, <3>3
  <2>2. CASE g # h
    <3>1. /\ m_base <= g /\ After(g) <= End
          /\ next[g] = IF After(g) = End THEN NULL ELSE After(g)
          /\ next[g] # NULL => next[g] \in blocks
      BY <1>1 DEF Data, Tiled, ForwardLinked
    <3>2. After(g)' = After(g) /\ Magic(g)' /\ next'[g] = next[g]
      BY <1>8, <2>2
    <3>3. next[g] # n
      BY <1>1, <1>2, <2>2, <3>1, NextFollows DEF Data, Tiled, Apart, After, TypeOK
    <3> QED
      BY <1>4, <3>1, <3>2, <3>3
  <2> QED
    BY <2>1, <2>2
<1>12. HeadersMatchClients'
  <2>1. \A a \in Addr : Used(a)' <=> Used(a)
    BY <1>1, <1>3, <1>4 DEF TypeOK, Used
  <2>2. \A a \in Addr : Used(a) => length'[a] = length[a] /\ a # n /\ a # h
    BY <1>1, <1>3, <1>4 DEF TypeOK
  <2>3. ASSUME NEW b \in live'
        PROVE  \E a \in blocks' : Used(a)' /\ b = Block(a, length[a])'
    <3>1. PICK a \in blocks : Used(a) /\ b = Block(a, length[a])
      BY <1>1, <1>4, <2>3 DEF Data, HeadersMatchClients
    <3>2. a \in Addr
      BY <1>1 DEF TypeOK
    <3> QED
      BY <1>4, <2>1, <2>2, <3>1, <3>2 DEF Block
  <2>4. ASSUME NEW a \in Addr, Used(a)'
        PROVE  a \in blocks' /\ Block(a, length[a])' \in live'
    <3>1. Used(a) /\ a # n /\ length'[a] = length[a]
      BY <2>1, <2>2, <2>4
    <3>2. a \in blocks /\ Block(a, length[a]) \in live
      BY <1>1, <3>1 DEF Data, HeadersMatchClients
    <3> QED
      BY <1>4, <3>1, <3>2 DEF Block
  <2> QED
    BY <2>3, <2>4 DEF HeadersMatchClients
<1>13. BackLinked'
  <2>1. \A a \in Addr : a \in blocks \/ flags[a] = {} => (a \in blocks' \/ flags'[a] = {})
    BY <1>1, <1>4, <1>5 DEF TypeOK
  <2> SUFFICES ASSUME NEW g \in blocks, g # n
               PROVE  /\ prev'[g] = NULL <=> g = m_base
                      /\ prev'[g] # NULL =>
                           /\ prev'[g] < g
                           /\ prev'[g] \in blocks' \/ flags'[prev'[g]] = {}
    BY <1>4, <1>8 DEF BackLinked
  <2>2. g \in Addr /\ m_base # NULL
    BY <1>1, <1>9 DEF TypeOK, Data, Tiled, RootLinked
  <2>3. CASE g = m
    <3>1. prev'[g] = h /\ h \in blocks'
      BY <1>1, <1>2, <1>4, <1>5, <2>2, <2>3
    <3>2. h < g /\ h # NULL /\ g # m_base
      BY <1>2, <1>5, <1>6, <1>9, <2>2, <2>3
    <3> QED
      BY <3>1, <3>2
  <2>4. CASE g # m
    <3>1. prev'[g] = prev[g]
      BY <1>4, <2>2, <2>4
    <3>2. /\ prev[g] = NULL <=> g = m_base
          /\ prev[g] # NULL =>
               prev[g] < g /\ (prev[g] \in blocks \/ flags[prev[g]] = {})
          /\ prev[g] # NULL => prev[g] \in Addr
      BY <1>1, <2>2 DEF TypeOK, Data, BackLinked
    <3> QED
      BY <2>1, <3>1, <3>2
  <2> QED
    BY <2>3, <2>4
<1>14. Control'
  <2>1. ~Used(h)' /\ h \in blocks' /\ hdr' = h /\ pc' = "merge"
    BY <1>0, <1>1, <1>2, <1>4, <1>5 DEF TypeOK, Used, locals
  <2> QED
    BY <1>0, <1>1, <1>4, <1>8, <2>1 DEF Control, CursorLinked, ScanSound,
                                        OneWhenFree, Scanning, Freeing, Used
<1> QED
  BY <1>7, <1>10, <1>11, <1>12, <1>13, <1>14 DEF HeapInv, Data, Control, Tiled

-----------------------------------------------------------------------------
(* reset, and the loops that look for a block.                             *)

(* The new root header is the only block of the heap. *)
LEMMA PlaceRootInv ==
  ASSUME HeapInv, NEW r \in Regions, PlaceRoot(r)
  PROVE  HeapInv'
<1> USE AddrNat
<1>1. TypeOK /\ Data /\ ScanSound /\ pc = "reset" /\ hdr = NULL
  BY DEF HeapInv, Data, PlaceRoot
<1>2. /\ r.base \in Nat \ {0} /\ r.size \in Nat /\ r.size >= HeaderSize
      /\ r.base \in Addr
  BY RegionsAssumption DEF Addr
<1>3. /\ m_base' = r.base /\ m_size' = r.size /\ blocks' = {r.base} /\ live' = {}
      /\ Return
  BY DEF PlaceRoot
<1>4. TypeOK'
  <2>1. flags' \in [Addr -> SUBSET Flags]
    BY <1>1, <1>2 DEF TypeOK, PlaceRoot, Flags
  <2>2. length' \in [Addr -> Nat]
    BY <1>1, <1>2 DEF TypeOK, PlaceRoot
  <2>3. prev' \in [Addr -> Addr \cup {NULL}] /\ next' \in [Addr -> Addr \cup {NULL}]
    BY <1>1 DEF TypeOK, PlaceRoot
  <2> QED
    BY <1>2, <1>3, <2>1, <2>2, <2>3 DEF TypeOK, Return, Leave
<1>5. /\ flags'[r.base] = {"MAGIC"} /\ length'[r.base] = r.size - HeaderSize
      /\ prev'[r.base] = NULL /\ next'[r.base] = NULL
  BY <1>1, <1>2 DEF TypeOK, PlaceRoot
<1>6. Placed' /\ Tiled'
  <2>1. Placed' /\ RootLinked' /\ Apart'
    BY <1>2, <1>3 DEF Placed, RootLinked, Apart
  <2>2. ForwardLinked'
    BY <1>2, <1>3, <1>5 DEF ForwardLinked, After, End, Magic
  <2> QED
    BY <2>1, <2>2 DEF Tiled
<1>7. HeadersMatchClients'
  <2>1. \A a \in Addr : ~Used(a)
    BY <1>1 DEF Data, HeadersMatchClients, ScanSound
  <2>2. \A a \in Addr : ~Used(a)'
    BY <1>1, <1>2, <2>1 DEF PlaceRoot, TypeOK, Used
  <2> QED
    BY <1>3, <2>2 DEF HeadersMatchClients
<1>8. BackLinked'
  BY <1>3, <1>5 DEF BackLinked
<1>9. Control'
  BY <1>3 DEF Return, Leave, Control, CursorLinked, ScanSound, OneWhenFree,
              Scanning, Freeing
<1> QED
  BY <1>4, <1>6, <1>7, <1>8, <1>9 DEF HeapInv, Data, Control

(* A loop moves on to the next header. *)
LEMMA ScanNext ==
  ASSUME HeapInv, pc \in Scanning, hdr # NULL, UNCHANGED <<memory, object, pc, history>>,
         hdr' = next[hdr], size' = size, align' = align, nextAligned' \in Nat,
         pc \in {"alloc", "new"} => ~Fits(hdr),
         pc = "reset" => ~Used(hdr),
         pc = "aligned" /\ hdr' # NULL => nextAligned' >= hdr' + HeaderSize
  PROVE  HeapInv'
<1> USE AddrNat
<1>1. Data /\ Control /\ TypeOK /\ hdr \in blocks
  BY DEF HeapInv, Data, Control, CursorLinked, Scanning
<1>2. hdr' # NULL => hdr' \in blocks /\ \A g \in blocks : g < hdr' => g <= hdr
  BY <1>1, NextFollows DEF Data
<1>3. hdr' = NULL => \A g \in blocks : g <= hdr
  BY <1>1, LastIsLast DEF Data
<1>4. \A g \in blocks : hdr' = NULL \/ g < hdr' => g < hdr \/ g = hdr
  BY <1>1, <1>2, <1>3 DEF TypeOK
<1>5. TypeOK'
  BY <1>1 DEF TypeOK, memory, object, history
<1>6. Data'
  BY <1>1, DataUnchanged
<1>7. CursorLinked' /\ OneWhenFree'
  BY <1>1, <1>2 DEF Control, CursorLinked, OneWhenFree, Scanning, Freeing, object, history
<1>8. ScanSound'
  <2>1. \A g \in blocks : (Fits(g)' <=> Fits(g)) /\ (Used(g)' <=> Used(g))
    BY DEF Fits, Splittable, Word, Used, memory
  <2>2. blocks' = blocks /\ pc' = pc
    BY DEF history
  <2>3. pc \in {"alloc", "new"} =>
          \A g \in blocks : hdr' = NULL \/ g < hdr' => ~Fits(g)
    BY <1>1, <1>4 DEF Control, ScanSound
  <2>4. pc = "reset" =>
          \A g \in blocks : hdr' = NULL \/ g < hdr' => ~Used(g)
    BY <1>1, <1>4 DEF Control, ScanSound
  <2> QED
    BY <2>1, <2>2, <2>3, <2>4 DEF ScanSound
<1> QED
  BY <1>5, <1>6, <1>7, <1>8 DEF HeapInv, Data, Control

(* A loop starts at the root header. *)
LEMMA ScanStart ==
  ASSUME HeapInv, pc = "idle", pc' \in Scanning, UNCHANGED <<memory, object, history>>,
         hdr' = IF m_size = 0 THEN NULL ELSE m_base,
         size' \in Nat, align' \in Nat, nextAligned' \in Nat,
         pc' = "aligned" => align' > 0,
         pc' = "aligned" /\ hdr' # NULL => nextAligned' >= hdr' + HeaderSize
  PROVE  HeapInv'
<1> USE AddrNat
<1>1. Data /\ Control /\ TypeOK
  BY DEF HeapInv, Data, Control
<1>2. hdr' = NULL => blocks = {}
  BY <1>1, RegionsAssumption DEF Data, Placed, Tiled, RootLinked
<1>3. hdr' # NULL => hdr' \in blocks /\ \A g \in blocks : ~(g < hdr')
  BY <1>1 DEF Data, Placed, Tiled, RootLinked, ForwardLinked, TypeOK
<1>4. TypeOK'
  BY <1>1, <1>3 DEF TypeOK, memory, object, history
<1>5. Data'
  BY <1>1, DataUnchanged
<1>6. CursorLinked' /\ OneWhenFree'
  BY <1>1, <1>3 DEF Control, CursorLinked, OneWhenFree, Scanning, Freeing, object, history
<1>7. ScanSound'
  BY <1>2, <1>3 DEF ScanSound, history
<1> QED
  BY <1>4, <1>5, <1>6, <1>7 DEF HeapInv, Data, Control

(* An uninitialised heap has a NULL root. *)
LEMMA RootOrNull ==
  ASSUME Placed
  PROVE  /\ m_base = IF m_size = 0 THEN NULL ELSE m_base
         /\ (IF m_size # 0 THEN m_base ELSE NULL) = m_base
BY RegionsAssumption DEF Placed

(* The outer loop of allocAligned starts at or behind the first byte of    *)
(* the block it looks at.                                                  *)
LEMMA SeekReaches ==
  ASSUME TypeOK, CursorLinked, pc = "aligned", hdr # NULL, Seek(next[hdr])
  PROVE  nextAligned' \in Nat /\ (hdr' # NULL => nextAligned' >= hdr' + HeaderSize)
<1>1. hdr \in Addr /\ align \in Nat \ {0}
  BY DEF TypeOK, CursorLinked
<1>2. next[hdr] \in Addr \cup {NULL}
  BY <1>1 DEF TypeOK
<1>3. next[hdr] \in Nat
  <2>1. CASE next[hdr] \in Addr
    BY <2>1, AddrNat
  <2>2. CASE next[hdr] = NULL
    BY <2>2
  <2> QED
    BY <1>2, <2>1, <2>2
<1>4. next[hdr] + HeaderSize \in Nat
  BY <1>3
<1> QED
  BY <1>1, <1>3, <1>4, AlignUpReaches DEF Seek

(* A step that changes nothing. *)
LEMMA UnchangedInv ==
  ASSUME HeapInv, UNCHANGED vars
  PROVE  HeapInv'
<1>1. UNCHANGED <<memory, object, pc, locals, history>>
  BY DEF vars
<1>2. TypeOK'
  BY <1>1 DEF HeapInv, TypeOK, memory, object, locals, history
<1>3. pc # "corrupt" => Data'
  BY <1>1, DataUnchanged DEF HeapInv, Data
<1>4. pc # "corrupt" => Control'
  BY <1>1 DEF HeapInv, Control, CursorLinked, ScanSound, OneWhenFree, Fits,
              Splittable, Word, Used, memory, object, locals, history
<1> QED
  BY <1>1, <1>2, <1>3, <1>4 DEF HeapInv, Data, Control

-----------------------------------------------------------------------------
(* The invariant is inductive.                                             *)

(* A heap that reset() was never called for satisfies the invariant. *)
LEMMA InitInv == Init => HeapInv
<1> SUFFICES ASSUME Init PROVE HeapInv
  OBVIOUS
<1>1. TypeOK
  BY AddrNat DEF Init, TypeOK, Flags
<1>2. Placed /\ Tiled /\ HeadersMatchClients /\ BackLinked
  BY DEF Init, Placed, Tiled, RootLinked, ForwardLinked, Apart,
         HeadersMatchClients, Used, BackLinked
<1>3. CursorLinked /\ ScanSound /\ OneWhenFree
  BY DEF Init, CursorLinked, ScanSound, OneWhenFree, Scanning, Freeing
<1> QED
  BY <1>1, <1>2, <1>3 DEF HeapInv

(* Entering any of the heap's functions keeps the invariant. *)
LEMMA CallInv ==
  ASSUME HeapInv, Call
  PROVE  HeapInv'
<1> USE AddrNat, RequestsAssumption
<1>1. pc = "idle" /\ TypeOK /\ Placed
  BY DEF Call, Reset, Alloc, New, AllocAligned, Free, Delete, FreeChecked,
         DeleteSized, Enter, HeapInv
<1>2. (m_base = IF m_size = 0 THEN NULL ELSE m_base)
      /\ (IF m_size # 0 THEN m_base ELSE NULL) = m_base
  BY <1>1, RootOrNull
<1>3. ASSUME NEW p \in Ptr, Free(p)
      PROVE  HeapInv'
  <2>1. PICK h \in Addr : p = h + HeaderSize
    BY DEF Ptr
  <2>2. p - HeaderSize = h
    BY <2>1
  <2>3. CASE Magic(h) /\ Used(h)
    BY <1>3, <2>2, <2>3, ClearUsedInv DEF Free
  <2>4. CASE ~(Magic(h) /\ Used(h))
    BY <1>1, <1>3, <2>2, <2>4, PanicInv DEF Free
  <2> QED
    BY <2>3, <2>4
<1>4. CASE Reset
  BY <1>1, <1>2, <1>4, ScanStart DEF Reset, Enter, Scanning, TypeOK
<1>5. ASSUME NEW sz \in Sizes, Alloc(sz)
      PROVE  HeapInv'
  BY <1>1, <1>2, <1>5, ScanStart DEF Alloc, Enter, Scanning, TypeOK
<1>6. ASSUME NEW sz \in Sizes, New(sz)
      PROVE  HeapInv'
  <2>1. CASE valid
    BY <1>1, <1>2, <1>6, <2>1, ScanStart DEF New, Enter, Scanning, TypeOK
  <2>2. CASE ~valid
    BY <1>1, <1>6, <2>2, PanicInv DEF New
  <2> QED
    BY <2>1, <2>2
<1>7. ASSUME NEW sz \in Sizes, NEW al \in Aligns, AllocAligned(sz, al)
      PROVE  HeapInv'
  <2>1. /\ pc' = "aligned" /\ hdr' = m_base /\ size' = sz /\ align' = al
        /\ nextAligned' = IF m_base = NULL THEN 0 ELSE AlignUp(m_base + HeaderSize, al)
        /\ UNCHANGED <<memory, object, history>>
    BY <1>7 DEF AllocAligned, Enter
  <2>2. m_base + HeaderSize \in Nat /\ al \in Nat \ {0} /\ sz \in Nat
    BY <1>1 DEF TypeOK
  <2>3. nextAligned' \in Nat /\ (hdr' # NULL => nextAligned' >= hdr' + HeaderSize)
    BY <2>1, <2>2, AlignUpReaches
  <2> QED
    BY <1>1, <1>2, <2>1, <2>2, <2>3, ScanStart DEF Scanning
<1>8. ASSUME NEW p \in Ptr, Delete(p)
      PROVE  HeapInv'
  BY <1>1, <1>3, <1>8, PanicInv DEF Delete
<1>9. ASSUME NEW p \in Ptr, NEW sz \in Sizes, FreeChecked(p, sz)
      PROVE  HeapInv'
  BY <1>1, <1>3, <1>9, PanicInv DEF FreeChecked
<1>10. ASSUME NEW p \in Ptr, NEW sz \in Sizes, DeleteSized(p, sz)
      PROVE  HeapInv'
  BY <1>1, <1>9, <1>10, PanicInv DEF DeleteSized
<1> QED
  BY <1>3, <1>4, <1>5, <1>6, <1>7, <1>8, <1>9, <1>10 DEF Call

(* Every iteration of the loops of heap.cpp keeps the invariant. *)
LEMMA StepInv ==
  ASSUME HeapInv, Step
  PROVE  HeapInv'
<1> USE AddrNat
<1>1. pc \in Scanning \cup Freeing /\ pc # "corrupt"
  BY DEF Step, ResetCheck, PlaceRoot, AllocNext, AllocSplit, AllocWhole, AllocNone,
         AlignedNext, AlignedWhole, AlignedCutEnd, AlignedPad, AlignedTail,
         AlignedMiddle, AlignedSpin, AlignedNone, Candidate, AlignedAt, WalkBack,
         WalkStop, WalkAssert, MergeNext, MergeStop, Scanning, Freeing
<1>2. TypeOK /\ CursorLinked
  BY <1>1 DEF HeapInv
<1>3. pc \in Scanning /\ hdr # NULL =>
        hdr \in blocks /\ Block(hdr, size) \in [ptr : Nat, size : Nat] /\ size \in Nat
  BY <1>2 DEF TypeOK, CursorLinked, Block
<1>4. ASSUME NEW h \in blocks, h = hdr, ~Used(h), pc \in Scanning, CutEnd(h, size)
      PROVE  HeapInv'
  <2>1. size \in Nat /\ length[h] \in Nat /\ Block(h, size) \in [ptr : Nat, size : Nat]
    BY <1>2, <1>4 DEF TypeOK, Block
  <2>2. CASE size + HeaderSize <= length[h]
    BY <1>1, <1>4, <2>1, <2>2, CutEndInv
  <2>3. CASE ~(size + HeaderSize <= length[h])
    BY <1>4, <2>1, <2>3, CorruptInv DEF CutEnd
  <2> QED
    BY <2>2, <2>3
<1>5. CASE ResetCheck
  <2>1. CASE ~Magic(hdr) \/ Used(hdr)
    BY <1>1, <1>5, <2>1, PanicInv DEF ResetCheck
  <2>2. CASE ~(~Magic(hdr) \/ Used(hdr))
    BY <1>2, <1>5, <2>2, ScanNext DEF ResetCheck, Scanning, TypeOK
  <2> QED
    BY <2>1, <2>2
<1>6. CASE \E r \in Regions : PlaceRoot(r)
  BY <1>6, PlaceRootInv
<1>7. CASE AllocNext
  <2>1. CASE ~Magic(hdr)
    BY <1>1, <1>7, <2>1, PanicInv DEF AllocNext
  <2>2. CASE Magic(hdr)
    BY <1>2, <1>7, <2>2, ScanNext DEF AllocNext, Scanning, TypeOK
  <2> QED
    BY <2>1, <2>2
<1>8. CASE AllocSplit
  BY <1>3, <1>4, <1>8 DEF AllocSplit, Scanning
<1>9. CASE AllocWhole
  BY <1>1, <1>3, <1>9, TakeWholeInv DEF AllocWhole, Scanning
<1>10. CASE AllocNone
  BY <1>1, <1>10, PanicInv, ReturnInv DEF AllocNone, Scanning
<1>11. CASE AlignedNext
  <2>1. CASE ~Magic(hdr)
    BY <1>1, <1>11, <2>1, PanicInv DEF AlignedNext
  <2>2. CASE Magic(hdr)
    <3>1. /\ pc = "aligned" /\ hdr # NULL /\ Seek(next[hdr])
          /\ UNCHANGED <<memory, object, pc, size, align, history>>
      BY <1>11, <2>2 DEF AlignedNext, AlignedAt
    <3>2. nextAligned' \in Nat /\ (hdr' # NULL => nextAligned' >= hdr' + HeaderSize)
      BY <1>2, <3>1, SeekReaches DEF Scanning
    <3> QED
      BY <1>2, <3>1, <3>2, ScanNext DEF Scanning, TypeOK, Seek
  <2> QED
    BY <2>1, <2>2
<1>12. CASE AlignedWhole
  BY <1>1, <1>3, <1>12, TakeWholeInv DEF AlignedWhole, Candidate, AlignedAt, Scanning
<1>13. CASE AlignedCutEnd
  BY <1>3, <1>4, <1>13 DEF AlignedCutEnd, Candidate, AlignedAt, Scanning
<1>14. CASE AlignedPad
  <2>1. /\ pc = "aligned" /\ hdr # NULL
        /\ UNCHANGED <<memory, object, pc, size, align, history>>
    BY <1>14 DEF AlignedPad, Candidate, AlignedAt
  <2>2. CASE Seek(next[hdr])
    <3>1. nextAligned' \in Nat /\ (hdr' # NULL => nextAligned' >= hdr' + HeaderSize)
      BY <1>2, <2>1, <2>2, SeekReaches
    <3> QED
      BY <1>2, <2>1, <2>2, <3>1, ScanNext DEF Scanning, TypeOK, Seek
  <2>3. CASE nextAligned' = nextAligned + align /\ UNCHANGED hdr
    <3>1. TypeOK'
      BY <1>2, <2>1, <2>3 DEF TypeOK, memory, object, history
    <3>2. Data'
      BY <1>1, <2>1, DataUnchanged DEF HeapInv, Data
    <3>3. nextAligned >= hdr + HeaderSize => nextAligned' >= hdr + HeaderSize
      BY <1>2, <2>3 DEF TypeOK
    <3>4. Control'
      BY <1>1, <2>1, <2>3, <3>3 DEF HeapInv, Control, CursorLinked, ScanSound,
                     OneWhenFree, Scanning, Freeing, object, history
    <3> QED
      BY <3>1, <3>2, <3>4 DEF HeapInv, Data, Control
  <2> QED
    BY <1>14, <2>2, <2>3 DEF AlignedPad
<1>15. CASE AlignedTail
  BY <1>15, AlignedTailInv
<1>16. CASE AlignedMiddle
  <2>1. CASE size + HeaderSize <= actualSize
    BY <1>16, <2>1, AlignedMiddleInv
  <2>2. CASE ~(size + HeaderSize <= actualSize)
    <3>1. Block(nextAligned - HeaderSize, size) \in [ptr : Nat, size : Nat]
      BY <1>2 DEF Block, TypeOK
    <3> QED
      BY <1>16, <2>2, <3>1, CorruptInv DEF AlignedMiddle
  <2> QED
    BY <2>1, <2>2
<1>17. CASE AlignedSpin
  BY <1>17, UnchangedInv DEF AlignedSpin
<1>18. CASE AlignedNone
  BY <1>1, <1>18, ReturnInv DEF AlignedNone, Scanning
<1>19. CASE WalkBack \/ WalkStop
  BY <1>19, WalkInv
<1>20. CASE WalkAssert
  BY <1>1, <1>20, PanicInv DEF WalkAssert
<1>21. CASE MergeNext
  BY <1>21, MergeNextInv
<1>22. CASE MergeStop
  BY <1>22, MergeStopInv
<1> QED
  BY <1>5, <1>6, <1>7, <1>8, <1>9, <1>10, <1>11, <1>12, <1>13, <1>14, <1>15,
     <1>16, <1>17, <1>18, <1>19, <1>20, <1>21, <1>22 DEF Step

(* So does every step: HeapInv is inductive. *)
LEMMA NextInv == HeapInv /\ [Next]_vars => HeapInv'
<1> SUFFICES ASSUME HeapInv, [Next]_vars PROVE HeapInv'
  OBVIOUS
<1>1. CASE UNCHANGED vars
  BY <1>1, UnchangedInv
<1>2. CASE Halted
  BY <1>2, UnchangedInv DEF Halted
<1> QED
  BY <1>1, <1>2, CallInv, StepInv DEF Next

(***************************************************************************)
(* The data structure invariant of heap.cpp holds in every state of every  *)
(* sequence of calls, with all its parts: no header is lost or reached     *)
(* twice, headers and clients agree, and prev links are never dangling     *)
(* into a header in use.                                                   *)
(***************************************************************************)
THEOREM HeapInvariant == Spec => []HeapInv
BY InitInv, NextInv, PTL DEF Spec

-----------------------------------------------------------------------------
(* What follows from it.                                                   *)

(***************************************************************************)
(* The fields of headers, the locals of a call and the history keep their  *)
(* types.                                                                  *)
(***************************************************************************)
THEOREM TypeCorrect == Spec => []TypeOK
<1>1. HeapInv => TypeOK
  BY DEF HeapInv
<1> QED
  BY <1>1, HeapInvariant, PTL

(***************************************************************************)
(* The loops of reset, alloc, allocAligned and free never read a header    *)
(* without the magic through rootHeader() or next: "Heap is broken" is     *)
(* unreachable, in whatever order blocks were split and merged.            *)
(***************************************************************************)
THEOREM NeverBroken == Spec => []ForwardScansNeverBroken
<1>1. HeapInv => ForwardScansNeverBroken
  <2> SUFFICES ASSUME HeapInv PROVE ForwardScansNeverBroken
    OBVIOUS
  <2>1. CASE pc = "corrupt"
    BY <2>1 DEF ForwardScansNeverBroken, Scanning
  <2>2. CASE pc # "corrupt"
    BY <2>2 DEF HeapInv, ForwardScansNeverBroken, CursorLinked, Freeing, Tiled,
                ForwardLinked
  <2> QED
    BY <2>1, <2>2
<1> QED
  BY <1>1, HeapInvariant, PTL

(***************************************************************************)
(* A step that passes the checks of free() gives back exactly one block,   *)
(* the one a client holds at that pointer.                                 *)
(***************************************************************************)
THEOREM FreesOnlyLive == Spec => OnlyLivePointersAreFreed
<1>1. ASSUME HeapInv, pc = "idle", pc' = "back", [Next]_vars
      PROVE  \E b \in live : b.ptr = hdr' + HeaderSize /\ live' = live \ {b}
  <2>1. PICK h \in Addr : Used(h) /\ ClearUsed(h)
    <3>1. ASSUME NEW p \in Ptr, Free(p)
          PROVE  \E h \in Addr : Used(h) /\ ClearUsed(h)
      <4>1. PICK h \in Addr : p = h + HeaderSize
        BY DEF Ptr
      <4>2. p - HeaderSize = h
        BY <4>1, AddrNat
      <4> QED
        BY <1>1, <3>1, <4>2 DEF Free, Panic, Leave
    <3>2. ~Step /\ ~Halted /\ ~UNCHANGED vars
      BY <1>1 DEF Halted, Stopped, vars,
             Step, ResetCheck, PlaceRoot, AllocNext, AllocSplit, AllocWhole, AllocNone,
             AlignedNext, AlignedWhole, AlignedCutEnd, AlignedPad, AlignedTail,
             AlignedMiddle, AlignedSpin, AlignedNone, Candidate, AlignedAt, WalkBack,
             WalkStop, WalkAssert, MergeNext, MergeStop
    <3>3. Call
      BY <1>1, <3>2 DEF Next
    <3>4. \E p \in Ptr : Free(p)
      BY <1>1, <3>3 DEF Call, Reset, Alloc, New, AllocAligned, Delete, FreeChecked,
                        DeleteSized, Enter, Panic, Leave
    <3> QED
      BY <3>1, <3>4
  <2>2. h \in blocks /\ Block(h, length[h]) \in live
    BY <1>1, <2>1 DEF HeapInv, HeadersMatchClients
  <2>3. \A b \in live : b.ptr = h + HeaderSize => b = Block(h, length[h])
    <3> SUFFICES ASSUME NEW b \in live, b.ptr = h + HeaderSize
                 PROVE  b = Block(h, length[h])
      OBVIOUS
    <3>1. PICK g \in blocks : b = Block(g, length[g])
      BY <1>1 DEF HeapInv, HeadersMatchClients
    <3>2. g \in Nat /\ h \in Nat /\ g + HeaderSize = h + HeaderSize
      BY <1>1, <3>1, AddrNat DEF Block, HeapInv, TypeOK
    <3>3. g = h
      BY <3>2
    <3> QED
      BY <3>1, <3>3
  <2>4. live' = {b \in live : b.ptr # h + HeaderSize} /\ hdr' = h
    BY <2>1 DEF ClearUsed, Enter
  <2>5. Block(h, length[h]).ptr = h + HeaderSize
    BY DEF Block
  <2>6. live' = live \ {Block(h, length[h])}
    BY <2>3, <2>4, <2>5
  <2> QED
    BY <2>2, <2>4, <2>5, <2>6
<1>2. HeapInv /\ [Next]_vars =>
        [(pc = "idle" /\ pc' = "back")
          => (\E b \in live : b.ptr = hdr' + HeaderSize /\ live' = live \ {b})]_vars
  BY <1>1
<1> QED
  BY <1>2, HeapInvariant, PTL DEF Spec, OnlyLivePointersAreFreed

(***************************************************************************)
(* Once every block is given back the heap is a single free block again:   *)
(* free() loses no memory, although its prev links may be stale.           *)
(***************************************************************************)
THEOREM FreedHeapIsWhole == Spec => []AllFreedMeansOneBlock
<1>1. HeapInv => AllFreedMeansOneBlock
  <2> SUFFICES ASSUME HeapInv, pc = "idle", valid, live = {}
               PROVE  blocks = {m_base} /\ length[m_base] = m_size - HeaderSize
    BY DEF AllFreedMeansOneBlock
  <2>1. blocks = {m_base}
    BY DEF HeapInv, OneWhenFree, Tiled, RootLinked, valid
  <2>2. m_base \in Nat /\ m_size \in Nat /\ length[m_base] \in Nat
    BY <2>1 DEF HeapInv, TypeOK
  <2>3. After(m_base) > m_base
    BY <2>2 DEF After
  <2>4. After(m_base) = End
    BY <2>1, <2>2, <2>3 DEF HeapInv, Tiled, ForwardLinked, After
  <2> QED
    BY <2>1, <2>2, <2>4 DEF After, End
<1> QED
  BY <1>1, HeapInvariant, PTL

(***************************************************************************)
(* alloc() and operator new give up only when no free block fits: the scan *)
(* has looked at every header of the heap.                                 *)
(***************************************************************************)
THEOREM GivesUpOnlyWhenFull == Spec => NoneMeansNoFit
<1>1. ASSUME HeapInv, [Next]_vars, pc \in {"alloc", "new"},
             pc' \in {"idle", "panic"}, live' = live
      PROVE  \A h \in blocks : ~Fits(h)
  <2>1. /\ TypeOK /\ CursorLinked /\ ScanSound /\ HeadersMatchClients
        /\ Tiled /\ (hdr # NULL => hdr \in blocks)
    BY <1>1 DEF HeapInv, CursorLinked, Scanning
  <2>2. ~Call /\ ~Halted /\ ~UNCHANGED vars
    BY <1>1 DEF vars, Halted, Stopped, Call, Reset, Alloc, New, AllocAligned, Free,
                Delete, FreeChecked, DeleteSized, Enter
  <2>3. AllocNext \/ AllocSplit \/ AllocWhole \/ AllocNone
    BY <1>1, <2>2 DEF Next, Step, ResetCheck, PlaceRoot, AlignedNext, AlignedWhole,
             AlignedCutEnd, AlignedPad, AlignedTail, AlignedMiddle, AlignedSpin,
             AlignedNone, Candidate, AlignedAt, WalkBack, WalkStop, WalkAssert,
             MergeNext, MergeStop
  <2>4. CASE AllocNext
    BY <1>1, <2>1, <2>4 DEF AllocNext, Tiled, ForwardLinked
  <2>5. CASE AllocSplit
    <3>1. Block(hdr, size) \in live
      BY <1>1, <2>5 DEF AllocSplit, CutEnd
    <3>2. PICK g \in blocks : Used(g) /\ Block(hdr, size) = Block(g, length[g])
      BY <2>1, <3>1 DEF HeadersMatchClients
    <3>3. g \in Nat /\ hdr \in Nat /\ g + HeaderSize = hdr + HeaderSize
      BY <2>1, <2>5, <3>2, AddrNat DEF Block, TypeOK, AllocSplit
    <3>4. g = hdr
      BY <3>3
    <3> QED
      BY <2>5, <3>2, <3>4 DEF AllocSplit
  <2>6. CASE AllocWhole
    <3>1. Block(hdr, length[hdr]) \in live
      BY <1>1, <2>6 DEF AllocWhole, TakeWhole
    <3>2. PICK g \in blocks : Used(g) /\ Block(hdr, length[hdr]) = Block(g, length[g])
      BY <2>1, <3>1 DEF HeadersMatchClients
    <3>3. g \in Nat /\ hdr \in Nat /\ g + HeaderSize = hdr + HeaderSize
      BY <2>1, <2>6, <3>2, AddrNat DEF Block, TypeOK, AllocWhole
    <3>4. g = hdr
      BY <3>3
    <3> QED
      BY <2>6, <3>2, <3>4 DEF AllocWhole
  <2>7. CASE AllocNone
    BY <1>1, <2>1, <2>7 DEF AllocNone, ScanSound
  <2> QED
    BY <2>3, <2>4, <2>5, <2>6, <2>7
<1>2. HeapInv /\ [Next]_vars =>
        [(pc \in {"alloc", "new"} /\ pc' \in {"idle", "panic"} /\ live' = live)
           => (\A h \in blocks : ~Fits(h))]_vars
  BY <1>1
<1> QED
  BY <1>2, HeapInvariant, PTL DEF Spec, NoneMeansNoFit

-----------------------------------------------------------------------------
(* What allocAligned() returns is aligned.                                 *)

(* A number that leaves nothing when divided is a multiple, and a multiple *)
(* leaves nothing.                                                         *)
LEMMA Multiple ==
  ASSUME NEW a \in Nat \ {0}, NEW q \in Int
  PROVE  (a * q) % a = 0
<1> DEFINE x == a * q
           d == x \div a
           r == x % a
<1>1. x \in Int
  OBVIOUS
<1>2. d \in Int /\ r \in 0 .. (a - 1) /\ x = a * d + r
  <2> HIDE DEF x
  <2> QED
    BY <1>1
<1>3. a * q = a * d + r
  BY <1>2
<1> HIDE DEF x, d, r
<1>4. CASE q > d
  <2>1. a * (q - d) >= a /\ a * q = a * d + a * (q - d)
    BY <1>2, <1>4
  <2> QED
    BY <1>2, <1>3, <2>1
<1>5. CASE q < d
  <2>1. a * (d - q) >= a /\ a * d = a * q + a * (d - q)
    BY <1>2, <1>5
  <2> QED
    BY <1>2, <1>3, <2>1
<1>6. CASE q = d
  BY <1>2, <1>3, <1>6 DEF r, x
<1> QED
  BY <1>2, <1>4, <1>5, <1>6

(* alignUp() returns a boundary, and so is what lies one alignment on.     *)
LEMMA Boundaries ==
  ASSUME NEW x \in Nat, NEW a \in Nat \ {0}
  PROVE  /\ AlignUp(x, a) % a = 0
         /\ x % a = 0 => (x + a) % a = 0
<1>1. ASSUME NEW y \in Nat
      PROVE  \E q \in Int : y = a * q + (y % a) /\ y % a \in Int
  <2>1. y = a * (y \div a) + (y % a) /\ y \div a \in Int /\ y % a \in Int
    OBVIOUS
  <2> QED
    BY <2>1
<1>2. AlignUp(x, a) % a = 0
  <2> DEFINE y == x + (a - 1)
  <2>1. y \in Nat
    OBVIOUS
  <2>2. AlignUp(x, a) = y - (y % a)
    BY DEF AlignUp
  <2> HIDE DEF y
  <2>3. PICK q \in Int : y = a * q + (y % a) /\ y % a \in Int
    BY <1>1, <2>1
  <2>4. AlignUp(x, a) = a * q
    BY <2>1, <2>2, <2>3
  <2> QED
    BY <2>4, Multiple
<1>3. ASSUME x % a = 0 PROVE (x + a) % a = 0
  <2>1. PICK q \in Int : x = a * q + (x % a)
    BY <1>1
  <2>2. x = a * q
    BY <1>3, <2>1
  <2>3. x + a = a * (q + 1) /\ q + 1 \in Int
    BY <2>2
  <2> QED
    BY <2>3, Multiple
<1> QED
  BY <1>2, <1>3

(* While allocAligned() looks at a block, nextAligned is a boundary.       *)
OnBoundary == pc = "aligned" /\ hdr # NULL => nextAligned % align = 0

(* The outer loop starts each block at its first boundary. *)
LEMMA SeekOnBoundary ==
  ASSUME NEW h \in Addr \cup {NULL}, NEW a \in Nat \ {0}, h # NULL
  PROVE  AlignUp(h + HeaderSize, a) % a = 0
<1>1. h + HeaderSize \in Nat
  BY AddrNat
<1> QED
  BY <1>1, Boundaries

LEMMA OnBoundaryKept ==
  ASSUME HeapInv, OnBoundary, [Next]_vars
  PROVE  OnBoundary'
<1> SUFFICES ASSUME pc' = "aligned", hdr' # NULL
             PROVE  nextAligned' % align' = 0
  BY DEF OnBoundary
<1>1. TypeOK
  BY DEF HeapInv
<1>2. CASE UNCHANGED vars \/ Halted \/ AlignedSpin
  BY <1>2 DEF OnBoundary, Halted, AlignedSpin, vars, locals
<1>3. ASSUME NEW sz \in Sizes, NEW al \in Aligns, AllocAligned(sz, al)
      PROVE  nextAligned' % align' = 0
  <2>1. hdr' = m_base /\ align' = al /\ al \in Nat \ {0} /\ m_base \in Nat \ {0}
    BY <1>1, <1>3, RequestsAssumption DEF AllocAligned, Enter, TypeOK
  <2>2. nextAligned' = AlignUp(m_base + HeaderSize, al) /\ m_base + HeaderSize \in Nat
    BY <1>3, <2>1 DEF AllocAligned
  <2> QED
    BY <2>1, <2>2, Boundaries
<1>4. ASSUME AlignedAt, align' = align, Seek(next[hdr])
      PROVE  nextAligned' % align' = 0
  <2>1. align \in Nat \ {0}
    BY <1>1, <1>4 DEF AlignedAt, HeapInv, CursorLinked, TypeOK
  <2>2. next[hdr] \in Addr \cup {NULL} /\ next[hdr] # NULL
    BY <1>1, <1>4 DEF AlignedAt, TypeOK, Seek
  <2>3. nextAligned' = AlignUp(next[hdr] + HeaderSize, align)
    BY <1>4, <2>2 DEF Seek
  <2> QED
    BY <1>4, <2>1, <2>2, <2>3, SeekOnBoundary
<1>5. CASE AlignedNext
  <2>1. Seek(next[hdr]) /\ align' = align
    BY <1>5 DEF AlignedNext, Panic, Leave
  <2> QED
    BY <1>4, <1>5, <2>1 DEF AlignedNext
<1>6. CASE AlignedPad
  <2>1. AlignedAt /\ align' = align
    BY <1>6 DEF AlignedPad, Candidate
  <2>2. CASE Seek(next[hdr])
    BY <1>4, <2>1, <2>2
  <2>3. CASE nextAligned' = nextAligned + align
    <3>1. align \in Nat \ {0} /\ nextAligned \in Nat
      BY <1>1, <2>1 DEF AlignedAt, HeapInv, CursorLinked, TypeOK
    <3>2. nextAligned % align = 0
      BY <2>1 DEF AlignedAt, OnBoundary
    <3> QED
      BY <2>1, <2>3, <3>1, <3>2, Boundaries
  <2> QED
    BY <1>6, <2>2, <2>3 DEF AlignedPad
<1>7. CASE Call
  BY <1>3, <1>7 DEF Call, Reset, Alloc, New, Free, Delete, FreeChecked, DeleteSized,
                    ClearUsed, Enter, Panic, Leave
<1>8. CASE Step
  BY <1>2, <1>5, <1>6, <1>8
     DEF Step, ResetCheck, PlaceRoot, AllocNext, AllocSplit, AllocWhole, AllocNone,
         AlignedWhole, AlignedCutEnd, AlignedTail, AlignedMiddle, AlignedNone,
         WalkBack, WalkStop, WalkAssert, MergeNext, MergeStop, TakeWhole, CutEnd,
         Candidate, AlignedAt, Return, Panic, Leave, locals
<1> QED
  BY <1>2, <1>7, <1>8 DEF Next

(***************************************************************************)
(* A pointer allocAligned() hands out is a multiple of the alignment asked *)
(* for, whichever of the ways it cut the block in, and also when the cut   *)
(* left the block: alignment is what survives its other defects.           *)
(***************************************************************************)
THEOREM PointersAligned == Spec => AlignedAsAsked
<1>1. ASSUME HeapInv, OnBoundary, [Next]_vars, pc = "aligned",
             NEW b \in live' \ live
      PROVE  b.ptr % align = 0
  <2>1. TypeOK
    BY <1>1 DEF HeapInv
  <2>2. ~Call /\ ~Halted /\ ~UNCHANGED vars
    BY <1>1 DEF vars, history, Halted, Stopped, Call, Reset, Alloc, New, AllocAligned,
                Free, Delete, FreeChecked, DeleteSized, Enter
  <2>3. AlignedWhole \/ AlignedCutEnd \/ AlignedTail \/ AlignedMiddle
    BY <1>1, <2>2 DEF Next, Step, ResetCheck, PlaceRoot, AllocNext, AllocSplit,
          AllocWhole, AllocNone, AlignedNext, AlignedPad, AlignedSpin, AlignedNone,
          WalkBack, WalkStop, WalkAssert, MergeNext, MergeStop, Panic, Leave,
          history, vars
  <2>4. Candidate /\ hdr \in Addr /\ nextAligned \in Nat /\ nextAligned % align = 0
    BY <1>1, <2>1, <2>3 DEF AlignedWhole, AlignedCutEnd, AlignedTail, AlignedMiddle,
          Candidate, AlignedAt, OnBoundary, TypeOK
  <2>5. hdr \in Nat
    BY <2>4, AddrNat
  <2>6. ASSUME padSize = 0, NEW sz, b = Block(hdr, sz)
        PROVE  b.ptr % align = 0
    <3>1. hdr + HeaderSize = nextAligned
      BY <2>4, <2>5, <2>6 DEF padSize
    <3> QED
      BY <2>4, <2>6, <3>1 DEF Block
  <2>7. CASE AlignedWhole
    BY <1>1, <2>6, <2>7 DEF AlignedWhole, TakeWhole
  <2>8. CASE AlignedCutEnd
    BY <1>1, <2>6, <2>8 DEF AlignedCutEnd, CutEnd
  <2>9. CASE AlignedTail \/ AlignedMiddle
    <3>1. b = Block(nextAligned - HeaderSize, size)
      BY <1>1, <2>9 DEF AlignedTail, AlignedMiddle
    <3>2. b.ptr = nextAligned
      BY <2>4, <3>1 DEF Block
    <3> QED
      BY <2>4, <3>2
  <2> QED
    BY <2>3, <2>7, <2>8, <2>9
<1>2. HeapInv /\ OnBoundary /\ [Next]_vars =>
        [pc = "aligned" => (\A b \in live' \ live : b.ptr % align = 0)]_vars
  BY <1>1
<1>3. Init => OnBoundary
  BY DEF Init, OnBoundary
<1>4. Spec => []OnBoundary
  BY <1>3, OnBoundaryKept, HeapInvariant, PTL DEF Spec
<1> QED
  BY <1>2, <1>4, HeapInvariant, PTL DEF Spec, AlignedAsAsked

-----------------------------------------------------------------------------
(* Requests that are not aligned and do not wrap.                          *)

(* The running call: a plain request never reaches a cut outside a block. *)
PlainInv ==
  /\ pc \notin {"corrupt", "aligned"}
  /\ pc \in {"alloc", "new"} => size \in Sizes

(* alloc() cuts inside the block when size + sizeof(HeapHeader) does not wrap. *)
LEMMA PlainCut ==
  ASSUME PlainRequests, HeapInv, PlainInv, AllocSplit
  PROVE  size + HeaderSize <= length[hdr]
<1>1. size \in Sizes /\ hdr \in Addr /\ length[hdr] > Word(size + HeaderSize)
  BY DEF PlainInv, AllocSplit, Splittable, HeapInv, TypeOK
<1>2. size \in Nat /\ length[hdr] \in Nat /\ size + HeaderSize < WordSize
  BY <1>1, RequestsAssumption DEF PlainRequests, HeapInv, TypeOK
<1>3. Word(size + HeaderSize) = size + HeaderSize
  BY <1>2, WordSizeAssumption DEF Word
<1> QED
  BY <1>1, <1>2, <1>3

(* A heap that gets plain requests only stays out of the corrupt state. *)
LEMMA PlainNext ==
  ASSUME PlainRequests, HeapInv, PlainInv, [Next]_vars
  PROVE  PlainInv'
<1>1. CASE UNCHANGED vars \/ Halted
  BY <1>1 DEF PlainInv, Halted, vars, locals
<1>2. CASE Call
  <2>1. Aligns = {} /\ pc = "idle"
    BY <1>2 DEF PlainRequests, Call, Reset, Alloc, New, AllocAligned, Free, Delete,
                FreeChecked, DeleteSized, Enter
  <2> QED
    BY <1>2, <2>1 DEF PlainInv, Call, Reset, Alloc, New, Free, Delete, FreeChecked,
                      DeleteSized, ClearUsed, Enter, Panic, Leave
<1>3. CASE Step
  <2>1. CASE AllocSplit
    BY <2>1, PlainCut DEF AllocSplit, CutEnd, Return, Leave, PlainInv
  <2>2. CASE ~AllocSplit
    BY <1>3, <2>2 DEF PlainInv, Step, ResetCheck, PlaceRoot, AllocNext, AllocWhole,
         AllocNone, AlignedNext, AlignedWhole, AlignedCutEnd, AlignedPad, AlignedTail,
         AlignedMiddle, AlignedSpin, AlignedNone, Candidate, AlignedAt, TakeWhole,
         WalkBack, WalkStop, WalkAssert, MergeNext, MergeStop, Panic, Return, Leave,
         locals
  <2> QED
    BY <2>1, <2>2
<1> QED
  BY <1>1, <1>2, <1>3 DEF Next

(* ... in every behaviour. *)
LEMMA PlainInvariant ==
  ASSUME PlainRequests
  PROVE  Spec => [](HeapInv /\ PlainInv)
<1>1. Init => PlainInv
  BY DEF Init, PlainInv
<1>2. HeapInv /\ PlainInv /\ [Next]_vars => PlainInv'
  BY PlainNext
<1> QED
  BY <1>1, <1>2, HeapInvariant, PTL DEF Spec

(* Two blocks in use belong to two headers, with a header between them. *)
LEMMA UsedApart ==
  ASSUME HeapInv, pc # "corrupt"
  PROVE  LiveBlocksApart
<1> USE AddrNat
<1>1. ASSUME NEW b \in live
      PROVE  \E h \in blocks : /\ h \in Nat /\ length[h] \in Nat
                               /\ b = Block(h, length[h])
                               /\ m_base <= h /\ After(h) <= End
  BY DEF HeapInv, HeadersMatchClients, TypeOK, Tiled, ForwardLinked
<1>2. m_base \in Nat /\ End \in Nat
  BY DEF HeapInv, TypeOK, End
<1>3. ASSUME NEW b \in live
      PROVE  m_base <= b.ptr /\ b.ptr + b.size <= End
  <2>1. PICK h \in blocks : /\ h \in Nat /\ length[h] \in Nat
                            /\ b = Block(h, length[h])
                            /\ m_base <= h /\ After(h) <= End
    BY <1>1
  <2>2. b.ptr = h + HeaderSize /\ b.size = length[h]
    BY <2>1 DEF Block
  <2> QED
    BY <1>2, <2>1, <2>2 DEF After
<1>4. ASSUME NEW b \in live, NEW c \in live, b # c
      PROVE  \/ b.ptr + b.size + HeaderSize <= c.ptr
             \/ c.ptr + c.size + HeaderSize <= b.ptr
  <2>1. PICK g \in blocks : g \in Nat /\ length[g] \in Nat /\ b = Block(g, length[g])
    BY <1>1
  <2>2. PICK h \in blocks : h \in Nat /\ length[h] \in Nat /\ c = Block(h, length[h])
    BY <1>1
  <2>3. /\ b.ptr = g + HeaderSize /\ b.size = length[g]
        /\ c.ptr = h + HeaderSize /\ c.size = length[h]
    BY <2>1, <2>2 DEF Block
  <2>4. g < h \/ h < g
    BY <1>4, <2>1, <2>2
  <2>5. g + HeaderSize + length[g] <= h \/ h + HeaderSize + length[h] <= g
    BY <2>4 DEF HeapInv, Tiled, Apart, After
  <2> QED
    BY <2>1, <2>2, <2>3, <2>5
<1> QED
  BY <1>3, <1>4 DEF LiveBlocksApart

(***************************************************************************)
(* Blocks handed out by alloc() and new lie inside the heap and never      *)
(* overlap, for every sequence of calls, if no request is aligned or wraps.*)
(***************************************************************************)
THEOREM NoOverlap ==
  ASSUME PlainRequests
  PROVE  Spec => []LiveBlocksApart
<1>1. HeapInv /\ PlainInv => LiveBlocksApart
  BY UsedApart DEF PlainInv
<1> QED
  BY <1>1, PlainInvariant, PTL

(* How a step of a plain request shows to the clients. *)
LEMMA StepsShowAs ==
  ASSUME HeapInv, PlainInv, [Next]_vars
  PROVE  \/ UNCHANGED <<live, m_base, m_size>>
         \/ \E b : live' = live \cup {b} /\ UNCHANGED <<m_base, m_size>>
         \/ \E h \in Addr : Used(h) /\ ClearUsed(h)
         \/ \E r \in Regions : PlaceRoot(r)
<1>1. CASE UNCHANGED vars \/ Halted
  BY <1>1 DEF Halted, vars, object, history
<1>2. CASE Call
  <2>1. ASSUME NEW p \in Ptr, Free(p)
        PROVE  UNCHANGED <<live, m_base, m_size>> \/ \E h \in Addr : Used(h) /\ ClearUsed(h)
    <3>1. PICK h \in Addr : p = h + HeaderSize
      BY DEF Ptr
    <3>2. p - HeaderSize = h
      BY <3>1, AddrNat
    <3> QED
      BY <2>1, <3>2 DEF Free, Panic, object, history
  <2> QED
    BY <1>2, <2>1 DEF Call, Reset, Alloc, New, AllocAligned, Delete, FreeChecked,
                      DeleteSized, Enter, Panic, object, history
<1>3. CASE Step
  BY <1>3 DEF PlainInv, Step, ResetCheck, AllocNext, AllocSplit, AllocWhole,
       AllocNone, AlignedNext, AlignedWhole, AlignedCutEnd, AlignedPad, AlignedTail,
       AlignedMiddle, AlignedSpin, AlignedNone, Candidate, AlignedAt, TakeWhole, CutEnd,
       WalkBack, WalkStop, WalkAssert, MergeNext, MergeStop, Panic, object, history
<1> QED
  BY <1>1, <1>2, <1>3 DEF Next

(* A block that can be freed is the only one at its address. *)
LEMMA ClearUsedReleases ==
  ASSUME HeapInv, NEW h \in Addr, Used(h), ClearUsed(h)
  PROVE  \E b \in live : live' = live \ {b}
<1>1. pc = "idle" /\ TypeOK /\ HeadersMatchClients
  BY DEF HeapInv, ClearUsed, Enter
<1>2. Block(h, length[h]) \in live
  BY <1>1 DEF HeadersMatchClients
<1>3. \A b \in live : b.ptr = h + HeaderSize => b = Block(h, length[h])
  <2> SUFFICES ASSUME NEW b \in live, b.ptr = h + HeaderSize
               PROVE  b = Block(h, length[h])
    OBVIOUS
  <2>1. PICK g \in blocks : b = Block(g, length[g])
    BY <1>1 DEF HeadersMatchClients
  <2>2. g \in Nat /\ h \in Nat /\ g + HeaderSize = h + HeaderSize
    BY <1>1, <2>1, AddrNat DEF Block, TypeOK
  <2>3. g = h
    BY <2>2
  <2> QED
    BY <2>1, <2>3
<1>4. Block(h, length[h]).ptr = h + HeaderSize
  BY DEF Block
<1>5. live' = live \ {Block(h, length[h])}
  BY <1>3, <1>4 DEF ClearUsed
<1> QED
  BY <1>2, <1>5

(***************************************************************************)
(* The heap implements its contract: every step of alloc, free and reset   *)
(* is, to the clients, the taking or releasing of one block, a new region  *)
(* while nobody holds a block, or nothing.                                 *)
(***************************************************************************)
THEOREM HeapImplementsContract ==
  ASSUME PlainRequests
  PROVE  Spec => Implements
<1>1. Init => Contract!Init
  BY DEF Init, Contract!Init, End
<1>2. ASSUME HeapInv, PlainInv, HeapInv', LiveBlocksApart', [Next]_vars
      PROVE  [Contract!Next]_<<live, m_base, End>>
  <2>1. CASE UNCHANGED <<live, m_base, m_size>>
    BY <2>1 DEF End
  <2>2. CASE \E b : live' = live \cup {b} /\ UNCHANGED <<m_base, m_size>>
    <3>1. PICK b : live' = live \cup {b} /\ UNCHANGED <<m_base, m_size>>
      BY <2>2
    <3>2. End' = End
      BY <3>1 DEF End
    <3>4. CASE b \in live
      BY <3>1, <3>2, <3>4
    <3>5. CASE b \notin live
      <4>1. b \in live'
        BY <3>1
      <4>2. m_base <= b.ptr /\ b.ptr + b.size <= End
        BY <1>2, <3>1, <3>2, <4>1 DEF LiveBlocksApart
      <4>3. \A c \in live : Contract!Clear(b, c)
        BY <1>2, <3>1, <3>5, <4>1 DEF LiveBlocksApart, Contract!Clear
      <4>4. Contract!Take(b)
        BY <3>1, <3>2, <4>2, <4>3 DEF Contract!Take
      <4> QED
        BY <4>1, <4>4 DEF Contract!Next
    <3> QED
      BY <3>4, <3>5
  <2>3. CASE \E h \in Addr : Used(h) /\ ClearUsed(h)
    <3>1. PICK b \in live : live' = live \ {b}
      BY <1>2, <2>3, ClearUsedReleases
    <3>2. UNCHANGED <<m_base, m_size>>
      BY <2>3 DEF ClearUsed, object
    <3> QED
      BY <3>1, <3>2 DEF Contract!Next, Contract!Release, End
  <2>4. CASE \E r \in Regions : PlaceRoot(r)
    <3>1. PICK r \in Regions : PlaceRoot(r)
      BY <2>4
    <3>2. live = {} /\ live' = {}
      BY <1>2, <3>1 DEF PlaceRoot, HeapInv, ScanSound, HeadersMatchClients
    <3>3. m_base' \in Nat /\ m_size' \in Nat
      BY <3>1, RegionsAssumption DEF PlaceRoot
    <3>4. End' \in Nat
      BY <3>3, SumNat DEF End
    <3> QED
      BY <3>2, <3>3, <3>4 DEF Contract!Next, Contract!Renew
  <2> QED
    BY <1>2, <2>1, <2>2, <2>3, <2>4, StepsShowAs
<1> QED
  BY <1>1, <1>2, PlainInvariant, NoOverlap, PTL DEF Spec, Implements, Contract!Spec

=============================================================================
