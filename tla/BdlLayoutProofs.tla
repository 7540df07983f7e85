--------------------------- MODULE BdlLayoutProofs ---------------------------
(***************************************************************************)
(* Theorems about the buffer descriptor list, for every page size, every   *)
(* size of the list and every request.  CursorInv says where the next      *)
(* entry will go; HalfInv how far the first loop is; together with TypeOK  *)
(* they are inductive, and the other properties follow from them.          *)
(***************************************************************************)
EXTENDS BdlLayout, TLAPS

\* Bytes described so far.
Listed == offset - allocOffset

\* Where the list starts and ends.
First == Start(1)
Last == End(Len(bdl))

\* The next entry goes where the last one ended; it, or the list if it is
\* still empty, starts at the byte `offset' falls on.
CursorInv ==
    /\ requested > 0
    /\ size + offset = requested + allocOffset
    /\ bdl = <<>> => pageNum = 0 /\ offset = allocOffset
    /\ bdl # <<>> => /\ First = allocOffset % PageSize
                     /\ Last = pageNum * PageSize + PageOff
                     /\ Last - First = Listed

\* The first loop describes the first half, unless it gives up.
HalfInv ==
    /\ firstHalf < requested
    /\ (allocOffset = 0 /\ firstHalf = 0) \/ allocOffset = PageSize - (firstHalf % PageSize)
    /\ loop = "half" => ~truncated /\ halfSize + offset = firstHalf + allocOffset
    /\ loop # "half" /\ ~truncated => Listed >= firstHalf
    /\ loop = "done" /\ ~truncated => size = 0

Inv == TypeOK /\ CursorInv /\ HalfInv

\* Entries that interrupt are those that end a half.
IocInv ==
    ~truncated => \A i \in 1 .. Len(bdl) :
        bdl[i].ioc <=> End(i) - First \in {firstHalf, requested}

\* Behind the first entry all start on a page, so that at most the first and
\* the last one are shorter than a page.
FitInv ==
    /\ ~truncated => numBlocks = Len(bdl)
    /\ requested <= (MaxEntries - 1) * PageSize =>
          /\ ~truncated
          /\ size > 0 /\ bdl # <<>> =>
                PageOff = 0 /\ Len(bdl) * PageSize <= Listed + PageSize - 1
          /\ Len(bdl) * PageSize <= Listed + 2 * PageSize - 2
-----------------------------------------------------------------------------
(* Arithmetic of pages. *)

\* A number is a quotient of pages and a remainder inside one.
LEMMA DivMod ==
  ASSUME NEW P \in Nat \ {0}, NEW x \in Nat
  PROVE x = P * (x \div P) + (x % P) /\ x \div P \in Nat /\ x % P \in 0 .. P - 1
  OBVIOUS

\* The remainder is the only one.
LEMMA ModUnique ==
  ASSUME NEW P \in Nat \ {0}, NEW q \in Nat, NEW r \in 0 .. P - 1
  PROVE (P * q + r) % P = r
  OBVIOUS

\* Advancing inside a page, or to its end.
LEMMA ModStep ==
  ASSUME NEW P \in Nat \ {0}, NEW x \in Nat, NEW c \in Nat, (x % P) + c <= P
  PROVE (x + c) % P = IF (x % P) + c = P THEN 0 ELSE (x % P) + c
<1> DEFINE q == x \div P
           r == x % P
<1>1. x = P * q + r /\ q \in Nat /\ r \in 0 .. P - 1
  BY DivMod
<1> HIDE DEF q, r
<1>2. CASE r + c = P
  <2>1. x + c = P * (q + 1) + 0
    BY <1>1, <1>2
  <2>2. (P * (q + 1) + 0) % P = 0
    BY <1>1, ModUnique
  <2> QED
    BY <2>1, <2>2, <1>2 DEF r
<1>3. CASE r + c # P
  <2>1. x + c = P * q + (r + c) /\ r + c \in 0 .. P - 1
    BY <1>1, <1>3 DEF r
  <2>2. (P * q + (r + c)) % P = r + c
    BY <1>1, <2>1, ModUnique
  <2> QED
    BY <2>1, <2>2, <1>3 DEF r
<1> QED
  BY <1>2, <1>3

\* Completing a number to a whole page leaves no remainder.
LEMMA ModComplete ==
  ASSUME NEW P \in Nat \ {0}, NEW x \in Nat
  PROVE (P - (x % P) + x) % P = 0
<1> DEFINE q == x \div P
           r == x % P
<1>1. x = P * q + r /\ q \in Nat /\ r \in 0 .. P - 1
  BY DivMod
<1> HIDE DEF q, r
<1>2. P - r + x = P * (q + 1) + 0
  BY <1>1
<1>3. (P * (q + 1) + 0) % P = 0
  BY <1>1, ModUnique
<1> QED
  BY <1>2, <1>3 DEF r

\* A remainder of a number below a page is the number.
LEMMA ModSmall ==
  ASSUME NEW P \in Nat \ {0}, NEW x \in 0 .. P - 1
  PROVE x % P = x
  OBVIOUS

\* Multiples of a page compare as their factors do.
LEMMA MulLess ==
  ASSUME NEW P \in Nat \ {0}, NEW a \in Int, NEW b \in Int, a * P < b * P
  PROVE a < b
  OBVIOUS

\* One page more.
LEMMA MulNext ==
  ASSUME NEW P \in Nat, NEW a \in Int
  PROVE (a + 1) * P = a * P + P /\ a * P \in Int
  OBVIOUS
-----------------------------------------------------------------------------
(* One entry. *)

\* A list is empty or not by its length.
LEMMA EmptyLen ==
  ASSUME NEW S, NEW s \in Seq(S)
  PROVE (s = <<>> <=> Len(s) = 0) /\ Len(s) \in Nat
  OBVIOUS

\* What Chunk takes: something, not more than is left, and never beyond the page.
LEMMA ChunkFacts ==
  ASSUME TypeOK, NEW rest \in Nat \ {0}
  PROVE /\ PageOff \in 0 .. PageSize - 1
        /\ Chunk(rest) \in 1 .. rest /\ PageOff + Chunk(rest) <= PageSize
        /\ Chunk(rest) = rest \/ PageOff + Chunk(rest) = PageSize
<1>1. PageOff \in 0 .. PageSize - 1
  BY PageAssumption, DivMod DEF TypeOK, PageOff
<1> QED
  BY <1>1, PageAssumption DEF Chunk

\* Describe appends an entry and leaves the others.
LEMMA DescribeList ==
  ASSUME TypeOK, NEW len \in Nat, NEW last \in BOOLEAN, Describe(len, last)
  PROVE /\ bdl' \in Seq([page : Nat, off : Nat, len : Nat, ioc : BOOLEAN])
        /\ bdl' # <<>> /\ Len(bdl') = Len(bdl) + 1 /\ Len(bdl) \in Nat
        /\ \A i \in 1 .. Len(bdl) : bdl'[i] = bdl[i]
        /\ bdl'[Len(bdl) + 1] = [page |-> pageNum, off |-> PageOff, len |-> len, ioc |-> last]
<1> DEFINE e == [page |-> pageNum, off |-> PageOff, len |-> len, ioc |-> last]
           Entries == [page : Nat, off : Nat, len : Nat, ioc : BOOLEAN]
<1>1. e \in Entries
  BY PageAssumption, DivMod DEF TypeOK, PageOff
<1>2. bdl \in Seq(Entries) /\ bdl' = Append(bdl, e)
  BY DEF TypeOK, Describe
<1> HIDE DEF e, Entries
<1>3. /\ bdl' \in Seq(Entries) /\ bdl' # <<>> /\ Len(bdl') = Len(bdl) + 1
      /\ Len(bdl) \in Nat /\ \A i \in 1 .. Len(bdl) : bdl'[i] = bdl[i]
      /\ bdl'[Len(bdl) + 1] = e
  BY <1>1, <1>2, EmptyLen
<1> QED
  BY <1>3 DEF e, Entries

\* The cursor moves by the length of the entry.
LEMMA DescribeCursor ==
  ASSUME TypeOK, NEW len \in Nat \ {0}, NEW last, PageOff + len <= PageSize,
         Describe(len, last)
  PROVE /\ offset' = offset + len /\ size' = size - len /\ numBlocks' = numBlocks + 1
        /\ PageOff' = IF PageOff + len = PageSize THEN 0 ELSE PageOff + len
        /\ pageNum' \in Nat
        /\ pageNum' * PageSize + PageOff' = pageNum * PageSize + PageOff + len
        /\ UNCHANGED <<requested, firstHalf, allocOffset, loop, truncated>>
<1>1. /\ offset' = offset + len /\ size' = size - len /\ numBlocks' = numBlocks + 1
      /\ pageNum' = IF (offset + len) % PageSize = 0 THEN pageNum + 1 ELSE pageNum
      /\ UNCHANGED <<requested, firstHalf, allocOffset, loop, truncated>>
  BY DEF Describe
<1>2. (offset + len) % PageSize = IF PageOff + len = PageSize THEN 0 ELSE PageOff + len
  BY PageAssumption, ModStep DEF TypeOK, PageOff
<1>3. PageOff' = (offset + len) % PageSize
  BY <1>1 DEF PageOff
<1>4. PageOff \in Nat
  BY PageAssumption, DivMod DEF TypeOK, PageOff
<1>5. pageNum' = IF PageOff + len = PageSize THEN pageNum + 1 ELSE pageNum
  BY <1>1, <1>2, <1>4
<1>6. (pageNum + 1) * PageSize = pageNum * PageSize + PageSize /\ pageNum * PageSize \in Int
  BY PageAssumption, MulNext DEF TypeOK
<1>7. pageNum' * PageSize + PageOff' = pageNum * PageSize + PageOff + len
  <2>1. CASE PageOff + len = PageSize
    BY <1>2, <1>3, <1>4, <1>5, <1>6, <2>1, PageAssumption
  <2>2. CASE PageOff + len # PageSize
    BY <1>2, <1>3, <1>4, <1>5, <1>6, <2>2, PageAssumption
  <2> QED
    BY <2>1, <2>2
<1>8. pageNum' \in Nat
  BY <1>5 DEF TypeOK
<1> QED
  BY <1>1, <1>2, <1>3, <1>7, <1>8

\* Entries that were there keep their place; the new one is where the cursor was.
LEMMA DescribePlaces ==
  ASSUME TypeOK, NEW len \in Nat, NEW last \in BOOLEAN, Describe(len, last)
  PROVE /\ Len(bdl') = Len(bdl) + 1 /\ Len(bdl) \in Nat
        /\ \A i \in 1 .. Len(bdl) : /\ Start(i)' = Start(i) /\ End(i)' = End(i)
                                    /\ bdl'[i] = bdl[i]
        /\ \A i \in {Len(bdl) + 1} : Start(i)' = pageNum * PageSize + PageOff
                                      /\ End(i)' = Start(i)' + len
        /\ bdl'[Len(bdl) + 1].len = len /\ bdl'[Len(bdl) + 1].ioc = last
        /\ bdl'[Len(bdl) + 1].off = PageOff
<1>1. \A i \in 1 .. Len(bdl) : /\ Start(i)' = Start(i) /\ End(i)' = End(i)
                               /\ bdl'[i] = bdl[i]
  BY DescribeList DEF Start, End
<1>2. bdl'[Len(bdl) + 1] = [page |-> pageNum, off |-> PageOff, len |-> len, ioc |-> last]
  BY DescribeList
<1>3. \A i \in {Len(bdl) + 1} : /\ Start(i)' = pageNum * PageSize + PageOff
                                /\ End(i)' = Start(i)' + len
  BY <1>2 DEF Start, End
<1>4. Len(bdl') = Len(bdl) + 1 /\ Len(bdl) \in Nat
  BY DescribeList
<1> QED
  BY <1>1, <1>2, <1>3, <1>4

\* One more entry keeps the cursor.
LEMMA CursorStep ==
  ASSUME TypeOK, CursorInv, NEW len \in Nat \ {0}, NEW last \in BOOLEAN,
         PageOff + len <= PageSize, Describe(len, last)
  PROVE CursorInv'
<1> DEFINE n == Len(bdl)
           here == pageNum * PageSize + PageOff
<1>1. /\ offset' = offset + len /\ size' = size - len
      /\ pageNum' * PageSize + PageOff' = here + len
      /\ UNCHANGED <<requested, allocOffset>>
  BY DescribeCursor
<1>2. /\ bdl' # <<>> /\ Len(bdl') = n + 1 /\ n \in Nat
      /\ \A i \in 1 .. n : bdl'[i] = bdl[i]
      /\ bdl'[n + 1] = [page |-> pageNum, off |-> PageOff, len |-> len, ioc |-> last]
  BY DescribeList
<1>3. here \in Int /\ pageNum \in Nat /\ PageOff \in Nat
  BY PageAssumption, MulNext, DivMod DEF TypeOK, PageOff
<1>4. Last' = here + len
  BY <1>2 DEF Last, End, Start
<1>5. /\ First' = allocOffset % PageSize
      /\ here - First' = Listed
  <2>1. CASE bdl = <<>>
    <3>1. n = 0 /\ pageNum = 0 /\ offset = allocOffset
      BY <2>1, EmptyLen DEF CursorInv
    <3>2. First' = here
      BY <1>2, <3>1 DEF First, Start
    <3>3. here = allocOffset % PageSize
      BY <3>1, PageAssumption, <1>3 DEF PageOff
    <3>4. here - here = 0 /\ Listed = 0
      BY <1>3, <3>1 DEF TypeOK, Listed
    <3> QED
      BY <3>2, <3>3, <3>4
  <2>2. CASE bdl # <<>>
    <3>1. n # 0
      BY <2>2, EmptyLen DEF TypeOK
    <3>2. First' = First
      BY <1>2, <3>1 DEF First, Start
    <3> QED
      BY <2>2, <3>2 DEF CursorInv
  <2> QED
    BY <2>1, <2>2
<1>6. (here + len) - First' = Listed + len
  <2>1. First' \in Int /\ Listed \in Int
    BY <1>5, PageAssumption, DivMod DEF TypeOK, Listed
  <2> HIDE DEF here
  <2> QED
    BY <1>3, <1>5, <2>1
<1>7. Listed' = Listed + len
  BY <1>1 DEF Listed, TypeOK
<1>8. requested > 0 /\ size' + offset' = requested' + allocOffset'
  BY <1>1 DEF CursorInv, TypeOK
<1>9. Last' - First' = Listed'
  BY <1>4, <1>6, <1>7, Zenon
<1>10. Last' = pageNum' * PageSize + PageOff'
  BY <1>1, <1>4
<1> QED
  BY <1>1, <1>2, <1>5, <1>8, <1>9, <1>10 DEF CursorInv
-----------------------------------------------------------------------------
(* The two loops. *)

\* A turn of the first loop describes one entry of the first half.
LEMMA HalfEntry ==
  ASSUME Inv, HalfStep
  PROVE \E len \in Nat \ {0}, last \in BOOLEAN :
           /\ PageOff + len <= PageSize /\ len <= halfSize /\ len < size
           /\ Describe(len, last) /\ halfSize' = halfSize - len
           /\ last <=> halfSize = len
           /\ len = halfSize \/ PageOff + len = PageSize
<1>1. halfSize \in Nat \ {0} /\ loop = "half" /\ halfSize < size
  BY DEF Inv, TypeOK, CursorInv, HalfInv, HalfStep
<1>2. /\ Chunk(halfSize) \in 1 .. halfSize /\ PageOff + Chunk(halfSize) <= PageSize
      /\ Chunk(halfSize) = halfSize \/ PageOff + Chunk(halfSize) = PageSize
  BY <1>1, ChunkFacts DEF Inv
<1>3. /\ Describe(Chunk(halfSize), halfSize = Chunk(halfSize))
      /\ halfSize' = halfSize - Chunk(halfSize)
  BY DEF HalfStep
<1>4. Chunk(halfSize) \in Nat \ {0} /\ Chunk(halfSize) <= halfSize /\ Chunk(halfSize) < size
  BY <1>1, <1>2 DEF Inv, TypeOK
<1> QED
  BY <1>2, <1>3, <1>4

\* A turn of the second loop describes one entry of what is left.
LEMMA RestEntry ==
  ASSUME Inv, RestStep
  PROVE \E len \in Nat \ {0}, last \in BOOLEAN :
           /\ PageOff + len <= PageSize /\ len <= size
           /\ Describe(len, last) /\ halfSize' = halfSize
           /\ last <=> size = len
           /\ len = size \/ PageOff + len = PageSize
<1>1. size \in Nat \ {0} /\ loop = "rest"
  BY DEF Inv, TypeOK, RestStep
<1>2. /\ Chunk(size) \in 1 .. size /\ PageOff + Chunk(size) <= PageSize
      /\ Chunk(size) = size \/ PageOff + Chunk(size) = PageSize
  BY <1>1, ChunkFacts DEF Inv
<1>3. Describe(Chunk(size), size = Chunk(size)) /\ halfSize' = halfSize
  BY DEF RestStep
<1>4. Chunk(size) \in Nat \ {0} /\ Chunk(size) <= size
  BY <1>1, <1>2
<1> QED
  BY <1>2, <1>3, <1>4

\* One more entry keeps the types.
LEMMA TypeStep ==
  ASSUME TypeOK, NEW len \in Nat \ {0}, NEW last \in BOOLEAN,
         PageOff + len <= PageSize, len <= size, Describe(len, last), halfSize' \in Nat
  PROVE TypeOK'
<1>1. bdl' \in Seq([page : Nat, off : Nat, len : Nat, ioc : BOOLEAN])
  BY DescribeList
<1>2. /\ offset' = offset + len /\ size' = size - len /\ numBlocks' = numBlocks + 1
      /\ pageNum' \in Nat
      /\ UNCHANGED <<requested, firstHalf, allocOffset, loop, truncated>>
  BY DescribeCursor
<1> QED
  BY <1>1, <1>2 DEF TypeOK

\* The request as the loops find it.
LEMMA InvInit == Init => Inv
<1> SUFFICES ASSUME Init PROVE Inv
  OBVIOUS
<1> PICK n \in Notifications :
       /\ firstHalf = IF n = 2 THEN requested \div 2 ELSE 0
       /\ allocOffset = IF n = 2 THEN PageSize - (firstHalf % PageSize) ELSE 0
  BY DEF Init
<1>1. requested \in Nat /\ requested > 0
  BY RequestAssumption DEF Init
<1>2. firstHalf \in Nat /\ firstHalf < requested
  BY <1>1
<1>3. firstHalf % PageSize \in 0 .. PageSize - 1
  BY <1>2, PageAssumption, DivMod
<1>4. allocOffset \in 0 .. PageSize
  BY <1>3, PageAssumption
<1>5. (allocOffset = 0 /\ firstHalf = 0) \/ allocOffset = PageSize - (firstHalf % PageSize)
  OBVIOUS
<1>6. TypeOK
  <2>1. bdl \in Seq([page : Nat, off : Nat, len : Nat, ioc : BOOLEAN])
    BY DEF Init
  <2>2. /\ loop = "half" /\ halfSize = firstHalf /\ size = requested
        /\ offset = allocOffset /\ pageNum = 0 /\ numBlocks = 0 /\ truncated = FALSE
    BY DEF Init
  <2>3. allocOffset \in Nat
    BY <1>4, PageAssumption
  <2> QED
    BY <1>1, <1>2, <1>4, <2>1, <2>2, <2>3 DEF TypeOK
<1>7. CursorInv
  BY <1>1, <1>4, PageAssumption DEF Init, CursorInv
<1>8. HalfInv
  BY <1>2, <1>5, <1>4 DEF Init, HalfInv
<1> QED
  BY <1>6, <1>7, <1>8 DEF Inv

\* Every turn of a loop, and every exit, keeps types, cursor and halves.
LEMMA InvKept ==
  ASSUME Inv, [Next]_vars
  PROVE Inv'
<1> USE DEF Inv
<1>1. CASE HalfStep
  <2> PICK len \in Nat \ {0}, last \in BOOLEAN :
         /\ PageOff + len <= PageSize /\ len <= halfSize /\ len < size
         /\ Describe(len, last) /\ halfSize' = halfSize - len
    BY <1>1, HalfEntry
  <2>1. halfSize' \in Nat /\ len <= size
    BY DEF TypeOK
  <2>2. TypeOK' /\ CursorInv'
    BY <2>1, TypeStep, CursorStep
  <2>3. HalfInv'
    <3>1. offset' = offset + len /\ UNCHANGED <<requested, firstHalf, allocOffset, loop, truncated>>
      BY DescribeCursor
    <3>2. loop = "half"
      BY <1>1 DEF HalfStep
    <3> QED
      BY <3>1, <3>2 DEF HalfInv, TypeOK
  <2> QED
    BY <2>2, <2>3
<1>2. CASE RestStep
  <2> PICK len \in Nat \ {0}, last \in BOOLEAN :
         /\ PageOff + len <= PageSize /\ len <= size
         /\ Describe(len, last) /\ halfSize' = halfSize
    BY <1>2, RestEntry
  <2>1. halfSize' \in Nat
    BY DEF TypeOK
  <2>2. TypeOK' /\ CursorInv'
    BY <2>1, TypeStep, CursorStep
  <2>3. HalfInv'
    <3>1. offset' = offset + len /\ UNCHANGED <<requested, firstHalf, allocOffset, loop, truncated>>
      BY DescribeCursor
    <3>2. loop = "rest"
      BY <1>2 DEF RestStep
    <3>3. Listed' = Listed + len /\ Listed \in Int
      BY <3>1 DEF TypeOK, Listed
    <3> QED
      BY <3>1, <3>2, <3>3 DEF HalfInv, TypeOK
  <2> QED
    BY <2>2, <2>3
<1>3. CASE HalfGiveUp \/ RestGiveUp
  <2>1. /\ numBlocks' \in Nat /\ truncated' = TRUE /\ loop' \in {"rest", "done"}
        /\ UNCHANGED <<requested, firstHalf, allocOffset, halfSize, size, offset, pageNum, bdl>>
    BY <1>3, EntryAssumption DEF HalfGiveUp, RestGiveUp, GiveUp
  <2>2. CursorInv'
    BY <2>1 DEF CursorInv, First, Last, Start, End, PageOff, Listed
  <2> QED
    BY <2>1, <2>2 DEF TypeOK, HalfInv
<1>4. CASE HalfDone \/ RestDone
  <2>1. /\ loop' \in {"rest", "done"} /\ (loop' = "done" => size = 0 /\ loop # "half")
        /\ (loop = "half" => halfSize = 0)
        /\ UNCHANGED <<requested, firstHalf, allocOffset, halfSize, size, offset, pageNum,
                       numBlocks, bdl, truncated>>
    BY <1>4 DEF HalfDone, RestDone
  <2>2. CursorInv'
    BY <2>1 DEF CursorInv, First, Last, Start, End, PageOff, Listed
  <2>3. Listed' = Listed
    BY <2>1 DEF Listed
  <2>4. loop = "half" => Listed >= firstHalf
    BY <2>1 DEF HalfInv, TypeOK, Listed
  <2> QED
    BY <2>1, <2>2, <2>3, <2>4 DEF TypeOK, HalfInv
<1>5. CASE UNCHANGED vars
  <2>1. TypeOK' /\ HalfInv'
    BY <1>5 DEF vars, TypeOK, HalfInv, Listed
  <2>2. CursorInv'
    BY <1>5 DEF vars, CursorInv, First, Last, Start, End, PageOff, Listed
  <2> QED
    BY <2>1, <2>2
<1> QED
  BY <1>1, <1>2, <1>3, <1>4, <1>5 DEF Next
-----------------------------------------------------------------------------
(* What is said of every entry. *)

\* An entry that is added lies in its page.
LEMMA WithinStep ==
  ASSUME TypeOK, WithinPage, NEW len \in Nat \ {0}, NEW last \in BOOLEAN,
         PageOff + len <= PageSize, Describe(len, last)
  PROVE WithinPage'
<1>1. /\ Len(bdl') = Len(bdl) + 1 /\ Len(bdl) \in Nat
      /\ \A i \in 1 .. Len(bdl) : bdl'[i] = bdl[i]
      /\ bdl'[Len(bdl) + 1].len = len /\ bdl'[Len(bdl) + 1].off = PageOff
  BY DescribePlaces
<1> SUFFICES ASSUME NEW i \in 1 .. Len(bdl')
             PROVE bdl'[i].len > 0 /\ bdl'[i].off + bdl'[i].len <= PageSize
  BY DEF WithinPage
<1>2. CASE i \in 1 .. Len(bdl)
  BY <1>1, <1>2 DEF WithinPage
<1>3. CASE i = Len(bdl) + 1
  BY <1>1, <1>3
<1> QED
  BY <1>1, <1>2, <1>3

\* An entry that is added starts where the last one ended.
LEMMA ContiguousStep ==
  ASSUME TypeOK, CursorInv, Contiguous, NEW len \in Nat \ {0}, NEW last \in BOOLEAN,
         Describe(len, last)
  PROVE Contiguous'
<1> DEFINE n == Len(bdl)
<1>1. /\ Len(bdl') = n + 1 /\ n \in Nat
      /\ \A i \in 1 .. n : Start(i)' = Start(i) /\ End(i)' = End(i)
      /\ \A i \in {n + 1} : Start(i)' = pageNum * PageSize + PageOff
  BY DescribePlaces
<1>2. n # 0 => End(n) = pageNum * PageSize + PageOff
  BY EmptyLen DEF CursorInv, Last, TypeOK
<1> SUFFICES ASSUME NEW i \in 1 .. Len(bdl') - 1 PROVE Start(i + 1)' = End(i)'
  BY DEF Contiguous
<1> HIDE DEF n
<1>3. i \in 1 .. n
  BY <1>1
<1>4. CASE i + 1 \in 1 .. n
  <2>1. Start(i + 1) = End(i)
    BY <1>1, <1>3, <1>4 DEF Contiguous, n
  <2> QED
    BY <1>1, <1>3, <1>4, <2>1
<1>5. CASE i = n
  BY <1>1, <1>2, <1>3, <1>5
<1> QED
  BY <1>1, <1>3, <1>4, <1>5

\* The end of an entry that is added, counted from the first.
LEMMA NewEnd ==
  ASSUME TypeOK, CursorInv, NEW len \in Nat \ {0}, NEW last \in BOOLEAN,
         PageOff + len <= PageSize, Describe(len, last)
  PROVE /\ Listed' = Listed + len /\ Listed \in Int
        /\ \A i \in {Len(bdl) + 1} : End(i)' - First' = Listed + len
        /\ bdl # <<>> => First' = First
<1>1. CursorInv' /\ bdl' # <<>>
  BY CursorStep, DescribeList
<1>2. Len(bdl') = Len(bdl) + 1 /\ Len(bdl) \in Nat
  BY DescribeList
<1>3. Listed' = Listed + len /\ Listed \in Int
  BY DescribeCursor DEF Listed, TypeOK
<1>4. \A i \in {Len(bdl) + 1} : End(i)' = Last'
  BY <1>2 DEF Last
<1>5. Last' - First' = Listed'
  BY <1>1 DEF CursorInv
<1>6. bdl # <<>> => First' = First
  <2> SUFFICES ASSUME bdl # <<>> PROVE First' = First
    OBVIOUS
  <2>1. First' = allocOffset' % PageSize /\ First = allocOffset % PageSize
    BY <1>1 DEF CursorInv
  <2> QED
    BY <2>1, DescribeCursor
<1> QED
  BY <1>3, <1>4, <1>5, <1>6

\* An entry that is added interrupts if and only if it ends a half.
LEMMA IocStep ==
  ASSUME TypeOK, CursorInv, IocInv, NEW len \in Nat \ {0}, NEW last \in BOOLEAN,
         PageOff + len <= PageSize, Describe(len, last),
         ~truncated => (last <=> Listed + len \in {firstHalf, requested})
  PROVE IocInv'
<1> SUFFICES ASSUME ~truncated', NEW i \in 1 .. Len(bdl')
             PROVE bdl'[i].ioc <=> End(i)' - First' \in {firstHalf', requested'}
  BY DEF IocInv
<1>1. /\ Len(bdl') = Len(bdl) + 1 /\ Len(bdl) \in Nat
      /\ \A j \in 1 .. Len(bdl) : End(j)' = End(j) /\ bdl'[j] = bdl[j]
      /\ bdl'[Len(bdl) + 1].ioc = last
  BY DescribePlaces
<1>2. UNCHANGED <<firstHalf, requested, truncated>>
  BY DescribeCursor
<1>3. CASE i \in 1 .. Len(bdl)
  <2>1. bdl # <<>>
    BY <1>1, <1>3, EmptyLen DEF TypeOK
  <2>2. First' = First
    BY <2>1, NewEnd
  <2> QED
    BY <1>1, <1>2, <1>3, <2>2 DEF IocInv
<1>4. CASE i = Len(bdl) + 1
  <2>1. End(i)' - First' = Listed + len
    BY <1>4, NewEnd
  <2>2. bdl'[i].ioc = last
    BY <1>1, <1>4
  <2> QED
    BY <1>2, <2>1, <2>2
<1> QED
  BY <1>1, <1>3, <1>4

\* An entry that is added and does not fill its page is the last one.
LEMMA FitStep ==
  ASSUME TypeOK, CursorInv, FitInv, NEW len \in Nat \ {0}, NEW last \in BOOLEAN,
         PageOff + len <= PageSize, len <= size, Describe(len, last),
         PageOff + len = PageSize \/ len = size
  PROVE FitInv'
<1> DEFINE L == Len(bdl)
<1>1. /\ Listed' = Listed + len /\ Listed \in Int
      /\ size' = size - len /\ numBlocks' = numBlocks + 1
      /\ PageOff' = IF PageOff + len = PageSize THEN 0 ELSE PageOff + len
      /\ UNCHANGED <<requested, truncated>>
  BY DescribeCursor, NewEnd
<1>2. Len(bdl') = L + 1 /\ L \in Nat /\ bdl' # <<>>
  BY DescribeList
<1>3. (L + 1) * PageSize = L * PageSize + PageSize /\ L * PageSize \in Int
  BY <1>2, MulNext, PageAssumption
<1>4. bdl = <<>> => L * PageSize = 0 /\ Listed = 0
  BY EmptyLen, PageAssumption DEF CursorInv, TypeOK, Listed
<1>5. PageOff \in Nat /\ PageSize \in Nat \ {0} /\ size \in Nat
  BY PageAssumption, DivMod DEF PageOff, TypeOK
<1> HIDE DEF L
<1>6. ~truncated' => numBlocks' = Len(bdl')
  BY <1>1, <1>2 DEF FitInv, L
<1> SUFFICES ASSUME requested <= (MaxEntries - 1) * PageSize
             PROVE /\ ~truncated
                   /\ size' > 0 => /\ PageOff' = 0
                                   /\ (L + 1) * PageSize <= Listed' + PageSize - 1
                   /\ (L + 1) * PageSize <= Listed' + 2 * PageSize - 2
  BY <1>1, <1>2, <1>6 DEF FitInv
<1>7. size > 0
  BY <1>5
<1>8. /\ ~truncated
      /\ bdl # <<>> => PageOff = 0 /\ L * PageSize <= Listed + PageSize - 1
  BY <1>7 DEF FitInv, L
<1>9. CASE PageOff + len = PageSize
  <2>1. (L + 1) * PageSize <= Listed' + PageSize - 1
    <3>1. CASE bdl = <<>>
      BY <1>1, <1>3, <1>4, <1>5, <3>1
    <3>2. CASE bdl # <<>>
      BY <1>1, <1>3, <1>5, <1>8, <1>9, <3>2
    <3> QED
      BY <3>1, <3>2
  <2> QED
    BY <1>1, <1>3, <1>5, <1>8, <1>9, <2>1
<1>10. CASE PageOff + len # PageSize
  <2>1. size' = 0
    BY <1>1, <1>5, <1>10
  <2>2. (L + 1) * PageSize <= Listed' + 2 * PageSize - 2
    <3>1. CASE bdl = <<>>
      BY <1>1, <1>3, <1>4, <1>5, <3>1
    <3>2. CASE bdl # <<>>
      BY <1>1, <1>3, <1>5, <1>8, <3>2
    <3> QED
      BY <3>1, <3>2
  <2> QED
    BY <1>8, <2>1, <2>2
<1> QED
  BY <1>9, <1>10

\* The first half ends on a page.
LEMMA HalfFillsPage ==
  ASSUME Inv, HalfStep, NEW len \in Nat \ {0}, PageOff + len <= PageSize, len = halfSize
  PROVE PageOff + len = PageSize
<1>1. offset + len = allocOffset + firstHalf
  BY DEF Inv, HalfInv, HalfStep, TypeOK
<1>2. (allocOffset + firstHalf) % PageSize = 0
  <2>1. CASE allocOffset = 0 /\ firstHalf = 0
    BY <2>1, PageAssumption, ModSmall
  <2>2. CASE allocOffset = PageSize - (firstHalf % PageSize)
    BY <2>2, PageAssumption, ModComplete DEF Inv, TypeOK
  <2> QED
    BY <2>1, <2>2 DEF Inv, HalfInv
<1>3. (offset + len) % PageSize = IF PageOff + len = PageSize THEN 0 ELSE PageOff + len
  BY PageAssumption, ModStep DEF Inv, TypeOK, PageOff
<1>4. PageOff \in Nat
  BY PageAssumption, DivMod DEF Inv, TypeOK, PageOff
<1> QED
  BY <1>1, <1>2, <1>3, <1>4

\* A request that fits is never given up.
LEMMA NeverTooMany ==
  ASSUME Inv, FitInv, requested <= (MaxEntries - 1) * PageSize, size > 0
  PROVE ~TooMany
<1> DEFINE L == Len(bdl)
<1>1. numBlocks = L
  BY DEF FitInv
<1>2. CASE bdl = <<>>
  BY <1>1, <1>2, EmptyLen, EntryAssumption DEF TooMany, Inv, TypeOK
<1>3. CASE bdl # <<>>
  <2>1. L * PageSize <= Listed + PageSize - 1
    BY <1>3 DEF FitInv
  <2>2. Listed < requested /\ Listed \in Int /\ L \in Nat /\ requested \in Int
    BY EmptyLen DEF Inv, CursorInv, TypeOK, Listed
  <2>3. MaxEntries * PageSize = (MaxEntries - 1) * PageSize + PageSize
        /\ (MaxEntries - 1) * PageSize \in Int /\ L * PageSize \in Int
    BY <2>2, MulNext, EntryAssumption, PageAssumption
  <2> HIDE DEF L
  <2>4. L * PageSize < MaxEntries * PageSize
    BY <2>1, <2>2, <2>3, PageAssumption
  <2>5. L < MaxEntries
    BY <2>2, <2>4, MulLess, PageAssumption, EntryAssumption
  <2> QED
    BY <1>1, <2>2, <2>5, EntryAssumption DEF TooMany
<1> QED
  BY <1>2, <1>3
-----------------------------------------------------------------------------
(* The theorems. *)

\* All that holds of the list while it is built.
ListInv == Inv /\ WithinPage /\ Contiguous /\ IocInv /\ FitInv

\* An empty list, nothing of it described.
LEMMA ListInit == Init => ListInv
<1> SUFFICES ASSUME Init PROVE ListInv
  OBVIOUS
<1>1. Inv
  BY InvInit
<1>2. bdl = <<>> /\ numBlocks = 0 /\ ~truncated /\ offset = allocOffset
  BY DEF Init
<1>3. Len(bdl) = 0
  BY <1>1, <1>2, EmptyLen DEF Inv, TypeOK
<1>4. WithinPage /\ Contiguous /\ IocInv
  BY <1>3 DEF WithinPage, Contiguous, IocInv
<1>5. FitInv
  <2>1. Len(bdl) * PageSize = 0 /\ Listed = 0
    BY <1>1, <1>2, <1>3, PageAssumption DEF Inv, TypeOK, Listed
  <2>2. 0 <= 0 + 2 * PageSize - 2
    BY PageAssumption
  <2> QED
    BY <1>2, <1>3, <2>1, <2>2 DEF FitInv
<1> QED
  BY <1>1, <1>4, <1>5 DEF ListInv

\* What leaves the list, its cursor and the request alone keeps what is said of it.
LEMMA ListUntouched ==
  ASSUME ListInv,
         UNCHANGED <<requested, firstHalf, allocOffset, size, offset, bdl>>,
         truncated' = FALSE => truncated = FALSE /\ numBlocks' = numBlocks,
         truncated' \in BOOLEAN,
         requested <= (MaxEntries - 1) * PageSize => ~truncated'
  PROVE WithinPage' /\ Contiguous' /\ IocInv' /\ FitInv'
<1>1. WithinPage' /\ Contiguous'
  BY DEF ListInv, WithinPage, Contiguous, Start, End
<1>2. IocInv'
  BY DEF ListInv, IocInv, First, Start, End
<1>3. Listed' = Listed /\ PageOff' = PageOff
  BY DEF Listed, PageOff
<1>4. FitInv'
  BY <1>3 DEF ListInv, FitInv
<1> QED
  BY <1>1, <1>2, <1>4

\* Every turn of a loop, and every exit, keeps it.
LEMMA ListKept ==
  ASSUME ListInv, [Next]_vars
  PROVE ListInv'
<1> Inv /\ TypeOK /\ CursorInv /\ HalfInv
  BY DEF ListInv, Inv
<1> SUFFICES WithinPage' /\ Contiguous' /\ IocInv' /\ FitInv'
  BY InvKept DEF ListInv
<1>1. CASE HalfStep
  <2> PICK len \in Nat \ {0}, last \in BOOLEAN :
         /\ PageOff + len <= PageSize /\ len <= halfSize /\ len < size
         /\ Describe(len, last) /\ (last <=> halfSize = len)
         /\ len = halfSize \/ PageOff + len = PageSize
    BY <1>1, HalfEntry
  <2>1. halfSize + Listed = firstHalf /\ Listed \in Int
    BY <1>1 DEF HalfInv, HalfStep, TypeOK, Listed
  <2>2. last <=> Listed + len \in {firstHalf, requested}
    BY <2>1 DEF HalfInv, TypeOK
  <2>3. PageOff + len = PageSize
    BY <1>1, HalfFillsPage
  <2>4. len <= size
    BY DEF TypeOK
  <2> QED
    BY <2>2, <2>3, <2>4, WithinStep, ContiguousStep, IocStep, FitStep DEF ListInv
<1>2. CASE RestStep
  <2> PICK len \in Nat \ {0}, last \in BOOLEAN :
         /\ PageOff + len <= PageSize /\ len <= size
         /\ Describe(len, last) /\ (last <=> size = len)
         /\ len = size \/ PageOff + len = PageSize
    BY <1>2, RestEntry
  <2>1. size + Listed = requested /\ Listed \in Int
    BY DEF CursorInv, TypeOK, Listed
  <2>2. ~truncated => Listed >= firstHalf
    BY <1>2 DEF HalfInv, RestStep
  <2>3. ~truncated => (last <=> Listed + len \in {firstHalf, requested})
    BY <2>1, <2>2 DEF TypeOK
  <2> QED
    BY <2>3, WithinStep, ContiguousStep, IocStep, FitStep DEF ListInv
<1>3. CASE HalfGiveUp \/ RestGiveUp
  <2>1. /\ truncated' = TRUE /\ TooMany
        /\ UNCHANGED <<requested, firstHalf, allocOffset, halfSize, size, offset, pageNum, bdl>>
    BY <1>3 DEF HalfGiveUp, RestGiveUp, GiveUp
  <2>2. size > 0
    BY <1>3 DEF HalfGiveUp, RestGiveUp, HalfInv, CursorInv, TypeOK
  <2>3. ~(requested <= (MaxEntries - 1) * PageSize)
    BY <2>1, <2>2, NeverTooMany DEF ListInv
  <2> QED
    BY <2>1, <2>3, ListUntouched
<1>4. CASE HalfDone \/ RestDone \/ UNCHANGED vars
  <2>1. UNCHANGED <<requested, firstHalf, allocOffset, halfSize, size, offset, pageNum,
                    numBlocks, bdl, truncated>>
    BY <1>4 DEF HalfDone, RestDone, vars
  <2>2. truncated' = truncated /\ truncated \in BOOLEAN
    BY <2>1 DEF TypeOK
  <2>3. truncated' = FALSE => truncated = FALSE /\ numBlocks' = numBlocks
    BY <2>1
  <2>4. requested <= (MaxEntries - 1) * PageSize => ~truncated'
    BY <2>1 DEF ListInv, FitInv
  <2> QED
    BY <2>1, <2>2, <2>3, <2>4, ListUntouched
<1> QED
  BY <1>1, <1>2, <1>3, <1>4 DEF Next

\* The inductive invariant of the list, for all that follows.
LEMMA ListHolds == Spec => []ListInv
  BY ListInit, ListKept, PTL DEF Spec

\* The locals of HDA_AllocateDmaBufferWithNotification and the entries it
\* writes keep their types; in particular no counter goes below zero.
THEOREM TypeCorrect == Spec => []TypeOK
<1>1. ListInv => TypeOK
  BY DEF ListInv, Inv
<1> QED
  BY <1>1, ListHolds, PTL

\* No entry is empty and none leaves its page, whatever the halves.
THEOREM EntriesWithinPage == Spec => []WithinPage
<1>1. ListInv => WithinPage
  BY DEF ListInv
<1> QED
  BY <1>1, ListHolds, PTL

\* Every entry starts where the one before it ends: no gap and no overlap.
THEOREM ListContiguous == Spec => []Contiguous
<1>1. ListInv => Contiguous
  BY DEF ListInv
<1> QED
  BY <1>1, ListHolds, PTL

\* A list that was not cut off describes RequestedBufferSize bytes.
THEOREM WholeBufferListed == Spec => []Complete
<1>1. ASSUME ListInv PROVE Complete
  <2> SUFFICES ASSUME loop = "done", ~truncated
               PROVE Len(bdl) > 0 /\ End(Len(bdl)) - Start(1) = requested
    BY DEF Complete
  <2>1. size = 0 /\ TypeOK /\ CursorInv
    BY <1>1 DEF ListInv, Inv, HalfInv
  <2>2. Listed = requested /\ requested > 0
    BY <2>1 DEF CursorInv, Listed, TypeOK
  <2>3. bdl # <<>>
    BY <2>1, <2>2 DEF CursorInv, Listed, TypeOK
  <2>4. Len(bdl) > 0
    BY <2>1, <2>3, EmptyLen DEF TypeOK
  <2> QED
    BY <2>1, <2>2, <2>3, <2>4 DEF CursorInv, First, Last
<1> QED
  BY <1>1, ListHolds, PTL

\* The entry that ends the first half and the one that ends the buffer
\* interrupt, and no other does.
THEOREM InterruptsAtHalves == Spec => []InterruptPoints
<1>1. ListInv => InterruptPoints
  BY DEF ListInv, IocInv, InterruptPoints, First
<1> QED
  BY <1>1, ListHolds, PTL

\* Unless half of the buffer is a whole number of pages, the list starts at
\* the byte the client is told, *OffsetFromFirstPage.
THEOREM ListStartsAtBuffer == Spec => []StartsWhereTold
<1>1. ASSUME ListInv PROVE StartsWhereTold
  <2> SUFFICES ASSUME allocOffset = 0 \/ firstHalf % PageSize # 0, Len(bdl) > 0
               PROVE Start(1) = allocOffset
    BY DEF StartsWhereTold, StartsAtOffset
  <2>1. TypeOK /\ CursorInv /\ HalfInv
    BY <1>1 DEF ListInv, Inv
  <2>2. Start(1) = allocOffset % PageSize
    BY <2>1, EmptyLen DEF CursorInv, First, TypeOK
  <2>3. allocOffset \in 0 .. PageSize - 1
    <3>1. CASE allocOffset = 0
      BY <3>1, PageAssumption
    <3>2. CASE allocOffset # 0
      <4>1. allocOffset = PageSize - (firstHalf % PageSize) /\ firstHalf % PageSize # 0
        BY <2>1, <3>2 DEF HalfInv
      <4>2. firstHalf % PageSize \in 0 .. PageSize - 1
        BY <2>1, PageAssumption, DivMod DEF TypeOK
      <4> QED
        BY <4>1, <4>2, PageAssumption
    <3> QED
      BY <3>1, <3>2
  <2> QED
    BY <2>2, <2>3, ModSmall, PageAssumption
<1> QED
  BY <1>1, ListHolds, PTL

\* The list is the client's buffer: the four theorems together.
THEOREM ListCoversBuffer == Spec => []Covers
<1>1. WithinPage /\ Contiguous /\ Complete /\ StartsWhereTold => Covers
  BY DEF Covers
<1> QED
  BY <1>1, EntriesWithinPage, ListContiguous, WholeBufferListed, ListStartsAtBuffer, PTL

\* A request of one page less than the list can name stays inside the memory
\* allocated for the list: "max number of fragments" is never exceeded.
THEOREM ListFits == Spec => []FitsList
<1>1. ASSUME ListInv PROVE FitsList
  <2> DEFINE L == Len(bdl)
  <2> SUFFICES ASSUME requested <= (MaxEntries - 1) * PageSize PROVE L <= MaxEntries
    BY DEF FitsList
  <2>1. TypeOK /\ CursorInv /\ L * PageSize <= Listed + 2 * PageSize - 2
    BY <1>1 DEF ListInv, Inv, FitInv
  <2>2. Listed <= requested /\ Listed \in Int /\ L \in Nat /\ requested \in Int
    BY <2>1, EmptyLen DEF CursorInv, TypeOK, Listed
  <2>3. /\ MaxEntries * PageSize = (MaxEntries - 1) * PageSize + PageSize
        /\ (MaxEntries + 1) * PageSize = MaxEntries * PageSize + PageSize
        /\ (MaxEntries - 1) * PageSize \in Int /\ L * PageSize \in Int
    BY <2>2, MulNext, EntryAssumption, PageAssumption
  <2> HIDE DEF L
  <2>4. L * PageSize < (MaxEntries + 1) * PageSize
    BY <2>1, <2>2, <2>3, PageAssumption
  <2>5. L < MaxEntries + 1
    BY <2>2, <2>4, MulLess, PageAssumption, EntryAssumption
  <2> QED
    BY <2>2, <2>5, EntryAssumption
<1> QED
  BY <1>1, ListHolds, PTL
=============================================================================
