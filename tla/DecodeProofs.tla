---------------------------- MODULE DecodeProofs ----------------------------
(***************************************************************************)
(* Proofs about Decode, for any size of a page, of the caps and of the     *)
(* address space, any calls and any number of writes by the other task.    *)
(***************************************************************************)
EXTENDS DecodeInv, SequenceTheorems, FiniteSetTheorems, WellFoundedInduction, TLAPS

-----------------------------------------------------------------------------
(* Least and greatest                                                      *)

LEMMA NatMin ==
  ASSUME NEW S \in SUBSET Nat, S # {}
  PROVE  \E n \in S : \A m \in S : n <= m
<1>1. PICK n \in S : \A m \in S : <<m, n>> \notin OpToRel(<, Nat)
  BY NatLessThanWellFounded, WFMin
<1>2. \A m \in S : ~(m < n)
  BY <1>1 DEF OpToRel
<1> QED
  BY <1>2

LEMMA MinIs ==
  ASSUME NEW S \in SUBSET Int, NEW n \in S, \A m \in S : n <= m
  PROVE  Min(S) = n
<1>1. Min(S) \in S /\ \A m \in S : Min(S) <= m
  BY DEF Min
<1>2. Min(S) \in Int /\ n \in Int /\ Min(S) <= n /\ n <= Min(S)
  BY <1>1
<1> QED
  BY <1>2

LEMMA MaxIs ==
  ASSUME NEW S \in SUBSET Int, NEW n \in S, \A m \in S : n >= m
  PROVE  Max(S) = n
<1>1. Max(S) \in S /\ \A m \in S : Max(S) >= m
  BY DEF Max
<1>2. Max(S) \in Int /\ n \in Int /\ Max(S) >= n /\ n >= Max(S)
  BY <1>1
<1> QED
  BY <1>2

LEMMA MinOfTwo ==
  ASSUME NEW a \in Int, NEW b \in Int
  PROVE  Min({a, b}) = IF a <= b THEN a ELSE b
<1>1. CASE a <= b
  BY <1>1, MinIs
<1>2. CASE ~(a <= b)
  BY <1>2, MinIs
<1> QED
  BY <1>1, <1>2

\* Two sequences joined, by their lengths.
LEMMA Joined ==
  ASSUME NEW S, NEW a \in Seq(S), NEW b \in Seq(S), NEW n \in Nat, NEW m \in Nat,
         Len(a) = n, Len(b) = m
  PROVE  /\ a \o b \in Seq(S) /\ Len(a \o b) = n + m /\ DOMAIN (a \o b) = 1 .. n + m
         /\ \A i \in 1 .. n + m : (a \o b)[i] = IF i <= n THEN a[i] ELSE b[i - n]
<1>1. /\ a \o b \in Seq(S) /\ Len(a \o b) = n + m
      /\ \A i \in 1 .. n + m : (a \o b)[i] = IF i <= n THEN a[i] ELSE b[i - n]
  BY ConcatProperties
<1> QED
  BY <1>1

-----------------------------------------------------------------------------
(* Pages                                                                   *)

LEMMA Sizes ==
  /\ PAGE_SIZE \in Nat \ {0} /\ UserPages \in Nat \ {0} /\ PATH_MAX \in Nat \ {0}
  /\ MAX_ARGV_ENTRY_BYTES \in 1 .. PATH_MAX /\ MAX_ARGV \in Nat \ {0}
  /\ MAX_INLINE_BYTES \in Nat \ {0} /\ STATUS_WORD_BYTES \in Nat \ {0} /\ MaxWrites \in Nat
  /\ RegRange \in Nat \ {0} /\ RegRange % PAGE_SIZE = 0
  /\ PAGE_SIZE * (UserPages + 1) < RegRange
  /\ Register \subseteq Nat /\ Strings \subseteq Register
BY DecodeAssumption, RegistersAssumption DEF Register

LEMMA Divided ==
  ASSUME NEW a \in Nat, NEW d \in Nat \ {0}
  PROVE  \E q \in Nat, r \in 0 .. d - 1 : a = d * q + r /\ a \div d = q /\ a % d = r
<1>1. a % d \in 0 .. d - 1
  OBVIOUS
<1>2. a \div d \in Int /\ a \div d >= 0
  OBVIOUS
<1>3. PICK q \in Nat, r \in 0 .. d - 1 : q = a \div d /\ r = a % d
  BY <1>1, <1>2
<1>4. a = d * q + r
  BY <1>3
<1> QED
  BY <1>3, <1>4

LEMMA DividedIs ==
  ASSUME NEW a \in Nat, NEW d \in Nat \ {0}, NEW q \in Nat, NEW r \in 0 .. d - 1, a = d * q + r
  PROVE  a \div d = q /\ a % d = r
BY SMT

\* Two addresses in one page, and how far it is to the next one.
LEMMA PageIs ==
  ASSUME NEW a \in Addr
  PROVE  \E q \in Nat, r \in 0 .. PAGE_SIZE - 1 :
           /\ a = PAGE_SIZE * q + r
           /\ PageOf(a) = q /\ a % PAGE_SIZE = r
           /\ ToPage(a) = PAGE_SIZE - r
<1> DEFINE P == PAGE_SIZE  R == RegRange
<1>1. P \in Nat \ {0} /\ R \in Nat \ {0} /\ R % P = 0 /\ a \in Nat /\ a < R /\ P < R
  <2>1. PAGE_SIZE * (UserPages + 1) >= PAGE_SIZE
    BY Sizes
  <2> QED
    BY Sizes, <2>1 DEF Addr, Register
<1>2. PICK q \in Nat, r \in 0 .. P - 1 : a = P * q + r /\ a \div P = q /\ a % P = r
  BY <1>1, Divided
<1>3. PICK M \in Nat : R = P * M
  <2>1. PICK m \in Nat, r0 \in 0 .. P - 1 : R = P * m + r0 /\ R % P = r0
    BY <1>1, Divided
  <2> QED
    BY <1>1, <2>1
<1>4. q + 1 <= M
  BY <1>1, <1>2, <1>3
<1>5. P * (q + 1) = a + (P - r) /\ P * (q + 1) \in Nat
  BY <1>1, <1>2
<1>6. CASE q + 1 < M
  <2>1. P * (q + 1) < R
    BY <1>1, <1>3, <1>6
  <2>2. NextPage(a) = P * (q + 1)
    BY <1>1, <1>2, <1>5, <2>1 DEF NextPage, PageOf
  <2>3. ToPage(a) = P - r
    BY <1>1, <1>2, <1>5, <2>1, <2>2 DEF ToPage
  <2> QED
    BY <1>2, <2>3 DEF PageOf
<1>7. CASE q + 1 = M
  <2>1. NextPage(a) = 0
    BY <1>1, <1>2, <1>3, <1>7 DEF NextPage, PageOf
  <2>2. a = R - (P - r)
    BY <1>1, <1>2, <1>3, <1>5, <1>7
  <2>3. ToPage(a) = P - r
    <3>1. 0 - a = R * (-1) + (P - r) /\ P - r \in 0 .. R - 1
      BY <1>1, <1>2, <2>2
    <3>2. (0 - a) % R = P - r
      BY <1>1, <3>1
    <3> QED
      BY <2>1, <3>2 DEF ToPage
  <2> QED
    BY <1>2, <2>3 DEF PageOf
<1> QED
  BY <1>4, <1>6, <1>7

\* A chunk stays in the page it starts in, and does not get past the end.
LEMMA ChunkIs ==
  ASSUME NEW a \in Addr, NEW left \in Nat \ {0}
  PROVE  /\ Chunk(a, left) \in 1 .. left
         /\ Chunk(a, left) <= PAGE_SIZE
         /\ Chunk(a, left) = left \/ (a + Chunk(a, left)) % PAGE_SIZE = 0
         /\ Chunk(a, left) = left \/ (a % PAGE_SIZE = 0 => Chunk(a, left) = PAGE_SIZE)
         /\ \A b \in a .. a + Chunk(a, left) - 1 : PageOf(b) = PageOf(a)
<1>1. PICK q \in Nat, r \in 0 .. PAGE_SIZE - 1 :
        /\ a = PAGE_SIZE * q + r /\ PageOf(a) = q /\ a % PAGE_SIZE = r /\ ToPage(a) = PAGE_SIZE - r
  BY PageIs
<1>2. PAGE_SIZE \in Nat \ {0} /\ a \in Nat
  BY Sizes DEF Addr
<1>3. Chunk(a, left) = IF left <= PAGE_SIZE - r THEN left ELSE PAGE_SIZE - r
  BY <1>1, <1>2, MinOfTwo DEF Chunk
<1>4. (a + (PAGE_SIZE - r)) % PAGE_SIZE = 0
  <2>1. PICK p \in Nat : p = q + 1
    OBVIOUS
  <2>2. /\ a + (PAGE_SIZE - r) = PAGE_SIZE * p + 0 /\ 0 \in 0 .. PAGE_SIZE - 1
        /\ a + (PAGE_SIZE - r) \in Nat
    BY <1>1, <1>2, <2>1
  <2> QED
    BY ONLY <1>2, <2>2, DividedIs
<1>5. ASSUME NEW b \in a .. a + (PAGE_SIZE - r) - 1
      PROVE  PageOf(b) = q
  <2>1. b \in Nat /\ b = PAGE_SIZE * q + (b - PAGE_SIZE * q) /\ b - PAGE_SIZE * q \in 0 .. PAGE_SIZE - 1
    BY <1>1, <1>2, <1>5
  <2> QED
    BY <1>2, <2>1, DividedIs DEF PageOf
<1> QED
  BY <1>1, <1>2, <1>3, <1>4, <1>5

\* The addresses a task can have are those of its pages.
LEMMA UserIs ==
  ASSUME NEW a \in Nat
  PROVE  /\ a \in UserAddr <=> PageOf(a) \in 1 .. UserPages
         /\ a \in UserAddr => a \in Addr /\ a + 1 < RegRange
<1>1. PICK q \in Nat, r \in 0 .. PAGE_SIZE - 1 : a = PAGE_SIZE * q + r /\ a \div PAGE_SIZE = q
  BY Sizes, Divided
<1>2. q <= UserPages => a + 1 <= PAGE_SIZE * (UserPages + 1)
  BY <1>1, Sizes
<1>3. q <= UserPages => a + 1 < RegRange /\ a \in Addr
  BY <1>1, <1>2, Sizes DEF Addr, Register
<1>4. PageOf(a) = q
  BY <1>1 DEF PageOf
<1> QED
  BY <1>3, <1>4, Sizes DEF UserAddr

-----------------------------------------------------------------------------
(* read_cstr                                                               *)

LEMMA StrIs ==
  ASSUME NEW b
  PROVE  /\ Str(b).tag = "string" /\ Str(b).bytes = b
         /\ Str(b) \notin Errors /\ Str(b) # None
BY DEF Str, Errors, Vm, Ptrace, TruncatedCstr, Tag, None

LEMMA TagsDiffer ==
  /\ None \notin Errors /\ Ok \notin Errors /\ None # Ok
  /\ Vm \in Errors /\ Ptrace \in Errors /\ TruncatedCstr \in Errors
  /\ Vm # None /\ Ptrace # None /\ TruncatedCstr # None
BY DEF Errors, Vm, Ptrace, TruncatedCstr, Tag, None, Ok

\* One chunk: it is read whole, or its page cannot be read.
There(a) == a \in UserAddr /\ PageOf(a) \in mapped

LEMMA NextChunk ==
  ASSUME TypeOK, remaining # 0,
         NEW c, c = Chunk(cursor, remaining), NEW got, got = read_bytes(cursor, c)
  PROVE  /\ c \in 1 .. remaining /\ cursor \in Nat
         /\ got \notin Errors =>
              /\ ~denied
              /\ \E b \in Bytes :
                   /\ got = Str(b) /\ Len(b) = c
                   /\ \A i \in 1 .. c : b[i] = mem[cursor + i - 1] /\ There(cursor + i - 1)
         /\ got \in Errors =>
              \/ denied /\ got = Ptrace
              \/ ~denied /\ got = Vm /\ ~There(cursor)
<1>1. /\ cursor \in Addr /\ cursor \in Nat /\ remaining \in Nat \ {0}
      /\ mem \in [UserAddr -> {0, 1}] /\ denied \in BOOLEAN
  BY Sizes DEF TypeOK, Addr, Register
<1>2. c \in 1 .. remaining /\ \A b \in cursor .. cursor + c - 1 : PageOf(b) = PageOf(cursor)
  BY <1>1, ChunkIs
<1>3. CASE denied
  BY <1>1, <1>2, <1>3, TagsDiffer DEF read_bytes
<1>4. CASE ~denied /\ Readable(cursor, c)
  <2> DEFINE b == [i \in 1 .. c |-> mem[cursor + i - 1]]
  <2>1. got = Str(b)
    BY <1>4 DEF read_bytes
  <2>2. \A i \in 1 .. c : cursor + i - 1 \in cursor .. cursor + c - 1
    BY <1>1, <1>2
  <2>3. \A i \in 1 .. c : There(cursor + i - 1)
    BY <1>4, <2>2 DEF Readable, There
  <2>4. \A i \in 1 .. c : mem[cursor + i - 1] \in {0, 1}
    BY <1>1, <2>3 DEF There
  <2>5. b \in Bytes /\ Len(b) = c /\ \A i \in 1 .. c : b[i] = mem[cursor + i - 1]
    BY <1>1, <1>2, <2>4 DEF Bytes
  <2> HIDE DEF b
  <2> QED
    BY <1>1, <1>2, <1>4, <2>1, <2>3, <2>5, StrIs
<1>5. CASE ~denied /\ ~Readable(cursor, c)
  <2>1. got = Vm
    BY <1>5 DEF read_bytes
  <2>2. ~There(cursor)
    <3> SUFFICES ASSUME There(cursor)
                 PROVE  FALSE
      OBVIOUS
    <3>1. PICK a \in cursor .. cursor + c - 1 : ~There(a)
      BY <1>5 DEF Readable, There
    <3>2. a \in Nat /\ PageOf(a) = PageOf(cursor)
      BY <1>1, <1>2, <3>1
    <3> QED
      BY <1>1, <3>1, <3>2, UserIs DEF There
  <2> QED
    BY <1>1, <1>2, <1>5, <2>1, <2>2, TagsDiffer
<1> QED
  BY <1>1, <1>3, <1>4, <1>5

\* The string before the first NUL.
LEMMA CutIs ==
  ASSUME NEW b \in Bytes, 0 \in Range(b)
  PROVE  \E n \in 1 .. Len(b) :
           /\ b[n] = 0 /\ \A i \in 1 .. n - 1 : b[i] = 1
           /\ UpToNul(b) = SubSeq(b, 1, n - 1)
           /\ UpToNul(b) \in Bytes /\ Len(UpToNul(b)) = n - 1
           /\ \A i \in 1 .. n - 1 : UpToNul(b)[i] = b[i]
<1> DEFINE nuls == {i \in 1 .. Len(b) : b[i] = 0}
<1>1. b \in Seq({0, 1}) /\ Len(b) \in Nat /\ DOMAIN b = 1 .. Len(b)
  BY DEF Bytes
<1>2. nuls # {} /\ nuls \in SUBSET Nat
  BY <1>1 DEF Range
<1>3. PICK n \in nuls : \A m \in nuls : n <= m
  BY <1>2, NatMin
<1>4. Min(nuls) = n
  <2> HIDE DEF nuls
  <2>1. nuls \in SUBSET Int /\ n \in nuls
    BY <1>2, <1>3
  <2> QED
    BY <1>3, <2>1, MinIs
<1>5. SelectInSeq(b, LAMBDA x : x = 0) = n
  BY <1>2, <1>4 DEF SelectInSeq
<1>6. UpToNul(b) = SubSeq(b, 1, n - 1)
  BY <1>5 DEF UpToNul, Cut
<1>7. \A i \in 1 .. n - 1 : b[i] = 1
  <2> TAKE i \in 1 .. n - 1
  <2>1. i \in 1 .. Len(b) /\ i \notin nuls
    BY <1>1, <1>3
  <2> QED
    BY <1>1, <2>1
<1>8. /\ SubSeq(b, 1, n - 1) \in Bytes /\ Len(SubSeq(b, 1, n - 1)) = n - 1
      /\ \A i \in 1 .. n - 1 : SubSeq(b, 1, n - 1)[i] = b[i]
  BY <1>1, <1>3, SubSeqProperties DEF Bytes
<1> QED
  BY <1>1, <1>3, <1>6, <1>7, <1>8

\* The n bytes of memory from an address on.
Span(addr, n) == [i \in 1 .. n |-> mem[addr + i - 1]]

\* What the docs of read_cstr call the string, where it ends and where not.
LEMMA StringEnds ==
  ASSUME NEW s, NEW max \in Nat, NEW e \in 0 .. max - 1, ~denied,
         Readable(s, e + 1), mem[s + e] = 0, \A m \in 0 .. e - 1 : mem[s + m] # 0
  PROVE  StringAt(s, max) = Str(Span(s, e))
<1> DEFINE ends == {n \in 0 .. max - 1 : Readable(s, n + 1) /\ mem[s + n] = 0}
<1>1. e \in ends /\ ends \in SUBSET Int
  OBVIOUS
<1>2. \A m \in ends : e <= m
  OBVIOUS
<1>3. Min(ends) = e
  <2> HIDE DEF ends
  <2> QED
    BY <1>1, <1>2, MinIs
<1> QED
  BY <1>1, <1>3 DEF StringAt, Span

LEMMA StringDoesNotEnd ==
  ASSUME NEW s, NEW max \in Nat, ~denied,
         \A n \in 0 .. max - 1 : Readable(s, n + 1) => mem[s + n] # 0
  PROVE  StringAt(s, max) = IF Readable(s, max) THEN TruncatedCstr ELSE Vm
BY DEF StringAt

\* read_cstr answers what its docs say, when nobody writes meanwhile.
LEMMA AnswerExact ==
  ASSUME TypeOK, NEW s \in Nat, NEW max \in Nat \ {0}, Progress(s, max), writes = 0,
         CstrAnswer # None
  PROVE  CstrAnswer = StringAt(s, max)
<1> DEFINE n == Len(out)  c == Chunk(cursor, remaining)  got == read_bytes(cursor, c)
<1>1. /\ n \in Nat /\ DOMAIN out = 1 .. n /\ n + remaining = max /\ cursor = s + n
      /\ remaining \in Nat /\ denied \in BOOLEAN /\ out \in Seq({0, 1})
      /\ mem \in [UserAddr -> {0, 1}]
  BY DEF TypeOK, Bytes, Progress
<1>2. ASSUME NEW m \in 0 .. n - 1
      PROVE  There(s + m) /\ mem[s + m] = 1 /\ out[m + 1] = 1
  <2>1. m + 1 \in DOMAIN out /\ s + (m + 1) - 1 = s + m
    BY <1>1
  <2>2. out[m + 1] = 1 /\ Held(s + (m + 1) - 1, 1) /\ PageOf(s + (m + 1) - 1) \in mapped
        /\ mem[s + (m + 1) - 1] = 1
    BY <2>1 DEF Progress
  <2> QED
    BY <2>1, <2>2 DEF There, Held
<1>3. CASE denied
  <2>1. n = 0 /\ remaining # 0
    BY <1>1, <1>3 DEF Progress
  <2>2. CstrAnswer = Ptrace
    BY <1>3, <2>1, TagsDiffer DEF CstrAnswer, read_bytes
  <2> QED
    BY <1>3, <2>2 DEF StringAt
<1>4. CASE ~denied /\ remaining = 0
  <2>1. CstrAnswer = TruncatedCstr
    BY <1>4 DEF CstrAnswer
  <2>2. \A m \in 0 .. max - 1 : mem[s + m] # 0
    BY <1>1, <1>2, <1>4
  <2>3. Readable(s, max)
    <3> SUFFICES ASSUME NEW a \in s .. s + max - 1
                 PROVE  There(a)
      BY DEF Readable, There
    <3>1. a - s \in 0 .. n - 1 /\ s + (a - s) = a
      BY <1>1, <1>4
    <3> QED
      BY <1>2, <3>1
  <2> QED
    BY <1>1, <1>4, <2>1, <2>2, <2>3, StringDoesNotEnd
<1>5. CASE ~denied /\ remaining # 0 /\ got \in Errors
  <2>1. CstrAnswer = got
    BY <1>5 DEF CstrAnswer
  <2>2. got = Vm /\ ~There(s + n)
    <3> HIDE DEF got, c
    <3> QED
      BY <1>1, <1>5, NextChunk DEF got, c
  <2>3. \A m \in Nat : m > n => ~Readable(s, m)
    <3> TAKE m \in Nat
    <3>1. m > n => s + n \in s .. s + m - 1
      BY <1>1
    <3> QED
      BY <2>2, <3>1 DEF Readable, There
  <2>4. \A m \in 0 .. max - 1 : Readable(s, m + 1) => mem[s + m] # 0
    BY <1>1, <1>2, <2>3
  <2>5. ~Readable(s, max)
    BY <1>1, <1>5, <2>3
  <2> QED
    BY <1>1, <1>5, <2>1, <2>2, <2>4, <2>5, StringDoesNotEnd
<1>6. CASE ~denied /\ remaining # 0 /\ got \notin Errors
  <2>1. PICK b \in Bytes :
           /\ got = Str(b) /\ Len(b) = c
           /\ \A i \in 1 .. c : b[i] = mem[cursor + i - 1] /\ There(cursor + i - 1)
    <3> HIDE DEF got, c
    <3> QED
      BY <1>6, NextChunk DEF got, c
  <2>2. c \in 1 .. remaining
    <3> HIDE DEF c
    <3> QED
      BY <1>6, NextChunk DEF c
  <2>3. 0 \in Range(b)
    BY <1>6, <2>1, StrIs DEF CstrAnswer
  <2>4. CstrAnswer = Str(out \o UpToNul(b))
    BY <1>6, <2>1, <2>3, StrIs DEF CstrAnswer
  <2> HIDE DEF got, c
  <2>5. PICK k \in 1 .. Len(b) :
          /\ b[k] = 0 /\ \A i \in 1 .. k - 1 : b[i] = 1
          /\ UpToNul(b) \in Bytes /\ Len(UpToNul(b)) = k - 1
          /\ \A i \in 1 .. k - 1 : UpToNul(b)[i] = b[i]
    BY <2>1, <2>3, CutIs
  <2> DEFINE e == n + k - 1
  <2>6. e \in 0 .. max - 1 /\ k \in 1 .. c
    BY <1>1, <2>1, <2>2, <2>5
  <2>7. ASSUME NEW m \in 0 .. e
        PROVE  There(s + m) /\ mem[s + m] = IF m = e THEN 0 ELSE 1
    <3>1. CASE m < n
      BY <1>1, <1>2, <2>5, <3>1
    <3>2. CASE m >= n
      <4>1. PICK i \in 1 .. k : i = m - n + 1
        <5> HIDE DEF n
        <5>1. n \in Nat /\ k \in Nat
          BY <1>1, <2>1, <2>5 DEF n, Bytes
        <5> QED
          BY <3>2, <5>1
      <4>2. i \in 1 .. c /\ cursor + i - 1 = s + m
        BY <1>1, <2>2, <2>6, <4>1
      <4>3. There(s + m) /\ mem[s + m] = b[i]
        BY <2>1, <4>2
      <4>4. i = k <=> m = e
        BY <1>1, <2>5, <4>1
      <4>5. i # k => i \in 1 .. k - 1
        BY <2>5
      <4> QED
        BY <2>5, <4>3, <4>4, <4>5
    <3> QED
      BY <1>1, <3>1, <3>2
  <2>8. Readable(s, e + 1)
    <3> SUFFICES ASSUME NEW a \in s .. s + (e + 1) - 1
                 PROVE  There(a)
      BY DEF Readable, There
    <3>1. a - s \in 0 .. e /\ s + (a - s) = a
      BY <1>1, <2>6
    <3> QED
      BY <2>7, <3>1
  <2>9. mem[s + e] = 0 /\ \A m \in 0 .. e - 1 : mem[s + m] = 1
    <3> HIDE DEF e
    <3>1. e \in 0 .. e /\ \A m \in 0 .. e - 1 : m \in 0 .. e /\ m # e
      BY <2>6
    <3> QED
      BY <2>7, <3>1
  <2>10. StringAt(s, max) = Str(Span(s, e))
    <3> HIDE DEF e
    <3>1. ~denied /\ e \in 0 .. max - 1 /\ \A m \in 0 .. e - 1 : mem[s + m] # 0
      <4>1. \A m \in 0 .. e - 1 : mem[s + m] # 0
        BY <2>9
      <4> QED
        BY <1>6, <2>6, <4>1
    <3>2. /\ ~denied /\ Readable(s, e + 1) /\ mem[s + e] = 0
          /\ \A m \in 0 .. e - 1 : mem[s + m] # 0
      BY ONLY <2>8, <2>9, <3>1, Zenon
    <3> QED
      BY <2>6, <3>2, StringEnds
  <2>11. out \o UpToNul(b) = Span(s, e)
    <3> DEFINE up == UpToNul(b)  all == out \o up
    <3>1. up \in Seq({0, 1}) /\ Len(up) = k - 1 /\ k \in Nat \ {0}
      BY <2>5 DEF Bytes
    <3> HIDE DEF up
    <3>2. PICK q \in Nat : q = k - 1
      BY <3>1
    <3>3. /\ all \in Seq({0, 1}) /\ Len(all) = n + (k - 1)
          /\ \A i \in 1 .. n + (k - 1) : all[i] = IF i <= n THEN out[i] ELSE up[i - n]
      <4> HIDE DEF n
      <4>1. /\ out \in Seq({0, 1}) /\ up \in Seq({0, 1}) /\ n \in Nat /\ q \in Nat
            /\ Len(out) = n /\ Len(up) = q
        BY <1>1, <3>1, <3>2 DEF n
      <4>2. /\ out \o up \in Seq({0, 1}) /\ Len(out \o up) = n + q
            /\ \A i \in 1 .. n + q : (out \o up)[i] = IF i <= n THEN out[i] ELSE up[i - n]
        BY ONLY <4>1, Joined, SMTT(30)
      <4> QED
        BY <3>2, <4>2
    <3>4. ASSUME NEW i \in 1 .. n + (k - 1)
          PROVE  all[i] = 1
      <4>1. i \in Nat /\ i <= n => i \in 1 .. n
        BY <1>1
      <4>2. \A j \in 1 .. n : out[j] = 1
        BY <1>1 DEF Progress
      <4>3. i > n => i - n \in 1 .. k - 1
        BY <1>1, <3>1
      <4>4. \A j \in 1 .. k - 1 : up[j] = 1
        BY <2>5 DEF up
      <4> QED
        BY <1>1, <3>1, <3>3, <4>1, <4>2, <4>3, <4>4
    <3>5. ASSUME NEW i \in 1 .. e
          PROVE  mem[s + i - 1] = 1
      <4>1. i - 1 \in 0 .. e - 1 /\ s + (i - 1) = s + i - 1
        BY <1>1, <2>6
      <4> QED
        BY <2>9, <4>1
    <3>6. n + (k - 1) = e
      BY <1>1, <3>1
    <3> HIDE DEF all
    <3>7. all = [i \in 1 .. e |-> 1]
      BY <1>1, <3>1, <3>3, <3>4, <3>6
    <3>8. Span(s, e) = [i \in 1 .. e |-> 1]
      BY <3>5 DEF Span
    <3> QED
      BY <3>7, <3>8 DEF all, up
  <2> QED
    BY <2>4, <2>10, <2>11
<1> QED
  BY <1>1, <1>3, <1>4, <1>5, <1>6

\* The four answers of read_cstr.
LEMMA Answers ==
  ASSUME TypeOK
  PROVE  \/ CstrAnswer \in Errors /\ CstrAnswer # None
         \/ CstrAnswer = None /\ remaining # 0
         \/ /\ CstrAnswer \notin Errors /\ CstrAnswer # None /\ remaining # 0
            /\ \E b \in Bytes :
                 /\ CstrAnswer = Str(out \o UpToNul(b)) /\ 0 \in Range(b)
                 /\ read_bytes(cursor, Chunk(cursor, remaining)) = Str(b)
                 /\ Len(b) = Chunk(cursor, remaining)
                 /\ \A i \in 1 .. Len(b) : /\ b[i] = mem[cursor + i - 1]
                                           /\ There(cursor + i - 1)
<1> DEFINE c == Chunk(cursor, remaining)  got == read_bytes(cursor, c)
<1>1. CASE remaining = 0
  BY <1>1, TagsDiffer DEF CstrAnswer
<1>2. CASE remaining # 0 /\ got \in Errors
  <2>1. CstrAnswer = got
    BY <1>2 DEF CstrAnswer
  <2> QED
    BY <1>2, <2>1, TagsDiffer
<1>3. CASE remaining # 0 /\ got \notin Errors
  <2>1. PICK b \in Bytes :
           /\ got = Str(b) /\ Len(b) = c
           /\ \A i \in 1 .. c : b[i] = mem[cursor + i - 1] /\ There(cursor + i - 1)
    <3> HIDE DEF got, c
    <3> QED
      BY <1>3, NextChunk DEF got, c
  <2>2. CstrAnswer = IF 0 \in Range(b) THEN Str(out \o UpToNul(b)) ELSE None
    BY <1>3, <2>1, StrIs DEF CstrAnswer
  <2> HIDE DEF got, c
  <2> QED
    BY <1>3, <2>1, <2>2, StrIs, TagsDiffer DEF got, c
<1> QED
  BY <1>1, <1>2, <1>3

\* A string it answers was in memory meanwhile.
LEMMA AnswerWasThere ==
  ASSUME TypeOK, SeenInSync, NEW s \in Nat, NEW max \in Nat \ {0}, Progress(s, max),
         CstrAnswer # None, CstrAnswer \notin Errors
  PROVE  \E str \in Bytes : /\ CstrAnswer = Str(str) /\ CstrAnswer.bytes = str
                            /\ WasThere(str, s) /\ ~denied
<1> DEFINE n == Len(out)
<1>1. /\ n \in Nat /\ DOMAIN out = 1 .. n /\ n + remaining = max /\ cursor = s + n
      /\ remaining \in Nat /\ out \in Seq({0, 1})
  BY DEF TypeOK, Bytes, Progress
<1>2. PICK b \in Bytes :
        /\ CstrAnswer = Str(out \o UpToNul(b)) /\ 0 \in Range(b)
        /\ read_bytes(cursor, Chunk(cursor, remaining)) = Str(b)
        /\ \A i \in 1 .. Len(b) : b[i] = mem[cursor + i - 1] /\ There(cursor + i - 1)
  BY Answers
<1>3. PICK k \in 1 .. Len(b) :
        /\ b[k] = 0 /\ \A i \in 1 .. k - 1 : b[i] = 1
        /\ UpToNul(b) \in Bytes /\ Len(UpToNul(b)) = k - 1
        /\ \A i \in 1 .. k - 1 : UpToNul(b)[i] = b[i]
  BY <1>2, CutIs
<1>4. ~denied
  BY <1>2, StrIs, TagsDiffer DEF read_bytes
<1> DEFINE up == UpToNul(b)  all == out \o up
<1>5. up \in Seq({0, 1}) /\ Len(up) = k - 1 /\ k \in Nat \ {0}
  BY <1>3 DEF Bytes
<1>6. ASSUME NEW i \in 1 .. k
      PROVE  Held(cursor + i - 1, IF i = k THEN 0 ELSE 1)
  <2>1. i \in 1 .. Len(b) /\ (i # k => i \in 1 .. k - 1)
    BY <1>3
  <2>2. There(cursor + i - 1) /\ b[i] = mem[cursor + i - 1]
    BY <1>2, <2>1
  <2>3. b[i] = IF i = k THEN 0 ELSE 1
    BY <1>3, <2>1
  <2> QED
    BY <2>2, <2>3 DEF SeenInSync, There, Held
<1>7. \A j \in 1 .. k - 1 : up[j] = 1
  BY <1>3
<1> HIDE DEF up
<1>8. /\ all \in Seq({0, 1}) /\ Len(all) = n + (k - 1) /\ DOMAIN all = 1 .. n + (k - 1)
      /\ \A i \in 1 .. n + (k - 1) : all[i] = IF i <= n THEN out[i] ELSE up[i - n]
  <2> HIDE DEF n
  <2>1. PICK m \in Nat : m = k - 1
    BY <1>5
  <2>2. /\ out \in Seq({0, 1}) /\ up \in Seq({0, 1}) /\ n \in Nat /\ m \in Nat
        /\ Len(out) = n /\ Len(up) = m
    BY <1>1, <1>5, <2>1 DEF n
  <2>3. /\ out \o up \in Seq({0, 1}) /\ Len(out \o up) = n + m
        /\ DOMAIN (out \o up) = 1 .. n + m
        /\ \A i \in 1 .. n + m : (out \o up)[i] = IF i <= n THEN out[i] ELSE up[i - n]
    BY ONLY <2>2, Joined, SMTT(30)
  <2> QED
    BY <2>1, <2>3
<1>9. ASSUME NEW i \in 1 .. n + (k - 1)
      PROVE  all[i] = 1 /\ Held(s + i - 1, 1)
  <2>1. CASE i <= n
    <3>1. i \in DOMAIN out
      BY <1>1, <2>1
    <3> QED
      BY <1>8, <2>1, <3>1 DEF Progress
  <2>2. CASE i > n
    <3> HIDE DEF all, n
    <3>1. PICK j \in 1 .. k - 1 : j = i - n
      BY <1>1, <1>5, <2>2
    <3>2. all[i] = up[j] /\ up[j] = 1
      BY <1>1, <1>8, <1>7, <2>2, <3>1
    <3>3. j \in 1 .. k /\ j # k /\ cursor + j - 1 = s + i - 1
      BY <1>1, <1>5, <3>1
    <3>4. Held(cursor + j - 1, 1)
      BY <1>6, <3>3
    <3> QED
      BY <3>2, <3>3, <3>4
  <2> HIDE DEF all, n
  <2> QED
    BY <1>1, <1>5, <2>1, <2>2
<1>10. Held(s + Len(all), 0)
  <2>1. cursor + k - 1 = s + (n + (k - 1))
    BY <1>1, <1>5
  <2>2. k \in 1 .. k
    BY <1>5
  <2>3. Held(cursor + k - 1, 0)
    BY <1>6, <2>2
  <2> QED
    BY <1>8, <2>1, <2>3
<1> HIDE DEF all
<1>11. WasThere(all, s)
  BY <1>8, <1>9, <1>10 DEF WasThere
<1>12. CstrAnswer = Str(all) /\ all \in Bytes
  BY <1>2, <1>8 DEF all, up, Bytes
<1> QED
  BY <1>4, <1>11, <1>12, StrIs

\* The next chunk of a string, with no NUL in it.
LEMMA ReadMore ==
  ASSUME TypeOK, SeenInSync, NEW s \in Nat, NEW max \in Nat \ {0}, Progress(s, max), ReadChunk
  PROVE  /\ Progress(s, max)'
         /\ out' \in Bytes /\ cursor' \in Addr /\ remaining' \in 0 .. remaining - 1
         /\ Len(out') + remaining' = Len(out) + remaining
         /\ Len(out') = Len(out) + Chunk(cursor, remaining)
         /\ cursor' = cursor + Chunk(cursor, remaining)
<1> DEFINE n == Len(out)  c == Chunk(cursor, remaining)
<1>1. /\ n \in Nat /\ DOMAIN out = 1 .. n /\ n + remaining = max /\ cursor = s + n
      /\ remaining \in Nat /\ out \in Seq({0, 1}) /\ cursor \in Addr
  BY DEF TypeOK, Bytes, Progress
<1>2. PICK b \in Bytes :
        /\ read_bytes(cursor, c) = Str(b) /\ Len(b) = c /\ 0 \notin Range(b)
        /\ \A i \in 1 .. c : b[i] = mem[cursor + i - 1] /\ There(cursor + i - 1)
        /\ ~denied
  <2>1. CstrAnswer = None
    BY DEF ReadChunk
  <2>2. remaining # 0 /\ read_bytes(cursor, c) \notin Errors
    BY <2>1, TagsDiffer DEF CstrAnswer
  <2>3. PICK b \in Bytes :
          /\ read_bytes(cursor, c) = Str(b) /\ Len(b) = c /\ ~denied
          /\ \A i \in 1 .. c : b[i] = mem[cursor + i - 1] /\ There(cursor + i - 1)
    <3> HIDE DEF c
    <3> QED
      BY <2>2, NextChunk DEF c
  <2>4. 0 \notin Range(b)
    BY <2>1, <2>2, <2>3, StrIs DEF CstrAnswer
  <2> QED
    BY <2>3, <2>4
<1>3. c \in 1 .. remaining
  <2>1. remaining # 0
    BY TagsDiffer DEF ReadChunk, CstrAnswer
  <2> QED
    BY <1>1, <2>1, ChunkIs
<1>4. out' = out \o b /\ remaining' = remaining - c /\ cursor' = (cursor + c) % RegRange
  BY <1>2, StrIs DEF ReadChunk
<1>5. UNCHANGED <<memVars, denied, call, pc>> /\ UNCHANGED <<mem, mapped, writes, seen>>
  BY DEF ReadChunk, memVars
<1> HIDE DEF c
<1>6. b \in Seq({0, 1}) /\ \A i \in 1 .. c : b[i] = 1
  <2>1. b \in Seq({0, 1}) /\ DOMAIN b = 1 .. c
    BY <1>2, <1>3 DEF Bytes
  <2>2. \A i \in 1 .. c : b[i] \in {0, 1} /\ b[i] # 0
    BY <1>2, <2>1 DEF Range
  <2> QED
    BY <2>1, <2>2
<1>7. /\ out' \in Seq({0, 1}) /\ Len(out') = n + c /\ DOMAIN out' = 1 .. n + c
      /\ \A i \in 1 .. n + c : out'[i] = IF i <= n THEN out[i] ELSE b[i - n]
  <2>1. /\ out \o b \in Seq({0, 1}) /\ Len(out \o b) = n + c
        /\ \A i \in 1 .. n + c : (out \o b)[i] = IF i <= n THEN out[i] ELSE b[i - n]
    <3> HIDE DEF n
    <3>1. /\ out \in Seq({0, 1}) /\ b \in Seq({0, 1}) /\ n \in Nat /\ c \in Nat
          /\ Len(out) = n /\ Len(b) = c
      BY <1>1, <1>2, <1>3, <1>6 DEF n
    <3> QED
      BY ONLY <3>1, Joined, SMTT(30)
  <2> QED
    BY <1>1, <1>3, <1>4, <2>1
<1>8. ASSUME NEW i \in 1 .. c
      PROVE  /\ Held(cursor + i - 1, 1) /\ mem[cursor + i - 1] = 1
             /\ PageOf(cursor + i - 1) \in mapped
  BY <1>2, <1>6 DEF SeenInSync, There, Held
<1>9. cursor' = cursor + c /\ cursor' \in Addr
  <2>1. c \in 1 .. c /\ cursor + c - 1 \in Nat
    BY <1>1, <1>3, Sizes DEF Addr
  <2>2. cursor + c - 1 \in UserAddr
    BY <1>2, <2>1 DEF There
  <2>3. (cursor + c - 1) + 1 < RegRange
    BY <2>1, <2>2, UserIs
  <2>4. cursor + c \in 0 .. RegRange - 1
    BY <1>1, <1>3, <2>3, Sizes DEF Addr
  <2>5. (cursor + c) % RegRange = cursor + c
    BY <2>4, Sizes
  <2> QED
    BY <1>4, <2>4, <2>5 DEF Addr, Register
<1>10. ASSUME NEW i \in 1 .. n + c
       PROVE  /\ out'[i] = 1 /\ Held(s + i - 1, 1)
              /\ writes = 0 => PageOf(s + i - 1) \in mapped /\ mem[s + i - 1] = 1
  <2>1. CASE i <= n
    <3>1. i \in DOMAIN out
      BY <1>1, <2>1
    <3> QED
      BY <1>7, <2>1, <3>1 DEF Progress
  <2>2. CASE i > n
    <3>1. PICK j \in 1 .. c : j = i - n
      BY <1>1, <1>3, <2>2
    <3>2. out'[i] = b[j] /\ b[j] = 1
      BY <1>1, <1>6, <1>7, <2>2, <3>1
    <3>3. cursor + j - 1 = s + i - 1
      BY <1>1, <1>3, <3>1
    <3> QED
      BY <1>8, <3>1, <3>2, <3>3
  <2> QED
    BY <1>1, <2>1, <2>2
<1>11. \A i \in DOMAIN out' : Held(s + i - 1, 1)'
  BY <1>5, <1>7, <1>10 DEF Held
<1>12. Progress(s, max)'
  <2>1. Len(out') + remaining' = max /\ cursor' = s + Len(out')
    <3> HIDE DEF n
    <3> QED
      BY <1>1, <1>3, <1>4, <1>7, <1>9
  <2>2. denied' => out' = <<>>
    BY <1>2, <1>5
  <2> QED
    BY <1>5, <1>7, <1>10, <1>11, <2>1, <2>2 DEF Progress
<1>13. remaining' \in 0 .. remaining - 1 /\ Len(out') + remaining' = n + remaining
  <2> HIDE DEF n
  <2> QED
    BY <1>1, <1>3, <1>4, <1>7
<1> QED
  BY <1>7, <1>9, <1>12, <1>13 DEF c, Bytes

-----------------------------------------------------------------------------
(* The work                                                                *)

LEMMA QuotientsGrow ==
  ASSUME NEW a \in Nat, NEW b \in Nat, a <= b, NEW d \in Nat \ {0}
  PROVE  a \div d \in Nat /\ a \div d <= b \div d
<1>1. PICK q \in Nat, r \in 0 .. d - 1 : a = d * q + r /\ a \div d = q
  BY Divided
<1>2. PICK p \in Nat, t \in 0 .. d - 1 : b = d * p + t /\ b \div d = p
  BY Divided
<1>3. q <= p
  <2> SUFFICES ASSUME q >= p + 1
               PROVE  FALSE
    OBVIOUS
  <2>1. d * q >= d * (p + 1)
    OBVIOUS
  <2>2. d * (p + 1) = d * p + d
    OBVIOUS
  <2> QED
    BY <1>1, <1>2, <2>1, <2>2
<1> QED
  BY <1>1, <1>2, <1>3

LEMMA ChunksOf ==
  ASSUME NEW n \in Nat
  PROVE  /\ Chunks(n) \in Nat /\ Chunks(0) = 0
         /\ Chunks(n + PAGE_SIZE) = Chunks(n) + 1
         /\ n >= 1 => Chunks(n) >= 1
<1>1. PAGE_SIZE \in Nat \ {0}
  BY Sizes
<1>2. Chunks(n) \in Nat
  BY <1>1, QuotientsGrow DEF Chunks
<1>3. Chunks(0) = 0
  <2>1. /\ 0 + PAGE_SIZE - 1 = PAGE_SIZE * 0 + (PAGE_SIZE - 1)
        /\ PAGE_SIZE - 1 \in 0 .. PAGE_SIZE - 1 /\ 0 + PAGE_SIZE - 1 \in Nat
    BY <1>1
  <2> QED
    BY <1>1, <2>1, DividedIs DEF Chunks
<1>4. Chunks(n + PAGE_SIZE) = Chunks(n) + 1
  <2>1. PICK q \in Nat, r \in 0 .. PAGE_SIZE - 1 :
          n + PAGE_SIZE - 1 = PAGE_SIZE * q + r /\ Chunks(n) = q
    BY <1>1, Divided DEF Chunks
  <2>2. /\ (n + PAGE_SIZE) + PAGE_SIZE - 1 = PAGE_SIZE * (q + 1) + r
        /\ (n + PAGE_SIZE) + PAGE_SIZE - 1 \in Nat /\ q + 1 \in Nat
    BY <1>1, <2>1
  <2>3. ((n + PAGE_SIZE) + PAGE_SIZE - 1) \div PAGE_SIZE = q + 1
    BY ONLY <1>1, <2>2, DividedIs, q \in Nat, r \in 0 .. PAGE_SIZE - 1
  <2> QED
    BY <2>1, <2>3 DEF Chunks
<1>5. ASSUME n >= 1
      PROVE  Chunks(n) >= 1
  <2>1. PAGE_SIZE = PAGE_SIZE * 1 + 0 /\ 0 \in 0 .. PAGE_SIZE - 1
    BY <1>1
  <2>2. PAGE_SIZE \div PAGE_SIZE = 1
    BY <1>1, <2>1, DividedIs
  <2>3. PAGE_SIZE <= n + PAGE_SIZE - 1 /\ n + PAGE_SIZE - 1 \in Nat
    BY <1>1, <1>5
  <2> QED
    BY <1>1, <2>2, <2>3, QuotientsGrow DEF Chunks
<1> QED
  BY <1>2, <1>3, <1>4, <1>5

LEMMA ReadsOf ==
  ASSUME NEW max \in Nat \ {0}
  PROVE  /\ ReadsFor(max) \in Nat \ {0}
         /\ \A n \in 0 .. max - 1 : Chunks(n) + 1 <= ReadsFor(max)
<1>1. PAGE_SIZE \in Nat \ {0} /\ max + PAGE_SIZE - 2 \in Nat
  BY Sizes
<1>2. (max + PAGE_SIZE - 2) \div PAGE_SIZE \in Nat
  BY <1>1, QuotientsGrow
<1>3. ASSUME NEW n \in 0 .. max - 1
      PROVE  Chunks(n) + 1 <= ReadsFor(max)
  <2>1. n + PAGE_SIZE - 1 \in Nat /\ n + PAGE_SIZE - 1 <= max + PAGE_SIZE - 2
    BY <1>1
  <2>2. Chunks(n) \in Nat /\ Chunks(n) <= (max + PAGE_SIZE - 2) \div PAGE_SIZE
    BY <1>1, <2>1, QuotientsGrow DEF Chunks
  <2> QED
    BY <1>2, <2>2 DEF ReadsFor
<1> QED
  BY <1>2, <1>3 DEF ReadsFor

LEMMA WorkGrows ==
  /\ \A n \in Nat : /\ WorkBefore(n) \in Nat \ {0}
                    /\ WorkBefore(n + 1) = WorkBefore(n) + 1 + ReadsFor(MAX_ARGV_ENTRY_BYTES)
  /\ \A m, n \in Nat : m <= n => WorkBefore(m) <= WorkBefore(n)
<1> DEFINE k == 1 + ReadsFor(MAX_ARGV_ENTRY_BYTES)  p == ReadsFor(PATH_MAX)
<1>1. k \in Nat \ {0} /\ p \in Nat \ {0}
  BY Sizes, ReadsOf
<1>2. \A n \in Nat : WorkBefore(n) = p + n * k
  BY DEF WorkBefore
<1>3. k = 1 + ReadsFor(MAX_ARGV_ENTRY_BYTES) /\ ReadsFor(MAX_ARGV_ENTRY_BYTES) \in Nat
  BY Sizes, ReadsOf
<1> HIDE DEF k, p
<1>4. \A n \in Nat : n * k \in Nat /\ (n + 1) * k = n * k + k
  BY <1>1
<1>5. \A m, n \in Nat : m <= n => m * k <= n * k
  BY <1>1
<1>6. ASSUME NEW n \in Nat
      PROVE  WorkBefore(n) \in Nat \ {0} /\ WorkBefore(n + 1) = WorkBefore(n) + k
  <2>1. /\ WorkBefore(n) = p + n * k /\ WorkBefore(n + 1) = p + (n + 1) * k
        /\ n * k \in Nat /\ (n + 1) * k = n * k + k
    BY <1>2, <1>4
  <2> QED
    BY <1>1, <2>1
<1>7. ASSUME NEW m \in Nat, NEW n \in Nat, m <= n
      PROVE  WorkBefore(m) <= WorkBefore(n)
  <2>1. /\ WorkBefore(m) = p + m * k /\ WorkBefore(n) = p + n * k
        /\ m * k \in Nat /\ n * k \in Nat /\ m * k <= n * k
    BY <1>2, <1>4, <1>5, <1>7
  <2> QED
    BY <1>1, <2>1
<1>8. \A n \in Nat : WorkBefore(n) + k = WorkBefore(n) + 1 + ReadsFor(MAX_ARGV_ENTRY_BYTES)
  BY <1>1, <1>3, <1>6
<1> QED
  BY <1>6, <1>7, <1>8

\* A string costs no more reads than it has pages: as long as it goes on, and
\* when it ends.
LEMMA WorkOfNext ==
  ASSUME TypeOK, SeenInSync, NEW base \in Nat, NEW s \in Nat, NEW max \in Nat \ {0},
         Progress(s, max), WorkOf(base, max), ReadChunk
  PROVE  WorkOf(base, max)' /\ reads' <= base + ReadsFor(max)
<1> DEFINE n == Len(out)  c == Chunk(cursor, remaining)
<1>1. /\ n \in Nat /\ n + remaining = max /\ remaining \in Nat /\ cursor \in Addr
      /\ reads \in Nat
  BY DEF TypeOK, Bytes, Progress
<1>2. remaining # 0
  BY TagsDiffer DEF ReadChunk, CstrAnswer
<1>3. c \in 1 .. remaining
  BY <1>1, <1>2, ChunkIs
<1>4. /\ Len(out') = n + c /\ cursor' = cursor + c /\ reads' = reads + 1
      /\ remaining' = remaining - c
  BY ReadMore DEF ReadChunk
<1>5. c = remaining \/ (cursor + c) % PAGE_SIZE = 0
  BY <1>1, <1>2, ChunkIs
<1>6. out # <<>> => c = remaining \/ c = PAGE_SIZE
  <2>1. out # <<>> => cursor % PAGE_SIZE = 0
    BY <1>2 DEF WorkOf
  <2> QED
    BY <1>1, <1>2, <2>1, ChunkIs
<1>7. out = <<>> => n = 0
  OBVIOUS
<1>8. reads <= base + Chunks(n)
  BY <1>2 DEF WorkOf
<1> HIDE DEF n, c
<1>9. Chunks(n) \in Nat /\ Chunks(n) + 1 <= ReadsFor(max) /\ ReadsFor(max) \in Nat
  BY <1>1, <1>2, ReadsOf, ChunksOf
<1>10. reads' <= base + ReadsFor(max)
  BY <1>1, <1>4, <1>8, <1>9
<1>11. ASSUME c # remaining
       PROVE  Chunks(n) + 1 <= Chunks(n + c)
  <2>1. CASE out = <<>>
    <3>1. Chunks(c) >= 1 /\ Chunks(c) \in Nat /\ Chunks(0) = 0 /\ c \in Nat
      BY <1>1, <1>3, ChunksOf
    <3> QED
      BY <1>7, <2>1, <3>1
  <2>2. CASE out # <<>>
    <3>1. n + c = n + PAGE_SIZE
      BY <1>6, <1>11, <2>2
    <3>2. Chunks(n + PAGE_SIZE) = Chunks(n) + 1
      BY <1>1, ChunksOf
    <3> QED
      BY <1>9, <3>1, <3>2
  <2> QED
    BY <2>1, <2>2
<1>12. c # remaining => reads' <= base + Chunks(n + c)
  <2>1. Chunks(n + c) \in Nat
    BY <1>1, <1>3, ChunksOf
  <2>2. PICK x \in Nat, y \in Nat, r \in Nat : x = Chunks(n) /\ y = Chunks(n + c) /\ r = reads
    BY <1>1, <1>9, <2>1
  <2>3. r <= base + x /\ (c # remaining => x + 1 <= y) /\ reads' = r + 1
    BY <1>4, <1>8, <1>11, <2>2
  <2>4. c # remaining => r + 1 <= base + y
    BY <2>3
  <2> QED
    BY <2>2, <2>3, <2>4
<1>13. remaining' = 0 <=> c = remaining
  BY <1>1, <1>3, <1>4
<1>14. (ReadsFor(max))' = ReadsFor(max) /\ Chunks(Len(out))' = Chunks(n + c)
  BY <1>4 DEF ReadsFor, Chunks
<1> QED
  BY <1>4, <1>5, <1>10, <1>12, <1>13, <1>14 DEF WorkOf

LEMMA WorkOfAll ==
  ASSUME TypeOK, NEW base \in Nat, NEW s \in Nat, NEW max \in Nat \ {0},
         Progress(s, max), WorkOf(base, max)
  PROVE  reads + Reading <= base + ReadsFor(max) /\ reads + Reading \in Nat
<1>1. /\ Len(out) \in Nat /\ Len(out) + remaining = max /\ remaining \in Nat /\ reads \in Nat
  BY DEF TypeOK, Bytes, Progress
<1>2. CASE remaining = 0
  BY <1>1, <1>2, ReadsOf DEF WorkOf, Reading
<1>3. CASE remaining # 0
  <2>1. Chunks(Len(out)) \in Nat /\ Chunks(Len(out)) + 1 <= ReadsFor(max)
    BY <1>1, <1>3, ReadsOf, ChunksOf
  <2>2. reads <= base + Chunks(Len(out)) /\ Reading = 1
    BY <1>1, <1>3 DEF WorkOf, Reading
  <2> QED
    BY <1>1, <2>1, <2>2, ReadsOf
<1> QED
  BY <1>2, <1>3

-----------------------------------------------------------------------------
(* The arguments                                                           *)

\* A descriptor is the int in the lower half of its register.
LEMMA IntIs ==
  ASSUME NEW reg \in Register
  PROVE  /\ as_u32(reg) \in 0 .. IntRange - 1 /\ SameInt(as_u32(reg), reg)
         /\ as_i32(reg) \in -INT_MAX - 1 .. INT_MAX /\ SameInt(as_i32(reg), reg)
         /\ INT_MAX \in Nat /\ INT_MAX < IntRange
<1> DEFINE I == IntRange  m == reg % I
<1>1. I \in Nat \ {0} /\ I % 2 = 0 /\ reg \in Nat
  BY RegistersAssumption, Sizes
<1>2. PICK h \in Nat : I = 2 * h /\ I \div 2 = h
  BY <1>1, Divided
<1>3. m \in 0 .. I - 1
  BY <1>1
<1>4. INT_MAX = h - 1 /\ h >= 1
  BY <1>1, <1>2 DEF INT_MAX
<1>5. as_i32(reg) = IF m < h THEN m ELSE m - I
  BY <1>2 DEF as_i32, Signed
<1> HIDE DEF m
<1>6. m % I = m
  BY <1>1, <1>3
<1>7. m - I = I * (-1) + m
  BY <1>1, <1>3
<1>8. (m - I) % I = m
  BY <1>1, <1>3, <1>7
<1>9. as_i32(reg) % I = m
  BY <1>5, <1>6, <1>8
<1>10. as_u32(reg) = m
  BY DEF as_u32, m
<1> QED
  BY <1>1, <1>2, <1>3, <1>4, <1>5, <1>6, <1>9, <1>10 DEF SameInt, m

LEMMA FdTells ==
  ASSUME NEW reg \in Register
  PROVE  \/ FdArg(reg) = AtFdCwd /\ SameInt(AT_FDCWD, reg)
         \/ FdArg(reg) = Invalid /\ \E n \in -INT_MAX - 1 .. -1 : n # AT_FDCWD /\ SameInt(n, reg)
         \/ \E n \in 0 .. INT_MAX : FdArg(reg) = <<"Num", n>> /\ n < IntRange /\ SameInt(n, reg)
<1>1. PICK raw \in -INT_MAX - 1 .. INT_MAX : raw = as_i32(reg) /\ SameInt(raw, reg)
  BY IntIs
<1>2. AT_FDCWD \in Int /\ INT_MAX \in Nat /\ INT_MAX < IntRange /\ IntRange \in Nat
  BY RegistersAssumption, IntIs
<1>3. FdArg(reg) = decode_fd(raw)
  BY <1>1 DEF FdArg
<1>4. CASE raw = AT_FDCWD
  BY <1>1, <1>3, <1>4 DEF decode_fd
<1>5. CASE raw # AT_FDCWD /\ raw < 0
  BY <1>1, <1>2, <1>3, <1>5 DEF decode_fd
<1>6. CASE raw # AT_FDCWD /\ raw >= 0
  <2>1. FdArg(reg) = <<"Num", raw>> /\ raw \in 0 .. INT_MAX
    BY <1>1, <1>2, <1>3, <1>6 DEF decode_fd
  <2> QED
    BY <1>1, <1>2, <2>1
<1> QED
  BY <1>1, <1>2, <1>4, <1>5, <1>6

LEMMA FdVariant ==
  ASSUME NEW reg \in Register
  PROVE  FdArg(reg)[1] \in {"AtFdCwd", "Invalid", "Num"}
BY FdTells DEF AtFdCwd, Invalid

LEMMA TwoAndThree ==
  ASSUME NEW a, NEW b, NEW c, NEW d, NEW e
  PROVE  <<a, b>> \o <<c, d, e>> = <<a, b, c, d, e>>
<1> DEFINE two == <<a, b>>  three == <<c, d, e>>  all == two \o three  S == {a, b, c, d, e}
<1>1. /\ two \in Seq(S) /\ Len(two) = 2 /\ two[1] = a /\ two[2] = b
      /\ three \in Seq(S) /\ Len(three) = 3 /\ three[1] = c /\ three[2] = d /\ three[3] = e
  OBVIOUS
<1> HIDE DEF two, three, S
<1>2. /\ all \in Seq(S) /\ Len(all) = 5
      /\ \A i \in 1 .. 5 : all[i] = IF i <= 2 THEN two[i] ELSE three[i - 2]
  BY <1>1, ConcatProperties
<1> HIDE DEF all
<1>3. all[1] = a /\ all[2] = b /\ all[3] = c /\ all[4] = d /\ all[5] = e
  BY <1>1, <1>2
<1>4. all = <<a, b, c, d, e>>
  BY <1>2, <1>3
<1> QED
  BY <1>4 DEF all, two, three

\* CloneArgs without the concatenation.
LEMMA CloneIs ==
  CloneArgs = <<Flags("flags", decode_flags(Reg(1), CLONE_TABLE)), As("Ptr", "stack", 2),
                As("Ptr", "parent_tid", 3), As("Ptr", "child_tid", 4), As("Ptr", "tls", 5)>>
<1> DEFINE tail == [k \in 1 .. 3 |-> As("Ptr", PTR_LABELS[k], k + 2)]
<1>1. tail = <<As("Ptr", "parent_tid", 3), As("Ptr", "child_tid", 4), As("Ptr", "tls", 5)>>
  BY DEF PTR_LABELS
<1> HIDE DEF tail
<1>2. CloneArgs = <<Flags("flags", decode_flags(Reg(1), CLONE_TABLE)), As("Ptr", "stack", 2)>> \o tail
  BY DEF CloneArgs, tail
<1> QED
  BY <1>1, <1>2, TwoAndThree

\* The arguments of a variant among those shown.
ToldIn(shown, variant) == {shown[i][2] : i \in {j \in DOMAIN shown : shown[j][2][1] = variant}}

LEMMA ToldOne ==
  ASSUME NEW shown, NEW k \in DOMAIN shown, NEW variant,
         \A j \in DOMAIN shown : shown[j][2][1] = variant <=> j = k
  PROVE  ToldIn(shown, variant) = {shown[k][2]}
BY DEF ToldIn

LEMMA ToldNone ==
  ASSUME NEW shown, NEW variant, \A j \in DOMAIN shown : shown[j][2][1] # variant
  PROVE  ToldIn(shown, variant) = {}
BY DEF ToldIn

\* What each call shows.
LEMMA ShownByPath ==
  ASSUME call.args \in [1 .. 6 -> Register], NEW p, NEW shown,
         shown \in {StatArgs(p), OpenAtArgs(p), StatxArgs(p)}
  PROVE  /\ ToldIn(shown, "Path") = {<<"Path", p>>} /\ ToldIn(shown, "Argv") = {}
         /\ \A i \in DOMAIN shown : shown[i][2][1] \in Variants
<1> DEFINE fd == FdArg(Reg(1))
<1>1. fd[1] \in {"AtFdCwd", "Invalid", "Num"}
  BY FdVariant DEF Reg
<1>2. CASE shown = StatArgs(p)
  <2>1. DOMAIN shown = 1 .. 2 /\ shown[1][2] = <<"Path", p>> /\ shown[2][2][1] = "Ptr"
    BY <1>2 DEF StatArgs, Path, As
  <2>2. 1 \in DOMAIN shown /\ \A j \in DOMAIN shown : shown[j][2][1] = "Path" <=> j = 1
    BY <1>1, <2>1
  <2>3. \A j \in DOMAIN shown : shown[j][2][1] \in Variants /\ shown[j][2][1] # "Argv"
    BY <1>1, <2>1 DEF Variants
  <2>4. ToldIn(shown, "Path") = {shown[1][2]}
    BY <2>2, ToldOne
  <2> QED
    BY <2>1, <2>3, <2>4, ToldNone
<1>3. CASE shown = OpenAtArgs(p)
  <2>1. /\ DOMAIN shown = 1 .. 4 /\ shown[1][2] = fd /\ shown[2][2] = <<"Path", p>>
        /\ shown[3][2][1] = "Flags" /\ shown[4][2][1] = "Mode"
    BY <1>3 DEF OpenAtArgs, Path, Fd, Flags
  <2> HIDE DEF fd
  <2>2. 2 \in DOMAIN shown /\ \A j \in DOMAIN shown : shown[j][2][1] = "Path" <=> j = 2
    BY <1>1, <2>1
  <2>3. \A j \in DOMAIN shown : shown[j][2][1] \in Variants /\ shown[j][2][1] # "Argv"
    BY <1>1, <2>1 DEF Variants
  <2>4. ToldIn(shown, "Path") = {shown[2][2]}
    BY <2>2, ToldOne
  <2> QED
    BY <2>1, <2>3, <2>4, ToldNone
<1>4. CASE shown = StatxArgs(p)
  <2>1. /\ DOMAIN shown = 1 .. 5 /\ shown[1][2] = fd /\ shown[2][2] = <<"Path", p>>
        /\ shown[3][2][1] = "Flags" /\ shown[4][2][1] = "Flags" /\ shown[5][2][1] = "Ptr"
    BY <1>4 DEF StatxArgs, Path, Fd, Flags, As
  <2> HIDE DEF fd
  <2>2. 2 \in DOMAIN shown /\ \A j \in DOMAIN shown : shown[j][2][1] = "Path" <=> j = 2
    BY <1>1, <2>1
  <2>3. \A j \in DOMAIN shown : shown[j][2][1] \in Variants /\ shown[j][2][1] # "Argv"
    BY <1>1, <2>1 DEF Variants
  <2>4. ToldIn(shown, "Path") = {shown[2][2]}
    BY <2>2, ToldOne
  <2> QED
    BY <2>1, <2>3, <2>4, ToldNone
<1> QED
  BY <1>2, <1>3, <1>4

LEMMA ShownByExecve ==
  ASSUME NEW p, NEW strings, NEW shown, shown = ExecveArgs(p, strings)
  PROVE  /\ ToldIn(shown, "Path") = {<<"Path", p>>}
         /\ ToldIn(shown, "Argv") = {<<"Argv", strings>>}
         /\ \A i \in DOMAIN shown : shown[i][2][1] \in Variants
<1>1. /\ DOMAIN shown = 1 .. 3 /\ shown[1][2] = <<"Path", p>>
      /\ shown[2][2] = <<"Argv", strings>> /\ shown[3][2][1] = "Ptr"
  BY DEF ExecveArgs, Path, As
<1>2. /\ 1 \in DOMAIN shown /\ \A j \in DOMAIN shown : shown[j][2][1] = "Path" <=> j = 1
      /\ 2 \in DOMAIN shown /\ \A j \in DOMAIN shown : shown[j][2][1] = "Argv" <=> j = 2
      /\ \A j \in DOMAIN shown : shown[j][2][1] \in Variants
  BY <1>1 DEF Variants
<1>3. ToldIn(shown, "Path") = {shown[1][2]} /\ ToldIn(shown, "Argv") = {shown[2][2]}
  BY <1>2, ToldOne
<1> QED
  BY <1>1, <1>2, <1>3

LEMMA ShownByBuffer ==
  ASSUME call.args \in [1 .. 6 -> Register], NEW inline, NEW shown, shown = BufferArgs(inline)
  PROVE  /\ ToldIn(shown, "Bytes") = {<<"Bytes", inline, Reg(3)>>}
         /\ ToldIn(shown, "Path") = {} /\ ToldIn(shown, "Argv") = {}
         /\ \A i \in DOMAIN shown : shown[i][2][1] \in Variants
<1> DEFINE fd == FdArg(Reg(1))
<1>1. fd[1] \in {"AtFdCwd", "Invalid", "Num"}
  BY FdVariant DEF Reg
<1>2. /\ DOMAIN shown = 1 .. 3 /\ shown[1][2] = fd
      /\ shown[2][2] = <<"Bytes", inline, Reg(3)>> /\ shown[3][2][1] = "Uint"
  BY DEF BufferArgs, Fd, As
<1> HIDE DEF fd
<1>3. 2 \in DOMAIN shown /\ \A j \in DOMAIN shown : shown[j][2][1] = "Bytes" <=> j = 2
  BY <1>1, <1>2
<1>4. \A j \in DOMAIN shown :
        shown[j][2][1] \in Variants /\ shown[j][2][1] \notin {"Path", "Argv"}
  BY <1>1, <1>2 DEF Variants
<1>5. ToldIn(shown, "Bytes") = {shown[2][2]}
  BY <1>3, ToldOne
<1> QED
  BY <1>2, <1>4, <1>5, ToldNone

LEMMA ShownByWait4 ==
  ASSUME NEW wstatus, wstatus[1] \in {"Ptr", "Hex"}, NEW shown, shown = Wait4Args(wstatus)
  PROVE  /\ ToldIn(shown, "Hex") = IF wstatus[1] = "Hex" THEN {wstatus} ELSE {}
         /\ ToldIn(shown, "Path") = {} /\ ToldIn(shown, "Argv") = {}
         /\ \A i \in DOMAIN shown : shown[i][2][1] \in Variants
<1>1. /\ DOMAIN shown = 1 .. 4 /\ shown[1][2][1] = "Int"
      /\ shown[2][2] = wstatus /\ shown[3][2][1] = "Flags" /\ shown[4][2][1] = "Ptr"
  BY DEF Wait4Args, Flags, As
<1> QED
  BY <1>1, ToldOne, ToldNone DEF Variants

LEMMA ShownByRegisters ==
  ASSUME call.args \in [1 .. 6 -> Register], NEW shown,
         shown \in {CloseArgs, FstatArgs, MmapArgs, MprotectArgs, CloneArgs}
  PROVE  /\ ToldIn(shown, "Path") = {} /\ ToldIn(shown, "Argv") = {}
         /\ \A i \in DOMAIN shown : shown[i][2][1] \in Variants
<1> SUFFICES \A i \in DOMAIN shown :
               shown[i][2][1] \in Variants /\ shown[i][2][1] \notin {"Path", "Argv"}
  BY ToldNone
<1>1. \A i \in {1, 5} : FdArg(Reg(i))[1] \in {"AtFdCwd", "Invalid", "Num"}
  BY FdVariant DEF Reg
<1>2. CASE shown = CloseArgs
  BY <1>1, <1>2 DEF CloseArgs, Fd, Variants
<1>3. CASE shown = FstatArgs
  BY <1>1, <1>3 DEF FstatArgs, Fd, As, Variants
<1>4. CASE shown = MmapArgs
  <2>1. /\ DOMAIN shown = 1 .. 6 /\ shown[1][2][1] = "Hex" /\ shown[2][2][1] = "Uint"
        /\ shown[3][2][1] = "Flags" /\ shown[4][2][1] = "Flags"
        /\ shown[5][2] = FdArg(Reg(5)) /\ shown[6][2][1] = "Hex"
    BY <1>4 DEF MmapArgs, Fd, As, Flags
  <2> QED
    BY <1>1, <2>1 DEF Variants
<1>5. CASE shown = MprotectArgs
  BY <1>5 DEF MprotectArgs, As, Flags, Variants
<1>6. CASE shown = CloneArgs
  BY <1>6, CloneIs DEF As, Flags, Variants
<1> QED
  BY <1>2, <1>3, <1>4, <1>5, <1>6

-----------------------------------------------------------------------------
(* The invariant holds at first, and every step keeps it.                  *)

LEMMA SameMemory ==
  ASSUME UNCHANGED <<mem, mapped, denied>>, NEW s, NEW max
  PROVE  StringAt(s, max)' = StringAt(s, max) /\ Readable(s, max)' = Readable(s, max)
BY DEF StringAt, Readable

LEMMA Pointers ==
  ASSUME TypeOK
  PROVE  Pointer \in Nat /\ Pointer \in Addr /\ \A i \in 1 .. 6 : Reg(i) \in Register
<1>1. \A i \in 1 .. 6 : Reg(i) \in Register
  BY DEF TypeOK, Reg
<1>2. Pointer \in Register
  BY <1>1 DEF Pointer
<1> QED
  BY <1>1, <1>2, Sizes DEF Addr

\* While the decoder is at work there are no arguments yet.
LEMMA Unfinished ==
  ASSUME TypeOK, ArgsInSync, pc # "done"
  PROVE  result = None /\ args = <<>>
BY TagsDiffer DEF TypeOK, ArgsInSync

LEMMA NothingTold ==
  ASSUME args' = <<>>
  PROVE  \A variant : Told(variant)' = {}
BY DEF Told

LEMMA ToldNow ==
  ASSUME NEW variant
  PROVE  Told(variant) = ToldIn(args, variant) /\ Told(variant)' = ToldIn(args', variant)
BY DEF Told, ToldIn

LEMMA WorkStep ==
  ASSUME NEW n \in Nat, n < MAX_ARGV
  PROVE  /\ WorkBefore(n) \in Nat /\ WorkBefore(n + 1) \in Nat /\ WorkBefore(MAX_ARGV) \in Nat
         /\ ReadsFor(MAX_ARGV_ENTRY_BYTES) \in Nat
         /\ WorkBefore(n + 1) = WorkBefore(n) + 1 + ReadsFor(MAX_ARGV_ENTRY_BYTES)
         /\ WorkBefore(n + 1) <= WorkBefore(MAX_ARGV)
<1>1. n + 1 \in Nat /\ MAX_ARGV \in Nat /\ n + 1 <= MAX_ARGV
  BY Sizes
<1>2. ReadsFor(MAX_ARGV_ENTRY_BYTES) \in Nat
  BY Sizes, ReadsOf
<1>3. WorkBefore(n + 1) <= WorkBefore(MAX_ARGV)
  BY <1>1, WorkGrows
<1> QED
  BY <1>1, <1>2, <1>3, WorkGrows

LEMMA WorkOfOne ==
  WorkBefore(0) >= 1 /\ WorkBefore(MAX_ARGV) >= 1 /\ WorkBefore(0) = ReadsFor(PATH_MAX)
<1>1. WorkBefore(0) \in Nat \ {0} /\ WorkBefore(0) <= WorkBefore(MAX_ARGV)
      /\ WorkBefore(MAX_ARGV) \in Nat
  BY Sizes, WorkGrows
<1>2. ReadsFor(PATH_MAX) \in Nat /\ 1 + ReadsFor(MAX_ARGV_ENTRY_BYTES) \in Nat
  BY Sizes, ReadsOf
<1>3. \A k \in Nat : 0 * k = 0
  OBVIOUS
<1>4. WorkBefore(0) = ReadsFor(PATH_MAX)
  BY <1>2, <1>3 DEF WorkBefore
<1> QED
  BY <1>1, <1>4

\* WorkBounded, by its name here.
LEMMA WorkBoundedIs ==
  WorkBounded <=> reads <= WorkBefore(MAX_ARGV)
BY DEF WorkBounded, WorkBefore

LEMMA InitHolds == Init => IInv
<1> SUFFICES ASSUME Init
             PROVE  IInv
  OBVIOUS
<1> USE DEF Init
<1>1. call.kind \in Kinds /\ call.args \in [1 .. 6 -> Register] /\ call.rax \in Register
  BY DecodeAssumption
<1>2. mem \in [UserAddr -> {0, 1}] /\ mapped \subseteq 1 .. UserPages
  OBVIOUS
<1>3. argv \in [0 .. MAX_ARGV - 1 -> Slot]
  BY DEF Slot
<1>4. seen \in [UserAddr -> SUBSET {0, 1}] /\ SeenInSync
  BY <1>2 DEF Here, SeenInSync
<1>5. TypeOK
  <2>1. cursor \in Addr /\ remaining \in 0 .. PATH_MAX /\ Len(out) + remaining <= PATH_MAX
    BY Sizes DEF Addr, Register
  <2>2. writes \in 0 .. MaxWrites /\ Len(entries) <= MAX_ARGV + 1 /\ reads \in Nat
    BY Sizes
  <2>3. out \in Bytes /\ pathname \in Bytes
    BY DEF Bytes
  <2>4. result \in {None, Ok} \cup Errors /\ (pc = "done" <=> result # None)
    OBVIOUS
  <2>5. DOMAIN args = {}
    OBVIOUS
  <2> QED
    BY <1>1, <1>2, <1>3, <1>4, <2>1, <2>2, <2>3, <2>4, <2>5 DEF TypeOK
<1>6. CstrInSync /\ WorkInSync /\ WalkedInSync
  BY DEF CstrInSync, WorkInSync, WalkedInSync, Walking
<1>7. ArgvInSync
  BY DEF ArgvInSync, Walking
<1>8. ArgsInSync
  BY TagsDiffer DEF ArgsInSync
<1>9. \A variant : Told(variant) = {}
  BY DEF Told
<1>10. WorkBounded
  <2>1. WorkBefore(MAX_ARGV) \in Nat
    BY Sizes, WorkGrows
  <2> QED
    BY <2>1, WorkBoundedIs
<1>11. StringsWereThere /\ ArgvEndsAtSentinel /\ DecodesExactly
  BY <1>9 DEF StringsWereThere, ArgvEndsAtSentinel, DecodesExactly
<1> QED
  BY <1>4, <1>5, <1>6, <1>7, <1>8, <1>10, <1>11 DEF IInv

LEMMA BeginPathKeeps == IInv /\ BeginPath => IInv'
<1> SUFFICES ASSUME IInv, BeginPath
             PROVE  IInv'
  OBVIOUS
<1> USE DEF IInv
<1>1. UNCHANGED <<mem, mapped, argv, writes, seen, denied, call, pathname, entries, reads, result, args>>
  BY DEF BeginPath, memVars, argvVars
<1>2. /\ pc = "start" /\ pc' = "path" /\ call.kind \in PathKinds \cup {"execve"}
      /\ cursor' = Pointer /\ remaining' = PATH_MAX /\ out' = <<>>
  BY DEF BeginPath, OpenCstr
<1>3. result = None /\ args = <<>> /\ entries = <<>> /\ reads = 0
  BY <1>2, Unfinished DEF ArgvInSync, WorkInSync
<1>4. TypeOK'
  <2>1. cursor' \in Addr /\ remaining' \in 0 .. PATH_MAX /\ out' \in Bytes
        /\ Len(out') + remaining' <= PATH_MAX
    BY <1>2, Pointers, Sizes DEF Bytes
  <2> QED
    BY <1>1, <1>2, <1>3, <2>1 DEF TypeOK
<1>5. SeenInSync'
  BY <1>1 DEF SeenInSync
<1>6. CstrInSync'
  <2>1. Pointer' = Pointer /\ Pointer \in Nat
    BY <1>1, Pointers DEF Pointer, Reg
  <2>2. Progress(Pointer, PATH_MAX)'
    BY <1>2, <2>1, Sizes DEF Progress
  <2> QED
    BY <1>1, <1>2, <2>2 DEF CstrInSync
<1>7. WorkInSync'
  <2>1. Chunks(Len(out))' = 0 /\ remaining' # 0
    BY <1>2, ChunksOf, Sizes DEF Chunks
  <2>2. WorkOf(0, PATH_MAX)'
    BY <1>1, <1>2, <1>3, <2>1 DEF WorkOf
  <2> QED
    BY <1>2, <2>2 DEF WorkInSync
<1>8. ArgvInSync' /\ WalkedInSync'
  BY <1>1, <1>2, <1>3 DEF ArgvInSync, WalkedInSync, Walking
<1>9. ArgsInSync'
  BY <1>1, <1>3, TagsDiffer DEF ArgsInSync
<1>10. WorkBounded'
  BY <1>1 DEF WorkBounded, ReadsFor
<1>11. StringsWereThere' /\ ArgvEndsAtSentinel' /\ DecodesExactly'
  BY <1>1, <1>2, <1>3, NothingTold DEF StringsWereThere, ArgvEndsAtSentinel, DecodesExactly
<1> QED
  BY <1>4, <1>5, <1>6, <1>7, <1>8, <1>9, <1>10, <1>11

LEMMA ReadChunkKeeps == IInv /\ ReadChunk => IInv'
<1> SUFFICES ASSUME IInv, ReadChunk
             PROVE  IInv'
  OBVIOUS
<1> USE DEF IInv
<1>1. UNCHANGED <<mem, mapped, argv, writes, seen, denied, call, pc, pathname, entries, result, args>>
  BY DEF ReadChunk, memVars, argvVars
<1>2. pc \in {"path", "entry"} /\ reads' = reads + 1
  BY DEF ReadChunk
<1>3. result = None /\ args = <<>>
  BY <1>2, Unfinished
<1>4. PICK s \in Nat, max \in Nat \ {0}, base \in Nat :
        /\ Progress(s, max) /\ WorkOf(base, max) /\ base + ReadsFor(max) <= WorkBefore(MAX_ARGV)
        /\ IF pc = "path" THEN s = Pointer /\ max = PATH_MAX /\ base = 0
           ELSE /\ s \in Strings /\ EntryAt(s) /\ max = MAX_ARGV_ENTRY_BYTES
                /\ base = WorkBefore(Len(entries)) + 1
  <2>1. CASE pc = "path"
    <3>1. Progress(Pointer, PATH_MAX) /\ WorkOf(0, PATH_MAX)
      BY <2>1 DEF CstrInSync, WorkInSync
    <3>2. 0 + ReadsFor(PATH_MAX) <= WorkBefore(MAX_ARGV)
      BY WorkOfOne, WorkGrows, Sizes, ReadsOf
    <3> QED
      BY <2>1, <3>1, <3>2, Pointers, Sizes
  <2>2. CASE pc = "entry"
    <3>1. PICK s \in Strings : EntryAt(s) /\ Progress(s, MAX_ARGV_ENTRY_BYTES)
      BY <2>2 DEF CstrInSync
    <3> DEFINE n == Len(entries)  base == WorkBefore(n) + 1
    <3>2. WorkOf(base, MAX_ARGV_ENTRY_BYTES)
      BY <2>2 DEF WorkInSync
    <3>3. n \in Nat /\ n + 1 <= MAX_ARGV
      BY <2>2 DEF ArgvInSync, Walking
    <3> HIDE DEF n
    <3>4. /\ base \in Nat /\ base + ReadsFor(MAX_ARGV_ENTRY_BYTES) = WorkBefore(n + 1)
          /\ WorkBefore(n + 1) <= WorkBefore(MAX_ARGV)
      <4>1. n + 1 \in Nat /\ MAX_ARGV \in Nat
        BY <3>3, Sizes
      <4>2. /\ WorkBefore(n) \in Nat /\ WorkBefore(n + 1) <= WorkBefore(MAX_ARGV)
            /\ WorkBefore(n + 1) = WorkBefore(n) + 1 + ReadsFor(MAX_ARGV_ENTRY_BYTES)
        BY <3>3, <4>1, WorkGrows
      <4> QED
        BY <4>2
    <3> QED
      BY <2>2, <3>1, <3>2, <3>4, Sizes DEF n
  <2> QED
    BY <1>2, <2>1, <2>2
<1>5. /\ Progress(s, max)' /\ out' \in Bytes /\ cursor' \in Addr
      /\ remaining' \in 0 .. remaining - 1
      /\ Len(out') + remaining' = Len(out) + remaining
  BY <1>4, ReadMore
<1>6. WorkOf(base, max)' /\ reads' <= base + ReadsFor(max)
  BY <1>4, WorkOfNext
<1>7. TypeOK'
  <2>1. remaining \in 0 .. PATH_MAX /\ Len(out) + remaining <= PATH_MAX /\ reads \in Nat
    BY DEF TypeOK
  <2>2. remaining' \in 0 .. PATH_MAX
    BY <1>5, <2>1, Sizes
  <2>3. Len(out') + remaining' <= PATH_MAX /\ reads' \in Nat
    BY <1>2, <1>5, <2>1
  <2> QED
    BY <1>1, <1>2, <1>5, <2>2, <2>3 DEF TypeOK
<1>8. SeenInSync'
  BY <1>1 DEF SeenInSync
<1>9. CstrInSync'
  <2>1. CASE pc = "path"
    <3>1. Pointer' = s
      BY <1>1, <1>4, <2>1 DEF Pointer, Reg
    <3>2. Progress(Pointer, PATH_MAX)'
      BY <1>4, <1>5, <2>1, <3>1 DEF Progress
    <3> QED
      BY <1>1, <2>1, <3>2 DEF CstrInSync
  <2>2. CASE pc = "entry"
    <3>1. s \in Strings /\ EntryAt(s)' /\ Progress(s, MAX_ARGV_ENTRY_BYTES)'
      BY <1>1, <1>4, <1>5, <2>2 DEF EntryAt
    <3> QED
      BY <1>1, <2>2, <3>1 DEF CstrInSync
  <2> QED
    BY <1>2, <2>1, <2>2
<1>10. WorkInSync'
  <2>1. CASE pc = "path"
    BY <1>1, <1>4, <1>6, <2>1 DEF WorkInSync
  <2>2. CASE pc = "entry"
    <3>1. base = (WorkBefore(Len(entries)) + 1)'
      BY <1>1, <1>4, <2>2 DEF WorkBefore, ReadsFor
    <3>2. WorkOf(WorkBefore(Len(entries)) + 1, MAX_ARGV_ENTRY_BYTES)'
      BY <1>4, <1>6, <2>2, <3>1 DEF WorkOf
    <3> QED
      BY <1>1, <2>2, <3>2 DEF WorkInSync
  <2> QED
    BY <1>2, <2>1, <2>2
<1>11. ArgvInSync'
  BY <1>1 DEF ArgvInSync, Walking, WasThere, Held, Pointer, Reg
<1>12. WalkedInSync'
  <2>1. StringAt(Pointer, PATH_MAX)' = StringAt(Pointer, PATH_MAX)
    BY <1>1, SameMemory DEF Pointer, Reg
  <2>2. \A k : EntryOf(k)' = EntryOf(k) /\ IsEntry(k)' = IsEntry(k)
    BY <1>1, SameMemory DEF EntryOf, IsEntry
  <2> QED
    BY <1>1, <2>1, <2>2 DEF WalkedInSync, Walking
<1>13. ArgsInSync'
  BY <1>1, <1>3, TagsDiffer DEF ArgsInSync
<1>14. WorkBounded'
  <2>1. reads' <= WorkBefore(MAX_ARGV)
    <3>1. reads \in Nat /\ ReadsFor(max) \in Nat /\ WorkBefore(MAX_ARGV) \in Nat
      BY WorkGrows, Sizes, ReadsOf DEF TypeOK
    <3> QED
      BY <1>2, <1>4, <1>6, <3>1
  <2> QED
    BY <2>1 DEF WorkBounded, WorkBefore, ReadsFor
<1>15. StringsWereThere' /\ ArgvEndsAtSentinel' /\ DecodesExactly'
  <2>1. StringsWereThere'
    BY <1>1, <1>3, NothingTold DEF StringsWereThere, WasThere, Held
  <2> QED
    BY <1>1, <1>2, <1>3, <2>1, NothingTold DEF ArgvEndsAtSentinel, DecodesExactly
<1> QED
  BY <1>7, <1>8, <1>9, <1>10, <1>11, <1>12, <1>13, <1>14, <1>15

\* The reads until a path has ended.
LEMMA PathEnds ==
  ASSUME IInv, EndPath
  PROVE  /\ Progress(Pointer, PATH_MAX) /\ Pointer \in Nat /\ PATH_MAX \in Nat \ {0}
         /\ UNCHANGED <<mem, mapped, argv, writes, seen, denied, call, cursor, remaining, out, entries>>
         /\ reads' \in Nat /\ reads' <= WorkBefore(0)
         /\ CstrAnswer # None /\ entries = <<>> /\ result = None /\ args = <<>>
<1> USE DEF IInv
<1>1. /\ pc = "path" /\ CstrAnswer # None /\ reads' = reads + Reading
      /\ UNCHANGED <<mem, mapped, argv, writes, seen, denied, call, cursor, remaining, out, entries>>
  BY DEF EndPath, memVars, cstrVars
<1>2. Progress(Pointer, PATH_MAX) /\ WorkOf(0, PATH_MAX) /\ entries = <<>>
  BY <1>1 DEF CstrInSync, WorkInSync, ArgvInSync
<1>3. reads + Reading <= 0 + ReadsFor(PATH_MAX) /\ reads + Reading \in Nat
  BY <1>2, Pointers, Sizes, WorkOfAll
<1>4. reads' <= WorkBefore(0)
  BY <1>1, <1>3, WorkOfOne, Sizes, ReadsOf
<1> QED
  BY <1>1, <1>2, <1>3, <1>4, Pointers, Sizes, Unfinished

LEMMA PathIsExact ==
  ASSUME IInv, EndPath, writes = 0
  PROVE  CstrAnswer = StringAt(Pointer, PATH_MAX)
BY PathEnds, AnswerExact DEF IInv

\* The path ends in an error.
LEMMA PathFails ==
  ASSUME IInv, EndPath, CstrAnswer \in Errors
  PROVE  IInv'
<1> USE DEF IInv
<1>1. /\ pc = "path" /\ pc' = "done" /\ result' = CstrAnswer /\ UNCHANGED <<args, pathname>>
  BY DEF EndPath, AnswerError
<1>2. /\ UNCHANGED <<mem, mapped, argv, writes, seen, denied, call, cursor, remaining, out, entries>>
      /\ reads' \in Nat /\ reads' <= WorkBefore(0) /\ entries = <<>> /\ args = <<>>
  BY PathEnds
<1>3. TypeOK'
  BY <1>1, <1>2, TagsDiffer DEF TypeOK
<1>4. SeenInSync' /\ CstrInSync' /\ WorkInSync' /\ WalkedInSync' /\ ArgvInSync'
  BY <1>1, <1>2 DEF SeenInSync, CstrInSync, WorkInSync, WalkedInSync, ArgvInSync, Walking
<1>5. ArgsInSync'
  BY <1>1, <1>2, TagsDiffer DEF ArgsInSync
<1>6. WorkBounded'
  <2>1. WorkBefore(0) <= WorkBefore(MAX_ARGV) /\ WorkBefore(0) \in Nat /\ WorkBefore(MAX_ARGV) \in Nat
    BY Sizes, WorkGrows
  <2>2. reads' <= WorkBefore(MAX_ARGV)
    BY <1>2, <2>1
  <2> QED
    BY <2>2 DEF WorkBounded, WorkBefore, ReadsFor
<1>7. StringsWereThere' /\ ArgvEndsAtSentinel'
  BY <1>1, <1>2, NothingTold DEF StringsWereThere, ArgvEndsAtSentinel
<1>8. DecodesExactly'
  <2> SUFFICES ASSUME writes = 0
               PROVE  PathTold' /\ ArgvTold'
    <3>1. call.kind \in PathKinds \cup {"execve"}
      BY <1>1 DEF CstrInSync
    <3> QED
      BY <1>2, <3>1 DEF DecodesExactly, PathKinds
  <2>1. StringAt(Pointer, PATH_MAX)' = CstrAnswer
    BY <1>2, PathIsExact, SameMemory DEF Pointer, Reg
  <2> QED
    BY <1>1, <2>1, TagsDiffer DEF PathTold, ArgvTold
<1> QED
  BY <1>3, <1>4, <1>5, <1>6, <1>7, <1>8

\* The path of stat, openat or statx.
LEMMA PathShows ==
  ASSUME IInv, EndPath, CstrAnswer \notin Errors, call.kind \in PathKinds
  PROVE  IInv'
<1> USE DEF IInv
<1> DEFINE path == CstrAnswer.bytes
<1>1. PICK p : p = path
  OBVIOUS
<1>2. /\ pc = "path" /\ pc' = "done" /\ result' = Ok /\ UNCHANGED pathname
      /\ args' = CASE call.kind = "stat" -> StatArgs(p)
                   [] call.kind = "openat" -> OpenAtArgs(p)
                   [] call.kind = "statx" -> StatxArgs(p)
  BY <1>1 DEF EndPath, Answer, PathKinds
<1>3. /\ UNCHANGED <<mem, mapped, argv, writes, seen, denied, call, cursor, remaining, out, entries>>
      /\ reads' \in Nat /\ reads' <= WorkBefore(0) /\ entries = <<>> /\ args = <<>>
      /\ CstrAnswer # None
  BY PathEnds
<1>4. p \in Bytes /\ CstrAnswer = Str(p) /\ WasThere(p, Pointer)
  BY <1>1, <1>3, PathEnds, AnswerWasThere
<1>5. args' \in {StatArgs(p), OpenAtArgs(p), StatxArgs(p)}
  BY <1>2 DEF PathKinds
<1>6. /\ ToldIn(args', "Path") = {<<"Path", p>>} /\ ToldIn(args', "Argv") = {}
      /\ \A i \in DOMAIN args' : args'[i][2][1] \in Variants
  BY <1>5, ShownByPath DEF TypeOK
<1>7. TypeOK'
  BY <1>2, <1>3, <1>6, TagsDiffer DEF TypeOK
<1>8. SeenInSync' /\ CstrInSync' /\ WorkInSync' /\ WalkedInSync' /\ ArgvInSync'
  BY <1>2, <1>3 DEF SeenInSync, CstrInSync, WorkInSync, WalkedInSync, ArgvInSync, Walking
<1>9. ArgsInSync'
  <2>1. CASE call.kind = "stat"
    <3>1. args' = StatArgs(p)
      BY <1>2, <2>1
    <3>2. Carried(args'[1][2]) = p
      BY <3>1 DEF StatArgs, Path, Carried
    <3>3. args' = Shown'
      BY <1>3, <2>1, <3>1, <3>2 DEF Shown, ShownAt, PathAt, StatArgs, As, Path, Reg
    <3> QED
      BY <1>2, <1>3, <2>1, <3>3 DEF ArgsInSync
  <2>2. CASE call.kind = "openat"
    <3>1. args' = OpenAtArgs(p)
      BY <1>2, <2>2
    <3>2. Carried(args'[2][2]) = p
      BY <3>1 DEF OpenAtArgs, Path, Carried
    <3>3. args' = Shown'
      BY <1>3, <2>2, <3>1, <3>2 DEF Shown, ShownAt, PathAt, OpenAtArgs, Fd, Flags, Path, Reg
    <3> QED
      BY <1>2, <1>3, <2>2, <3>3 DEF ArgsInSync
  <2>3. CASE call.kind = "statx"
    <3>1. args' = StatxArgs(p)
      BY <1>2, <2>3
    <3>2. Carried(args'[2][2]) = p
      BY <3>1 DEF StatxArgs, Path, Carried
    <3>3. args' = Shown'
      BY <1>3, <2>3, <3>1, <3>2 DEF Shown, ShownAt, PathAt, StatxArgs, Fd, Flags, As, Path, Reg
    <3> QED
      BY <1>2, <1>3, <2>3, <3>3 DEF ArgsInSync
  <2> QED
    BY <2>1, <2>2, <2>3 DEF PathKinds
<1>10. WorkBounded'
  <2>1. WorkBefore(0) <= WorkBefore(MAX_ARGV) /\ WorkBefore(0) \in Nat /\ WorkBefore(MAX_ARGV) \in Nat
    BY Sizes, WorkGrows
  <2>2. reads' <= WorkBefore(MAX_ARGV)
    BY <1>3, <2>1
  <2> QED
    BY <2>2 DEF WorkBounded, WorkBefore, ReadsFor
<1>11. Told("Path")' = {<<"Path", p>>} /\ Told("Argv")' = {}
  BY <1>6, ToldNow
<1>12. StringsWereThere'
  <2>1. WasThere(p, Pointer)'
    BY <1>3, <1>4 DEF WasThere, Held, Pointer, Reg
  <2>2. Carried(<<"Path", p>>) = p
    BY DEF Carried
  <2>3. entries' = <<>>
    BY <1>3
  <2> QED
    BY <1>11, <2>1, <2>2, <2>3 DEF StringsWereThere
<1>13. ArgvEndsAtSentinel'
  BY <1>3, <1>11 DEF ArgvEndsAtSentinel
<1>14. DecodesExactly'
  <2> SUFFICES ASSUME writes = 0
               PROVE  PathTold'
    BY <1>3 DEF DecodesExactly, PathKinds
  <2>1. StringAt(Pointer, PATH_MAX)' = Str(p)
    BY <1>3, <1>4, PathIsExact, SameMemory DEF Pointer, Reg
  <2> QED
    BY <1>11, <2>1, StrIs DEF PathTold
<1> QED
  BY <1>7, <1>8, <1>9, <1>10, <1>12, <1>13, <1>14

\* The path of execve, which goes on.
LEMMA PathGoesOn ==
  ASSUME IInv, EndPath, CstrAnswer \notin Errors, call.kind = "execve"
  PROVE  IInv'
<1> USE DEF IInv
<1>1. /\ pc = "path" /\ pc' = "slot" /\ pathname' = CstrAnswer.bytes /\ UNCHANGED <<result, args>>
  BY DEF EndPath
<1>2. /\ UNCHANGED <<mem, mapped, argv, writes, seen, denied, call, cursor, remaining, out, entries>>
      /\ reads' \in Nat /\ reads' <= WorkBefore(0) /\ entries = <<>> /\ args = <<>>
      /\ CstrAnswer # None /\ result = None
  BY PathEnds
<1>3. /\ pathname' \in Bytes /\ CstrAnswer = Str(pathname') /\ WasThere(pathname', Pointer)
      /\ ~denied
  BY <1>1, <1>2, PathEnds, AnswerWasThere
<1>4. TypeOK'
  BY <1>1, <1>2, <1>3, TagsDiffer DEF TypeOK
<1>5. SeenInSync' /\ CstrInSync'
  BY <1>1, <1>2 DEF SeenInSync, CstrInSync
<1>6. WorkInSync'
  <2>1. WorkBefore(Len(entries))' = WorkBefore(0)
    BY <1>2 DEF WorkBefore, ReadsFor
  <2> QED
    BY <1>1, <1>2, <2>1 DEF WorkInSync
<1>7. ArgvInSync'
  <2>1. WasThere(pathname, Pointer)'
    BY <1>2, <1>3 DEF WasThere, Held, Pointer, Reg
  <2> QED
    BY <1>1, <1>2, <1>3, <2>1, Sizes DEF ArgvInSync, Walking
<1>8. WalkedInSync'
  <2> SUFFICES ASSUME writes = 0
               PROVE  (Str(pathname) = StringAt(Pointer, PATH_MAX))'
    BY <1>2 DEF WalkedInSync
  <2>1. StringAt(Pointer, PATH_MAX)' = Str(pathname')
    BY <1>2, <1>3, PathIsExact, SameMemory DEF Pointer, Reg
  <2> QED
    BY <2>1 DEF Str
<1>9. ArgsInSync'
  BY <1>1, <1>2, TagsDiffer DEF ArgsInSync
<1>10. WorkBounded'
  <2>1. WorkBefore(0) <= WorkBefore(MAX_ARGV) /\ WorkBefore(0) \in Nat /\ WorkBefore(MAX_ARGV) \in Nat
    BY Sizes, WorkGrows
  <2>2. reads' <= WorkBefore(MAX_ARGV)
    BY <1>2, <2>1
  <2> QED
    BY <2>2 DEF WorkBounded, WorkBefore, ReadsFor
<1>11. StringsWereThere' /\ ArgvEndsAtSentinel' /\ DecodesExactly'
  BY <1>1, <1>2, NothingTold DEF StringsWereThere, ArgvEndsAtSentinel, DecodesExactly
<1> QED
  BY <1>4, <1>5, <1>6, <1>7, <1>8, <1>9, <1>10, <1>11

LEMMA EndPathKeeps == IInv /\ EndPath => IInv'
<1> SUFFICES ASSUME IInv, EndPath
             PROVE  IInv'
  OBVIOUS
<1>1. call.kind \in PathKinds \cup {"execve"}
  BY DEF IInv, CstrInSync, EndPath
<1> QED
  BY <1>1, PathFails, PathShows, PathGoesOn

-----------------------------------------------------------------------------
(* walk_argv                                                               *)

LEMMA EntriesAre ==
  /\ Overflow \in Entry /\ Unreadable \in Entry /\ Overflow # Unreadable
  /\ Overflow.tag # "string" /\ Unreadable.tag # "string"
  /\ \A b \in Bytes : Str(b) \in Entry
  /\ \A e \in Entry : e.tag # "string" => e \in {Overflow, Unreadable}
BY DEF Entry, Overflow, Unreadable, Tag, Str

\* The walk stops at the first slot that is no entry.
LEMMA StopIs ==
  ASSUME TypeOK, NEW n \in 0 .. MAX_ARGV, \A k \in 0 .. n - 1 : IsEntry(k),
         n # MAX_ARGV => ~IsEntry(n)
  PROVE  Stop = n
<1> DEFINE stops == {MAX_ARGV} \cup
             {i \in DOMAIN argv : argv[i] \in {NullPtr, BadSlot} \/ EntryOf(i) \in Errors}
<1>1. DOMAIN argv = 0 .. MAX_ARGV - 1 /\ MAX_ARGV \in Nat \ {0}
  BY Sizes DEF TypeOK
<1>2. stops \in SUBSET Int /\ \A i \in 0 .. MAX_ARGV - 1 : i \in stops <=> ~IsEntry(i)
  BY <1>1 DEF IsEntry
<1>3. Stop = Min(stops)
  BY DEF Stop
<1>4. MAX_ARGV \in stops /\ \A i \in stops : i = MAX_ARGV \/ i \in 0 .. MAX_ARGV - 1
  BY <1>1
<1> HIDE DEF stops
<1>5. n \in stops
  BY <1>1, <1>2, <1>4
<1>6. \A i \in stops : n <= i
  <2> TAKE i \in stops
  <2>1. CASE i = MAX_ARGV
    BY <1>1, <2>1
  <2>2. CASE i \in 0 .. MAX_ARGV - 1
    <3>1. i \notin 0 .. n - 1
      BY <1>2, <2>2
    <3> QED
      BY <1>1, <2>2, <3>1
  <2> QED
    BY <1>4, <2>1, <2>2
<1> QED
  BY <1>2, <1>3, <1>5, <1>6, MinIs

LEMMA ArgvIs ==
  ASSUME TypeOK, NEW n \in 0 .. MAX_ARGV, entries \in Seq(Entry), Len(entries) = n,
         \A k \in DOMAIN entries : entries[k] = EntryOf(k - 1) /\ IsEntry(k - 1),
         n # MAX_ARGV => ~IsEntry(n)
  PROVE  /\ n = MAX_ARGV => ArgvAs = Append(entries, Overflow)
         /\ n # MAX_ARGV => ArgvAs = IF argv[n] = NullPtr THEN entries
                                     ELSE Append(entries, Unreadable)
<1>1. \A k \in 0 .. n - 1 : IsEntry(k)
  <2> TAKE k \in 0 .. n - 1
  <2>1. k + 1 \in DOMAIN entries /\ (k + 1) - 1 = k
    BY Sizes
  <2> QED
    BY <2>1
<1>2. Stop = n
  BY <1>1, StopIs
<1>3. [i \in 1 .. n |-> EntryOf(i - 1)] = entries
  <2>1. DOMAIN entries = 1 .. n /\ entries = [i \in DOMAIN entries |-> entries[i]]
    OBVIOUS
  <2> QED
    BY <2>1
<1>4. ArgvAs = entries \o (IF n = MAX_ARGV THEN <<Overflow>>
                           ELSE IF argv[n] = NullPtr THEN <<>> ELSE <<Unreadable>>)
  BY <1>2, <1>3 DEF ArgvAs
<1>5. /\ entries \o <<Overflow>> = Append(entries, Overflow)
      /\ entries \o <<Unreadable>> = Append(entries, Unreadable)
      /\ entries \o <<>> = entries
  BY EntriesAre, AppendIsConcat, ConcatEmptySeq
<1> QED
  BY <1>4, <1>5

\* A walk of strings and what ends it.
LEMMA MarkedIs ==
  ASSUME NEW es \in Seq(Entry), \A k \in DOMAIN es : es[k].tag = "string", NEW strings,
         \/ strings = es /\ Len(es) < MAX_ARGV
         \/ strings = Append(es, Overflow) /\ Len(es) = MAX_ARGV
         \/ strings = Append(es, Unreadable) /\ Len(es) < MAX_ARGV
  PROVE  /\ strings \in Seq(Entry) /\ Len(strings) <= MAX_ARGV + 1
         /\ \A k \in DOMAIN strings :
              IF strings[k].tag = "string" THEN k \in DOMAIN es /\ strings[k] = es[k]
              ELSE k = Len(strings)
         /\ (\E k \in DOMAIN strings : k = MAX_ARGV /\ strings[k].tag = "string")
              <=> (\E k \in DOMAIN strings : strings[k] = Overflow)
<1>1. PICK n \in Nat : n = Len(es) /\ DOMAIN es = 1 .. n
  OBVIOUS
<1>2. \A k \in 1 .. n : es[k].tag = "string" /\ es[k] # Overflow
  BY <1>1, EntriesAre
<1>3. MAX_ARGV \in Nat \ {0}
  BY Sizes
<1>4. CASE strings = es /\ Len(es) < MAX_ARGV
  <2>1. strings \in Seq(Entry) /\ Len(strings) = n /\ DOMAIN strings = 1 .. n /\ n < MAX_ARGV
    BY <1>1, <1>4
  <2>2. \A k \in 1 .. n : strings[k].tag = "string" /\ strings[k] # Overflow /\ k # MAX_ARGV
    BY <1>2, <1>3, <1>4, <2>1
  <2> QED
    BY <1>1, <1>3, <1>4, <2>1, <2>2
<1>5. ASSUME NEW mark \in {Overflow, Unreadable}, strings = Append(es, mark)
      PROVE  /\ strings \in Seq(Entry) /\ Len(strings) = n + 1 /\ DOMAIN strings = 1 .. n + 1
             /\ \A k \in 1 .. n : strings[k] = es[k]
             /\ strings[n + 1] = mark
  <2>1. mark \in Entry
    BY EntriesAre
  <2>2. /\ Append(es, mark) \in Seq(Entry) /\ Len(Append(es, mark)) = n + 1
        /\ \A k \in 1 .. n : Append(es, mark)[k] = es[k]
        /\ Append(es, mark)[n + 1] = mark
    BY <1>1, <2>1, AppendProperties
  <2>3. DOMAIN Append(es, mark) = 1 .. n + 1
    BY <2>2
  <2> QED
    BY <1>5, <2>2, <2>3
<1>6. CASE strings = Append(es, Overflow) /\ Len(es) = MAX_ARGV
  <2>1. /\ strings \in Seq(Entry) /\ Len(strings) = n + 1 /\ DOMAIN strings = 1 .. n + 1
        /\ \A k \in 1 .. n : strings[k] = es[k]
        /\ strings[n + 1] = Overflow
    BY <1>5, <1>6
  <2>2. n = MAX_ARGV /\ n \in 1 .. n /\ n \in 1 .. n + 1 /\ n + 1 \in 1 .. n + 1
    BY <1>1, <1>3, <1>6
  <2>3. \A k \in 1 .. n + 1 : k \in 1 .. n \/ k = n + 1
    OBVIOUS
  <2>4. strings[n].tag = "string"
    BY <1>2, <2>1, <2>2
  <2>5. \A k \in DOMAIN strings :
          IF strings[k].tag = "string" THEN k \in DOMAIN es /\ strings[k] = es[k]
          ELSE k = Len(strings)
    BY <1>1, <1>2, <2>1, <2>3, EntriesAre
  <2> QED
    BY <1>1, <2>1, <2>2, <2>4, <2>5
<1>7. CASE strings = Append(es, Unreadable) /\ Len(es) < MAX_ARGV
  <2>1. /\ strings \in Seq(Entry) /\ Len(strings) = n + 1 /\ DOMAIN strings = 1 .. n + 1
        /\ \A k \in 1 .. n : strings[k] = es[k]
        /\ strings[n + 1] = Unreadable
    BY <1>5, <1>7
  <2>2. n < MAX_ARGV
    BY <1>1, <1>7
  <2>3. \A k \in 1 .. n + 1 : k \in 1 .. n \/ k = n + 1
    OBVIOUS
  <2>4. \A k \in 1 .. n : k # MAX_ARGV
    BY <1>3, <2>2
  <2>5. \A k \in DOMAIN strings :
          IF strings[k].tag = "string" THEN k \in DOMAIN es /\ strings[k] = es[k]
          ELSE k = Len(strings)
    BY <1>1, <1>2, <2>1, <2>3, EntriesAre
  <2>6. \A k \in DOMAIN strings : strings[k] # Overflow
    BY <1>2, <2>1, <2>3, EntriesAre
  <2>7. \A k \in DOMAIN strings : ~(k = MAX_ARGV /\ strings[k].tag = "string")
    BY <2>1, <2>3, <2>4, EntriesAre
  <2> QED
    BY <1>1, <1>3, <2>1, <2>2, <2>5, <2>6, <2>7
<1> QED
  BY <1>4, <1>6, <1>7

\* Whatever ends the walk: what is shown, and that nothing follows a sentinel.
LEMMA WalkedKeeps ==
  ASSUME IInv, Walking, NEW strings, Walked(strings),
         UNCHANGED <<mem, mapped, argv, writes, seen, denied, call, cursor, remaining, out, pathname>>,
         reads' \in Nat, reads' <= WorkBefore(MAX_ARGV),
         \/ strings = entries /\ Len(entries) < MAX_ARGV
         \/ strings = Append(entries, Overflow) /\ Len(entries) = MAX_ARGV
         \/ strings = Append(entries, Unreadable) /\ Len(entries) < MAX_ARGV,
         writes = 0 => strings = ArgvAs /\ argv[0] # BadSlot
  PROVE  IInv'
<1> USE DEF IInv
<1>1. /\ entries' = strings /\ pc' = "done" /\ result' = Ok
      /\ args' = ExecveArgs(pathname, strings)
  BY DEF Walked, Answer
<1>2. /\ call.kind = "execve" /\ ~denied /\ WasThere(pathname, Pointer) /\ entries \in Seq(Entry)
      /\ \A k \in DOMAIN entries : entries[k].tag = "string"
      /\ Len(entries) \in Nat /\ Len(entries) <= MAX_ARGV /\ MAX_ARGV \in Nat
      /\ DOMAIN entries = 1 .. Len(entries)
  <2>1. IF pc = "entry" THEN Len(entries) + 1 <= MAX_ARGV ELSE Len(entries) + 0 <= MAX_ARGV
    BY DEF ArgvInSync
  <2> QED
    BY <2>1, Sizes DEF ArgvInSync
<1>3. Len(entries) = MAX_ARGV \/ Len(entries) < MAX_ARGV
  BY <1>2
<1>4. /\ strings \in Seq(Entry) /\ Len(strings) <= MAX_ARGV + 1
      /\ \A k \in DOMAIN strings :
           IF strings[k].tag = "string" THEN k \in DOMAIN entries /\ strings[k] = entries[k]
           ELSE k = Len(strings)
      /\ (\E k \in DOMAIN strings : k = MAX_ARGV /\ strings[k].tag = "string")
           <=> (\E k \in DOMAIN strings : strings[k] = Overflow)
  BY <1>2, MarkedIs
<1>5. /\ ToldIn(args', "Path") = {<<"Path", pathname>>}
      /\ ToldIn(args', "Argv") = {<<"Argv", strings>>}
      /\ \A i \in DOMAIN args' : args'[i][2][1] \in Variants
  BY <1>1, ShownByExecve
<1>6. /\ Told("Path")' = {<<"Path", pathname>>} /\ Told("Argv")' = {<<"Argv", strings>>}
  BY <1>5, ToldNow
<1>7. TypeOK'
  BY <1>1, <1>4, <1>5, TagsDiffer DEF TypeOK
<1>8. SeenInSync' /\ CstrInSync' /\ WorkInSync' /\ WalkedInSync' /\ ArgvInSync'
  BY <1>1, <1>4 DEF SeenInSync, CstrInSync, WorkInSync, WalkedInSync, ArgvInSync, Walking
<1>9. ArgsInSync'
  <2>1. args' = Shown'
    BY <1>1, <1>2 DEF Shown, ExecveArgs, Path, As, Reg
  <2> QED
    BY <1>1, <1>2, <2>1 DEF ArgsInSync
<1>10. WorkBounded'
  BY DEF WorkBounded, WorkBefore, ReadsFor
<1>11. StringsWereThere'
  <2>1. WasThere(pathname, Pointer)' /\ Carried(<<"Path", pathname>>) = pathname
    BY <1>2 DEF WasThere, Held, Pointer, Reg, Carried
  <2>2. ASSUME NEW k \in DOMAIN strings, strings[k].tag = "string"
        PROVE  \E s \in Strings : WasThere(strings[k].bytes, s)'
    <3>1. k \in DOMAIN entries /\ strings[k] = entries[k]
      BY <1>4, <2>2
    <3>2. PICK s \in Strings : WasThere(entries[k].bytes, s)
      BY <1>2, <3>1 DEF StringsWereThere
    <3> QED
      BY <3>1, <3>2 DEF WasThere, Held
  <2>3. (\A path \in Told("Path") : WasThere(Carried(path), Pointer))'
    BY <1>6, <2>1
  <2>4. (\A k \in DOMAIN entries : entries[k].tag = "string" =>
           \E s \in Strings : WasThere(entries[k].bytes, s))'
    BY <1>1, <2>2 DEF WasThere, Held
  <2> QED
    BY <2>3, <2>4 DEF StringsWereThere
<1>12. ArgvEndsAtSentinel'
  <2>1. \A k \in DOMAIN strings : IF strings[k].tag = "string" THEN k <= MAX_ARGV ELSE k = Len(strings)
    <3> TAKE k \in DOMAIN strings
    <3>1. CASE strings[k].tag = "string"
      <4>1. k \in DOMAIN entries
        BY <1>4, <3>1
      <4>2. k <= MAX_ARGV
        BY <1>2, <4>1
      <4> QED
        BY <3>1, <4>2
    <3>2. CASE strings[k].tag # "string"
      BY <1>4, <3>2
    <3> QED
      BY <3>1, <3>2
  <2>3. Carried(<<"Argv", strings>>) = strings
    BY DEF Carried
  <2> QED
    BY <1>1, <1>4, <1>6, <2>1, <2>3 DEF ArgvEndsAtSentinel
<1>13. DecodesExactly'
  <2> SUFFICES ASSUME writes = 0
               PROVE  ArgvTold'
    BY <1>2 DEF DecodesExactly, PathKinds
  <2>1. StringAt(Pointer, PATH_MAX)' = Str(pathname)
    BY SameMemory DEF WalkedInSync, Pointer, Reg
  <2>2. ArgvAs' = strings
    <3>1. \A i : EntryOf(i)' = EntryOf(i)
      BY SameMemory DEF EntryOf
    <3> QED
      BY <3>1 DEF ArgvAs, Stop
  <2>3. PathTold'
    BY <1>6, <2>1, StrIs DEF PathTold
  <2> QED
    BY <1>6, <2>1, <2>2, <2>3, StrIs DEF ArgvTold
<1> QED
  BY <1>7, <1>8, <1>9, <1>10, <1>11, <1>12, <1>13

\* Where the walk stands.
LEMMA WalkIs ==
  ASSUME IInv, Walking
  PROVE  \E n \in 0 .. MAX_ARGV :
           /\ n = Len(entries) /\ n \in Nat /\ DOMAIN entries = 1 .. n /\ entries \in Seq(Entry)
           /\ pc = "entry" => n < MAX_ARGV
           /\ call.kind = "execve" /\ ~denied /\ result = None /\ args = <<>>
           /\ \A k \in DOMAIN entries : entries[k].tag = "string"
           /\ writes = 0 => /\ \A k \in DOMAIN entries : entries[k] = EntryOf(k - 1) /\ IsEntry(k - 1)
                            /\ n > 0 => argv[0] # BadSlot
<1> USE DEF IInv
<1>1. PICK n \in Nat : n = Len(entries) /\ DOMAIN entries = 1 .. n
  BY DEF ArgvInSync
<1>2. /\ call.kind = "execve" /\ ~denied /\ entries \in Seq(Entry)
      /\ \A k \in DOMAIN entries : entries[k].tag = "string"
      /\ IF pc = "entry" THEN n + 1 <= MAX_ARGV ELSE n + 0 <= MAX_ARGV
  BY <1>1 DEF ArgvInSync
<1>3. result = None /\ args = <<>>
  BY Unfinished DEF Walking
<1>4. writes = 0 => \A k \in DOMAIN entries : entries[k] = EntryOf(k - 1) /\ IsEntry(k - 1)
  BY DEF WalkedInSync
<1>5. writes = 0 /\ n > 0 => argv[0] # BadSlot
  <2> SUFFICES ASSUME writes = 0, n > 0
               PROVE  argv[0] # BadSlot
    OBVIOUS
  <2>1. 1 \in DOMAIN entries /\ 1 - 1 = 0
    BY <1>1
  <2>2. IsEntry(0)
    BY <1>4, <2>1
  <2> QED
    BY <2>2 DEF IsEntry
<1> QED
  BY <1>1, <1>2, <1>3, <1>4, <1>5, Sizes

LEMMA CapHitKeeps == IInv /\ CapHit => IInv'
<1> SUFFICES ASSUME IInv, CapHit
             PROVE  IInv'
  OBVIOUS
<1>1. /\ Walking /\ pc = "slot" /\ Walked(Capped) /\ Len(entries) = MAX_ARGV /\ reads' = reads
      /\ UNCHANGED <<mem, mapped, argv, writes, seen, denied, call, cursor, remaining, out, pathname>>
  BY DEF CapHit, Walking, memVars, cstrVars
<1>2. reads' \in Nat /\ reads' <= WorkBefore(MAX_ARGV)
  BY <1>1, WorkBoundedIs DEF IInv, TypeOK
<1>3. PICK strings : strings = Append(entries, Overflow)
  OBVIOUS
<1>4. Walked(strings)
  BY <1>1, <1>3 DEF Capped
<1>5. writes = 0 => strings = ArgvAs /\ argv[0] # BadSlot
  <2>1. PICK n \in 0 .. MAX_ARGV :
           /\ n = Len(entries) /\ entries \in Seq(Entry)
           /\ writes = 0 => /\ \A k \in DOMAIN entries : entries[k] = EntryOf(k - 1) /\ IsEntry(k - 1)
                            /\ n > 0 => argv[0] # BadSlot
    BY <1>1, WalkIs
  <2>2. TypeOK /\ n = MAX_ARGV /\ n > 0
    BY <1>1, <2>1, Sizes DEF IInv
  <2> QED
    BY <1>3, <2>1, <2>2, ArgvIs
<1> QED
  BY <1>1, <1>2, <1>3, <1>4, <1>5, WalkedKeeps

\* The entry that is read next.
LEMMA SlotOpens ==
  ASSUME IInv, ReadSlot, read_ptr_slot \notin {BadSlot, NullPtr}
  PROVE  IInv'
<1> USE DEF IInv
<1>1. /\ pc = "slot" /\ Walking /\ Len(entries) < MAX_ARGV /\ reads' = reads + 1
      /\ UNCHANGED <<mem, mapped, argv, writes, seen, denied, call, pathname>>
  BY DEF ReadSlot, memVars, Walking
<1>2. PICK n \in 0 .. MAX_ARGV :
        /\ n = Len(entries) /\ n \in Nat /\ DOMAIN entries = 1 .. n /\ entries \in Seq(Entry)
        /\ call.kind = "execve" /\ ~denied /\ result = None /\ args = <<>>
        /\ \A k \in DOMAIN entries : entries[k].tag = "string"
  BY <1>1, WalkIs
<1>3. PICK s : s = read_ptr_slot
  OBVIOUS
<1>4. /\ pc' = "entry" /\ UNCHANGED <<entries, result, args>>
      /\ cursor' = s /\ remaining' = MAX_ARGV_ENTRY_BYTES /\ out' = <<>>
  BY <1>3 DEF ReadSlot, OpenCstr
<1>5. s \in Strings /\ s = argv[n] /\ s # NullPtr /\ s \in Nat /\ s \in Addr
  <2>1. n \in 0 .. MAX_ARGV - 1
    BY <1>1, <1>2, Sizes
  <2>2. s = argv[n] /\ s \in Slot
    BY <1>2, <1>3, <2>1 DEF read_ptr_slot, TypeOK
  <2> QED
    BY <1>3, <2>2, Sizes DEF Slot, Addr
<1>6. TypeOK'
  <2>1. /\ cursor' \in Addr /\ remaining' \in 0 .. PATH_MAX /\ out' \in Bytes
        /\ Len(out') + remaining' <= PATH_MAX
    BY <1>4, <1>5, Sizes DEF Bytes
  <2>2. reads' \in Nat
    BY <1>1 DEF TypeOK
  <2> QED
    BY <1>1, <1>2, <1>4, <2>1, <2>2 DEF TypeOK
<1>7. SeenInSync'
  BY <1>1 DEF SeenInSync
<1>8. CstrInSync'
  <2>1. Progress(s, MAX_ARGV_ENTRY_BYTES)'
    BY <1>4, <1>5, Sizes DEF Progress
  <2>2. EntryAt(s)'
    BY <1>1, <1>2, <1>4, <1>5 DEF EntryAt
  <2> QED
    BY <1>4, <1>5, <2>1, <2>2 DEF CstrInSync
<1>9. reads \in Nat /\ reads <= WorkBefore(n) /\ WorkBefore(n) \in Nat
  BY <1>1, <1>2, WorkGrows DEF WorkInSync, TypeOK
<1>10. WorkInSync'
  <2>1. Chunks(Len(out))' = 0 /\ remaining' # 0
    BY <1>4, ChunksOf, Sizes DEF Chunks
  <2>2. reads' <= WorkBefore(n) + 1 + 0
    BY <1>1, <1>9
  <2>3. (WorkBefore(Len(entries)))' = WorkBefore(n)
    BY <1>2, <1>4 DEF WorkBefore, ReadsFor
  <2>4. WorkOf(WorkBefore(Len(entries)) + 1, MAX_ARGV_ENTRY_BYTES)'
    BY <1>4, <2>1, <2>2, <2>3 DEF WorkOf
  <2> QED
    BY <1>4, <2>4 DEF WorkInSync
<1>11. ArgvInSync'
  <2>1. WasThere(pathname, Pointer)'
    BY <1>1 DEF ArgvInSync, WasThere, Held, Pointer, Reg
  <2>2. (Len(entries) + 1 <= MAX_ARGV)'
    BY <1>1, <1>2, <1>4, Sizes
  <2> QED
    BY <1>1, <1>2, <1>4, <2>1, <2>2 DEF ArgvInSync, Walking
<1>12. WalkedInSync'
  <2>1. StringAt(Pointer, PATH_MAX)' = StringAt(Pointer, PATH_MAX)
    BY <1>1, SameMemory DEF Pointer, Reg
  <2>2. \A k : EntryOf(k)' = EntryOf(k) /\ IsEntry(k)' = IsEntry(k)
    BY <1>1, SameMemory DEF EntryOf, IsEntry
  <2> QED
    BY <1>1, <1>4, <2>1, <2>2 DEF WalkedInSync, Walking
<1>13. ArgsInSync'
  BY <1>2, <1>4, TagsDiffer DEF ArgsInSync
<1>14. WorkBounded'
  <2>1. reads' <= WorkBefore(MAX_ARGV)
    BY <1>1, <1>2, <1>9, WorkStep
  <2> QED
    BY <2>1 DEF WorkBounded, WorkBefore, ReadsFor
<1>15. StringsWereThere' /\ ArgvEndsAtSentinel' /\ DecodesExactly'
  <2>1. StringsWereThere'
    BY <1>1, <1>2, <1>4, NothingTold DEF StringsWereThere, WasThere, Held
  <2> QED
    BY <1>2, <1>4, <2>1, NothingTold DEF ArgvEndsAtSentinel, DecodesExactly
<1> QED
  BY <1>6, <1>7, <1>8, <1>10, <1>11, <1>12, <1>13, <1>14, <1>15

\* The first slot cannot be read.
LEMMA FirstSlotFails ==
  ASSUME IInv, ReadSlot, read_ptr_slot = BadSlot, entries = <<>>
  PROVE  IInv'
<1> USE DEF IInv
<1>1. /\ pc = "slot" /\ Walking /\ reads' = reads + 1
      /\ UNCHANGED <<mem, mapped, argv, writes, seen, denied, call, pathname>>
  BY DEF ReadSlot, memVars, Walking
<1>2. call.kind = "execve" /\ ~denied /\ args = <<>>
  BY <1>1, WalkIs
<1>3. /\ pc' = "done" /\ result' = Vm /\ UNCHANGED <<args, cursor, remaining, out, entries>>
  BY <1>2 DEF ReadSlot, AnswerError, cstrVars, NullPtr, BadSlot
<1>4. argv[0] = BadSlot
  BY <1>2 DEF read_ptr_slot
<1>5. reads \in Nat /\ reads' \in Nat /\ reads' <= WorkBefore(MAX_ARGV)
  <2>1. reads \in Nat /\ reads <= WorkBefore(0)
    BY <1>1 DEF WorkInSync, TypeOK
  <2>2. 0 \in Nat /\ 0 < MAX_ARGV
    BY Sizes
  <2> QED
    BY <1>1, <2>1, <2>2, WorkStep
<1>6. TypeOK'
  BY <1>1, <1>2, <1>3, <1>5, TagsDiffer DEF TypeOK
<1>7. SeenInSync' /\ CstrInSync' /\ WorkInSync' /\ WalkedInSync' /\ ArgvInSync'
  BY <1>1, <1>3 DEF SeenInSync, CstrInSync, WorkInSync, WalkedInSync, ArgvInSync, Walking
<1>8. ArgsInSync'
  BY <1>2, <1>3, TagsDiffer DEF ArgsInSync
<1>9. WorkBounded'
  BY <1>5 DEF WorkBounded, WorkBefore, ReadsFor
<1>10. StringsWereThere' /\ ArgvEndsAtSentinel'
  BY <1>2, <1>3, NothingTold DEF StringsWereThere, ArgvEndsAtSentinel
<1>11. DecodesExactly'
  <2> SUFFICES ASSUME writes = 0
               PROVE  ArgvTold'
    BY <1>1, <1>2 DEF DecodesExactly, PathKinds
  <2>1. StringAt(Pointer, PATH_MAX)' = Str(pathname)
    BY <1>1, SameMemory DEF WalkedInSync, Pointer, Reg
  <2> QED
    BY <1>1, <1>3, <1>4, <2>1, StrIs DEF ArgvTold
<1> QED
  BY <1>6, <1>7, <1>8, <1>9, <1>10, <1>11

LEMMA ReadSlotKeeps == IInv /\ ReadSlot => IInv'
<1> SUFFICES ASSUME IInv, ReadSlot
             PROVE  IInv'
  OBVIOUS
<1>1. /\ pc = "slot" /\ Walking /\ Len(entries) < MAX_ARGV /\ reads' = reads + 1
      /\ UNCHANGED <<mem, mapped, argv, writes, seen, denied, call, pathname>>
  BY DEF ReadSlot, memVars, Walking
<1>2. PICK n \in 0 .. MAX_ARGV :
        /\ n = Len(entries) /\ n \in Nat /\ entries \in Seq(Entry) /\ ~denied
        /\ writes = 0 => /\ \A k \in DOMAIN entries : entries[k] = EntryOf(k - 1) /\ IsEntry(k - 1)
                         /\ n > 0 => argv[0] # BadSlot
  BY <1>1, WalkIs
<1>3. reads' \in Nat /\ reads' <= WorkBefore(MAX_ARGV)
  <2>1. reads \in Nat /\ reads <= WorkBefore(n)
    BY <1>1, <1>2 DEF IInv, WorkInSync, TypeOK
  <2> QED
    BY <1>1, <1>2, <2>1, WorkStep
<1>4. read_ptr_slot = argv[n]
  BY <1>2 DEF read_ptr_slot
<1>5. CASE read_ptr_slot = BadSlot /\ entries # <<>>
  <2>1. PICK strings : strings = Append(entries, Unreadable)
    OBVIOUS
  <2>2. Walked(strings) /\ UNCHANGED <<cursor, remaining, out>>
    BY <1>5, <2>1 DEF ReadSlot, NullPtr, BadSlot, cstrVars
  <2>3. writes = 0 => strings = ArgvAs /\ argv[0] # BadSlot
    <3> SUFFICES ASSUME writes = 0
                 PROVE  strings = ArgvAs /\ argv[0] # BadSlot
      OBVIOUS
    <3>1. n > 0
      BY <1>2, <1>5
    <3>2. TypeOK /\ n # MAX_ARGV /\ ~IsEntry(n) /\ argv[n] # NullPtr
      BY <1>1, <1>2, <1>4, <1>5, Sizes DEF IInv, IsEntry, NullPtr, BadSlot
    <3> QED
      BY <1>2, <2>1, <3>1, <3>2, ArgvIs
  <2> QED
    BY <1>1, <1>3, <2>1, <2>2, <2>3, WalkedKeeps
<1>6. CASE read_ptr_slot = NullPtr
  <2>1. PICK strings : strings = entries
    OBVIOUS
  <2>2. Walked(strings) /\ UNCHANGED <<cursor, remaining, out>>
    BY <1>6, <2>1 DEF ReadSlot, NullPtr, BadSlot, cstrVars
  <2>3. writes = 0 => strings = ArgvAs /\ argv[0] # BadSlot
    <3> SUFFICES ASSUME writes = 0
                 PROVE  strings = ArgvAs /\ argv[0] # BadSlot
      OBVIOUS
    <3>1. TypeOK /\ n # MAX_ARGV /\ ~IsEntry(n)
      BY <1>1, <1>2, <1>4, <1>6, Sizes DEF IInv, IsEntry
    <3>2. argv[0] # BadSlot
      <4>1. n = 0 => argv[0] = NullPtr
        BY <1>4, <1>6
      <4> QED
        BY <1>2, <4>1 DEF NullPtr, BadSlot
    <3> QED
      BY <1>2, <1>4, <1>6, <2>1, <3>1, <3>2, ArgvIs
  <2> QED
    BY <1>1, <1>3, <2>1, <2>2, <2>3, WalkedKeeps
<1> QED
  BY <1>5, <1>6, FirstSlotFails, SlotOpens

\* What decode_argv_entry starts from.
LEMMA EntryEnds ==
  ASSUME IInv, EndEntry
  PROVE  \E n \in 0 .. MAX_ARGV - 1, s \in Strings :
           /\ n = Len(entries) /\ n \in Nat /\ DOMAIN entries = 1 .. n /\ entries \in Seq(Entry)
           /\ call.kind = "execve" /\ ~denied /\ result = None /\ args = <<>>
           /\ \A k \in DOMAIN entries : entries[k].tag = "string"
           /\ s \in Nat /\ Progress(s, MAX_ARGV_ENTRY_BYTES)
           /\ reads' \in Nat /\ reads' <= WorkBefore(n + 1) /\ reads' <= WorkBefore(MAX_ARGV)
           /\ writes = 0 =>
                /\ \A k \in DOMAIN entries : entries[k] = EntryOf(k - 1) /\ IsEntry(k - 1)
                /\ argv[n] = s /\ argv[n] \notin {NullPtr, BadSlot} /\ argv[0] # BadSlot
                /\ EntryOf(n) = CstrAnswer
<1> USE DEF IInv
<1>1. pc = "entry" /\ Walking /\ CstrAnswer # None /\ reads' = reads + Reading
  BY DEF EndEntry, Walking
<1>2. PICK n \in 0 .. MAX_ARGV :
           /\ n = Len(entries) /\ n \in Nat /\ DOMAIN entries = 1 .. n /\ entries \in Seq(Entry)
           /\ n < MAX_ARGV
           /\ call.kind = "execve" /\ ~denied /\ result = None /\ args = <<>>
           /\ \A k \in DOMAIN entries : entries[k].tag = "string"
           /\ writes = 0 => /\ \A k \in DOMAIN entries : entries[k] = EntryOf(k - 1) /\ IsEntry(k - 1)
                            /\ n > 0 => argv[0] # BadSlot
  BY <1>1, WalkIs
<1>3. PICK s \in Strings : EntryAt(s) /\ Progress(s, MAX_ARGV_ENTRY_BYTES)
  BY <1>1 DEF CstrInSync
<1>4. s \in Nat /\ MAX_ARGV_ENTRY_BYTES \in Nat \ {0} /\ n \in 0 .. MAX_ARGV - 1
  BY <1>2, Sizes
<1>5. reads' \in Nat /\ reads' <= WorkBefore(n + 1) /\ reads' <= WorkBefore(MAX_ARGV)
  <2>1. WorkOf(WorkBefore(n) + 1, MAX_ARGV_ENTRY_BYTES)
    BY <1>1, <1>2 DEF WorkInSync
  <2>2. PICK base \in Nat : base = WorkBefore(n) + 1
    BY <1>2, WorkStep
  <2>3. reads + Reading <= base + ReadsFor(MAX_ARGV_ENTRY_BYTES) /\ reads + Reading \in Nat
    BY <1>3, <1>4, <2>1, <2>2, WorkOfAll
  <2> QED
    BY <1>1, <1>2, <2>2, <2>3, WorkStep
<1>6. ASSUME writes = 0
      PROVE  /\ argv[n] = s /\ argv[n] \notin {NullPtr, BadSlot} /\ argv[0] # BadSlot
             /\ EntryOf(n) = CstrAnswer
  <2>1. argv[n] = s /\ s # NullPtr
    BY <1>2, <1>3, <1>6 DEF EntryAt
  <2>2. s # BadSlot
    BY <1>4 DEF BadSlot
  <2>3. argv[0] # BadSlot
    <3>1. n = 0 => argv[0] = s
      BY <2>1
    <3> QED
      BY <1>2, <1>6, <2>2, <3>1
  <2>4. CstrAnswer = StringAt(s, MAX_ARGV_ENTRY_BYTES)
    BY <1>1, <1>3, <1>4, <1>6, AnswerExact
  <2> QED
    BY <2>1, <2>2, <2>3, <2>4 DEF EntryOf
<1> QED
  BY <1>2, <1>3, <1>4, <1>5, <1>6

\* One more entry.
LEMMA EntryShows ==
  ASSUME IInv, EndEntry, CstrAnswer \notin Errors
  PROVE  IInv'
<1> USE DEF IInv
<1>1. /\ pc = "entry" /\ pc' = "slot" /\ entries' = Append(entries, CstrAnswer)
      /\ CstrAnswer # None
      /\ UNCHANGED <<mem, mapped, argv, writes, seen, denied, call, cursor, remaining, out,
                     pathname, result, args>>
  BY DEF EndEntry, memVars, cstrVars
<1>2. PICK n \in 0 .. MAX_ARGV - 1, s \in Strings :
           /\ n = Len(entries) /\ n \in Nat /\ DOMAIN entries = 1 .. n /\ entries \in Seq(Entry)
           /\ call.kind = "execve" /\ ~denied /\ result = None /\ args = <<>>
           /\ \A k \in DOMAIN entries : entries[k].tag = "string"
           /\ s \in Nat /\ Progress(s, MAX_ARGV_ENTRY_BYTES)
           /\ reads' \in Nat /\ reads' <= WorkBefore(n + 1) /\ reads' <= WorkBefore(MAX_ARGV)
           /\ writes = 0 =>
                /\ \A k \in DOMAIN entries : entries[k] = EntryOf(k - 1) /\ IsEntry(k - 1)
                /\ argv[n] = s /\ argv[n] \notin {NullPtr, BadSlot} /\ argv[0] # BadSlot
                /\ EntryOf(n) = CstrAnswer
  BY EntryEnds
<1>3. PICK str \in Bytes : CstrAnswer = Str(str) /\ WasThere(str, s)
  BY <1>1, <1>2, Sizes, AnswerWasThere
<1>4. /\ entries' \in Seq(Entry) /\ Len(entries') = n + 1 /\ DOMAIN entries' = 1 .. n + 1
      /\ \A k \in 1 .. n : entries'[k] = entries[k]
      /\ entries'[n + 1] = Str(str)
  <2>1. Str(str) \in Entry
    BY EntriesAre
  <2>2. PICK es : es = Append(entries, Str(str))
    OBVIOUS
  <2>3. /\ es \in Seq(Entry) /\ Len(es) = n + 1
        /\ \A k \in 1 .. n : es[k] = entries[k]
        /\ es[n + 1] = Str(str)
    BY <1>2, <2>1, <2>2, AppendProperties
  <2>4. DOMAIN es = 1 .. n + 1
    BY <1>2, <2>3
  <2> QED
    BY <1>1, <1>3, <2>2, <2>3, <2>4
<1>5. \A k \in 1 .. n + 1 : k \in 1 .. n \/ k = n + 1
  BY <1>2
<1>6. TypeOK'
  <2>1. Len(entries') <= MAX_ARGV + 1 /\ reads' \in Nat
    BY <1>2, <1>4, Sizes
  <2>2. /\ pc' # "done" /\ result' = None /\ DOMAIN args' = {}
    BY <1>1, <1>2
  <2> QED
    BY <1>1, <2>1, <2>2 DEF TypeOK
<1>7. SeenInSync' /\ CstrInSync'
  BY <1>1 DEF SeenInSync, CstrInSync
<1>8. WorkInSync'
  <2>1. WorkBefore(Len(entries))' = WorkBefore(n + 1)
    BY <1>4 DEF WorkBefore, ReadsFor
  <2> QED
    BY <1>1, <1>2, <2>1 DEF WorkInSync
<1>9. ArgvInSync'
  <2>1. WasThere(pathname, Pointer)'
    BY <1>1 DEF ArgvInSync, Walking, WasThere, Held, Pointer, Reg
  <2>2. (\A k \in DOMAIN entries : entries[k].tag = "string")'
    BY <1>2, <1>4, <1>5, StrIs
  <2>3. (Len(entries) + 0 <= MAX_ARGV)'
    BY <1>2, <1>4, Sizes
  <2> QED
    BY <1>1, <1>2, <1>4, <2>1, <2>2, <2>3 DEF ArgvInSync, Walking
<1>10. WalkedInSync'
  <2> SUFFICES ASSUME writes = 0
               PROVE  /\ (Str(pathname) = StringAt(Pointer, PATH_MAX))'
                      /\ (\A k \in DOMAIN entries : entries[k] = EntryOf(k - 1) /\ IsEntry(k - 1))'
    BY <1>1 DEF WalkedInSync
  <2>1. StringAt(Pointer, PATH_MAX)' = StringAt(Pointer, PATH_MAX)
    BY <1>1, SameMemory DEF Pointer, Reg
  <2>2. Str(pathname) = StringAt(Pointer, PATH_MAX)
    BY <1>1 DEF WalkedInSync, Walking
  <2>3. \A k : EntryOf(k)' = EntryOf(k) /\ IsEntry(k)' = IsEntry(k)
    BY <1>1, SameMemory DEF EntryOf, IsEntry
  <2>4. EntryOf(n) = Str(str) /\ IsEntry(n)
    BY <1>2, <1>3 DEF IsEntry
  <2>5. ASSUME NEW k \in 1 .. n + 1
        PROVE  entries'[k] = EntryOf(k - 1) /\ IsEntry(k - 1)
    <3>1. k = n + 1 => k - 1 = n
      BY <1>2
    <3> QED
      BY <1>2, <1>4, <1>5, <2>4, <3>1
  <2> QED
    BY <1>1, <1>4, <2>1, <2>2, <2>3, <2>5 DEF Str
<1>11. ArgsInSync'
  BY <1>1, <1>2, TagsDiffer DEF ArgsInSync
<1>12. WorkBounded'
  BY <1>2 DEF WorkBounded, WorkBefore, ReadsFor
<1>13. StringsWereThere'
  <2>1. PICK es : es = entries'
    OBVIOUS
  <2>2. ASSUME NEW k \in 1 .. n + 1
        PROVE  \E t \in Strings : WasThere(es[k].bytes, t)
    <3>1. CASE k = n + 1
      BY <1>3, <1>4, <2>1, <3>1, StrIs
    <3>2. CASE k \in 1 .. n
      BY <1>2, <1>4, <2>1, <3>2 DEF StringsWereThere
    <3> QED
      BY <1>5, <3>1, <3>2
  <2>3. \A k \in 1 .. n + 1 : \E t \in Strings : WasThere(es[k].bytes, t)'
    BY <1>1, <2>2 DEF WasThere, Held
  <2>4. (\A k \in DOMAIN entries : entries[k].tag = "string" =>
           \E t \in Strings : WasThere(entries[k].bytes, t))'
    BY <1>4, <2>1, <2>3 DEF WasThere, Held
  <2>5. Told("Path")' = {}
    BY <1>1, <1>2, NothingTold
  <2> QED
    BY <2>4, <2>5 DEF StringsWereThere
<1>14. ArgvEndsAtSentinel' /\ DecodesExactly'
  <2>1. (\A k \in DOMAIN entries : entries[k].tag = "string" /\ k <= MAX_ARGV)'
    BY <1>2, <1>4, <1>5, StrIs, Sizes
  <2> QED
    BY <1>1, <1>2, <2>1, NothingTold DEF ArgvEndsAtSentinel, DecodesExactly
<1> QED
  BY <1>6, <1>7, <1>8, <1>9, <1>10, <1>11, <1>12, <1>13, <1>14

LEMMA EndEntryKeeps == IInv /\ EndEntry => IInv'
<1> SUFFICES ASSUME IInv, EndEntry, CstrAnswer \in Errors
             PROVE  IInv'
  BY EntryShows
<1>1. /\ Walking /\ Walked(Append(entries, Unreadable))
      /\ UNCHANGED <<mem, mapped, argv, writes, seen, denied, call, cursor, remaining, out, pathname>>
  BY DEF EndEntry, Walking, memVars, cstrVars
<1>2. PICK strings : strings = Append(entries, Unreadable)
  OBVIOUS
<1>3. PICK n \in 0 .. MAX_ARGV - 1 :
           /\ n = Len(entries) /\ entries \in Seq(Entry)
           /\ reads' \in Nat /\ reads' <= WorkBefore(MAX_ARGV)
           /\ writes = 0 =>
                /\ \A k \in DOMAIN entries : entries[k] = EntryOf(k - 1) /\ IsEntry(k - 1)
                /\ argv[n] \notin {NullPtr, BadSlot} /\ argv[0] # BadSlot
                /\ EntryOf(n) = CstrAnswer
  BY EntryEnds
<1>4. Len(entries) < MAX_ARGV /\ n \in 0 .. MAX_ARGV /\ n # MAX_ARGV
  BY <1>3, Sizes
<1>5. writes = 0 => strings = ArgvAs /\ argv[0] # BadSlot
  BY <1>2, <1>3, <1>4, ArgvIs DEF IInv, IsEntry
<1> QED
  BY <1>1, <1>2, <1>3, <1>4, <1>5, WalkedKeeps

-----------------------------------------------------------------------------
(* The buffers, the status word and the registers                          *)

\* How much is read of a buffer: as many bytes as the kernel looked at, at most.
LEMMA WantIs ==
  ASSUME TypeOK, call.kind \in {"read", "write"}
  PROVE  /\ Want \in 0 .. MAX_INLINE_BYTES
         /\ Max({0} \cup {k \in 1 .. MAX_INLINE_BYTES : Inspected(k)}) = Want
<1> DEFINE S == {0} \cup {k \in 1 .. MAX_INLINE_BYTES : Inspected(k)}
           r == IF call.kind = "read" THEN IF Ret > 0 THEN Ret ELSE 0
                ELSE IF Ret > 0 THEN IF Ret <= Reg(3) THEN Ret ELSE Reg(3) ELSE Reg(3)
           w == IF r <= MAX_INLINE_BYTES THEN r ELSE MAX_INLINE_BYTES
<1>1. MAX_INLINE_BYTES \in Nat \ {0} /\ Reg(3) \in Nat
  <2>1. 3 \in 1 .. 6 /\ Register \subseteq Nat
    BY Sizes
  <2> QED
    BY <2>1, Sizes, Pointers
<1>2. Ret \in Int
  <2>1. call.rax \in Register /\ RegRange \in Int
    BY Sizes DEF TypeOK
  <2>2. call.rax \in Int
    BY <2>1 DEF Register
  <2> QED
    BY <2>1, <2>2 DEF Ret, extract_ret, as_i64, Signed
<1>3. r \in Nat
  BY <1>1, <1>2
<1>4. Want = w
  <2>1. CASE call.kind = "read"
    BY <1>1, <1>2, <2>1, MinOfTwo DEF Want, ReadWant
  <2>2. CASE call.kind = "write"
    <3>1. (IF Ret > 0 THEN Min({Ret, Reg(3)}) ELSE Reg(3)) = r
      BY <1>1, <1>2, <2>2, MinOfTwo
    <3> HIDE DEF r
    <3>2. Min({r, MAX_INLINE_BYTES}) = w
      BY <1>1, <1>3, MinOfTwo
    <3>3. Want = WriteWant
      BY <2>2 DEF Want
    <3> QED
      BY <3>1, <3>2, <3>3 DEF WriteWant
  <2> QED
    BY <2>1, <2>2
<1>5. \A k \in 1 .. MAX_INLINE_BYTES : Inspected(k) <=> k <= r
  BY <1>1, <1>2 DEF Inspected
<1> HIDE DEF r
<1>6. w \in 0 .. MAX_INLINE_BYTES /\ w \in S /\ S \in SUBSET Int /\ \A k \in S : w >= k
  BY <1>1, <1>3, <1>5
<1> HIDE DEF S, w
<1>7. Max(S) = w
  BY <1>1, <1>6, MaxIs
<1> QED
  BY <1>4, <1>6, <1>7 DEF S

\* A decoder that is done after one step.
LEMMA OneStep ==
  ASSUME IInv, pc = "start", pc' = "done",
         UNCHANGED <<mem, mapped, argv, writes, seen, denied, call, cursor, remaining, out,
                     pathname, entries>>,
         reads' \in {0, 1},
         \/ result' \in Errors /\ UNCHANGED args
         \/ /\ result' = Ok /\ ArgsInSync'
            /\ \A i \in DOMAIN args' : args'[i][2][1] \in Variants
            /\ ToldIn(args', "Path") = {} /\ ToldIn(args', "Argv") = {},
         DecodesExactly'
  PROVE  IInv'
<1> USE DEF IInv
<1>1. args = <<>> /\ entries = <<>>
  BY Unfinished DEF ArgvInSync
<1>2. TypeOK'
  <2>1. \A i \in DOMAIN args' : args'[i][2][1] \in Variants
    BY <1>1
  <2>2. reads' \in Nat /\ result' \in {None, Ok} \cup Errors /\ result' # None
    BY TagsDiffer
  <2> QED
    BY <2>1, <2>2 DEF TypeOK
<1>3. SeenInSync' /\ CstrInSync' /\ WorkInSync' /\ WalkedInSync' /\ ArgvInSync'
  BY <1>1 DEF SeenInSync, CstrInSync, WorkInSync, WalkedInSync, ArgvInSync, Walking
<1>4. ArgsInSync'
  BY <1>1, TagsDiffer DEF ArgsInSync
<1>5. WorkBounded'
  <2>1. WorkBefore(MAX_ARGV) \in Nat /\ WorkBefore(MAX_ARGV) >= 1
    BY WorkOfOne, WorkGrows, Sizes
  <2>2. reads' <= WorkBefore(MAX_ARGV)
    BY <2>1
  <2> QED
    BY <2>2 DEF WorkBounded, WorkBefore, ReadsFor
<1>6. Told("Path")' = {} /\ Told("Argv")' = {}
  <2>1. CASE result' \in Errors
    BY <1>1, <2>1, TagsDiffer, NothingTold
  <2>2. CASE result' \notin Errors
    BY <2>2, ToldNow
  <2> QED
    BY <2>1, <2>2
<1>7. StringsWereThere' /\ ArgvEndsAtSentinel'
  BY <1>1, <1>6 DEF StringsWereThere, ArgvEndsAtSentinel
<1> QED
  BY <1>2, <1>3, <1>4, <1>5, <1>7

LEMMA RegistersKeep == IInv /\ DecodeRegisters => IInv'
<1> SUFFICES ASSUME IInv, DecodeRegisters
             PROVE  IInv'
  OBVIOUS
<1>1. /\ pc = "start" /\ pc' = "done" /\ result' = Ok /\ call.kind \in RegisterKinds
      /\ UNCHANGED <<mem, mapped, argv, writes, seen, denied, call, cursor, remaining, out,
                     pathname, entries, reads>>
  BY DEF DecodeRegisters, Answer, RegisterKinds, memVars, cstrVars, argvVars
<1>2. reads = 0 /\ TypeOK
  BY <1>1 DEF IInv, WorkInSync
<1>3. args' = CASE call.kind = "close" -> CloseArgs
                [] call.kind = "fstat" -> FstatArgs
                [] call.kind = "mmap" -> MmapArgs
                [] call.kind = "mprotect" -> MprotectArgs
                [] call.kind = "clone" -> CloneArgs
  BY <1>1 DEF DecodeRegisters, Answer, RegisterKinds
<1>4. args' \in {CloseArgs, FstatArgs, MmapArgs, MprotectArgs, CloneArgs}
  BY <1>1, <1>3 DEF RegisterKinds
<1>5. /\ ToldIn(args', "Path") = {} /\ ToldIn(args', "Argv") = {}
      /\ \A i \in DOMAIN args' : args'[i][2][1] \in Variants
  BY <1>2, <1>4, ShownByRegisters DEF TypeOK
<1>6. ArgsInSync'
  <2>1. args' = Shown'
    BY <1>1, <1>3 DEF RegisterKinds, Shown, CloseArgs, FstatArgs, MmapArgs, MprotectArgs,
                      CloneArgs, Fd, As, Flags, Reg
  <2>2. call.kind \notin {"wait4"}
    BY <1>1 DEF RegisterKinds
  <2> QED
    BY <1>1, <2>1, <2>2 DEF ArgsInSync
<1>7. DecodesExactly'
  BY <1>1, <1>2 DEF DecodesExactly, RegisterKinds, PathKinds
<1> QED
  BY <1>1, <1>2, <1>5, <1>6, <1>7, OneStep

LEMMA BufferKeeps == IInv /\ DecodeBuffer => IInv'
<1> SUFFICES ASSUME IInv, DecodeBuffer
             PROVE  IInv'
  OBVIOUS
<1> DEFINE got == IF Want = 0 THEN Str(<<>>) ELSE read_bytes(Pointer, Want)
<1>1. PICK w \in Nat : /\ w = Want
                       /\ call.kind = "wait4" => w = StatusWant
                       /\ call.kind # "wait4" =>
                            /\ w \in 0 .. MAX_INLINE_BYTES /\ call.kind \in {"read", "write"}
                            /\ Max({0} \cup {k \in 1 .. MAX_INLINE_BYTES : Inspected(k)}) = w
  <2>1. CASE call.kind = "wait4"
    <3>1. Want = StatusWant /\ StatusWant \in Nat
      BY <2>1, Sizes DEF Want, StatusWant
    <3> QED
      BY <2>1, <3>1
  <2>2. CASE call.kind # "wait4"
    <3>1. call.kind \in {"read", "write"} /\ TypeOK
      BY <2>2 DEF DecodeBuffer, BufferKinds, IInv
    <3>2. /\ Want \in 0 .. MAX_INLINE_BYTES
          /\ Max({0} \cup {k \in 1 .. MAX_INLINE_BYTES : Inspected(k)}) = Want
      BY <3>1, WantIs
    <3>3. Want \in Nat
      BY <3>2, Sizes
    <3> QED
      BY <2>2, <3>1, <3>2, <3>3
  <2> QED
    BY <2>1, <2>2
<1>2. \/ call.kind # "wait4" /\ got \in Errors /\ AnswerError(got)
      \/ call.kind # "wait4" /\ got \notin Errors /\ Answer(BufferArgs(got.bytes))
      \/ /\ call.kind = "wait4" /\ (w = 0 \/ got \in Errors)
         /\ Answer(Wait4Args(<<"Ptr", Pointer>>))
      \/ /\ call.kind = "wait4" /\ w > 0 /\ got \notin Errors
         /\ Answer(Wait4Args(<<"Hex", got.bytes>>))
  <2>1. \/ call.kind # "wait4" /\ got \in Errors
        \/ call.kind # "wait4" /\ got \notin Errors
        \/ call.kind = "wait4" /\ (w = 0 \/ got \in Errors)
        \/ call.kind = "wait4" /\ w > 0 /\ got \notin Errors
    <3> HIDE DEF got
    <3> QED
      BY <1>1
  <2> QED
    BY <1>1, <2>1 DEF DecodeBuffer
<1>3. pc' = "done"
  <2> HIDE DEF got
  <2> QED
    BY <1>2 DEF Answer, AnswerError
<1>4. /\ pc = "start" /\ call.kind \in BufferKinds
      /\ UNCHANGED <<mem, mapped, argv, writes, seen, denied, call, cursor, remaining, out,
                     pathname, entries>>
      /\ reads' = reads + IF w = 0 THEN 0 ELSE 1
  BY <1>1 DEF DecodeBuffer, memVars, cstrVars, argvVars
<1>5. reads = 0 /\ TypeOK /\ args = <<>> /\ reads' \in {0, 1}
  BY <1>4, Unfinished DEF IInv, WorkInSync
<1> DEFINE b(n) == [i \in 1 .. n |-> mem[Pointer + i - 1]]
<1>6. ASSUME NEW n \in Nat
      PROVE  /\ At(Pointer, n)' = b(n) /\ Readable(Pointer, n)' = Readable(Pointer, n)
  BY <1>4, SameMemory DEF At, Pointer, Reg
<1>7. Pointer \in Nat
  BY <1>5, Pointers
\* What is read: all of it or the error.
<1>8. /\ denied /\ w > 0 => got = Ptrace
      /\ ~denied /\ w > 0 /\ ~Readable(Pointer, w) => got = Vm
      /\ ~(denied /\ w > 0) /\ Readable(Pointer, w) => got = Str(b(w)) /\ got.bytes = b(w)
      /\ w = 0 => Readable(Pointer, w)
  <2>1. w = 0 => Readable(Pointer, w) /\ b(w) = <<>>
    BY <1>7 DEF Readable
  <2>2. denied \in BOOLEAN
    BY <1>5 DEF TypeOK
  <2>3. read_bytes(Pointer, w) = IF denied THEN Ptrace
                                 ELSE IF Readable(Pointer, w) THEN Str(b(w)) ELSE Vm
    BY DEF read_bytes
  <2>4. got = IF w = 0 THEN Str(<<>>) ELSE read_bytes(Pointer, w)
    BY <1>1
  <2> HIDE DEF got, b
  <2>5. CASE w = 0
    BY <2>1, <2>4, <2>5, StrIs
  <2>6. CASE w > 0
    BY <2>2, <2>3, <2>4, <2>6, StrIs
  <2> QED
    BY <1>1, <2>5, <2>6
<1> HIDE DEF got
<1>9. CASE call.kind # "wait4"
  <2>1. call.kind \in {"read", "write"}
    BY <1>1, <1>9
  <2>2. (Max({0} \cup {k \in 1 .. MAX_INLINE_BYTES : Inspected(k)}))' = w
    BY <1>1, <1>4, <1>9 DEF Inspected, Ret, Reg
  <2>3. BufferTold' = (IF w > 0 /\ denied THEN result' = Ptrace
                       ELSE IF ~Readable(Pointer, w) THEN result' = Vm
                       ELSE Told("Bytes")' = {<<"Bytes", b(w), Reg(3)>>})
    BY <1>4, <1>6, <2>2 DEF BufferTold, Reg
  <2>4. CASE got \in Errors
    <3>1. result' = got /\ UNCHANGED args
      BY <1>2, <1>9, <2>4 DEF AnswerError
    <3>2. (w > 0 /\ denied /\ got = Ptrace) \/ (~Readable(Pointer, w) /\ got = Vm /\ ~(w > 0 /\ denied))
      BY <1>1, <1>8, <2>4, StrIs
    <3>3. BufferTold'
      BY <2>3, <3>1, <3>2
    <3>4. DecodesExactly'
      BY <1>4, <2>1, <3>3 DEF DecodesExactly, PathKinds
    <3> QED
      BY <1>3, <1>4, <1>5, <2>4, <3>1, <3>4, OneStep
  <2>5. CASE got \notin Errors
    <3>1. result' = Ok /\ args' = BufferArgs(got.bytes)
      BY <1>2, <1>9, <2>5 DEF Answer
    <3>2. /\ ~(denied /\ w > 0) /\ Readable(Pointer, w) /\ got.bytes = b(w)
      BY <1>1, <1>8, <2>5, TagsDiffer
    <3>3. PICK inline : inline = b(w)
      OBVIOUS
    <3>4. args' = BufferArgs(inline)
      BY <3>1, <3>2, <3>3
    <3>5. /\ ToldIn(args', "Bytes") = {<<"Bytes", inline, Reg(3)>>}
          /\ ToldIn(args', "Path") = {} /\ ToldIn(args', "Argv") = {}
          /\ \A i \in DOMAIN args' : args'[i][2][1] \in Variants
      BY <1>5, <3>4, ShownByBuffer DEF TypeOK
    <3>6. ArgsInSync'
      <4>1. Carried(args'[2][2]) = inline
        BY <3>4 DEF BufferArgs, Carried
      <4>2. args' = Shown'
        BY <1>4, <2>1, <3>4, <4>1 DEF Shown, ShownAt, BufferArgs, Fd, As, Reg
      <4> QED
        BY <1>4, <2>1, <3>1, <4>2 DEF ArgsInSync
    <3>7. BufferTold'
      <4>1. Told("Bytes")' = {<<"Bytes", b(w), Reg(3)>>}
        BY <3>3, <3>5, ToldNow
      <4> QED
        BY <2>3, <3>2, <4>1
    <3>8. DecodesExactly'
      BY <1>4, <2>1, <3>7 DEF DecodesExactly, PathKinds
    <3> QED
      BY <1>3, <1>4, <1>5, <3>1, <3>5, <3>6, <3>8, OneStep
  <2> QED
    BY <2>4, <2>5
<1>10. CASE call.kind = "wait4"
  <2>1. PICK wstatus :
          /\ \/ (w = 0 \/ got \in Errors) /\ wstatus = <<"Ptr", Pointer>>
             \/ w > 0 /\ got \notin Errors /\ wstatus = <<"Hex", got.bytes>>
          /\ Answer(Wait4Args(wstatus))
    BY <1>2, <1>10
  <2>2. result' = Ok /\ args' = Wait4Args(wstatus) /\ wstatus[1] \in {"Ptr", "Hex"}
    BY <2>1 DEF Answer
  <2>3. /\ ToldIn(args', "Hex") = IF wstatus[1] = "Hex" THEN {wstatus} ELSE {}
        /\ ToldIn(args', "Path") = {} /\ ToldIn(args', "Argv") = {}
        /\ \A i \in DOMAIN args' : args'[i][2][1] \in Variants
    BY <2>2, ShownByWait4
  <2>4. ArgsInSync'
    <3>1. args'[2][2] = wstatus
      BY <2>2 DEF Wait4Args
    <3>2. args' = Shown'
      BY <1>4, <1>10, <2>2, <3>1 DEF Shown, Wait4Args, As, Flags, Reg
    <3>3. wstatus = <<"Ptr", Pointer>> \/ wstatus[1] = "Hex"
      BY <2>1
    <3>4. Pointer' = Pointer
      BY <1>4 DEF Pointer, Reg
    <3> QED
      BY <1>4, <1>10, <2>2, <3>1, <3>2, <3>3, <3>4 DEF ArgsInSync
  <2>5. w = IF Ret > 0 /\ Pointer # NullPtr THEN STATUS_WORD_BYTES ELSE 0
    BY <1>1, <1>10 DEF StatusWant
  <2>6. Pointer = NullPtr => ~Readable(Pointer, STATUS_WORD_BYTES)
    <3> SUFFICES ASSUME Pointer = 0, Readable(Pointer, STATUS_WORD_BYTES)
                 PROVE  FALSE
      BY DEF NullPtr
    <3>1. 0 \in 0 .. 0 + STATUS_WORD_BYTES - 1
      BY Sizes
    <3>2. 0 \in UserAddr
      BY <3>1 DEF Readable
    <3>3. 0 = PAGE_SIZE * 0 + 0 /\ 0 \in 0 .. PAGE_SIZE - 1 /\ PAGE_SIZE \in Nat \ {0}
      BY Sizes
    <3>4. PageOf(0) = 0
      BY <3>3, DividedIs DEF PageOf
    <3> QED
      BY <3>2, <3>4, UserIs
  <2>7. StatusTold'
    <3>1. StatusTold' = (Told("Hex")' =
            IF Ret > 0 /\ ~denied /\ Readable(Pointer, STATUS_WORD_BYTES)
            THEN {<<"Hex", b(STATUS_WORD_BYTES)>>} ELSE {})
      BY <1>4, <1>6, Sizes DEF StatusTold, Ret, Reg
    <3>2. Told("Hex")' = IF wstatus[1] = "Hex" THEN {wstatus} ELSE {}
      BY <2>3, ToldNow
    <3>3. CASE Ret > 0 /\ ~denied /\ Readable(Pointer, STATUS_WORD_BYTES)
      <4>1. w = STATUS_WORD_BYTES /\ w > 0
        BY <2>5, <2>6, <3>3, Sizes
      <4>2. got = Str(b(w)) /\ got.bytes = b(w)
        BY <1>8, <3>3, <4>1
      <4>3. got \notin Errors
        BY <4>2, StrIs
      <4>4. wstatus = <<"Hex", b(STATUS_WORD_BYTES)>>
        BY <2>1, <4>1, <4>2, <4>3
      <4> QED
        BY <3>1, <3>2, <3>3, <4>4
    <3>4. CASE ~(Ret > 0 /\ ~denied /\ Readable(Pointer, STATUS_WORD_BYTES))
      <4>1. w = 0 \/ got \in Errors
        <5> SUFFICES ASSUME w > 0
                     PROVE  got \in Errors
          BY <1>1
        <5>1. Ret > 0 /\ w = STATUS_WORD_BYTES
          BY <2>5
        <5>2. denied \/ ~Readable(Pointer, w)
          BY <3>4, <5>1
        <5> QED
          BY <1>8, <5>2, TagsDiffer
      <4>2. wstatus[1] # "Hex"
        BY <2>1, <4>1
      <4> QED
        BY <3>1, <3>2, <3>4, <4>2
    <3> QED
      BY <3>3, <3>4
  <2>8. DecodesExactly'
    BY <1>4, <1>10, <2>7 DEF DecodesExactly, PathKinds
  <2> QED
    BY <1>3, <1>4, <1>5, <2>2, <2>3, <2>4, <2>8, OneStep
<1> QED
  BY <1>9, <1>10

-----------------------------------------------------------------------------
(* The other task, and the theorems                                        *)

LEMMA InterferesKeeps == IInv /\ Interferes => IInv'
<1> SUFFICES ASSUME IInv, Interferes
             PROVE  IInv'
  OBVIOUS
<1> USE DEF IInv
<1>1. /\ pc # "done" /\ writes' \in 1 .. MaxWrites
      /\ UNCHANGED <<denied, call, pc, cursor, remaining, out, pathname, entries, reads, result, args>>
  BY Sizes DEF Interferes, TypeOK, cstrVars, argvVars
<1>2. result = None /\ args = <<>>
  BY <1>1, Unfinished
<1>3. mem' \in [UserAddr -> {0, 1}] /\ mapped' \subseteq 1 .. UserPages
  <2>1. \A a \in UserAddr : 1 - mem[a] \in {0, 1}
    BY DEF TypeOK
  <2> QED
    BY <2>1 DEF Interferes, TypeOK
<1>4. argv' \in [0 .. MAX_ARGV - 1 -> Slot]
  BY DEF Interferes, TypeOK
<1>5. /\ seen' \in [UserAddr -> SUBSET {0, 1}]
      /\ \A a \in UserAddr : /\ seen[a] \subseteq seen'[a]
                             /\ PageOf(a) \in mapped' => mem'[a] \in seen'[a]
  <2>1. seen' = [a \in UserAddr |-> seen[a] \cup (IF PageOf(a) \in mapped' THEN {mem'[a]} ELSE {})]
    BY DEF Interferes, Here
  <2> QED
    BY <1>3, <2>1 DEF TypeOK
<1>6. ASSUME NEW a, NEW byte, Held(a, byte)
      PROVE  Held(a, byte)'
  BY <1>5, <1>6 DEF Held
<1>7. ASSUME NEW bytes, NEW s, WasThere(bytes, s)
      PROVE  WasThere(bytes, s)'
  BY <1>6, <1>7 DEF WasThere
<1>8. TypeOK'
  BY <1>1, <1>2, <1>3, <1>4, <1>5, Sizes DEF TypeOK
<1>9. SeenInSync'
  BY <1>5 DEF SeenInSync
<1>10. writes' # 0
  BY <1>1, Sizes
<1>11. CstrInSync'
  <2>1. ASSUME NEW s, NEW max, Progress(s, max)
        PROVE  Progress(s, max)'
    BY <1>1, <1>6, <1>10, <2>1 DEF Progress
  <2>2. CASE pc = "path"
    <3>1. PICK s : s = Pointer
      OBVIOUS
    <3>2. Progress(s, PATH_MAX)' /\ Pointer' = s
      BY <1>1, <2>1, <2>2, <3>1 DEF CstrInSync, Pointer, Reg
    <3>3. Progress(Pointer, PATH_MAX)'
      BY <3>2
    <3> QED
      BY <1>1, <2>2, <3>3 DEF CstrInSync
  <2>3. CASE pc = "entry"
    <3>1. PICK s \in Strings : Progress(s, MAX_ARGV_ENTRY_BYTES)
      BY <2>3 DEF CstrInSync
    <3>2. Progress(s, MAX_ARGV_ENTRY_BYTES)' /\ EntryAt(s)'
      BY <1>10, <2>1, <3>1 DEF EntryAt
    <3> QED
      BY <1>1, <2>3, <3>2 DEF CstrInSync
  <2>4. CASE pc \notin {"path", "entry"}
    BY <1>1, <2>4 DEF CstrInSync
  <2> QED
    BY <2>2, <2>3, <2>4
<1>12. WorkInSync' /\ WorkBounded'
  BY <1>1 DEF WorkInSync, WorkBounded, WorkOf, WorkBefore, ReadsFor, Chunks
<1>13. ArgvInSync'
  <2>1. ASSUME Walking
        PROVE  WasThere(pathname, Pointer)'
    <3>1. PICK p, s : p = pathname /\ s = Pointer
      OBVIOUS
    <3>2. WasThere(p, s)' /\ pathname' = p /\ Pointer' = s
      BY <1>1, <1>7, <2>1, <3>1 DEF ArgvInSync, Pointer, Reg
    <3> QED
      BY <3>2
  <2> QED
    BY <1>1, <2>1 DEF ArgvInSync, Walking
<1>14. WalkedInSync'
  BY <1>10 DEF WalkedInSync
<1>15. ArgsInSync'
  BY <1>1, <1>2, TagsDiffer DEF ArgsInSync
<1>16. StringsWereThere'
  <2>1. ASSUME NEW k \in DOMAIN entries, entries[k].tag = "string"
        PROVE  (\E s \in Strings : WasThere(entries[k].bytes, s))'
    <3>1. PICK s \in Strings : WasThere(entries[k].bytes, s)
      BY <2>1 DEF StringsWereThere
    <3>2. PICK bytes : bytes = entries[k].bytes
      OBVIOUS
    <3>3. WasThere(bytes, s)' /\ entries'[k].bytes = bytes
      BY <1>1, <1>7, <3>1, <3>2
    <3> QED
      BY <3>3
  <2> QED
    BY <1>1, <1>2, <2>1, NothingTold DEF StringsWereThere
<1>17. ArgvEndsAtSentinel' /\ DecodesExactly'
  BY <1>1, <1>2, NothingTold DEF ArgvEndsAtSentinel, DecodesExactly
<1> QED
  BY <1>8, <1>9, <1>11, <1>12, <1>13, <1>14, <1>15, <1>16, <1>17

LEMMA StutterKeeps == IInv /\ UNCHANGED vars => IInv'
<1> SUFFICES ASSUME IInv, UNCHANGED vars
             PROVE  IInv'
  OBVIOUS
<1> USE DEF IInv
<1>1. UNCHANGED <<mem, mapped, argv, writes, seen, denied, call, pc, cursor, remaining, out,
                  pathname, entries, reads, result, args>>
  BY DEF vars, memVars, cstrVars, argvVars
<1>2. TypeOK' /\ SeenInSync'
  BY <1>1 DEF TypeOK, SeenInSync
<1>3. CstrInSync'
  BY <1>1 DEF CstrInSync, Progress, EntryAt, Held, Pointer, Reg
<1>4. WorkInSync' /\ WorkBounded'
  BY <1>1 DEF WorkInSync, WorkBounded, WorkOf, WorkBefore, ReadsFor, Chunks
<1>5. ArgvInSync'
  BY <1>1 DEF ArgvInSync, Walking, WasThere, Held, Pointer, Reg
<1>6. StringAt(Pointer, PATH_MAX)' = StringAt(Pointer, PATH_MAX)
  BY <1>1, SameMemory DEF Pointer, Reg
<1>7. \A k : EntryOf(k)' = EntryOf(k) /\ IsEntry(k)' = IsEntry(k)
  BY <1>1, SameMemory DEF EntryOf, IsEntry
<1>8. WalkedInSync'
  BY <1>1, <1>6, <1>7 DEF WalkedInSync, Walking, Str
<1>9. ArgsInSync'
  <2>1. Shown' = Shown
    BY <1>1 DEF Shown, ShownAt, PathAt, StatArgs, OpenAtArgs, StatxArgs, ExecveArgs, BufferArgs,
                Wait4Args, CloseArgs, FstatArgs, MmapArgs, MprotectArgs, CloneArgs,
                Fd, As, Flags, Path, Reg
  <2> QED
    BY <1>1, <2>1 DEF ArgsInSync, Pointer, Reg
<1>10. \A variant : Told(variant)' = Told(variant)
  BY <1>1 DEF Told
<1>11. StringsWereThere'
  BY <1>1, <1>10 DEF StringsWereThere, WasThere, Held, Pointer, Reg
<1>12. ArgvEndsAtSentinel'
  BY <1>1, <1>10 DEF ArgvEndsAtSentinel
<1>13. DecodesExactly'
  <2>1. PathTold' = PathTold
    BY <1>1, <1>6, <1>10 DEF PathTold
  <2>2. ArgvTold' = ArgvTold
    <3>1. ArgvAs' = ArgvAs
      BY <1>1, <1>7 DEF ArgvAs, Stop
    <3> QED
      BY <1>1, <1>6, <1>10, <2>1, <3>1 DEF ArgvTold
  <2>3. \A n : At(Pointer, n)' = At(Pointer, n) /\ Readable(Pointer, n)' = Readable(Pointer, n)
    BY <1>1, SameMemory DEF At, Pointer, Reg
  <2>4. (Max({0} \cup {k \in 1 .. MAX_INLINE_BYTES : Inspected(k)}))'
          = Max({0} \cup {k \in 1 .. MAX_INLINE_BYTES : Inspected(k)})
    BY <1>1 DEF Inspected, Ret, Reg
  <2>5. BufferTold' = BufferTold
    BY <1>1, <1>10, <2>3, <2>4 DEF BufferTold, Reg
  <2>6. StatusTold' = StatusTold
    BY <1>1, <1>10, <2>3 DEF StatusTold, Ret, Reg
  <2> QED
    BY <1>1, <2>1, <2>2, <2>5, <2>6 DEF DecodesExactly
<1> QED
  BY <1>2, <1>3, <1>4, <1>5, <1>8, <1>9, <1>11, <1>12, <1>13

\* Every step of the decoder and of the other task keeps what the decoder
\* knows of the memory, of argv and of its own work (loi-memory and the
\* decoders of loi-syscalls).
THEOREM InvHolds == Spec => []IInv
<1>1. Init => IInv
  BY InitHolds
<1>2. IInv /\ [Next]_vars => IInv'
  BY BeginPathKeeps, ReadChunkKeeps, EndPathKeeps, CapHitKeeps, ReadSlotKeeps, EndEntryKeeps,
     BufferKeeps, RegistersKeep, InterferesKeeps, StutterKeeps DEF Next, Decoder, Done
<1> QED
  BY <1>1, <1>2, PTL DEF Spec

\* The state of the decoders is always of its type.
THEOREM TypeCorrect == Spec => []TypeOK
BY InvHolds, PTL DEF IInv

\* Whatever the chunks, the pages and the caps, the decoders answer what is in
\* memory as long as nobody changes it, whatever the size of a page and of the
\* address space (read_cstr, decode_path, walk_argv, Read, Write, Wait4).
THEOREM DecodingIsExact == Spec => []DecodesExactly
BY InvHolds, PTL DEF IInv

\* While another task rewrites the memory, a string that is shown is made of
\* bytes each address held meanwhile, and ends where a NUL was (read_cstr).
THEOREM StringsAreReal == Spec => []StringsWereThere
BY InvHolds, PTL DEF IInv

\* A sentinel ends argv, and "..." is there exactly when MAX_ARGV entries were
\* shown (walk_argv).
THEOREM SentinelsEnd == Spec => []ArgvEndsAtSentinel
BY InvHolds, PTL DEF IInv

\* No call costs the tracer more reads than the caps allow, whatever the other
\* task does (execve.rs, read_cstr).
THEOREM WorkIsBounded == Spec => []WorkBounded
BY InvHolds, PTL DEF IInv

-----------------------------------------------------------------------------
(* Registers and flags                                                     *)

LEMMA TellsIs ==
  ASSUME NEW arg, NEW reg
  PROVE  /\ arg[1] \in {"Path", "Flags", "Bytes", "Argv", "Int"} => Tells(arg, reg)
         /\ arg[1] \in {"Uint", "Ptr"} /\ arg[2] = reg => Tells(arg, reg)
         /\ arg[1] = "Hex" /\ (call.kind = "wait4" \/ arg[2] = reg) => Tells(arg, reg)
         /\ reg \in Register /\ arg = <<"Mode", as_u32(reg)>> => Tells(arg, reg)
         /\ reg \in Register /\ arg = FdArg(reg) => Tells(arg, reg)
<1>1. AtFdCwd[1] = "AtFdCwd" /\ Invalid[1] = "Invalid" /\ AtFdCwd # Invalid
  BY DEF AtFdCwd, Invalid
<1>2. arg[1] \in {"Path", "Flags", "Bytes", "Argv", "Int"} => Tells(arg, reg)
  BY <1>1 DEF Tells
<1>3. arg[1] \in {"Uint", "Ptr"} /\ arg[2] = reg => Tells(arg, reg)
  BY <1>1 DEF Tells, Carried
<1>4. arg[1] = "Hex" /\ (call.kind = "wait4" \/ arg[2] = reg) => Tells(arg, reg)
  BY <1>1 DEF Tells, Carried
<1>5. ASSUME reg \in Register, arg = <<"Mode", as_u32(reg)>>
      PROVE  Tells(arg, reg)
  <2>1. PICK n \in 0 .. IntRange - 1 : n = as_u32(reg) /\ SameInt(n, reg)
    BY <1>5, IntIs
  <2>2. n < IntRange
    BY <2>1, RegistersAssumption
  <2>3. arg[1] = "Mode" /\ Carried(arg) = n
    BY <1>5, <2>1 DEF Carried
  <2> QED
    BY <1>1, <2>1, <2>2, <2>3 DEF Tells
<1>6. ASSUME reg \in Register, arg = FdArg(reg)
      PROVE  Tells(arg, reg)
  <2>1. CASE arg = AtFdCwd /\ SameInt(AT_FDCWD, reg)
    BY <1>1, <2>1 DEF Tells
  <2>2. CASE arg = Invalid /\ \E n \in -INT_MAX - 1 .. -1 : n # AT_FDCWD /\ SameInt(n, reg)
    BY <1>1, <2>2 DEF Tells
  <2>3. CASE \E n \in 0 .. INT_MAX : arg = <<"Num", n>> /\ n < IntRange /\ SameInt(n, reg)
    <3>1. PICK n \in 0 .. INT_MAX : arg = <<"Num", n>> /\ n < IntRange /\ SameInt(n, reg)
      BY <2>3
    <3>2. arg[1] = "Num" /\ Carried(arg) = n
      BY <3>1 DEF Carried
    <3> QED
      BY <1>1, <3>1, <3>2 DEF Tells
  <2> QED
    BY <1>6, <2>1, <2>2, <2>3, FdTells
<1> QED
  BY <1>2, <1>3, <1>4, <1>5, <1>6

LEMMA ArgumentsTell == IInv => ArgumentsTellTheirRegisters
<1> SUFFICES ASSUME IInv, NEW i \in DOMAIN args
             PROVE  Tells(args[i][2], Reg(i))
  BY DEF ArgumentsTellTheirRegisters
<1>1. call.kind \in Kinds /\ result = Ok /\ args = Shown
  BY DEF IInv, TypeOK, ArgsInSync
<1>2. \A k \in 1 .. 6 : Reg(k) \in Register
  BY Pointers DEF IInv
<1> DEFINE arg == args[i][2]
<1> SUFFICES
      \/ arg[1] \in {"Path", "Flags", "Bytes", "Argv", "Int"}
      \/ arg[1] \in {"Uint", "Ptr"} /\ arg[2] = Reg(i)
      \/ arg[1] = "Hex" /\ (call.kind = "wait4" \/ arg[2] = Reg(i))
      \/ Reg(i) \in Register /\ arg = <<"Mode", as_u32(Reg(i))>>
      \/ Reg(i) \in Register /\ arg = FdArg(Reg(i))
  <2> HIDE DEF arg
  <2>1. Tells(arg, Reg(i))
    BY TellsIs
  <2> QED
    BY <2>1 DEF arg
<1>3. CASE call.kind = "stat"
  BY <1>1, <1>3 DEF Shown, StatArgs, Path, As
<1>4. CASE call.kind = "openat"
  BY <1>1, <1>2, <1>4 DEF Shown, OpenAtArgs, Path, Fd, Flags
<1>5. CASE call.kind = "statx"
  BY <1>1, <1>2, <1>5 DEF Shown, StatxArgs, Path, Fd, Flags, As
<1>6. CASE call.kind = "execve"
  BY <1>1, <1>6 DEF Shown, ExecveArgs, Path, As
<1>7. CASE call.kind \in {"read", "write"}
  BY <1>1, <1>2, <1>7 DEF Shown, BufferArgs, Fd, As
<1>8. CASE call.kind = "wait4"
  <2>1. PICK w : w = args[2][2] /\ (w = <<"Ptr", Pointer>> \/ w[1] = "Hex")
    BY <1>1, <1>8 DEF IInv, ArgsInSync
  <2>2. Pointer = Reg(2)
    BY <1>8 DEF Pointer
  <2>3. args = Wait4Args(w)
    BY <1>1, <1>8, <2>1 DEF Shown
  <2> QED
    BY <1>8, <2>1, <2>2, <2>3 DEF Wait4Args, As, Flags
<1>9. CASE call.kind = "close"
  BY <1>1, <1>2, <1>9 DEF Shown, CloseArgs, Fd
<1>10. CASE call.kind = "fstat"
  BY <1>1, <1>2, <1>10 DEF Shown, FstatArgs, Fd, As
<1>11. CASE call.kind = "mmap"
  BY <1>1, <1>2, <1>11 DEF Shown, MmapArgs, Fd, As, Flags
<1>12. CASE call.kind = "mprotect"
  BY <1>1, <1>12 DEF Shown, MprotectArgs, As, Flags
<1>13. CASE call.kind = "clone"
  BY <1>1, <1>13, CloneIs DEF Shown, As, Flags
<1> QED
  BY <1>1, <1>3, <1>4, <1>5, <1>6, <1>7, <1>8, <1>9, <1>10, <1>11, <1>12, <1>13
     DEF Kinds, PathKinds, BufferKinds, RegisterKinds

\* What the flags of openat say about its bits.
LEMMA OpenFlagsTell ==
  ASSUME NEW reg
  PROVE  TellsOnce(decode_open_flags(reg), Bits(reg))
<1> DEFINE modes == {"O_RDONLY", "O_WRONLY", "O_RDWR"}
           flags == {"O_CREAT", "O_TMPFILE", "O_DIRECTORY"}
           B == Bits(reg)
           bits(n) == CASE n = "O_RDONLY" -> {} [] n = "O_WRONLY" -> {0} [] n = "O_RDWR" -> {1}
                        [] n = "O_CREAT" -> {2} [] n = "O_TMPFILE" -> {3, 4}
                        [] n = "O_DIRECTORY" -> {4}
           access == access_mode_name(reg)
           named == decode_flags(reg, OPEN_FLAGS_TABLE)
           names == decode_open_flags(reg)
<1>1. DOMAIN ACCESS_MODES = modes /\ \A n \in modes : ACCESS_MODES[n] = bits(n)
  BY DEF ACCESS_MODES
<1>2. DOMAIN OPEN_FLAGS_TABLE = flags /\ \A n \in flags : OPEN_FLAGS_TABLE[n] = bits(n)
  BY DEF OPEN_FLAGS_TABLE
<1>3. \A n \in modes \cup flags : OpenBits[n] = bits(n)
  BY <1>1, <1>2 DEF OpenBits
<1>4. access = {n \in modes : bits(n) = B \cap {0, 1}}
  BY <1>1 DEF access_mode_name, O_ACCMODE
<1>5. named = {n \in flags : bits(n) \subseteq B}
  <2>1. \A n \in flags : bits(n) # {}
    OBVIOUS
  <2> QED
    BY <1>2, <2>1 DEF decode_flags
<1>6. names = access \cup (named \ (IF bits("O_TMPFILE") \subseteq B THEN {"O_DIRECTORY"} ELSE {}))
  BY <1>2 DEF decode_open_flags, TmpfileSet
<1> HIDE DEF B, access, named, names
<1>7. names \subseteq modes \cup flags /\ \A n \in names : bits(n) \subseteq B
  BY <1>4, <1>5, <1>6
<1>8. \A m, n \in names : m # n => bits(m) \cap bits(n) = {}
  <2> SUFFICES ASSUME NEW m \in names, NEW n \in names, m # n
               PROVE  bits(m) \cap bits(n) = {}
    OBVIOUS
  <2>1. ~(m = "O_TMPFILE" /\ n = "O_DIRECTORY") /\ ~(m = "O_DIRECTORY" /\ n = "O_TMPFILE")
    BY <1>4, <1>5, <1>6
  <2>2. m \in modes \cup flags /\ n \in modes \cup flags
    BY <1>7
  <2> QED
    BY <2>1, <2>2
<1>9. \A n \in flags : bits(n) \subseteq B => \E m \in names : bits(n) \subseteq bits(m)
  <2> SUFFICES ASSUME NEW n \in flags, bits(n) \subseteq B
               PROVE  \E m \in names : bits(n) \subseteq bits(m)
    OBVIOUS
  <2>1. CASE n \in names
    BY <2>1
  <2>2. CASE n \notin names
    <3>1. n = "O_DIRECTORY" /\ bits("O_TMPFILE") \subseteq B
      BY <1>5, <1>6, <2>2
    <3>2. "O_TMPFILE" \in names
      BY <1>5, <1>6, <3>1
    <3> QED
      BY <3>1, <3>2
  <2> QED
    BY <2>1, <2>2
<1>10. Cardinality(names \cap modes) = IF {0, 1} \subseteq B THEN 0 ELSE 1
  <2>1. names \cap modes = access
    BY <1>4, <1>5, <1>6
  <2>2. CASE {0, 1} \subseteq B
    <3>1. access = {}
      BY <1>4, <2>2
    <3> QED
      BY <2>1, <2>2, <3>1, FS_EmptySet
  <2>3. CASE ~({0, 1} \subseteq B)
    <3>1. \E n \in modes : access = {n}
      <4>1. CASE 0 \in B
        <5>1. B \cap {0, 1} = {0}
          BY <2>3, <4>1
        <5> QED
          BY <1>4, <5>1
      <4>2. CASE 1 \in B
        <5>1. B \cap {0, 1} = {1}
          BY <2>3, <4>2
        <5> QED
          BY <1>4, <5>1
      <4>3. CASE 0 \notin B /\ 1 \notin B
        <5>1. B \cap {0, 1} = {}
          BY <4>3
        <5> QED
          BY <1>4, <5>1
      <4> QED
        BY <4>1, <4>2, <4>3
    <3> QED
      BY <2>1, <2>3, <3>1, FS_Singleton
  <2> QED
    BY <2>2, <2>3
<1> HIDE DEF bits, modes, flags
<1>11. TellsOnce(names, B)
  BY <1>1, <1>2, <1>3, <1>7, <1>8, <1>9, <1>10 DEF TellsOnce, O_ACCMODE
<1> QED
  BY <1>11 DEF names, B

LEMMA OpenFlagsTold == IInv => OpenFlagsToldOnce
<1> SUFFICES ASSUME IInv, call.kind = "openat", NEW told \in Told("Flags")
             PROVE  TellsOnce(Carried(told), Bits(Reg(3)))
  BY DEF OpenFlagsToldOnce
<1>1. PICK i \in DOMAIN args : args[i][2] = told /\ args[i][2][1] = "Flags"
  BY DEF Told
<1>2. result = Ok /\ args = OpenAtArgs(ShownAt(PathAt))
  BY <1>1 DEF IInv, ArgsInSync, Shown
<1>3. FdArg(Reg(1))[1] # "Flags"
  BY Pointers, FdVariant DEF IInv
<1>4. told = <<"Flags", decode_open_flags(Reg(3))>>
  BY <1>1, <1>2, <1>3 DEF OpenAtArgs, Fd, Path, Flags
<1> QED
  BY <1>4, OpenFlagsTell DEF Carried

\* A descriptor and a mode are ints, an address and a length have all the bits
\* of their register, whatever the width of either (decode_fd, the decoders).
THEOREM RegistersAreTold == Spec => []ArgumentsTellTheirRegisters
BY InvHolds, ArgumentsTell, PTL

\* The flags of openat tell every bit that has a name, and once
\* (decode_open_flags).
THEOREM FlagsAreToldOnce == Spec => []OpenFlagsToldOnce
BY InvHolds, OpenFlagsTold, PTL

=============================================================================
