---------------------------- MODULE Crc32Proofs ----------------------------
(***************************************************************************)
(* The table loop of crc32_gen() is the division by the polynomial, for    *)
(* every word to go on from and every sequence of bytes.                   *)
(***************************************************************************)
EXTENDS Crc32, TLAPS, SequenceTheorems, NaturalsInduction, WellFoundedInduction

(***************************************************************************)
(* Words and bytes.                                                        *)
(***************************************************************************)

\* Whatever the numbers, their bits are bits.
LEMMA WordTypes ==
  /\ \A a, b : XorBit(a, b) \in Bit
  /\ \A a, b : Xor(a, b) \in Word
  /\ \A h, l : WordOf(h, l) \in Word
  /\ \A n : ByteOf(n) \in Byte
  /\ ZeroWord \in Word /\ Polynomial \in Word
<1>1. \A a, b : XorBit(a, b) \in Bit
  BY DEF XorBit, Bit
<1>2. \A n, k : BitOf(n, k) \in Bit
  BY Zenon DEF BitOf, Bit
<1>3. \A h, l : WordOf(h, l) \in Word
  BY <1>2 DEF WordOf, Word
<1>4. \A a, b : Xor(a, b) \in Word
  BY <1>1 DEF Xor, Word
<1>5. \A n : ByteOf(n) \in Byte
  BY <1>2 DEF ByteOf, Byte
<1>6. ZeroWord \in Word
  BY DEF ZeroWord, Word, Bit
<1>7. Polynomial \in Word
  BY <1>3 DEF Polynomial
<1>8. QED
  BY <1>1, <1>3, <1>4, <1>5, <1>6, <1>7

\* The table and the turns of the loops give words.
LEMMA StepTypes ==
  /\ crc32_tab \in [Byte -> Word]
  /\ DivideBit \in [Word -> Word]
  /\ \A word \in Word : DivideBits(word) \in Word
  /\ \A word \in Word : \A byte \in Byte :
       /\ Index(word, byte) \in Byte
       /\ Added(word, byte) \in Word
  /\ \A word \in Word : ShiftedBy1(word) \in Word /\ ShiftedBy8(word) \in Word
<1>1. crc32_tab \in [Byte -> Word]
  BY WordTypes DEF crc32_tab
<1>2. \A word \in Word : ShiftedBy1(word) \in Word /\ ShiftedBy8(word) \in Word
  BY DEF ShiftedBy1, ShiftedBy8, Word, Bit
<1>3. DivideBit \in [Word -> Word]
  BY <1>2, WordTypes DEF DivideBit
<1>4. \A word \in Word : DivideBits(word) \in Word
  BY <1>3 DEF DivideBits, DivideFour
<1>5. \A word \in Word : \A byte \in Byte : Index(word, byte) \in Byte /\ Added(word, byte) \in Word
  BY WordTypes DEF Index, Added, Word, Byte
<1>6. QED
  BY <1>1, <1>2, <1>3, <1>4, <1>5

\* Words that agree in every bit are the same.
LEMMA SameWord ==
  ASSUME NEW a \in Word, NEW b \in Word, \A k \in 0 .. 31 : a[k] = b[k]
  PROVE  a = b
  BY DEF Word

(***************************************************************************)
(* The division is linear, and shifts what it need not divide.             *)
(***************************************************************************)

\* One step of the division of a sum is the sum of the steps.
LEMMA DivideBitLinear ==
  ASSUME NEW a \in Word, NEW b \in Word
  PROVE  DivideBit[Xor(a, b)] = Xor(DivideBit[a], DivideBit[b])
<1> DEFINE P == Polynomial
           l == DivideBit[Xor(a, b)]
           r == Xor(DivideBit[a], DivideBit[b])
           s(w, k) == IF k < 31 THEN w[k + 1] ELSE 0
<1>1. Xor(a, b) \in Word /\ P \in Word /\ l \in Word /\ r \in Word
  BY WordTypes, StepTypes
<1>2. \A w \in Word : \A k \in 0 .. 31 :
        DivideBit[w][k] = IF w[0] = 1 THEN XorBit(s(w, k), P[k]) ELSE s(w, k)
  BY DEF DivideBit, ShiftedBy1, Xor
<1>3. \A k \in 0 .. 31 : Xor(a, b)[k] = XorBit(a[k], b[k])
  BY DEF Xor
<1>4. \A k \in 0 .. 31 : a[k] \in Bit /\ b[k] \in Bit /\ P[k] \in Bit
  BY <1>1 DEF Word
<1>5. \A k \in 0 .. 31 : r[k] = XorBit(DivideBit[a][k], DivideBit[b][k])
  BY DEF Xor
<1> HIDE DEF P, l, r
<1>6. ASSUME NEW k \in 0 .. 31
      PROVE  l[k] = r[k]
  <2>1. /\ s(a, k) \in Bit /\ s(b, k) \in Bit /\ P[k] \in Bit
        /\ a[0] \in Bit /\ b[0] \in Bit
        /\ s(Xor(a, b), k) = XorBit(s(a, k), s(b, k))
        /\ Xor(a, b)[0] = XorBit(a[0], b[0])
    BY <1>3, <1>4 DEF Bit, XorBit
  <2>2. l[k] = IF XorBit(a[0], b[0]) = 1 THEN XorBit(XorBit(s(a, k), s(b, k)), P[k])
               ELSE XorBit(s(a, k), s(b, k))
    BY <1>1, <1>2, <2>1 DEF l
  <2>3. r[k] = XorBit(IF a[0] = 1 THEN XorBit(s(a, k), P[k]) ELSE s(a, k),
                      IF b[0] = 1 THEN XorBit(s(b, k), P[k]) ELSE s(b, k))
    BY <1>2, <1>5
  <2> HIDE DEF s
  <2>4. QED
    BY <2>1, <2>2, <2>3 DEF XorBit, Bit
<1>7. QED
  BY <1>1, <1>6, SameWord DEF l, r

\* So are eight steps.
LEMMA DivideBitsLinear ==
  ASSUME NEW a \in Word, NEW b \in Word
  PROVE  DivideBits(Xor(a, b)) = Xor(DivideBits(a), DivideBits(b))
<1>1. \A x, y \in Word : DivideFour(Xor(x, y)) = Xor(DivideFour(x), DivideFour(y))
  <2> SUFFICES ASSUME NEW x \in Word, NEW y \in Word
               PROVE  DivideFour(Xor(x, y)) = Xor(DivideFour(x), DivideFour(y))
    OBVIOUS
  <2> DEFINE D(w) == DivideBit[w]
  <2>1. \A u, v \in Word : D(Xor(u, v)) = Xor(D(u), D(v))
    BY DivideBitLinear
  <2>2. \A w \in Word : D(w) \in Word
    BY StepTypes
  <2> HIDE DEF D
  <2>3. D(D(D(D(Xor(x, y))))) = Xor(D(D(D(D(x)))), D(D(D(D(y)))))
    BY <2>1, <2>2
  <2>4. QED
    BY <2>3 DEF D, DivideFour
<1>2. DivideFour(a) \in Word /\ DivideFour(b) \in Word
  BY StepTypes DEF DivideFour
<1>3. QED
  BY <1>1, <1>2 DEF DivideBits

\* A word whose low byte is zero is only shifted.
LEMMA DivideBitsShifts ==
  ASSUME NEW word \in Word, \A k \in 0 .. 7 : word[k] = 0
  PROVE  DivideBits(word) = ShiftedBy8(word)
<1> DEFINE Clear(w, n) == \A k \in 0 .. n - 1 : w[k] = 0
           Moved(w, n) == [k \in 0 .. 31 |-> IF k + n < 32 THEN w[k + n] ELSE 0]
<1>1. ASSUME NEW w \in Word, NEW n \in 1 .. 8, Clear(w, n)
      PROVE  /\ DivideBit[w] = Moved(w, 1) /\ DivideBit[w] \in Word
             /\ Clear(DivideBit[w], n - 1)
  <2>1. w[0] = 0
    BY <1>1
  <2>2. DivideBit[w] = ShiftedBy1(w) /\ DivideBit[w] \in Word
    BY <2>1, StepTypes DEF DivideBit
  <2>3. ShiftedBy1(w) = Moved(w, 1)
    BY DEF ShiftedBy1
  <2>4. \A k \in 0 .. (n - 1) - 1 : Moved(w, 1)[k] = 0
    BY <1>1
  <2>5. QED
    BY <2>2, <2>3, <2>4
<1>2. ASSUME NEW w, NEW n \in 0 .. 7
      PROVE  Moved(Moved(w, n), 1) = Moved(w, n + 1)
  <2>1. \A k \in 0 .. 31 : Moved(w, n)[k] = IF k + n < 32 THEN w[k + n] ELSE 0
    OBVIOUS
  <2>2. \A k \in 0 .. 31 : Moved(Moved(w, n), 1)[k] = IF k + (n + 1) < 32 THEN w[k + (n + 1)] ELSE 0
    BY <2>1
  <2>3. QED
    BY <2>2
<1> DEFINE w1 == DivideBit[word]
           w2 == DivideBit[w1]
           w3 == DivideBit[w2]
           w4 == DivideBit[w3]
           w5 == DivideBit[w4]
           w6 == DivideBit[w5]
           w7 == DivideBit[w6]
           w8 == DivideBit[w7]
<1>3. DivideBits(word) = w8
  BY DEF DivideBits, DivideFour
<1>4. Clear(word, 8) /\ word \in Word
  OBVIOUS
<1> HIDE DEF Clear, Moved, w1, w2, w3, w4, w5, w6, w7, w8
<1>11. w1 = Moved(word, 1) /\ w1 \in Word /\ Clear(w1, 7)
  BY <1>1, <1>4 DEF w1
<1>12. w2 = Moved(word, 2) /\ w2 \in Word /\ Clear(w2, 6)
  BY <1>1, <1>2, <1>11 DEF w2
<1>13. w3 = Moved(word, 3) /\ w3 \in Word /\ Clear(w3, 5)
  BY <1>1, <1>2, <1>12 DEF w3
<1>14. w4 = Moved(word, 4) /\ w4 \in Word /\ Clear(w4, 4)
  BY <1>1, <1>2, <1>13 DEF w4
<1>15. w5 = Moved(word, 5) /\ w5 \in Word /\ Clear(w5, 3)
  BY <1>1, <1>2, <1>14 DEF w5
<1>16. w6 = Moved(word, 6) /\ w6 \in Word /\ Clear(w6, 2)
  BY <1>1, <1>2, <1>15 DEF w6
<1>17. w7 = Moved(word, 7) /\ w7 \in Word /\ Clear(w7, 1)
  BY <1>1, <1>2, <1>16 DEF w7
<1>18. w8 = Moved(word, 8)
  BY <1>1, <1>2, <1>17 DEF w8
<1>19. Moved(word, 8) = ShiftedBy8(word)
  BY DEF Moved, ShiftedBy8
<1>20. QED
  BY <1>3, <1>18, <1>19

(***************************************************************************)
(* One byte.                                                               *)
(***************************************************************************)

\* One turn of the loop of crc32_gen(): the entry of the table and the rest of
\* the word, shifted, are what eight steps of the division leave.
THEOREM OneByte == Crc = DivideByte
<1>1. ASSUME NEW word \in Word, NEW byte \in Byte
      PROVE  Xor(crc32_tab[Index(word, byte)], ShiftedBy8(word)) = DivideBits(Added(word, byte))
  <2> DEFINE low == Added(ZeroWord, Index(word, byte))
             high == [k \in 0 .. 31 |-> IF k < 8 THEN 0 ELSE word[k]]
  <2>1. low \in Word /\ high \in Word /\ Added(word, byte) \in Word
    BY WordTypes, StepTypes DEF Word, Bit
  <2>2. Added(word, byte) = Xor(low, high)
    <3>1. \A k \in 0 .. 31 : word[k] \in Bit /\ (k < 8 => byte[k] \in Bit)
      BY DEF Word, Byte
    <3>2. \A k \in 0 .. 31 : low[k] = IF k < 8 THEN XorBit(word[k], byte[k]) ELSE 0
      BY <3>1 DEF Added, ZeroWord, Index, XorBit, Bit
    <3>3. \A k \in 0 .. 31 : Added(word, byte)[k] = IF k < 8 THEN XorBit(word[k], byte[k]) ELSE word[k]
      BY DEF Added
    <3>4. \A k \in 0 .. 31 : Xor(low, high)[k] = XorBit(low[k], high[k])
      BY DEF Xor
    <3>5. \A k \in 0 .. 31 : Xor(low, high)[k] = Added(word, byte)[k]
      BY <3>1, <3>2, <3>3, <3>4 DEF XorBit, Bit
    <3>6. QED
      BY <2>1, <3>5, WordTypes, SameWord
  <2>3. DivideBits(Added(word, byte)) = Xor(DivideBits(low), DivideBits(high))
    BY <2>1, <2>2, DivideBitsLinear
  <2>4. DivideBits(low) = crc32_tab[Index(word, byte)]
    BY StepTypes, TableAssumption
  <2>5. DivideBits(high) = ShiftedBy8(word)
    <3>1. DivideBits(high) = ShiftedBy8(high)
      BY <2>1, DivideBitsShifts
    <3>2. ShiftedBy8(high) = ShiftedBy8(word)
      BY DEF ShiftedBy8
    <3>3. QED
      BY <3>1, <3>2
  <2>6. QED
    BY <2>3, <2>4, <2>5
<1>2. QED
  BY <1>1 DEF Crc, DivideByte

\* crc32_gen() computes the remainder of every sequence of bytes, from every
\* word to go on from.
THEOREM ChecksumIsRemainder ==
  \A crc, buf : crc32_gen(crc, buf) = Divide(crc, buf)
  BY OneByte DEF crc32_gen, Divide

(***************************************************************************)
(* Loops over sequences.                                                   *)
(***************************************************************************)

\* A set of natural numbers has a least one.
LEMMA Least ==
  ASSUME NEW S, S \subseteq Nat, S # {}
  PROVE  \E n \in S : \A m \in S : n <= m
<1>1. IsWellFoundedOn(OpToRel(<, Nat), Nat)
  BY NatLessThanWellFounded
<1>2. PICK n \in S : \A m \in S : ~ (<<m, n>> \in OpToRel(<, Nat))
  BY <1>1, WFMin
<1>3. \A m \in S : ~ m < n
  BY <1>2 DEF OpToRel
<1>4. QED
  BY <1>3

\* What is there before and after each of the first n turns of a loop.
Run(step, start, elements, n, f) ==
  f = [k \in 0 .. n |-> IF k = 0 THEN start ELSE step[<<f[k - 1], elements[k]>>]]

\* Every loop has a run of every length.
LEMMA RunExists ==
  ASSUME NEW step, NEW start, NEW elements, NEW n \in Nat
  PROVE  \E f : Run(step, start, elements, n, f)
<1> DEFINE Has(k) == \E f : Run(step, start, elements, k, f)
           T == {k \in Nat : ~ Has(k)}
<1>1. Has(0)
  <2> DEFINE f == [k \in 0 .. 0 |-> start]
  <2>1. f = [k \in 0 .. 0 |-> IF k = 0 THEN start ELSE step[<<f[k - 1], elements[k]>>]]
    OBVIOUS
  <2>2. QED
    BY <2>1, Zenon DEF Run
<1>2. ASSUME NEW k \in Nat, Has(k)
      PROVE  Has(k + 1)
  <2>1. PICK f : Run(step, start, elements, k, f)
    BY <1>2
  <2> DEFINE g == [j \in 0 .. k + 1 |-> IF j <= k THEN f[j] ELSE step[<<f[k], elements[k + 1]>>]]
  <2>2. \A j \in 0 .. k : f[j] = IF j = 0 THEN start ELSE step[<<f[j - 1], elements[j]>>]
    BY <2>1 DEF Run
  <2>3. g = [j \in 0 .. k + 1 |-> IF j = 0 THEN start ELSE step[<<g[j - 1], elements[j]>>]]
    <3>1. \A j \in 0 .. k + 1 : g[j] = IF j = 0 THEN start ELSE step[<<g[j - 1], elements[j]>>]
      <4>1. \A j \in 0 .. k + 1 : g[j] = IF j <= k THEN f[j] ELSE step[<<f[k], elements[k + 1]>>]
        OBVIOUS
      <4> HIDE DEF g
      <4>2. ASSUME NEW j \in 0 .. k + 1, j # 0
            PROVE  g[j] = step[<<g[j - 1], elements[j]>>]
        <5>1. j - 1 \in 0 .. k /\ g[j - 1] = f[j - 1]
          BY <4>1, <4>2
        <5>2. CASE j <= k
          BY <2>2, <4>1, <4>2, <5>1, <5>2
        <5>3. CASE j = k + 1
          BY <4>1, <5>1, <5>3
        <5>4. QED
          BY <5>2, <5>3
      <4>3. g[0] = start
        <5>1. 0 \in 0 .. k + 1 /\ 0 \in 0 .. k
          OBVIOUS
        <5>2. f[0] = start
          BY <2>2, <5>1
        <5>3. QED
          BY <4>1, <5>1, <5>2
      <4>4. QED
        BY <4>2, <4>3
    <3>2. g = [j \in 0 .. k + 1 |-> g[j]]
      OBVIOUS
    <3> HIDE DEF g
    <3>3. QED
      BY <3>1, <3>2
  <2>4. QED
    BY <2>3, Zenon DEF Run
<1> HIDE DEF Has
<1>3. T = {}
  <2> SUFFICES ASSUME T # {} PROVE FALSE
    OBVIOUS
  <2>1. PICK m \in T : \A k \in T : m <= k
    BY Least
  <2>2. m \in Nat /\ ~ Has(m) /\ m # 0
    BY <1>1, <2>1
  <2>3. m - 1 \in Nat /\ m - 1 \notin T /\ (m - 1) + 1 = m
    BY <2>1, <2>2
  <2>4. Has(m)
    BY <1>2, <2>3
  <2>5. QED
    BY <2>2, <2>4
<1>4. QED
  BY <1>3 DEF Has

\* Two runs over sequences that begin alike go alike.
LEMMA RunsAgree ==
  ASSUME NEW step, NEW start, NEW s, NEW t, NEW n, NEW m, NEW f, NEW g,
         Run(step, start, s, n, f), Run(step, start, t, m, g),
         n \in Nat, m \in Nat, n <= m,
         \A k \in 1 .. n : s[k] = t[k]
  PROVE  \A k \in 0 .. n : f[k] = g[k]
<1> DEFINE T == {k \in 0 .. n : f[k] # g[k]}
<1>1. /\ \A k \in 0 .. n : f[k] = IF k = 0 THEN start ELSE step[<<f[k - 1], s[k]>>]
      /\ \A k \in 0 .. m : g[k] = IF k = 0 THEN start ELSE step[<<g[k - 1], t[k]>>]
  BY DEF Run
<1>2. T = {}
  <2> SUFFICES ASSUME T # {} PROVE FALSE
    OBVIOUS
  <2>1. PICK k \in T : \A j \in T : k <= j
    <3>1. T \subseteq Nat
      OBVIOUS
    <3> HIDE DEF T
    <3>2. QED
      BY <3>1, Least
  <2>2. k \in 1 .. n /\ k \in 0 .. m
    <3>1. 0 \in 0 .. n /\ 0 \in 0 .. m
      OBVIOUS
    <3>2. f[0] = start /\ g[0] = start
      BY <1>1, <3>1
    <3>3. k # 0 /\ k \in 0 .. n
      BY <2>1, <3>2
    <3>4. QED
      BY <3>3
  <2>3. k - 1 \in 0 .. n /\ k - 1 \notin T
    BY <2>1, <2>2
  <2>4. f[k - 1] = g[k - 1] /\ s[k] = t[k]
    BY <2>2, <2>3
  <2>5. f[k] = g[k]
    BY <1>1, <2>2, <2>4
  <2>6. QED
    BY <2>1, <2>5
<1>3. QED
  BY <1>2

\* A loop ends with what its run has in the end.
LEMMA OverIsRun ==
  ASSUME NEW step, NEW start, NEW elements, Len(elements) \in Nat
  PROVE  \E f : /\ Run(step, start, elements, Len(elements), f)
                /\ Over(step, start, elements) = f[Len(elements)]
<1> DEFINE N == Len(elements)
           Turn(f, k) == IF k = 0 THEN start
                         ELSE CHOOSE next \in {step[<<before, elements[k]>>] : before \in {f[k - 1]}} : TRUE
           after == CHOOSE f : f = [k \in 0 .. N |-> Turn(f, k)]
<1>1. Over(step, start, elements) = after[N]
  BY Zenon DEF Over
<1>2. \A f, k : Turn(f, k) = IF k = 0 THEN start ELSE step[<<f[k - 1], elements[k]>>]
  <2>1. \A x : (CHOOSE next \in {x} : TRUE) = x
    OBVIOUS
  <2>2. \A f, k : {step[<<before, elements[k]>>] : before \in {f[k - 1]}} = {step[<<f[k - 1], elements[k]>>]}
    OBVIOUS
  <2>3. QED
    BY <2>1, <2>2, Zenon
<1>3. \A f : f = [k \in 0 .. N |-> Turn(f, k)] <=> Run(step, start, elements, N, f)
  <2>1. \A f : [k \in 0 .. N |-> Turn(f, k)]
              = [k \in 0 .. N |-> IF k = 0 THEN start ELSE step[<<f[k - 1], elements[k]>>]]
    BY <1>2, Zenon
  <2> HIDE DEF Turn
  <2>2. QED
    BY <2>1, Zenon DEF Run
<1>4. \E f : f = [k \in 0 .. N |-> Turn(f, k)]
  <2> HIDE DEF Turn
  <2>1. QED
    BY <1>3, RunExists, Zenon
<1>5. after = [k \in 0 .. N |-> Turn(after, k)]
  <2> HIDE DEF Turn
  <2>1. QED
    BY <1>4, Zenon
<1> HIDE DEF Turn, after
<1>6. QED
  BY <1>1, <1>3, <1>5, Zenon

\* A loop over no element changes nothing.
LEMMA OverNothing ==
  ASSUME NEW step, NEW start
  PROVE  Over(step, start, <<>>) = start
<1>1. PICK f : Run(step, start, <<>>, 0, f) /\ Over(step, start, <<>>) = f[0]
  <2>1. Len(<<>>) = 0
    OBVIOUS
  <2>2. QED
    BY <2>1, OverIsRun
<1>2. QED
  BY <1>1 DEF Run

\* A loop over one element more takes one turn more.
LEMMA OverUnfolds ==
  ASSUME NEW step, NEW start, NEW E, NEW s \in Seq(E), NEW e \in E
  PROVE  Over(step, start, Append(s, e)) = step[<<Over(step, start, s), e>>]
<1> DEFINE N == Len(s)
           t == Append(s, e)
<1>1. N \in Nat /\ Len(t) = N + 1 /\ t[N + 1] = e /\ \A k \in 1 .. N : s[k] = t[k]
  BY AppendProperties
<1>2. PICK f : Run(step, start, s, N, f) /\ Over(step, start, s) = f[N]
  BY <1>1, OverIsRun
<1> HIDE DEF N, t
<1>3. PICK g : Run(step, start, t, N + 1, g) /\ Over(step, start, t) = g[N + 1]
  <2>1. Len(t) \in Nat
    BY <1>1
  <2>2. QED
    BY <1>1, <2>1, OverIsRun
<1>4. f[N] = g[N]
  <2>1. \A k \in 0 .. N : f[k] = g[k]
    BY <1>1, <1>2, <1>3, RunsAgree
  <2>2. QED
    BY <1>1, <2>1
<1>5. g[N + 1] = step[<<g[N], t[N + 1]>>]
  BY <1>1, <1>3 DEF Run
<1>6. QED
  BY <1>1, <1>2, <1>3, <1>4, <1>5 DEF t

\* A loop stays in the set that its turns do not leave.
LEMMA OverStays ==
  ASSUME NEW step, NEW A, NEW start \in A, NEW E, NEW s \in Seq(E),
         \A a \in A : \A e \in E : step[<<a, e>>] \in A
  PROVE  Over(step, start, s) \in A
<1> DEFINE N == Len(s)
<1>1. N \in Nat /\ \A k \in 1 .. N : s[k] \in E
  OBVIOUS
<1>2. PICK f : Run(step, start, s, N, f) /\ Over(step, start, s) = f[N]
  BY <1>1, OverIsRun
<1> HIDE DEF N
<1>3. f[0] = start /\ \A k \in 1 .. N : f[k] = step[<<f[k - 1], s[k]>>]
  BY <1>1, <1>2 DEF Run
<1> DEFINE T == {k \in 0 .. N : f[k] \notin A}
<1>4. T = {}
  <2> SUFFICES ASSUME T # {} PROVE FALSE
    OBVIOUS
  <2>1. PICK k \in T : \A j \in T : k <= j
    <3>1. T \subseteq Nat
      OBVIOUS
    <3> HIDE DEF T
    <3>2. QED
      BY <3>1, Least
  <2>2. k \in 1 .. N /\ k - 1 \in 0 .. N /\ k - 1 \notin T
    BY <1>1, <1>3, <2>1
  <2>3. f[k - 1] \in A /\ s[k] \in E
    BY <1>1, <2>2
  <2>4. f[k] \in A
    BY <1>3, <2>2, <2>3
  <2>5. QED
    BY <2>1, <2>4
<1>5. QED
  BY <1>1, <1>2, <1>4

\* A loop over a sequence and then over another is one over both.
LEMMA OverContinues ==
  ASSUME NEW step, NEW start, NEW E, NEW s \in Seq(E), NEW t \in Seq(E)
  PROVE  Over(step, start, s \o t) = Over(step, Over(step, start, s), t)
<1> DEFINE N == Len(s)
           M == Len(t)
           st == s \o t
<1>1. /\ N \in Nat /\ M \in Nat /\ Len(st) = N + M
      /\ \A k \in 1 .. N : s[k] = st[k]
      /\ \A k \in 1 .. M : t[k] = st[N + k]
  OBVIOUS
<1>2. PICK f : Run(step, start, s, N, f) /\ Over(step, start, s) = f[N]
  BY <1>1, OverIsRun
<1>3. PICK h : Run(step, f[N], t, M, h) /\ Over(step, f[N], t) = h[M]
  BY <1>1, OverIsRun
<1> HIDE DEF N, M, st
<1>4. PICK g : Run(step, start, st, N + M, g) /\ Over(step, start, st) = g[N + M]
  <2>1. Len(st) \in Nat
    BY <1>1
  <2>2. PICK g : Run(step, start, st, Len(st), g) /\ Over(step, start, st) = g[Len(st)]
    BY <2>1, OverIsRun, Zenon
  <2>3. QED
    BY <1>1, <2>2, Zenon
<1>5. \A k \in 0 .. N : f[k] = g[k]
  <2>1. N + M \in Nat /\ N <= N + M
    BY <1>1
  <2>2. QED
    BY <1>1, <1>2, <1>4, <2>1, RunsAgree
<1> DEFINE rest == [k \in 0 .. M |-> g[N + k]]
<1>6. Run(step, f[N], t, M, rest)
  <2>1. \A k \in 0 .. N + M : g[k] = IF k = 0 THEN start ELSE step[<<g[k - 1], st[k]>>]
    BY <1>4 DEF Run
  <2>2. rest[0] = f[N]
    BY <1>1, <1>5
  <2>3. ASSUME NEW k \in 0 .. M, k # 0
        PROVE  rest[k] = step[<<rest[k - 1], t[k]>>]
    <3>1. N + k \in 0 .. N + M /\ N + k # 0 /\ k - 1 \in 0 .. M /\ N + (k - 1) = (N + k) - 1
      BY <1>1, <2>3
    <3>2. rest[k] = g[N + k] /\ rest[k - 1] = g[(N + k) - 1]
      BY <3>1
    <3>3. t[k] = st[N + k]
      BY <1>1, <2>3
    <3>4. QED
      BY <2>1, <3>1, <3>2, <3>3
  <2>4. rest = [k \in 0 .. M |-> rest[k]]
    OBVIOUS
  <2> HIDE DEF rest
  <2>5. QED
    BY <2>2, <2>3, <2>4 DEF Run
<1>7. \A k \in 0 .. M : rest[k] = h[k]
  <2>1. M \in Nat /\ M <= M
    BY <1>1
  <2> HIDE DEF rest
  <2>2. QED
    BY <1>3, <1>6, <2>1, RunsAgree
<1>8. h[M] = g[N + M]
  BY <1>1, <1>7
<1>9. QED
  BY <1>2, <1>3, <1>4, <1>8 DEF st

\* The checksum of a picture may be computed row after row: crc32_gen() goes on
\* from the checksum of what lies before.
THEOREM ChecksumContinues ==
  ASSUME NEW crc, NEW a \in Seq(Byte), NEW b \in Seq(Byte)
  PROVE  crc32_gen(crc, a \o b) = crc32_gen(crc32_gen(crc, a), b)
  BY OverContinues DEF crc32_gen

(***************************************************************************)
(* What the checksum tells apart.                                          *)
(***************************************************************************)

\* No two words are divided to the same one: the highest coefficient of the
\* polynomial shows whether it was subtracted.
LEMMA DivideBitInjective ==
  ASSUME NEW a \in Word, NEW b \in Word, DivideBit[a] = DivideBit[b]
  PROVE  a = b
<1> DEFINE P == Polynomial
           s(w, k) == IF k < 31 THEN w[k + 1] ELSE 0
<1>1. P \in Word /\ P[31] = 1
  <2>1. P[31] = BitOf(60856, 15)
    BY DEF Polynomial, WordOf
  <2>2. BitOf(60856, 15) = 1
    BY DEF BitOf, Weights
  <2>3. QED
    BY <2>1, <2>2, WordTypes
<1>2. \A w \in Word : \A k \in 0 .. 31 :
        DivideBit[w][k] = IF w[0] = 1 THEN XorBit(s(w, k), P[k]) ELSE s(w, k)
  BY DEF DivideBit, ShiftedBy1, Xor
<1>3. \A k \in 0 .. 31 : a[k] \in Bit /\ b[k] \in Bit /\ P[k] \in Bit
  BY <1>1 DEF Word
<1> HIDE DEF P
<1>4. a[0] = b[0]
  <2>1. DivideBit[a][31] = (IF a[0] = 1 THEN XorBit(0, 1) ELSE 0)
    BY <1>1, <1>2
  <2>2. DivideBit[b][31] = (IF b[0] = 1 THEN XorBit(0, 1) ELSE 0)
    BY <1>1, <1>2
  <2>3. a[0] \in Bit /\ b[0] \in Bit
    BY <1>3
  <2>4. QED
    BY <2>1, <2>2, <2>3 DEF XorBit, Bit
<1>5. ASSUME NEW k \in 0 .. 30
      PROVE  a[k + 1] = b[k + 1]
  <2>1. a[k + 1] \in Bit /\ b[k + 1] \in Bit /\ P[k] \in Bit
    BY <1>3
  <2>2. /\ DivideBit[a][k] = IF a[0] = 1 THEN XorBit(a[k + 1], P[k]) ELSE a[k + 1]
        /\ DivideBit[b][k] = IF b[0] = 1 THEN XorBit(b[k + 1], P[k]) ELSE b[k + 1]
    BY <1>2
  <2>3. QED
    BY <1>4, <2>1, <2>2 DEF XorBit, Bit
<1>6. \A k \in 0 .. 31 : a[k] = b[k]
  <2>1. \A k \in 0 .. 31 : k = 0 \/ (k - 1 \in 0 .. 30 /\ k = (k - 1) + 1)
    OBVIOUS
  <2>2. QED
    BY <1>4, <1>5, <2>1
<1>7. QED
  BY <1>6, SameWord

\* One turn of the loop tells apart the words before it, and the bytes.
LEMMA TurnInjective ==
  ASSUME NEW a \in Word, NEW b \in Word, NEW x \in Byte, NEW y \in Byte,
         DivideByte[<<a, x>>] = DivideByte[<<b, y>>]
  PROVE  (a = b) <=> (x = y)
<1>1. Added(a, x) \in Word /\ Added(b, y) \in Word
  BY StepTypes
<1>2. DivideBits(Added(a, x)) = DivideBits(Added(b, y))
  BY DEF DivideByte
<1>3. \A u, v \in Word : DivideFour(u) = DivideFour(v) => u = v
  BY DivideBitInjective, StepTypes DEF DivideFour
<1>4. \A u \in Word : DivideFour(u) \in Word
  BY StepTypes DEF DivideFour
<1>5. Added(a, x) = Added(b, y)
  BY <1>1, <1>2, <1>3, <1>4 DEF DivideBits
<1>6. /\ \A k \in 0 .. 31 : a[k] \in Bit /\ b[k] \in Bit
      /\ \A k \in 0 .. 7 : x[k] \in Bit /\ y[k] \in Bit
  BY DEF Word, Byte
<1>7. /\ \A k \in 0 .. 7 : XorBit(a[k], x[k]) = XorBit(b[k], y[k])
      /\ \A k \in 8 .. 31 : a[k] = b[k]
  <2>1. \A k \in 0 .. 31 : /\ Added(a, x)[k] = IF k < 8 THEN XorBit(a[k], x[k]) ELSE a[k]
                           /\ Added(b, y)[k] = IF k < 8 THEN XorBit(b[k], y[k]) ELSE b[k]
    BY DEF Added
  <2>2. QED
    BY <1>5, <2>1
<1>8. ASSUME a = b PROVE x = y
  <2>1. \A k \in 0 .. 7 : x[k] = y[k]
    BY <1>6, <1>7, <1>8 DEF XorBit, Bit
  <2>2. QED
    BY <2>1 DEF Byte
<1>9. ASSUME x = y PROVE a = b
  <2>1. \A k \in 0 .. 31 : a[k] = b[k]
    BY <1>6, <1>7, <1>9 DEF XorBit, Bit
  <2>2. QED
    BY <2>1, SameWord
<1>10. QED
  BY <1>8, <1>9

\* A picture of which one byte is another has another checksum, whatever
\* precedes the byte and whatever follows it.
THEOREM OneByteShows ==
  ASSUME NEW crc \in Word, NEW s \in Seq(Byte), NEW t \in Seq(Byte), Len(s) = Len(t),
         NEW j \in 1 .. Len(s), s[j] # t[j],
         \A k \in 1 .. Len(s) : k # j => s[k] = t[k]
  PROVE  crc32_gen(crc, s) # crc32_gen(crc, t)
<1> DEFINE N == Len(s)
<1>1. /\ N \in Nat /\ Len(t) = N /\ j \in 1 .. N
      /\ \A k \in 1 .. N : s[k] \in Byte /\ t[k] \in Byte
  OBVIOUS
<1>2. PICK f : Run(DivideByte, crc, s, N, f) /\ Divide(crc, s) = f[N]
  BY <1>1, OverIsRun DEF Divide
<1>3. PICK g : Run(DivideByte, crc, t, N, g) /\ Divide(crc, t) = g[N]
  BY <1>1, OverIsRun DEF Divide
<1> HIDE DEF N
<1>4. /\ f[0] = crc /\ \A k \in 1 .. N : f[k] = DivideByte[<<f[k - 1], s[k]>>]
      /\ g[0] = crc /\ \A k \in 1 .. N : g[k] = DivideByte[<<g[k - 1], t[k]>>]
  BY <1>1, <1>2, <1>3 DEF Run
<1>5. \A word \in Word : \A byte \in Byte : DivideByte[<<word, byte>>] \in Word
  BY StepTypes DEF DivideByte
<1> DEFINE Bad(k) == \/ f[k] \notin Word \/ g[k] \notin Word
                     \/ ~ (k < j <=> f[k] = g[k])
           T == {k \in 0 .. N : Bad(k)}
<1>6. T = {}
  <2> SUFFICES ASSUME T # {} PROVE FALSE
    OBVIOUS
  <2>1. PICK k \in T : \A i \in T : k <= i
    <3>1. T \subseteq Nat
      OBVIOUS
    <3> HIDE DEF T
    <3>2. QED
      BY <3>1, Least
  <2>2. k \in 0 .. N /\ Bad(k)
    BY <2>1
  <2>3. ~ Bad(0)
    BY <1>1, <1>4
  <2>4. k \in 1 .. N /\ k - 1 \in 0 .. N
    BY <1>1, <2>2, <2>3
  <2>5. ~ Bad(k - 1)
    BY <2>1, <2>4
  <2>6. /\ f[k - 1] \in Word /\ g[k - 1] \in Word
        /\ k - 1 < j <=> f[k - 1] = g[k - 1]
    BY <2>5
  <2>7. /\ f[k] = DivideByte[<<f[k - 1], s[k]>>] /\ g[k] = DivideByte[<<g[k - 1], t[k]>>]
        /\ s[k] \in Byte /\ t[k] \in Byte
    BY <1>1, <1>4, <2>4
  <2>8. f[k] \in Word /\ g[k] \in Word
    BY <1>5, <2>6, <2>7
  <2>9. k < j <=> f[k] = g[k]
    <3>1. CASE k < j
      <4>1. s[k] = t[k] /\ f[k - 1] = g[k - 1]
        BY <1>1, <2>4, <2>6, <3>1 DEF N
      <4>2. QED
        BY <2>7, <3>1, <4>1
    <3>2. CASE k = j
      <4>1. s[k] # t[k] /\ f[k - 1] = g[k - 1]
        BY <2>4, <2>6, <3>2
      <4>2. f[k] # g[k]
        BY <2>6, <2>7, <4>1, TurnInjective
      <4>3. QED
        BY <1>1, <3>2, <4>2
    <3>3. CASE k > j
      <4>1. s[k] = t[k] /\ f[k - 1] # g[k - 1]
        BY <1>1, <2>4, <2>6, <3>3 DEF N
      <4>2. f[k] # g[k]
        BY <2>6, <2>7, <4>1, TurnInjective
      <4>3. QED
        BY <1>1, <2>4, <3>3, <4>2
    <3>4. QED
      BY <1>1, <2>4, <3>1, <3>2, <3>3
  <2>10. QED
    BY <2>2, <2>8, <2>9
<1>7. f[N] # g[N]
  <2>1. N \in 0 .. N /\ ~ N < j
    BY <1>1
  <2>2. ~ Bad(N)
    BY <1>6, <2>1
  <2>3. QED
    BY <2>1, <2>2
<1>8. QED
  BY <1>2, <1>3, <1>7, ChecksumIsRemainder
=============================================================================
