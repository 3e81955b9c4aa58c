------------------------------ MODULE MpcProofs ------------------------------
(***************************************************************************)
(* The utilities and the cipher of the computation. tag_check accepts two  *)
(* tags if and only if they agree in every bit, for every number of bits.  *)
(* A careful user of a BitsArray loads what he stored, for all arrays,     *)
(* lengths and sizes of the memory and of its elements. AES on embedded    *)
(* bytes is the device's, and is undone, for every key and every block.    *)
(***************************************************************************)
EXTENDS MCMpc, FiniteSetTheorems, TLAPS

(***************************************************************************)
(* tag_check                                                               *)
(***************************************************************************)

AllOne(f) == \A k \in 1..Len(f) : f[k] = 1
NoneDiffers == \A k \in 1..Len(delta) : delta[k] = 0

\* The inductive invariant: all factors are one exactly when no bit differs,
\* and what is returned is the only factor.
Told == verdict # << >> => Len(factors) = 1 /\ verdict = factors
IInv == TypeOK /\ (AllOne(factors) <=> NoneDiffers) /\ Told

\* The lengths of one round: at least one factor, and never more than before.
LEMMA Halves ==
  ASSUME NEW n \in Nat, n > 1
  PROVE  /\ (n + 1) \div 2 \in Nat /\ (n + 1) \div 2 > 0
         /\ \A k \in 1..((n + 1) \div 2) :
              /\ k \in 1..n /\ 2 * k - 1 \in 1..n
              /\ 2 * k <= n => 2 * k \in 1..n
         /\ \A j \in 1..n : \E k \in 1..((n + 1) \div 2) :
              j = 2 * k - 1 \/ (j = 2 * k /\ 2 * k <= n)
<1>1. (n + 1) \div 2 \in Nat /\ (n + 1) \div 2 > 0
  OBVIOUS
<1>2. ASSUME NEW k \in 1..((n + 1) \div 2)
      PROVE  /\ k \in 1..n /\ 2 * k - 1 \in 1..n
             /\ 2 * k <= n => 2 * k \in 1..n
  OBVIOUS
<1>3. ASSUME NEW j \in 1..n
      PROVE  \E k \in 1..((n + 1) \div 2) : j = 2 * k - 1 \/ (j = 2 * k /\ 2 * k <= n)
  <2>1. (j + 1) \div 2 \in 1..((n + 1) \div 2)
    OBVIOUS
  <2>2. j = 2 * ((j + 1) \div 2) - 1 \/ (j = 2 * ((j + 1) \div 2) /\ 2 * ((j + 1) \div 2) <= n)
    OBVIOUS
  <2> QED BY <2>1, <2>2
<1> QED BY <1>1, <1>2, <1>3

\* One round on bits gives bits, all of them one exactly when all were: the
\* product of two bits is their conjunction, and every factor is in a product.
LEMMA Round ==
  ASSUME NEW f \in Seq({0, 1}), Len(f) > 1
  PROVE  /\ Multiplied(f) \in Seq({0, 1})
         /\ Len(Multiplied(f)) > 0
         /\ AllOne(Multiplied(f)) <=> AllOne(f)
<1> DEFINE n == Len(f)
           h == (n + 1) \div 2
           g == Multiplied(f)
<1>1. n \in Nat /\ n > 1 /\ f = [k \in 1..n |-> f[k]] /\ \A k \in 1..n : f[k] \in {0, 1}
  OBVIOUS
<1>2. /\ h \in Nat /\ h > 0
      /\ \A k \in 1..h : /\ k \in 1..n /\ 2 * k - 1 \in 1..n
                         /\ 2 * k <= n => 2 * k \in 1..n
      /\ \A j \in 1..n : \E k \in 1..h : j = 2 * k - 1 \/ (j = 2 * k /\ 2 * k <= n)
  BY <1>1, Halves
<1>3. \A k \in 1..h : g[k] = IF 2 * k <= n THEN f[2 * k - 1] * f[2 * k] ELSE f[2 * k - 1]
  BY DEF Multiplied
<1>4. \A x, y \in {0, 1} : x * y \in {0, 1} /\ (x * y = 1 <=> x = 1 /\ y = 1)
  OBVIOUS
<1>5. ASSUME NEW k \in 1..h PROVE g[k] \in {0, 1}
  <2>1. f[2 * k - 1] \in {0, 1} /\ (2 * k <= n => f[2 * k] \in {0, 1})
    BY <1>1, <1>2
  <2>2. CASE 2 * k <= n
    <3>1. g[k] = f[2 * k - 1] * f[2 * k]
      BY <2>2, <1>3
    <3> QED BY <3>1, <2>1, <2>2, <1>4
  <2>3. CASE ~(2 * k <= n)
    BY <2>3, <2>1, <1>3
  <2> QED BY <2>2, <2>3
<1>6. g \in Seq({0, 1}) /\ Len(g) = h
  <2>1. g = [k \in 1..h |-> g[k]]
    BY DEF Multiplied
  <2> QED BY <2>1, <1>2, <1>5
<1>7. ASSUME AllOne(f) PROVE AllOne(g)
  BY <1>1, <1>2, <1>3, <1>4, <1>6, <1>7 DEF AllOne
<1>8. ASSUME AllOne(g) PROVE AllOne(f)
  <2> SUFFICES ASSUME NEW j \in 1..n PROVE f[j] = 1
    BY DEF AllOne
  <2>1. PICK k \in 1..h : j = 2 * k - 1 \/ (j = 2 * k /\ 2 * k <= n)
    BY <1>2
  <2>2. g[k] = 1
    BY <1>8, <1>6 DEF AllOne
  <2>3. CASE 2 * k <= n
    <3>1. f[2 * k - 1] * f[2 * k] = 1
      BY <2>2, <2>3, <1>3
    <3>2. f[2 * k - 1] \in {0, 1} /\ f[2 * k] \in {0, 1}
      BY <2>3, <1>1, <1>2
    <3>3. f[2 * k - 1] = 1 /\ f[2 * k] = 1
      BY <3>1, <3>2, <1>4
    <3> QED BY <3>3, <2>1
  <2>4. CASE ~(2 * k <= n)
    <3>1. f[2 * k - 1] = 1
      BY <2>2, <2>4, <1>3
    <3> QED BY <3>1, <2>1, <2>4
  <2> QED BY <2>3, <2>4
<1> QED BY <1>2, <1>6, <1>7, <1>8

\* A sequence of more than one element has not one.
LEMMA Longer ==
  ASSUME NEW Elements, NEW f \in Seq(Elements), Len(f) > 1
  PROVE  Len(f) # 1
<1>1. \A n \in Nat : n > 1 => n # 1
  OBVIOUS
<1>2. Len(f) \in Nat
  OBVIOUS
<1> QED BY <1>1, <1>2

LEMMA InitIInv == Init => IInv
<1> SUFFICES ASSUME Init PROVE IInv
  OBVIOUS
<1>1. delta \in Deltas /\ delta \in Seq({0, 1}) /\ Len(delta) > 0
  BY DeltasAssumption DEF Init
<1>2. Len(delta) \in Nat /\ \A k \in 1..Len(delta) : delta[k] \in {0, 1}
  BY <1>1
<1>3. \A k \in 1..Len(delta) : 1 - delta[k] \in {0, 1} /\ (1 - delta[k] = 1 <=> delta[k] = 0)
  BY <1>2
<1>4. factors = [k \in 1..Len(delta) |-> 1 - delta[k]]
  BY DEF Init
<1>5. factors \in Seq({0, 1}) /\ Len(factors) = Len(delta)
  BY <1>2, <1>3, <1>4
<1>6. AllOne(factors) <=> NoneDiffers
  BY <1>3, <1>4, <1>5 DEF AllOne, NoneDiffers
<1>7. verdict = << >>
  BY DEF Init
<1> QED BY <1>1, <1>5, <1>6, <1>7 DEF IInv, TypeOK, Told

LEMMA NextIInv == IInv /\ [Next]_vars => IInv'
<1> SUFFICES ASSUME IInv, [Next]_vars PROVE IInv'
  OBVIOUS
<1>1. CASE Multiply
  <2>1. Len(factors) > 1 /\ factors \in Seq({0, 1}) /\ factors' = Multiplied(factors)
        /\ delta' = delta /\ verdict' = verdict
    BY <1>1 DEF Multiply, IInv, TypeOK
  <2>2. verdict = << >>
    <3>1. factors \in Seq({0, 1}) /\ Len(factors) > 1
      BY <2>1
    <3>2. Len(factors) # 1
      BY <3>1, Longer
    <3> QED BY <3>2 DEF IInv, Told
  <2>3. factors' \in Seq({0, 1}) /\ Len(factors') > 0
        /\ (AllOne(factors') <=> AllOne(factors))
    BY <2>1, Round
  <2> QED BY <2>1, <2>2, <2>3 DEF IInv, TypeOK, Told, AllOne, NoneDiffers
<1>2. CASE Return
  <2>1. Len(factors) = 1 /\ factors \in Seq({0, 1}) /\ verdict' = factors
        /\ delta' = delta /\ factors' = factors
    BY <1>2 DEF Return, IInv, TypeOK
  <2>2. factors = <<factors[1]>> /\ factors[1] \in {0, 1}
    BY <2>1
  <2>3. verdict' \in {<< >>, <<0>>, <<1>>}
    BY <2>1, <2>2
  <2> QED BY <2>1, <2>3 DEF IInv, TypeOK, Told, AllOne, NoneDiffers
<1>3. CASE UNCHANGED vars
  BY <1>3 DEF vars, IInv, TypeOK, Told, AllOne, NoneDiffers
<1> QED BY <1>1, <1>2, <1>3 DEF Next

LEMMA VerdictFromIInv == IInv => Verdict
<1> SUFFICES ASSUME IInv, verdict # << >>
             PROVE  verdict = <<1>> <=> NoneDiffers
  BY DEF Verdict, NoneDiffers
<1>1. Len(factors) = 1 /\ verdict = factors /\ factors \in Seq({0, 1})
  BY DEF IInv, Told, TypeOK
<1>2. factors = <<factors[1]>>
  BY <1>1
<1>3. verdict = <<1>> <=> AllOne(factors)
  BY <1>1, <1>2 DEF AllOne
<1> QED BY <1>3 DEF IInv

\* The factors of tag_check are bits, and there is always one.
THEOREM TagCheckTypeCorrect == Spec => []TypeOK
<1>1. IInv => TypeOK
  BY DEF IInv
<1> QED BY InitIInv, NextIInv, <1>1, PTL DEF Spec

\* tag_check tells equal from different tags, whatever their length.
THEOREM VerdictCorrect == Spec => []Verdict
BY InitIInv, NextIInv, VerdictFromIInv, PTL DEF Spec

(***************************************************************************)
(* BitsArray                                                               *)
(***************************************************************************)
\* Multiples keep their order.
LEMMA TimesOrder ==
  ASSUME NEW a \in Nat, NEW b \in Nat, NEW m \in Nat, a <= b
  PROVE  a * m <= b * m /\ a * m \in Nat /\ b * m \in Nat
<1>1. PICK d \in Nat : b = a + d
  <2>1. b - a \in Nat /\ b = a + (b - a)
    OBVIOUS
  <2> QED BY <2>1
<1>2. (a + d) * m = a * m + d * m
  OBVIOUS
<1>3. a * m \in Nat /\ d * m \in Nat
  OBVIOUS
<1> QED BY <1>1, <1>2, <1>3

\* A cell is part of one element only, and of an element within any span that
\* the element's index is in.
LEMMA OneElement ==
  ASSUME NEW a \in Nat, NEW k \in Nat, NEW l \in Nat, NEW m \in Nat, m > 0,
         NEW q \in 0..(m - 1), NEW r \in 0..(m - 1), a + k * m + q = a + l * m + r
  PROVE  k = l
<1>1. k * m \in Nat /\ l * m \in Nat
  BY TimesOrder
<1>2. ASSUME NEW x \in Nat, NEW y \in Nat, NEW s \in 0..(m - 1), NEW t \in 0..(m - 1),
             x * m \in Nat, y * m \in Nat, x < y, x * m + s = y * m + t
      PROVE  FALSE
  <2>1. x + 1 <= y /\ x + 1 \in Nat
    BY <1>2
  <2>2. (x + 1) * m <= y * m
    BY <2>1, TimesOrder
  <2>3. (x + 1) * m = x * m + m
    OBVIOUS
  <2> QED BY <1>2, <2>2, <2>3
<1>3. k * m + q = l * m + r
  BY <1>1
<1>4. ~(k < l)
  BY <1>1, <1>2, <1>3
<1>5. ~(l < k)
  BY <1>1, <1>2, <1>3
<1> QED BY <1>4, <1>5

LEMMA InSpan ==
  ASSUME NEW a \in Nat, NEW k \in Nat, NEW n \in Nat, NEW m \in Nat, m > 0, k < n,
         NEW q \in 0..(m - 1)
  PROVE  a + k * m + q \in a..(a + n * m - 1)
<1>1. k + 1 \in Nat /\ k + 1 <= n
  OBVIOUS
<1>2. (k + 1) * m <= n * m /\ k * m \in Nat /\ n * m \in Nat
  BY <1>1, TimesOrder
<1>3. (k + 1) * m = k * m + m
  OBVIOUS
<1> QED BY <1>2, <1>3

\* Address and length of every object, and the elements that it has.
Placed ==
  /\ DOMAIN mem = 0..(Cells - 1) /\ mem = [x \in DOMAIN mem |-> mem[x]]
  /\ owned \subseteq DOMAIN array /\ DOMAIN array \subseteq Arrays
  /\ DOMAIN content = DOMAIN array
  /\ \A a \in DOMAIN array :
       /\ array[a].length \in Lengths /\ array[a].address \in Nat
       /\ DOMAIN content[a] = 0..(array[a].length - 1)

\* Owned arrays lie in the memory, and no two share a cell.
Separate ==
  /\ \A a \in owned : Held(a) \subseteq DOMAIN mem
  /\ \A a, b \in owned : a # b => Held(a) \cap Held(b) = {}

\* The cells of an element that has been stored hold its parts, in order.
Kept ==
  Careful => \A a \in owned : \A k \in DOMAIN content[a] :
    content[a][k] # None =>
      \A q \in 0..(MemSize - 1) : mem[Element(a, k) + q] = <<content[a][k], q>>

ArraysInv == Placed /\ Separate /\ Kept

LEMMA InitArraysInv == ArraysInit => ArraysInv
<1> SUFFICES ASSUME ArraysInit PROVE ArraysInv
  OBVIOUS
<1>1. /\ mem = [x \in 0..(Cells - 1) |-> <<None, 0>>] /\ array = << >> /\ owned = {}
      /\ content = << >>
  BY DEF ArraysInit
<1>2. DOMAIN array = {} /\ DOMAIN content = {}
  BY <1>1
<1>3. DOMAIN mem = 0..(Cells - 1) /\ mem = [x \in DOMAIN mem |-> mem[x]]
  BY <1>1
<1> QED BY <1>1, <1>2, <1>3 DEF ArraysInv, Placed, Separate, Kept

\* What an object is given, and that the others stay as they were.
LEMMA NewFacts ==
  ASSUME NEW a \in Arrays, NEW length \in Lengths, NEW address \in DOMAIN mem, Placed,
         New(a, length, address)
  PROVE  /\ DOMAIN array' = DOMAIN array \cup {a} /\ DOMAIN content' = DOMAIN array'
         /\ array'[a] = [address |-> address, length |-> length, freed |-> FALSE]
         /\ content'[a] = [k \in 0..(length - 1) |-> None]
         /\ \A b \in DOMAIN array : array'[b] = array[b] /\ content'[b] = content[b]
<1>1. /\ a \notin DOMAIN array /\ DOMAIN content = DOMAIN array
      /\ array' = With(array, a, [address |-> address, length |-> length, freed |-> FALSE])
      /\ content' = With(content, a, [k \in 0..(length - 1) |-> None])
  BY DEF New, Placed
<1>2. /\ DOMAIN array' = DOMAIN array \cup {a}
      /\ array'[a] = [address |-> address, length |-> length, freed |-> FALSE]
      /\ \A b \in DOMAIN array : array'[b] = array[b]
  BY <1>1 DEF With
<1>3. /\ DOMAIN content' = DOMAIN content \cup {a}
      /\ content'[a] = [k \in 0..(length - 1) |-> None]
      /\ \A b \in DOMAIN content : content'[b] = content[b]
  BY <1>1 DEF With
<1> QED BY <1>1, <1>2, <1>3

LEMMA NewStep ==
  ASSUME ArraysInv, NEW a \in Arrays, NEW length \in Lengths, NEW address \in DOMAIN mem,
         New(a, length, address)
  PROVE  ArraysInv'
<1>1. /\ DOMAIN array' = DOMAIN array \cup {a} /\ DOMAIN content' = DOMAIN array'
      /\ array'[a] = [address |-> address, length |-> length, freed |-> FALSE]
      /\ content'[a] = [k \in 0..(length - 1) |-> None]
      /\ \A b \in DOMAIN array : array'[b] = array[b] /\ content'[b] = content[b]
  BY NewFacts DEF ArraysInv
<1>2. /\ a \notin DOMAIN array /\ mem' = mem /\ owned' = owned \cup {a}
      /\ Span(address, length) \subseteq DOMAIN mem
      /\ \A b \in owned : Held(b) \cap Span(address, length) = {}
  BY DEF New
<1>3. address \in Nat /\ length \in Nat
  BY ArraysAssumption DEF ArraysInv, Placed
<1>4. Held(a)' = Span(address, length) /\ \A b \in owned : Held(b)' = Held(b)
  BY <1>1 DEF Held, Span, ArraysInv, Placed
<1>5. Placed'
  <2>1. DOMAIN content'[a] = 0..(array'[a].length - 1)
    BY <1>1
  <2> QED BY <1>1, <1>2, <1>3, <2>1 DEF ArraysInv, Placed
<1>6. Separate'
  BY <1>2, <1>4 DEF ArraysInv, Separate
<1>7. Kept'
  <2> SUFFICES ASSUME Careful, NEW b \in owned', NEW k \in DOMAIN content'[b],
                      content'[b][k] # None
               PROVE  \A q \in 0..(MemSize - 1) : mem'[Element(b, k)' + q] = <<content'[b][k], q>>
    BY DEF Kept
  <2>1. b # a
    BY <1>1
  <2>2. b \in owned /\ b \in DOMAIN array /\ content'[b] = content[b] /\ array'[b] = array[b]
    BY <2>1, <1>1, <1>2 DEF ArraysInv, Placed
  <2>3. Element(b, k)' = Element(b, k)
    BY <2>2 DEF Element
  <2> QED BY <2>2, <2>3, <1>2 DEF ArraysInv, Kept
<1> QED BY <1>5, <1>6, <1>7 DEF ArraysInv

LEMMA FreeStep == ASSUME ArraysInv, NEW a \in Arrays, Free(a) PROVE ArraysInv'
<1>1. owned' = owned \ {a} /\ mem' = mem /\ array' = array /\ content' = content
  BY DEF Free
<1>2. Placed'
  BY <1>1 DEF ArraysInv, Placed
<1>3. Separate'
  BY <1>1 DEF ArraysInv, Separate, Held, Span
<1>4. Kept'
  BY <1>1 DEF ArraysInv, Kept, Element
<1> QED BY <1>2, <1>3, <1>4 DEF ArraysInv

\* The cells of one element.
LEMMA ElementCells ==
  ASSUME NEW address \in Nat, NEW x
  PROVE  x \in Span(address, 1) <=> \E r \in 0..(MemSize - 1) : x = address + r
<1>1. MemSize \in Nat /\ 1 * MemSize = MemSize
  BY ArraysAssumption
<1>2. ASSUME x \in address..(address + MemSize - 1)
      PROVE  x - address \in 0..(MemSize - 1) /\ x = address + (x - address)
  BY <1>1, <1>2
<1>3. ASSUME NEW r \in 0..(MemSize - 1), x = address + r
      PROVE  x \in address..(address + MemSize - 1)
  BY <1>1, <1>3
<1> QED BY <1>1, <1>2, <1>3 DEF Span

LEMMA MaxOfOne == ASSUME NEW k \in Nat PROVE Max({k}) = k
BY DEF Max

LEMMA ElementFacts ==
  ASSUME Placed, NEW a \in DOMAIN array, NEW k \in Nat
  PROVE  /\ Element(a, k) \in Nat /\ Element(a, k) = array[a].address + k * MemSize
         /\ array[a].length \in Nat /\ array[a].address \in Nat
         /\ k < array[a].length =>
              \A q \in 0..(MemSize - 1) : Element(a, k) + q \in Held(a)
<1>1. /\ array[a].length \in Nat /\ array[a].address \in Nat
      /\ MemSize \in Nat /\ MemSize > 0
  BY ArraysAssumption DEF Placed
<1>2. k * MemSize \in Nat
  BY <1>1, TimesOrder
<1>3. ASSUME k < array[a].length, NEW q \in 0..(MemSize - 1)
      PROVE  array[a].address + k * MemSize + q \in Held(a)
  BY <1>1, <1>3, InSpan DEF Held, Span
<1> QED BY <1>1, <1>2, <1>3 DEF Element

\* Which of n elements of a from start on the cell q of an element of b is part
\* of: only that element itself.
LEMMA WhichElement ==
  ASSUME Placed, Separate, NEW a \in owned, NEW start \in Nat, NEW n \in Nat,
         start + n <= array[a].length,
         NEW b \in owned, NEW k \in Nat, k < array[b].length, NEW q \in 0..(MemSize - 1)
  PROVE  {j \in 0..(n - 1) : Element(b, k) + q \in Span(Element(a, start + j), 1)}
           = {j \in 0..(n - 1) : b = a /\ k = start + j}
<1>1. a \in DOMAIN array /\ b \in DOMAIN array /\ MemSize \in Nat /\ MemSize > 0
  BY ArraysAssumption DEF Placed
<1>2. Element(b, k) + q \in Held(b) /\ Element(b, k) = array[b].address + k * MemSize
      /\ array[b].address \in Nat
  BY <1>1, ElementFacts
<1> SUFFICES ASSUME NEW j \in 0..(n - 1)
             PROVE  Element(b, k) + q \in Span(Element(a, start + j), 1) <=> b = a /\ k = start + j
  OBVIOUS
<1>3. start + j \in Nat /\ start + j < array[a].length
  <2>1. array[a].length \in Nat
    BY <1>1, ElementFacts
  <2> QED BY <2>1
<1>4. /\ Element(a, start + j) \in Nat
      /\ Element(a, start + j) = array[a].address + (start + j) * MemSize
      /\ \A r \in 0..(MemSize - 1) : Element(a, start + j) + r \in Held(a)
  BY <1>1, <1>3, ElementFacts
<1>5. ASSUME b = a, k = start + j PROVE Element(b, k) + q \in Span(Element(a, start + j), 1)
  BY <1>4, <1>5, ElementCells
<1>6. ASSUME Element(b, k) + q \in Span(Element(a, start + j), 1) PROVE b = a /\ k = start + j
  <2>1. PICK r \in 0..(MemSize - 1) : Element(b, k) + q = Element(a, start + j) + r
    BY <1>4, <1>6, ElementCells
  <2>2. Element(b, k) + q \in Held(a)
    BY <1>4, <2>1
  <2>3. b = a
    BY <1>2, <2>2 DEF Separate
  <2>4. array[a].address + k * MemSize + q = array[a].address + (start + j) * MemSize + r
    BY <1>2, <1>4, <2>1, <2>3
  <2>5. k = start + j
    BY <1>1, <1>2, <1>3, <2>3, <2>4, OneElement
  <2> QED BY <2>3, <2>5
<1> QED BY <1>5, <1>6

LEMMA StoreStep ==
  ASSUME ArraysInv, NEW a \in Arrays, NEW start \in 0..Cells, NEW n \in 1..MaxStore,
         NEW s \in [1..n -> Values], Store(a, start, s)
  PROVE  ArraysInv'
<1> DEFINE at(x) == {j \in 0..(n - 1) : x \in Span(Element(a, start + j), 1)}
<1>1. n \in Nat /\ start \in Nat /\ MemSize \in Nat /\ MemSize > 0 /\ Len(s) = n
  BY ArraysAssumption
<1>2. /\ MayUse(a, start, n)
      /\ mem' = [x \in DOMAIN mem |->
                   IF at(x) = {} THEN mem[x]
                   ELSE <<s[Max(at(x)) + 1], x - Element(a, start + Max(at(x)))>>]
      /\ content' = [content EXCEPT ![a] =
                       [k \in DOMAIN @ |-> IF k \in start..(start + n - 1)
                                           THEN s[k - start + 1] ELSE @[k]]]
      /\ array' = array /\ owned' = owned
  BY <1>1 DEF Store
<1>3. a \in DOMAIN array /\ a \in DOMAIN content
  BY <1>2 DEF MayUse, ArraysInv, Placed
<1>4. /\ DOMAIN content' = DOMAIN content
      /\ content'[a] = [k \in DOMAIN content[a] |-> IF k \in start..(start + n - 1)
                                                    THEN s[k - start + 1] ELSE content[a][k]]
      /\ \A b \in DOMAIN content : b # a => content'[b] = content[b]
  BY <1>2, <1>3
<1>5. DOMAIN mem' = DOMAIN mem /\ mem' = [x \in DOMAIN mem' |-> mem'[x]]
  BY <1>2
<1>6. Placed'
  <2>1. \A b \in DOMAIN array : DOMAIN content'[b] = DOMAIN content[b]
    BY <1>4 DEF ArraysInv, Placed
  <2> QED BY <1>2, <1>4, <1>5, <2>1 DEF ArraysInv, Placed
<1>7. Separate'
  BY <1>2, <1>5 DEF ArraysInv, Separate, Held, Span
<1>8. Kept'
  <2> SUFFICES ASSUME Careful, NEW b \in owned', NEW k \in DOMAIN content'[b],
                      content'[b][k] # None, NEW q \in 0..(MemSize - 1)
               PROVE  mem'[Element(b, k)' + q] = <<content'[b][k], q>>
    BY DEF Kept
  <2>0. b \in owned /\ Element(b, k)' = Element(b, k)
    BY <1>2 DEF Element
  <2>1. a \in owned /\ start + n <= array[a].length
    BY <1>2 DEF MayUse
  <2>2. /\ b \in DOMAIN array /\ array[b].length \in Nat
        /\ k \in DOMAIN content[b] /\ k \in 0..(array[b].length - 1)
    <3>1. b \in DOMAIN array
      BY <2>0 DEF ArraysInv, Placed
    <3>2. DOMAIN content'[b] = DOMAIN content[b]
      BY <1>4, <3>1 DEF ArraysInv, Placed
    <3> QED BY <3>1, <3>2, ElementFacts, ArraysAssumption DEF ArraysInv, Placed
  <2>3. k \in Nat /\ k < array[b].length
    BY <2>2
  <2> DEFINE x == Element(b, k) + q
  <2>4. x \in DOMAIN mem
    <3>1. x \in Held(b)
      BY <2>2, <2>3, ElementFacts DEF ArraysInv
    <3> QED BY <2>0, <3>1 DEF ArraysInv, Separate
  <2>5. at(x) = {j \in 0..(n - 1) : b = a /\ k = start + j}
    BY <1>1, <2>0, <2>1, <2>3, WhichElement DEF ArraysInv
  <2>6. mem'[x] = IF at(x) = {} THEN mem[x]
                  ELSE <<s[Max(at(x)) + 1], x - Element(a, start + Max(at(x)))>>
    BY <1>2, <2>4
  <2> HIDE DEF at
  <2>7. CASE b = a /\ k \in start..(start + n - 1)
    <3>1. k - start \in 0..(n - 1) /\ k - start \in Nat /\ k = start + (k - start)
      BY <1>1, <2>3, <2>7
    <3>2. at(x) = {k - start}
      BY <1>1, <2>3, <2>5, <2>7, <3>1
    <3>3. Max(at(x)) = k - start
      BY <3>1, <3>2, MaxOfOne
    <3>4. mem'[x] = <<s[(k - start) + 1], x - Element(a, start + (k - start))>>
      BY <2>6, <3>2, <3>3
    <3>5. x - Element(a, start + (k - start)) = q
      <4>1. Element(a, k) \in Nat
        BY <1>3, <2>3, ElementFacts DEF ArraysInv
      <4> QED BY <3>1, <4>1, <2>7
    <3>6. content'[b][k] = s[k - start + 1]
      BY <1>4, <2>2, <2>7
    <3> QED BY <2>0, <3>4, <3>5, <3>6
  <2>8. CASE ~(b = a /\ k \in start..(start + n - 1))
    <3>1. at(x) = {}
      BY <1>1, <2>3, <2>5, <2>8
    <3>2. content'[b][k] = content[b][k]
      BY <1>4, <2>2, <2>8 DEF ArraysInv, Placed
    <3>3. mem[x] = <<content[b][k], q>>
      BY <2>0, <2>2, <3>2 DEF ArraysInv, Kept
    <3> QED BY <2>0, <2>6, <3>1, <3>2, <3>3
  <2> QED BY <2>7, <2>8
<1> QED BY <1>6, <1>7, <1>8 DEF ArraysInv

LEMMA NextArraysInv == ArraysInv /\ [ArraysNext]_arrayVars => ArraysInv'
<1> SUFFICES ASSUME ArraysInv, [ArraysNext]_arrayVars PROVE ArraysInv'
  OBVIOUS
<1>1. CASE UNCHANGED arrayVars
  <2>1. mem' = mem /\ array' = array /\ owned' = owned /\ content' = content
    BY <1>1 DEF arrayVars
  <2>2. Placed'
    BY <2>1 DEF ArraysInv, Placed
  <2>3. Separate'
    BY <2>1 DEF ArraysInv, Separate, Held, Span
  <2>4. Kept'
    BY <2>1 DEF ArraysInv, Kept, Element
  <2> QED BY <2>2, <2>3, <2>4 DEF ArraysInv
<1>2. ASSUME NEW a \in Arrays, NEW length \in Lengths, NEW address \in DOMAIN mem,
             New(a, length, address)
      PROVE  ArraysInv'
  BY <1>2, NewStep
<1>3. ASSUME NEW a \in Arrays, NEW start \in 0..Cells, NEW n \in 1..MaxStore,
             NEW s \in [1..n -> Values], Store(a, start, s)
      PROVE  ArraysInv'
  BY <1>3, StoreStep
<1>4. ASSUME NEW a \in Arrays, Free(a) PROVE ArraysInv'
  BY <1>4, FreeStep
<1> QED BY <1>1, <1>2, <1>3, <1>4 DEF ArraysNext

LEMMA ArraysInvGives == ArraysInv => ArraysTypeOK /\ LoadsStored
<1> SUFFICES ASSUME ArraysInv PROVE ArraysTypeOK /\ LoadsStored
  OBVIOUS
<1>1. ArraysTypeOK
  BY DEF ArraysInv, Placed, ArraysTypeOK
<1>2. ASSUME Careful, NEW a \in owned, NEW k \in DOMAIN content[a], content[a][k] # None
      PROVE  Load(a, k) = content[a][k]
  <2>1. \A q \in 0..(MemSize - 1) : mem[Element(a, k) + q] = <<content[a][k], q>>
    BY <1>2 DEF ArraysInv, Kept
  <2>2. 0 \in 0..(MemSize - 1)
    BY ArraysAssumption
  <2>3. Element(a, k) \in Nat
    <3>1. a \in DOMAIN array /\ k \in 0..(array[a].length - 1)
      BY DEF ArraysInv, Placed
    <3>2. k \in Nat
      BY <3>1
    <3> QED BY <3>1, <3>2, ElementFacts DEF ArraysInv
  <2>4. mem[Element(a, k)] = <<content[a][k], 0>>
    <3>1. Element(a, k) + 0 = Element(a, k)
      BY <2>3
    <3> QED BY <2>1, <2>2, <3>1
  <2> QED BY <2>1, <2>4 DEF Load
<1> QED BY <1>1, <1>2 DEF LoadsStored

\* The objects of BitsArray keep their lengths, and lie in the memory (utils.py).
THEOREM ArraysTypeCorrect == ArraysSpec => []ArraysTypeOK
BY InitArraysInv, NextArraysInv, ArraysInvGives, PTL DEF ArraysSpec

\* Who uses only arrays that he has not given back, within their lengths, loads
\* with load_mem what he stored with store_in_mem last, whatever is done to other
\* arrays in the same memory.
THEOREM ArraysLoadStored == ArraysSpec => []LoadsStored
BY InitArraysInv, NextArraysInv, ArraysInvGives, PTL DEF ArraysSpec

(***************************************************************************)
(* The utilities beside the cipher, as they are checked                    *)
(***************************************************************************)
UtilitiesInv == (NoTags \/ IInv) /\ (NoArrays \/ ArraysInv)

LEMMA InitUtilitiesInv == MCInit => UtilitiesInv
BY InitIInv, InitArraysInv DEF MCInit, UtilitiesInv

LEMMA NextUtilitiesInv == UtilitiesInv /\ [MCNext]_allVars => UtilitiesInv'
<1> SUFFICES ASSUME UtilitiesInv, [MCNext]_allVars PROVE UtilitiesInv'
  OBVIOUS
<1>1. [Next]_vars /\ [ArraysNext]_arrayVars
  BY DEF MCNext, allVars
<1>2. ASSUME NoTags PROVE NoTags'
  <2>1. ~Next
    <3>1. Len(factors) = 0
      BY <1>2 DEF NoTags
    <3> QED BY <3>1 DEF Next, Multiply, Return
  <2> QED BY <1>1, <1>2, <2>1 DEF vars, NoTags
<1>3. ASSUME NoArrays PROVE NoArrays'
  <2>1. DOMAIN mem = {} /\ DOMAIN array = {}
    BY <1>3 DEF NoArrays
  <2>2. ~ArraysNext
    BY <2>1 DEF ArraysNext, New, Store, Free, MayUse
  <2> QED BY <1>1, <1>3, <2>2 DEF arrayVars, NoArrays
<1>4. IInv => IInv'
  BY <1>1, NextIInv
<1>5. ArraysInv => ArraysInv'
  BY <1>1, NextArraysInv
<1> QED BY <1>2, <1>3, <1>4, <1>5 DEF UtilitiesInv

LEMMA UtilitiesInvGives ==
  UtilitiesInv => TagCheckTypeOK /\ Verdict /\ ArraysOK /\ LoadsStored
<1> SUFFICES ASSUME UtilitiesInv PROVE TagCheckTypeOK /\ Verdict /\ ArraysOK /\ LoadsStored
  OBVIOUS
<1>1. NoTags => TagCheckTypeOK /\ Verdict
  BY DEF NoTags, TagCheckTypeOK, Checking, Verdict
<1>2. IInv => TagCheckTypeOK /\ Verdict
  BY VerdictFromIInv DEF IInv, TagCheckTypeOK
<1>3. NoArrays => ArraysOK /\ LoadsStored
  BY DEF NoArrays, ArraysOK, LoadsStored
<1>4. ArraysInv => ArraysOK /\ LoadsStored
  BY ArraysInvGives DEF ArraysOK
<1> QED BY <1>1, <1>2, <1>3, <1>4 DEF UtilitiesInv

\* The factors of tag_check stay bits, and one is left.
THEOREM FactorsStayBits == MCSpec => []TagCheckTypeOK
BY InitUtilitiesInv, NextUtilitiesInv, UtilitiesInvGives, PTL DEF MCSpec

\* tag_check accepts equal tags and no others.
THEOREM TagsCompared == MCSpec => []Verdict
BY InitUtilitiesInv, NextUtilitiesInv, UtilitiesInvGives, PTL DEF MCSpec

\* Arrays keep their lengths, and lie in the memory.
THEOREM ArraysKeepLengths == MCSpec => []ArraysOK
BY InitUtilitiesInv, NextUtilitiesInv, UtilitiesInvGives, PTL DEF MCSpec

\* Of an array that is still owned, what was stored last is loaded.
THEOREM ArraysKeepElements == MCSpec => []LoadsStored
BY InitUtilitiesInv, NextUtilitiesInv, UtilitiesInvGives, PTL DEF MCSpec

(***************************************************************************)
(* The cipher                                                              *)
(***************************************************************************)
\* The definitions of Bytes are the same in the instance of MpcCipher.
LEMMA SameBytes ==
  /\ \A a, b : C!(+)(a, b) = a (+) b
  /\ \A S, f : C!Sum(S, f) = XorAll(S, f)
  /\ C!Bits = Bits
<1>1. \A S : C!Cardinality(S) = Cardinality(S)
  BY DEF C!Cardinality, Cardinality
<1> QED BY <1>1 DEF C!(+), (+), C!Sum, C!XorAll, XorAll, C!Bits, Bits

\* An element is in a sum if it is in an odd number of the terms.
LEMMA InXorAll ==
  ASSUME NEW S, NEW f, NEW e
  PROVE  e \in XorAll(S, f) <=> Cardinality({s \in S : e \in f[s]}) % 2 = 1
<1>1. ASSUME Cardinality({s \in S : e \in f[s]}) % 2 = 1 PROVE e \in UNION {f[s] : s \in S}
  <2>1. {s \in S : e \in f[s]} # {}
    BY <1>1, FS_EmptySet
  <2> QED BY <2>1
<1> QED BY <1>1 DEF XorAll

\* A term that is in both of two sums is in neither of their sum.
LEMMA XorAllAdds ==
  ASSUME NEW S, NEW T, IsFiniteSet(S), IsFiniteSet(T), NEW f
  PROVE  XorAll(S (+) T, f) = XorAll(S, f) (+) XorAll(T, f)
<1> SUFFICES ASSUME NEW e
             PROVE  e \in XorAll(S (+) T, f) <=> e \in XorAll(S, f) (+) XorAll(T, f)
  OBVIOUS
<1> DEFINE A == {s \in S : e \in f[s]}
           B == {s \in T : e \in f[s]}
           D == {s \in S (+) T : e \in f[s]}
<1>1. D = (A \ B) \cup (B \ A)
  BY DEF (+)
<1>2. IsFiniteSet(A) /\ IsFiniteSet(B)
  BY FS_Subset
<1> HIDE DEF A, B, D
<1>3. IsFiniteSet(A \ B) /\ IsFiniteSet(B \ A) /\ IsFiniteSet(A \cap B)
  BY <1>2, FS_Subset, FS_Difference, FS_Intersection
<1> DEFINE a == Cardinality(A \ B)
           b == Cardinality(B \ A)
           d == Cardinality(A \cap B)
<1>4. a \in Nat /\ b \in Nat /\ d \in Nat
  BY <1>3, FS_CardinalityType
<1>5. Cardinality((A \ B) \cup (B \ A)) = a + b
  <2>1. (A \ B) \cap (B \ A) = {}
    OBVIOUS
  <2>2. Cardinality((A \ B) \cup (B \ A)) = a + b - Cardinality((A \ B) \cap (B \ A))
    BY <1>3, FS_Union
  <2>3. Cardinality((A \ B) \cap (B \ A)) = 0
    BY <2>1, FS_EmptySet
  <2> HIDE DEF a, b, d
  <2> QED BY <1>4, <2>1, <2>2, <2>3
<1>6. Cardinality(A) = a + d
  <2>1. (A \ B) \cap (A \cap B) = {} /\ (A \ B) \cup (A \cap B) = A
    OBVIOUS
  <2>2. Cardinality((A \ B) \cup (A \cap B)) = a + d - Cardinality((A \ B) \cap (A \cap B))
    BY <1>3, FS_Union
  <2>3. Cardinality((A \ B) \cap (A \cap B)) = 0
    BY <2>1, FS_EmptySet
  <2> HIDE DEF a, b, d
  <2> QED BY <1>4, <2>1, <2>2, <2>3
<1>7. Cardinality(B) = b + d
  <2>1. (B \ A) \cap (A \cap B) = {} /\ (B \ A) \cup (A \cap B) = B
    OBVIOUS
  <2>2. Cardinality((B \ A) \cup (A \cap B)) = b + d - Cardinality((B \ A) \cap (A \cap B))
    BY <1>3, FS_Union
  <2>3. Cardinality((B \ A) \cap (A \cap B)) = 0
    BY <2>1, FS_EmptySet
  <2> HIDE DEF a, b, d
  <2> QED BY <1>4, <2>1, <2>2, <2>3
<1>8. Cardinality(D) = a + b
  BY <1>1, <1>5
<1> HIDE DEF a, b, d
<1>9. Cardinality(D) % 2 = 1 <=> ~(Cardinality(A) % 2 = 1 <=> Cardinality(B) % 2 = 1)
  BY <1>4, <1>6, <1>7, <1>8
<1>10. /\ e \in XorAll(S (+) T, f) <=> Cardinality(D) % 2 = 1
       /\ e \in XorAll(S, f) <=> Cardinality(A) % 2 = 1
       /\ e \in XorAll(T, f) <=> Cardinality(B) % 2 = 1
  BY InXorAll DEF A, B, D
<1> QED BY <1>9, <1>10 DEF (+)

\* The embedding of a byte, and of the bytes of a block.
Emb(b)    == C!ApplyEmbedding(b)
EmbAll(z) == [q \in 0..15 |-> Emb(z[q])]

LEMMA EmbAdds == ASSUME NEW a, NEW b PROVE Emb(a (+) b) = Emb(a) (+) Emb(b)
<1> DEFINE A == a \cap Bits
           B == b \cap Bits
<1>1. (a (+) b) \cap Bits = A (+) B
  BY DEF (+)
<1>2. IsFiniteSet(A) /\ IsFiniteSet(B)
  <2>1. \A k, n \in Int : IsFiniteSet(k..n)
    BY FS_Interval
  <2>2. 0 \in Int /\ 7 \in Int
    OBVIOUS
  <2>3. IsFiniteSet(0..7)
    BY <2>1, <2>2, Zenon
  <2> QED BY <2>3, FS_Subset DEF Bits
<1>3. \A z : Emb(z) = XorAll(z \cap Bits, C!Column)
  BY SameBytes DEF Emb, C!ApplyEmbedding
<1> HIDE DEF A, B
<1>4. XorAll(A (+) B, C!Column) = XorAll(A, C!Column) (+) XorAll(B, C!Column)
  BY <1>2, XorAllAdds
<1> QED BY <1>1, <1>3, <1>4 DEF A, B

(* Sums and doubles of bytes.                                              *)
LEMMA XorIsByte == \A a, b \in Byte : a (+) b \in Byte
BY DEF (+), Byte

LEMMA XorTwice == \A a, b : (a (+) b) (+) b = a
BY DEF (+)

LEMMA XorCommutes == \A a, b : a (+) b = b (+) a
BY DEF (+)

LEMMA XorAssociates == \A a, b, d : (a (+) b) (+) d = a (+) (b (+) d)
BY DEF (+)

LEMMA XtimeIsByte == ASSUME NEW b \in Byte PROVE XTIME(b) \in Byte
<1>1. \A bit \in b \ {7} : bit + 1 \in 0..7
  BY DEF Byte, Bits
<1>2. {bit + 1 : bit \in b \ {7}} \in Byte
  BY <1>1 DEF Byte, Bits
<1>3. {0, 1, 3, 4} \in Byte /\ Zero \in Byte
  BY DEF Byte, Bits, Zero
<1> QED BY <1>2, <1>3, XorIsByte DEF XTIME

LEMMA XtimeAdds == ASSUME NEW a \in Byte, NEW b \in Byte PROVE XTIME(a (+) b) = XTIME(a) (+) XTIME(b)
<1> DEFINE up(z) == {bit + 1 : bit \in z \ {7}}
           back(z) == IF 7 \in z THEN {0, 1, 3, 4} ELSE Zero
<1>1. up(a (+) b) = up(a) (+) up(b)
  <2>1. \A bit \in a \cup b : bit \in 0..7
    BY DEF Byte, Bits
  <2> SUFFICES ASSUME NEW e PROVE e \in up(a (+) b) <=> e \in up(a) (+) up(b)
    OBVIOUS
  <2>2. \A z \in Byte : e \in up(z) <=> e \in 1..7 /\ e - 1 \in z
    BY DEF Byte, Bits
  <2>3. e \in up(a (+) b) <=> e \in 1..7 /\ e - 1 \in a (+) b
    BY <2>2, XorIsByte
  <2> HIDE DEF up
  <2> QED BY <2>2, <2>3 DEF (+)
<1>2. back(a (+) b) = back(a) (+) back(b)
  BY DEF (+), Zero
<1>3. \A z : XTIME(z) = up(z) (+) back(z)
  BY DEF XTIME
<1> HIDE DEF up, back
<1>4. \A w, x, y, z : (w (+) x) (+) (y (+) z) = (w (+) y) (+) (x (+) z)
  BY DEF (+)
<1> QED BY <1>1, <1>2, <1>3, <1>4

LEMMA XorAllOne == ASSUME NEW x, NEW f PROVE XorAll({x}, f) = f[x]
<1> SUFFICES ASSUME NEW e PROVE e \in XorAll({x}, f) <=> e \in f[x]
  OBVIOUS
<1>1. e \in f[x] => {s \in {x} : e \in f[s]} = {x}
  OBVIOUS
<1>2. e \notin f[x] => {s \in {x} : e \in f[s]} = {}
  OBVIOUS
<1>3. Cardinality({x}) = 1 /\ Cardinality({}) = 0
  <2>1. Cardinality({x}) = 1
    BY FS_Singleton
  <2>2. Cardinality({}) = 0
    BY FS_EmptySet
  <2> QED BY <2>1, <2>2
<1> QED BY <1>1, <1>2, <1>3, InXorAll

LEMMA SumTo ==
  ASSUME NEW f
  PROVE  /\ XorAll(0..0, f) = f[0]
         /\ \A m \in Nat : XorAll(0..(m + 1), f) = XorAll(0..m, f) (+) f[m + 1]
<1>1. 0..0 = {0}
  OBVIOUS
<1>2. ASSUME NEW m \in Nat PROVE XorAll(0..(m + 1), f) = XorAll(0..m, f) (+) f[m + 1]
  <2>1. 0..(m + 1) = (0..m) (+) {m + 1}
    BY DEF (+)
  <2>2. IsFiniteSet(0..m) /\ IsFiniteSet({m + 1})
    <3>1. 0 \in Int /\ m \in Int
      OBVIOUS
    <3>2. IsFiniteSet(0..m)
      BY <3>1, FS_Interval, Zenon
    <3> QED BY <3>2, FS_Singleton
  <2> QED BY <2>1, <2>2, XorAllAdds, XorAllOne
<1> QED BY <1>1, <1>2, XorAllOne

(* The S-box.                                                              *)
\* One more element turns a count of common elements from even to odd, or back.
Odd(S, z) == Cardinality(S \cap z) % 2 = 1

LEMMA OddAdds ==
  ASSUME NEW S, IsFiniteSet(S), NEW z, NEW y, y \notin S
  PROVE  Odd(S \cup {y}, z) <=> ~(Odd(S, z) <=> y \in z)
<1> DEFINE A == S \cap z
<1>1. IsFiniteSet(A)
  BY FS_Subset
<1>2. y \in z => (S \cup {y}) \cap z = A \cup {y}
  OBVIOUS
<1>3. y \notin z => (S \cup {y}) \cap z = A
  OBVIOUS
<1>4. y \notin A
  OBVIOUS
<1> HIDE DEF A
<1>5. Cardinality(A \cup {y}) = Cardinality(A) + 1 /\ Cardinality(A) \in Nat
  BY <1>1, <1>4, FS_AddElement, FS_CardinalityType
<1>6. Cardinality(A \cup {y}) % 2 = 1 <=> ~(Cardinality(A) % 2 = 1)
  BY <1>5
<1> QED BY <1>2, <1>3, <1>6 DEF Odd, A

LEMMA OddOfThree ==
  ASSUME NEW a, NEW b, NEW d, NEW z, a # b, a # d, b # d
  PROVE  Odd({a, b, d}, z) <=> ~(~(a \in z <=> b \in z) <=> d \in z)
<1>1. Odd({}, z) = FALSE
  <2>1. {} \cap z = {} /\ Cardinality({}) = 0
    BY FS_EmptySet
  <2> QED BY <2>1 DEF Odd
<1>2. IsFiniteSet({}) /\ IsFiniteSet({a}) /\ IsFiniteSet({a, b})
  <2>1. IsFiniteSet({}) /\ IsFiniteSet({a})
    BY FS_EmptySet, FS_Singleton
  <2>2. IsFiniteSet({a} \cup {b})
    BY <2>1, FS_AddElement
  <2>3. {a, b} = {a} \cup {b}
    OBVIOUS
  <2> QED BY <2>1, <2>2, <2>3
<1>3. Odd({a}, z) <=> a \in z
  <2>1. {a} = {} \cup {a} /\ a \notin {}
    OBVIOUS
  <2>2. Odd({} \cup {a}, z) <=> ~(Odd({}, z) <=> a \in z)
    BY <1>2, <2>1, OddAdds
  <2> QED BY <1>1, <2>1, <2>2
<1>4. Odd({a, b}, z) <=> ~(a \in z <=> b \in z)
  <2>1. {a, b} = {a} \cup {b} /\ b \notin {a}
    OBVIOUS
  <2>2. Odd({a} \cup {b}, z) <=> ~(Odd({a}, z) <=> b \in z)
    BY <1>2, <2>1, OddAdds
  <2> QED BY <1>3, <2>1, <2>2
<1>5. Odd({a, b, d}, z) <=> ~(~(a \in z <=> b \in z) <=> d \in z)
  <2>1. {a, b, d} = {a, b} \cup {d} /\ d \notin {a, b}
    OBVIOUS
  <2>2. Odd({a, b} \cup {d}, z) <=> ~(Odd({a, b}, z) <=> d \in z)
    BY <1>2, <2>1, OddAdds
  <2> QED BY <1>4, <2>1, <2>2
<1> QED BY <1>5

LEMMA OddOfFive ==
  ASSUME NEW a, NEW b, NEW d, NEW e, NEW f, NEW z,
         a # b, a # d, a # e, a # f, b # d, b # e, b # f, d # e, d # f, e # f
  PROVE  Odd({a, b, d, e, f}, z) <=>
           ~(~(~(~(a \in z <=> b \in z) <=> d \in z) <=> e \in z) <=> f \in z)
<1>2. IsFiniteSet({a, b, d}) /\ IsFiniteSet({a, b, d, e})
  <2>1. IsFiniteSet({a})
    BY FS_Singleton
  <2>2. IsFiniteSet({a} \cup {b})
    BY <2>1, FS_AddElement
  <2>3. IsFiniteSet(({a} \cup {b}) \cup {d})
    BY <2>2, FS_AddElement
  <2>4. IsFiniteSet((({a} \cup {b}) \cup {d}) \cup {e})
    BY <2>3, FS_AddElement
  <2>5. /\ {a, b, d} = ({a} \cup {b}) \cup {d}
        /\ {a, b, d, e} = (({a} \cup {b}) \cup {d}) \cup {e}
    OBVIOUS
  <2> QED BY <2>3, <2>4, <2>5
<1>5. Odd({a, b, d}, z) <=> ~(~(a \in z <=> b \in z) <=> d \in z)
  BY OddOfThree
<1>6. Odd({a, b, d, e}, z) <=> ~(Odd({a, b, d}, z) <=> e \in z)
  <2>1. {a, b, d, e} = {a, b, d} \cup {e} /\ e \notin {a, b, d}
    OBVIOUS
  <2>2. Odd({a, b, d} \cup {e}, z) <=> ~(Odd({a, b, d}, z) <=> e \in z)
    BY <1>2, <2>1, OddAdds
  <2> QED BY <2>1, <2>2
<1>7. Odd({a, b, d, e, f}, z) <=> ~(Odd({a, b, d, e}, z) <=> f \in z)
  <2>1. {a, b, d, e, f} = {a, b, d, e} \cup {f} /\ f \notin {a, b, d, e}
    OBVIOUS
  <2>2. Odd({a, b, d, e} \cup {f}, z) <=> ~(Odd({a, b, d, e}, z) <=> f \in z)
    BY <1>2, <2>1, OddAdds
  <2> QED BY <2>1, <2>2
<1> QED BY <1>5, <1>6, <1>7

\* The rows of the two matrices.
LEMMA Rows ==
  LET F == C!forward_matrix  I == C!matrix_inv
  IN  /\ F[0] = {0, 4, 5, 6, 7} /\ F[1] = {0, 1, 5, 6, 7} /\ F[2] = {0, 1, 2, 6, 7}
      /\ F[3] = {0, 1, 2, 3, 7} /\ F[4] = {0, 1, 2, 3, 4} /\ F[5] = {1, 2, 3, 4, 5}
      /\ F[6] = {2, 3, 4, 5, 6} /\ F[7] = {3, 4, 5, 6, 7}
      /\ I[0] = {2, 5, 7} /\ I[1] = {0, 3, 6} /\ I[2] = {1, 4, 7} /\ I[3] = {0, 2, 5}
      /\ I[4] = {1, 3, 6} /\ I[5] = {2, 4, 7} /\ I[6] = {0, 3, 5} /\ I[7] = {1, 4, 6}
<1> DEFINE f == <<{0, 4, 5, 6, 7}, {0, 1, 5, 6, 7}, {0, 1, 2, 6, 7}, {0, 1, 2, 3, 7},
                  {0, 1, 2, 3, 4}, {1, 2, 3, 4, 5}, {2, 3, 4, 5, 6}, {3, 4, 5, 6, 7}>>
           g == <<{2, 5, 7}, {0, 3, 6}, {1, 4, 7}, {0, 2, 5},
                  {1, 3, 6}, {2, 4, 7}, {0, 3, 5}, {1, 4, 6}>>
<1>1. \A n \in 0..7 : C!forward_matrix[n] = f[n + 1] /\ C!matrix_inv[n] = g[n + 1]
  BY SameBytes DEF C!forward_matrix, C!matrix_inv, Bits
<1>2. /\ f[1] = {0, 4, 5, 6, 7} /\ f[2] = {0, 1, 5, 6, 7} /\ f[3] = {0, 1, 2, 6, 7}
      /\ f[4] = {0, 1, 2, 3, 7} /\ f[5] = {0, 1, 2, 3, 4} /\ f[6] = {1, 2, 3, 4, 5}
      /\ f[7] = {2, 3, 4, 5, 6} /\ f[8] = {3, 4, 5, 6, 7}
  OBVIOUS
<1>3. /\ g[1] = {2, 5, 7} /\ g[2] = {0, 3, 6} /\ g[3] = {1, 4, 7} /\ g[4] = {0, 2, 5}
      /\ g[5] = {1, 3, 6} /\ g[6] = {2, 4, 7} /\ g[7] = {0, 3, 5} /\ g[8] = {1, 4, 6}
  OBVIOUS
<1> HIDE DEF f, g
<1>4. /\ 0 \in 0..7 /\ 0 + 1 = 1 /\ 1 \in 0..7 /\ 1 + 1 = 2 /\ 2 \in 0..7 /\ 2 + 1 = 3
      /\ 3 \in 0..7 /\ 3 + 1 = 4 /\ 4 \in 0..7 /\ 4 + 1 = 5 /\ 5 \in 0..7 /\ 5 + 1 = 6
      /\ 6 \in 0..7 /\ 6 + 1 = 7 /\ 7 \in 0..7 /\ 7 + 1 = 8
  OBVIOUS
<1> QED BY <1>1, <1>2, <1>3, <1>4

\* The linear transform, bit by bit, and the one that undoes it.
Linear(z) == {n \in Bits : Odd(C!forward_matrix[n], z)}

LEMMA LinearBits ==
  ASSUME NEW z
  PROVE  /\ 0 \in Linear(z) <=> ~(~(~(~(0 \in z <=> 4 \in z) <=> 5 \in z) <=> 6 \in z) <=> 7 \in z)
         /\ 1 \in Linear(z) <=> ~(~(~(~(0 \in z <=> 1 \in z) <=> 5 \in z) <=> 6 \in z) <=> 7 \in z)
         /\ 2 \in Linear(z) <=> ~(~(~(~(0 \in z <=> 1 \in z) <=> 2 \in z) <=> 6 \in z) <=> 7 \in z)
         /\ 3 \in Linear(z) <=> ~(~(~(~(0 \in z <=> 1 \in z) <=> 2 \in z) <=> 3 \in z) <=> 7 \in z)
         /\ 4 \in Linear(z) <=> ~(~(~(~(0 \in z <=> 1 \in z) <=> 2 \in z) <=> 3 \in z) <=> 4 \in z)
         /\ 5 \in Linear(z) <=> ~(~(~(~(1 \in z <=> 2 \in z) <=> 3 \in z) <=> 4 \in z) <=> 5 \in z)
         /\ 6 \in Linear(z) <=> ~(~(~(~(2 \in z <=> 3 \in z) <=> 4 \in z) <=> 5 \in z) <=> 6 \in z)
         /\ 7 \in Linear(z) <=> ~(~(~(~(3 \in z <=> 4 \in z) <=> 5 \in z) <=> 6 \in z) <=> 7 \in z)
<1>1. /\ 0 \in Bits /\ 1 \in Bits /\ 2 \in Bits /\ 3 \in Bits
      /\ 4 \in Bits /\ 5 \in Bits /\ 6 \in Bits /\ 7 \in Bits
  BY DEF Bits
<1>2. \A n \in Bits : n \in Linear(z) <=> Odd(C!forward_matrix[n], z)
  BY DEF Linear
<1>3. 0 \in Linear(z) <=> Odd({0, 4, 5, 6, 7}, z)
  BY <1>1, <1>2, Rows
<1>4. 1 \in Linear(z) <=> Odd({0, 1, 5, 6, 7}, z)
  BY <1>1, <1>2, Rows
<1>5. 2 \in Linear(z) <=> Odd({0, 1, 2, 6, 7}, z)
  BY <1>1, <1>2, Rows
<1>6. 3 \in Linear(z) <=> Odd({0, 1, 2, 3, 7}, z)
  BY <1>1, <1>2, Rows
<1>7. 4 \in Linear(z) <=> Odd({0, 1, 2, 3, 4}, z)
  BY <1>1, <1>2, Rows
<1>8. 5 \in Linear(z) <=> Odd({1, 2, 3, 4, 5}, z)
  BY <1>1, <1>2, Rows
<1>9. 6 \in Linear(z) <=> Odd({2, 3, 4, 5, 6}, z)
  BY <1>1, <1>2, Rows
<1>10. 7 \in Linear(z) <=> Odd({3, 4, 5, 6, 7}, z)
  BY <1>1, <1>2, Rows
<1>11. 0 \in Linear(z) <=> ~(~(~(~(0 \in z <=> 4 \in z) <=> 5 \in z) <=> 6 \in z) <=> 7 \in z)
  BY <1>3, OddOfFive
<1>12. 1 \in Linear(z) <=> ~(~(~(~(0 \in z <=> 1 \in z) <=> 5 \in z) <=> 6 \in z) <=> 7 \in z)
  BY <1>4, OddOfFive
<1>13. 2 \in Linear(z) <=> ~(~(~(~(0 \in z <=> 1 \in z) <=> 2 \in z) <=> 6 \in z) <=> 7 \in z)
  BY <1>5, OddOfFive
<1>14. 3 \in Linear(z) <=> ~(~(~(~(0 \in z <=> 1 \in z) <=> 2 \in z) <=> 3 \in z) <=> 7 \in z)
  BY <1>6, OddOfFive
<1>15. 4 \in Linear(z) <=> ~(~(~(~(0 \in z <=> 1 \in z) <=> 2 \in z) <=> 3 \in z) <=> 4 \in z)
  BY <1>7, OddOfFive
<1>16. 5 \in Linear(z) <=> ~(~(~(~(1 \in z <=> 2 \in z) <=> 3 \in z) <=> 4 \in z) <=> 5 \in z)
  BY <1>8, OddOfFive
<1>17. 6 \in Linear(z) <=> ~(~(~(~(2 \in z <=> 3 \in z) <=> 4 \in z) <=> 5 \in z) <=> 6 \in z)
  BY <1>9, OddOfFive
<1>18. 7 \in Linear(z) <=> ~(~(~(~(3 \in z <=> 4 \in z) <=> 5 \in z) <=> 6 \in z) <=> 7 \in z)
  BY <1>10, OddOfFive
<1> QED BY <1>11, <1>12, <1>13, <1>14, <1>15, <1>16, <1>17, <1>18

LEMMA LinearUndone ==
  ASSUME NEW z \in Byte
  PROVE  {n \in Bits : Odd(C!matrix_inv[n], Linear(z))} = z
<1> DEFINE y == Linear(z)
           w == {n \in Bits : Odd(C!matrix_inv[n], y)}
<1>1. /\ 0 \in Bits /\ 1 \in Bits /\ 2 \in Bits /\ 3 \in Bits
      /\ 4 \in Bits /\ 5 \in Bits /\ 6 \in Bits /\ 7 \in Bits
  BY DEF Bits
<1>2. \A n \in Bits : n \in w <=> Odd(C!matrix_inv[n], y)
  OBVIOUS
<1> HIDE DEF w, y
<1>3. /\ (0 \in w <=> Odd({2, 5, 7}, y)) /\ (1 \in w <=> Odd({0, 3, 6}, y))
      /\ (2 \in w <=> Odd({1, 4, 7}, y)) /\ (3 \in w <=> Odd({0, 2, 5}, y))
      /\ (4 \in w <=> Odd({1, 3, 6}, y)) /\ (5 \in w <=> Odd({2, 4, 7}, y))
      /\ (6 \in w <=> Odd({0, 3, 5}, y)) /\ (7 \in w <=> Odd({1, 4, 6}, y))
  BY <1>1, <1>2, Rows
<1>4. \A a, b, d \in 0..7 : a # b /\ a # d /\ b # d =>
        (Odd({a, b, d}, y) <=> ~(~(a \in y <=> b \in y) <=> d \in y))
  <2> TAKE a, b, d \in 0..7
  <2> HAVE a # b /\ a # d /\ b # d
  <2> QED BY OddOfThree
<1>5. /\ 0 \in w <=> ~(~(2 \in y <=> 5 \in y) <=> 7 \in y)
      /\ 1 \in w <=> ~(~(0 \in y <=> 3 \in y) <=> 6 \in y)
      /\ 2 \in w <=> ~(~(1 \in y <=> 4 \in y) <=> 7 \in y)
      /\ 3 \in w <=> ~(~(0 \in y <=> 2 \in y) <=> 5 \in y)
      /\ 4 \in w <=> ~(~(1 \in y <=> 3 \in y) <=> 6 \in y)
      /\ 5 \in w <=> ~(~(2 \in y <=> 4 \in y) <=> 7 \in y)
      /\ 6 \in w <=> ~(~(0 \in y <=> 3 \in y) <=> 5 \in y)
      /\ 7 \in w <=> ~(~(1 \in y <=> 4 \in y) <=> 6 \in y)
  BY <1>3, <1>4
<1>6. /\ (0 \in w <=> 0 \in z) /\ (1 \in w <=> 1 \in z) /\ (2 \in w <=> 2 \in z) /\ (3 \in w <=> 3 \in z)
      /\ (4 \in w <=> 4 \in z) /\ (5 \in w <=> 5 \in z) /\ (6 \in w <=> 6 \in z) /\ (7 \in w <=> 7 \in z)
  BY <1>5, LinearBits DEF y
<1>7. \A n \in Bits : n \in {0, 1, 2, 3, 4, 5, 6, 7}
  BY DEF Bits
<1>8. w \subseteq Bits /\ z \subseteq Bits
  BY DEF w, Byte
<1> QED BY <1>6, <1>7, <1>8 DEF w, y

\* The transform of the S-box is the device's rotations and additions.
LEMMA TransformedBits ==
  \A z : C!transformed(z) = Linear(z) (+) {0, 1, 5, 6}
BY SameBytes DEF C!transformed, C!forward_add, Linear, Odd, C!Cardinality, Cardinality

LEMMA RotatedBits ==
  ASSUME NEW z \in Byte
  PROVE  /\ RotateLeft(z) \in Byte
         /\ 0 \in RotateLeft(z) <=> 7 \in z
         /\ 1 \in RotateLeft(z) <=> 0 \in z
         /\ 2 \in RotateLeft(z) <=> 1 \in z
         /\ 3 \in RotateLeft(z) <=> 2 \in z
         /\ 4 \in RotateLeft(z) <=> 3 \in z
         /\ 5 \in RotateLeft(z) <=> 4 \in z
         /\ 6 \in RotateLeft(z) <=> 5 \in z
         /\ 7 \in RotateLeft(z) <=> 6 \in z
<1>1. \A bit \in z : bit \in {0, 1, 2, 3, 4, 5, 6, 7}
  BY DEF Byte, Bits
<1>2. /\ (0 + 1) % 8 = 1 /\ (1 + 1) % 8 = 2 /\ (2 + 1) % 8 = 3 /\ (3 + 1) % 8 = 4
      /\ (4 + 1) % 8 = 5 /\ (5 + 1) % 8 = 6 /\ (6 + 1) % 8 = 7 /\ (7 + 1) % 8 = 0
  OBVIOUS
<1>3. \A e : e \in RotateLeft(z) <=> \E bit \in z : e = (bit + 1) % 8
  BY DEF RotateLeft
<1>4. \A bit \in z : (bit + 1) % 8 \in 0..7
  BY <1>1, <1>2
<1> QED BY <1>1, <1>2, <1>3, <1>4 DEF Byte, Bits

Affine(z) ==
  LET x1 == RotateLeft(z)   x2 == RotateLeft(x1)
      x3 == RotateLeft(x2)  x4 == RotateLeft(x3)
  IN  z (+) (x1 (+) (x2 (+) (x3 (+) (x4 (+) {0, 1, 5, 6}))))

LEMMA SameTransform ==
  ASSUME NEW z \in Byte
  PROVE  C!transformed(z) = Affine(z) /\ Affine(z) \in Byte
<1> DEFINE x1 == RotateLeft(z)   x2 == RotateLeft(x1)
           x3 == RotateLeft(x2)  x4 == RotateLeft(x3)
           sum == z (+) (x1 (+) (x2 (+) (x3 (+) x4)))
<1>1. x1 \in Byte /\ x2 \in Byte /\ x3 \in Byte /\ x4 \in Byte
  BY RotatedBits
<1>2. Affine(z) = sum (+) {0, 1, 5, 6}
  BY XorAssociates DEF Affine
<1> HIDE DEF x1, x2, x3, x4
<1>3. sum \in Byte
  BY <1>1, XorIsByte
<1>4. Linear(z) \in Byte
  BY DEF Linear, Byte
<1>5. \A e : e \in sum <=> ~(e \in z <=> ~(e \in x1 <=> ~(e \in x2 <=> ~(e \in x3 <=> e \in x4))))
  BY DEF (+)
<1> HIDE DEF sum
<1>6. /\ 0 \in x1 <=> 7 \in z
      /\ 1 \in x1 <=> 0 \in z
      /\ 2 \in x1 <=> 1 \in z
      /\ 3 \in x1 <=> 2 \in z
      /\ 4 \in x1 <=> 3 \in z
      /\ 5 \in x1 <=> 4 \in z
      /\ 6 \in x1 <=> 5 \in z
      /\ 7 \in x1 <=> 6 \in z
  BY RotatedBits DEF x1
<1>7. /\ 0 \in x2 <=> 7 \in x1
      /\ 1 \in x2 <=> 0 \in x1
      /\ 2 \in x2 <=> 1 \in x1
      /\ 3 \in x2 <=> 2 \in x1
      /\ 4 \in x2 <=> 3 \in x1
      /\ 5 \in x2 <=> 4 \in x1
      /\ 6 \in x2 <=> 5 \in x1
      /\ 7 \in x2 <=> 6 \in x1
  BY <1>1, RotatedBits DEF x2
<1>8. /\ 0 \in x3 <=> 7 \in x2
      /\ 1 \in x3 <=> 0 \in x2
      /\ 2 \in x3 <=> 1 \in x2
      /\ 3 \in x3 <=> 2 \in x2
      /\ 4 \in x3 <=> 3 \in x2
      /\ 5 \in x3 <=> 4 \in x2
      /\ 6 \in x3 <=> 5 \in x2
      /\ 7 \in x3 <=> 6 \in x2
  BY <1>1, RotatedBits DEF x3
<1>9. /\ 0 \in x4 <=> 7 \in x3
      /\ 1 \in x4 <=> 0 \in x3
      /\ 2 \in x4 <=> 1 \in x3
      /\ 3 \in x4 <=> 2 \in x3
      /\ 4 \in x4 <=> 3 \in x3
      /\ 5 \in x4 <=> 4 \in x3
      /\ 6 \in x4 <=> 5 \in x3
      /\ 7 \in x4 <=> 6 \in x3
  BY <1>1, RotatedBits DEF x4
<1>10. /\ 0 \in sum <=> 0 \in Linear(z)
       /\ 1 \in sum <=> 1 \in Linear(z)
       /\ 2 \in sum <=> 2 \in Linear(z)
       /\ 3 \in sum <=> 3 \in Linear(z)
       /\ 4 \in sum <=> 4 \in Linear(z)
       /\ 5 \in sum <=> 5 \in Linear(z)
       /\ 6 \in sum <=> 6 \in Linear(z)
       /\ 7 \in sum <=> 7 \in Linear(z)
  BY <1>5, <1>6, <1>7, <1>8, <1>9, LinearBits
<1>11. \A n \in Bits : n \in {0, 1, 2, 3, 4, 5, 6, 7}
  BY DEF Bits
<1>12. sum = Linear(z)
  BY <1>3, <1>4, <1>10, <1>11 DEF Byte
<1>13. {0, 1, 5, 6} \in Byte
  BY DEF Byte, Bits
<1> QED BY <1>2, <1>3, <1>12, <1>13, TransformedBits, XorIsByte

LEMMA Untransforms ==
  ASSUME NEW z \in Byte
  PROVE  C!untransformed(C!transformed(z)) = z
<1>1. \A y : C!untransformed(y) = {n \in Bits : Odd(C!matrix_inv[n], y (+) {0, 1, 5, 6})}
  BY SameBytes DEF C!untransformed, C!forward_add, Odd, C!Cardinality, Cardinality
<1>2. C!transformed(z) (+) {0, 1, 5, 6} = Linear(z)
  BY TransformedBits, XorTwice
<1> QED BY <1>1, <1>2, LinearUndone

LEMMA ValueIs ==
  ASSUME NEW b PROVE Value(b) \in 0..255
<1>1. \A q : Bit(q, b) \in {0, 1}
  BY DEF Bit
<1>2. /\ Bit(0, b) \in {0, 1} /\ Bit(1, b) \in {0, 1} /\ Bit(2, b) \in {0, 1}
      /\ Bit(3, b) \in {0, 1} /\ Bit(4, b) \in {0, 1} /\ Bit(5, b) \in {0, 1}
      /\ Bit(6, b) \in {0, 1} /\ Bit(7, b) \in {0, 1}
  BY <1>1
<1> QED BY <1>2 DEF Value

LEMMA InverseIsByte == \A v : InverseByte(v) \in Byte
BY DEF InverseByte, NumByte, Byte, Bits, Zero

\* The device's table of the S-box.
LEMMA SubByteIs ==
  ASSUME NEW b
  PROVE  SubByte(b) = Affine(InverseByte(Value(b))) /\ SubByte(b) \in Byte
<1>1. FSb = [v \in 0..255 |-> Affine(InverseByte(v))]
  BY DEF FSb, Affine, InverseByte
<1>2. SubByte(b) = Affine(InverseByte(Value(b)))
  BY <1>1, ValueIs DEF SubByte
<1> QED BY <1>2, InverseIsByte, SameTransform

\* Bits, added up as powers of the embedding of 2.
LEMMA PowersAdd ==
  ASSUME NEW z
  PROVE  C!Sum(Bits, [n \in Bits |-> C!Mul(C!ApplyEmbedding(IF n \in z THEN {0} ELSE {}), C!K01[n])])
           = Emb(z)
<1> DEFINE f == [n \in Bits |-> C!Mul(C!ApplyEmbedding(IF n \in z THEN {0} ELSE {}), C!K01[n])]
<1>1. \A n \in Bits : f[n] = IF n \in z THEN C!Column[n] ELSE {}
  <2> TAKE n \in Bits
  <2>1. C!ApplyEmbedding({n}) = C!Column[n]
    <3>1. {n} \cap Bits = {n}
      OBVIOUS
    <3>2. C!ApplyEmbedding({n}) = XorAll({n} \cap Bits, C!Column)
      BY SameBytes DEF C!ApplyEmbedding
    <3>3. C!ApplyEmbedding({n}) = XorAll({n}, C!Column)
      BY <3>1, <3>2
    <3> QED BY <3>3, XorAllOne
  <2>2. /\ C!Mul(C!ApplyEmbedding({0}), C!K01[n]) = C!ApplyEmbedding({n})
        /\ C!Mul(C!ApplyEmbedding({}), C!K01[n]) = {}
    BY EmbeddingAssumption
  <2> QED BY <2>1, <2>2
<1> HIDE DEF f
<1>2. XorAll(Bits, f) = XorAll(z \cap Bits, C!Column)
  <2> SUFFICES ASSUME NEW e
               PROVE  e \in XorAll(Bits, f) <=> e \in XorAll(z \cap Bits, C!Column)
    OBVIOUS
  <2>1. {s \in Bits : e \in f[s]} = {s \in z \cap Bits : e \in C!Column[s]}
    BY <1>1
  <2>2. e \in XorAll(Bits, f) <=> Cardinality({s \in Bits : e \in f[s]}) % 2 = 1
    BY InXorAll
  <2> DEFINE T == z \cap Bits
             g == C!Column
  <2>3. {s \in Bits : e \in f[s]} = {s \in T : e \in g[s]}
    BY <2>1
  <2> HIDE DEF T, g
  <2>4. e \in XorAll(T, g) <=> Cardinality({s \in T : e \in g[s]}) % 2 = 1
    BY InXorAll
  <2> QED BY <2>2, <2>3, <2>4 DEF T, g
<1>3. Emb(z) = XorAll(z \cap Bits, C!Column)
  BY SameBytes DEF Emb, C!ApplyEmbedding
<1> QED BY <1>2, <1>3, SameBytes DEF f

\* On an embedded byte the computation's S-box is the device's, and the inverse
\* S-box undoes it.
LEMMA SboxEmbeds ==
  ASSUME NEW b \in Byte
  PROVE  /\ C!forward_bit_sbox(Emb(b)) = Emb(SubByte(b))
         /\ C!backward_bit_sbox(Emb(SubByte(b))) = Emb(b)
<1> DEFINE inverse == InverseByte(Value(b))
           s == SubByte(b)
           ToSum(bits) == C!Sum(Bits, [n \in Bits |->
                            C!Mul(C!ApplyEmbedding(IF n \in bits THEN {0} ELSE {}), C!K01[n])])
<1>1. inverse \in Byte
  BY InverseIsByte
<1>2. /\ C!InverseEmbedding(Emb(b)) = b
      /\ C!PowerOf(b) = Emb(inverse)
      /\ InverseByte(Value(inverse)) = b
  BY EmbeddingAssumption DEF Emb
<1>3. s = C!transformed(inverse) /\ s \in Byte
  BY <1>1, SubByteIs, SameTransform
<1> HIDE DEF inverse, s
<1>4. C!InverseEmbedding(Emb(inverse)) = inverse /\ C!PowerOf(inverse) = Emb(b)
      /\ C!InverseEmbedding(Emb(s)) = s
  BY <1>1, <1>2, <1>3, EmbeddingAssumption DEF Emb
<1>5. C!inverseMod(Emb(b)) = Emb(inverse)
  <2>1. \A x : C!Once(x, C!PowerOf) = C!PowerOf(x)
    BY DEF C!Once
  <2> QED BY <1>2, <2>1 DEF C!inverseMod
<1>6. C!forward_bit_sbox(Emb(b)) = Emb(s)
  <2> DEFINE e == Emb(b)
  <2>1. C!forward_bit_sbox(e) =
          C!Once(C!transformed(C!Once(C!inverseMod(e), C!InverseEmbedding)), ToSum)
    BY SameBytes DEF C!forward_bit_sbox
  <2> HIDE DEF e, ToSum
  <2>2. \A x : C!Once(x, C!InverseEmbedding) = C!InverseEmbedding(x)
    BY DEF C!Once
  <2>3. \A x : C!Once(x, ToSum) = ToSum(x)
    BY DEF C!Once
  <2>4. C!forward_bit_sbox(e) = ToSum(s)
    BY <1>3, <1>4, <1>5, <2>1, <2>2, <2>3 DEF e
  <2> QED BY <2>4, PowersAdd DEF ToSum, e
<1>7. C!backward_bit_sbox(Emb(s)) = Emb(b)
  <2> DEFINE e == Emb(s)
  <2>1. C!backward_bit_sbox(e) = C!Once(C!untransformed(C!InverseEmbedding(e)), C!PowerOf)
    BY DEF C!backward_bit_sbox
  <2>2. C!InverseEmbedding(e) = s
    BY <1>4
  <2> HIDE DEF e
  <2>3. \A x : C!Once(x, C!PowerOf) = C!PowerOf(x)
    BY DEF C!Once
  <2>4. C!untransformed(s) = inverse
    BY <1>1, <1>3, Untransforms
  <2> QED BY <1>4, <2>1, <2>2, <2>3, <2>4 DEF e
<1> QED BY <1>6, <1>7 DEF s

(* The rounds, byte by byte.                                              *)
\* Byte q of the block that one round's S-boxes and rows give, the position n rows
\* further down in its column, and what the columns become.
SubShift(z) == [q \in 0..15 |-> SubByte(z[From(q, q % 4)])]
At(q, n)    == 4 * (q \div 4) + ((q + n) % 4)
Mixed(s)    == [q \in 0..15 |-> XTIME(s[q]) (+) ((s[At(q, 1)] (+) XTIME(s[At(q, 1)]))
                                            (+) (s[At(q, 2)] (+) s[At(q, 3)]))]
Added(key, z) == [q \in 0..15 |-> key[q] (+) z[q]]

LEMMA Positions ==
  /\ \A q \in 0..15, n \in 0..3 : From(q, n) \in 0..15 /\ At(q, n) \in 0..15 /\ At(q, 0) = q
  /\ \A q \in 0..15 : From(q, q % 4) = (q + 4 * (q % 4)) % 16
<1>1. \A q \in 0..15 : q \in {0, 1, 2, 3, 4, 5, 6, 7, 8, 9, 10, 11, 12, 13, 14, 15}
  OBVIOUS
<1>2. \A n \in 0..3 : n \in {0, 1, 2, 3}
  OBVIOUS
<1> QED BY <1>1, <1>2 DEF From, At

LEMMA BytesOf ==
  ASSUME NEW z \in Block
  PROVE  \A q \in 0..15 : z[q] \in Byte
BY DEF Block, Buffer, BlockLen

LEMMA SubByteIsByte == \A b : SubByte(b) \in Byte
BY SubByteIs

LEMMA RoundBlocks ==
  ASSUME NEW z \in Block
  PROVE  /\ SubShift(z) \in Block /\ Mixed(z) \in Block
         /\ \A key \in Block : Added(key, z) \in Block
<1>1. SubShift(z) \in Block
  <2>1. \A q \in 0..15 : q % 4 \in 0..3
    OBVIOUS
  <2>2. \A q \in 0..15 : SubByte(z[From(q, q % 4)]) \in Byte
    BY <2>1, Positions, BytesOf, SubByteIsByte
  <2> QED BY <2>2 DEF SubShift, Block, Buffer, BlockLen
<1>2. Mixed(z) \in Block
  <2>1. \A q \in 0..15, n \in 1..3 : z[At(q, n)] \in Byte
    BY Positions, BytesOf
  <2>2. \A q \in 0..15 : XTIME(z[q]) (+) ((z[At(q, 1)] (+) XTIME(z[At(q, 1)]))
                                      (+) (z[At(q, 2)] (+) z[At(q, 3)])) \in Byte
    BY <2>1, BytesOf, XorIsByte, XtimeIsByte
  <2> QED BY <2>2 DEF Mixed, Block, Buffer, BlockLen
<1>3. ASSUME NEW key \in Block PROVE Added(key, z) \in Block
  <2>1. \A q \in 0..15 : key[q] (+) z[q] \in Byte
    BY BytesOf, XorIsByte
  <2> QED BY <2>1 DEF Added, Block, Buffer, BlockLen
<1> QED BY <1>1, <1>2, <1>3

(* What the computation does to embedded bytes, part by part.              *)
LEMMA Substituted ==
  ASSUME NEW z \in Block
  PROVE  C!shiftRows(C!subBytes(EmbAll(z))) = EmbAll(SubShift(z))
<1>1. C!subBytes(EmbAll(z)) = [q \in 0..15 |-> Emb(SubByte(z[q]))]
  <2>1. \A q \in 0..15 : C!forward_bit_sbox(Emb(z[q])) = Emb(SubByte(z[q]))
    BY BytesOf, SboxEmbeds
  <2> QED BY <2>1 DEF C!subBytes, EmbAll
<1>2. \A q \in 0..15 : (q + 4 * (q % 4)) % 16 \in 0..15 /\ (q + 4 * (q % 4)) % 16 = From(q, q % 4)
  BY Positions
<1>3. C!shiftRows(C!subBytes(EmbAll(z))) = [q \in 0..15 |-> Emb(SubByte(z[From(q, q % 4)]))]
  BY <1>1, <1>2 DEF C!shiftRows
<1> QED BY <1>3 DEF EmbAll, SubShift

LEMMA MixedColumns ==
  ASSUME NEW s \in Block
  PROVE  C!mixColumns(EmbAll(s)) = EmbAll(Mixed(s))
<1> DEFINE e == EmbAll(s)
           d == [q \in 0..15 |-> C!Mul(C!ApplyEmbedding({1}), e[q])]
<1>1. C!mixColumns(e) = [q \in 0..15 |-> d[q] (+) ((e[At(q, 1)] (+) d[At(q, 1)])
                                                (+) (e[At(q, 2)] (+) e[At(q, 3)]))]
  BY SameBytes DEF C!mixColumns, C!Once, At
<1>2. \A q \in 0..15 : e[q] = Emb(s[q])
  BY DEF EmbAll
<1>3. \A q \in 0..15 : d[q] = Emb(XTIME(s[q]))
  BY <1>2, BytesOf, EmbeddingAssumption DEF Emb
<1> HIDE DEF e, d
<1>4. ASSUME NEW q \in 0..15
      PROVE  d[q] (+) ((e[At(q, 1)] (+) d[At(q, 1)]) (+) (e[At(q, 2)] (+) e[At(q, 3)]))
               = Emb(Mixed(s)[q])
  <2>1. At(q, 1) \in 0..15 /\ At(q, 2) \in 0..15 /\ At(q, 3) \in 0..15
    BY Positions
  <2>2. Mixed(s)[q] = XTIME(s[q]) (+) ((s[At(q, 1)] (+) XTIME(s[At(q, 1)]))
                                    (+) (s[At(q, 2)] (+) s[At(q, 3)]))
    BY DEF Mixed
  <2> QED BY <1>2, <1>3, <2>1, <2>2, EmbAdds
<1> QED BY <1>1, <1>4 DEF EmbAll, e

LEMMA AddedKey ==
  ASSUME NEW key, NEW z
  PROVE  C!addRoundKey(EmbAll(z), EmbAll(key)) = EmbAll(Added(key, z))
<1>1. \A q \in 0..15 : Emb(z[q]) (+) Emb(key[q]) = Emb(key[q] (+) z[q])
  BY EmbAdds, XorCommutes
<1> QED BY <1>1, SameBytes DEF C!addRoundKey, EmbAll, Added

(* The device computes a round by looking up columns.                      *)
LEMMA LookUps ==
  ASSUME NEW key, NEW z \in Block
  PROVE  AES_FROUND(key, z) = Added(key, Mixed(SubShift(z)))
<1> DEFINE T == [q \in 0..15 |-> FT[Value(z[q])]]
           s == SubShift(z)
<1>1. AES_FROUND(key, z) = Columns(T, key)
  BY DEF AES_FROUND, Once
<1>2. \A b : Value(b) \in 0..255
  BY ValueIs
<1>3. \A q \in 0..15 : /\ T[q][0] = XTIME(SubByte(z[q]))
                       /\ T[q][1] = SubByte(z[q]) /\ T[q][2] = SubByte(z[q])
                       /\ T[q][3] = SubByte(z[q]) (+) XTIME(SubByte(z[q]))
  <2> DEFINE L(x, j) == CASE j = 0 -> XTIME(x) [] j \in {1, 2} -> x [] j = 3 -> XTIME(x) (+) x
  <2>1. \A v \in 0..255 : FT[v] = [j \in 0..3 |-> L(FSb[v], j)]
    BY DEF FT
  <2>2. \A x : L(x, 0) = XTIME(x) /\ L(x, 1) = x /\ L(x, 2) = x /\ L(x, 3) = XTIME(x) (+) x
    <3>1. 0 # 1 /\ 0 # 2 /\ 0 # 3 /\ 1 # 3 /\ 2 # 3
      OBVIOUS
    <3> QED BY <3>1, Zenon
  <2> HIDE DEF L
  <2>2a. \A v \in 0..255 : \A j \in 0..3 : FT[v][j] = L(FSb[v], j)
    BY <2>1
  <2>2b. 0 \in 0..3 /\ 1 \in 0..3 /\ 2 \in 0..3 /\ 3 \in 0..3
    OBVIOUS
  <2>3. \A v \in 0..255 : /\ FT[v][0] = XTIME(FSb[v]) /\ FT[v][1] = FSb[v]
                         /\ FT[v][2] = FSb[v] /\ FT[v][3] = XTIME(FSb[v]) (+) FSb[v]
    BY <2>2, <2>2a, <2>2b, Zenon
  <2> QED BY <1>2, <2>3, XorCommutes DEF SubByte
<1>4. ASSUME NEW q \in 0..15, NEW n \in 0..3 PROVE s[At(q, n)] = SubByte(z[From(q, (q + n) % 4)])
  <2>1. At(q, n) \in 0..15
    BY Positions
  <2>2. From(At(q, n), At(q, n) % 4) = From(q, (q + n) % 4)
    BY DEF At, From
  <2> QED BY <2>1, <2>2 DEF SubShift
<1> HIDE DEF T, s
<1>5. ASSUME NEW q \in 0..15
      PROVE  (T[From(q, 0)][q % 4] (+) T[From(q, 1)][((q % 4) + 3) % 4])
               (+) (T[From(q, 2)][((q % 4) + 2) % 4] (+) T[From(q, 3)][((q % 4) + 1) % 4])
             = XTIME(s[q]) (+) ((s[At(q, 1)] (+) XTIME(s[At(q, 1)]))
                            (+) (s[At(q, 2)] (+) s[At(q, 3)]))
  <2> DEFINE x(n) == SubByte(z[From(q, n)])
  <2>1. \A n \in 0..3 : From(q, n) \in 0..15
    BY Positions
  <2>2. \A n \in 0..3 : /\ T[From(q, n)][0] = XTIME(x(n)) /\ T[From(q, n)][1] = x(n)
                       /\ T[From(q, n)][2] = x(n) /\ T[From(q, n)][3] = x(n) (+) XTIME(x(n))
    BY <1>3, <2>1
  <2>3. \A n \in 0..3 : s[At(q, n)] = x((q + n) % 4)
    BY <1>4
  <2>4. s[At(q, 0)] = s[q]
    BY Positions
  <2> HIDE DEF x
  <2>5. /\ s[q] = x((q + 0) % 4) /\ s[At(q, 1)] = x((q + 1) % 4)
        /\ s[At(q, 2)] = x((q + 2) % 4) /\ s[At(q, 3)] = x((q + 3) % 4)
    BY <2>3, <2>4
  <2>6. CASE q % 4 = 0
    <3>1. /\ s[q] = x(0) /\ s[At(q, 1)] = x(1) /\ s[At(q, 2)] = x(2) /\ s[At(q, 3)] = x(3)
      BY <2>5, <2>6
    <3>2. /\ T[From(q, 0)][q % 4] = XTIME(x(0)) /\ T[From(q, 1)][((q % 4) + 3) % 4] = x(1) (+) XTIME(x(1))
          /\ T[From(q, 2)][((q % 4) + 2) % 4] = x(2) /\ T[From(q, 3)][((q % 4) + 1) % 4] = x(3)
      BY <2>2, <2>6
    <3> QED BY <3>1, <3>2, XorAssociates
  <2>7. CASE q % 4 = 1
    <3>1. /\ s[q] = x(1) /\ s[At(q, 1)] = x(2) /\ s[At(q, 2)] = x(3) /\ s[At(q, 3)] = x(0)
      BY <2>5, <2>7
    <3>2. /\ T[From(q, 0)][q % 4] = x(0) /\ T[From(q, 1)][((q % 4) + 3) % 4] = XTIME(x(1))
          /\ T[From(q, 2)][((q % 4) + 2) % 4] = x(2) (+) XTIME(x(2)) /\ T[From(q, 3)][((q % 4) + 1) % 4] = x(3)
      BY <2>2, <2>7
    <3>3. \A a, b, d, e : (a (+) b) (+) (d (+) e) = b (+) (d (+) (e (+) a))
      BY DEF (+)
    <3> QED BY <3>1, <3>2, <3>3
  <2>8. CASE q % 4 = 2
    <3>1. /\ s[q] = x(2) /\ s[At(q, 1)] = x(3) /\ s[At(q, 2)] = x(0) /\ s[At(q, 3)] = x(1)
      BY <2>5, <2>8
    <3>2. /\ T[From(q, 0)][q % 4] = x(0) /\ T[From(q, 1)][((q % 4) + 3) % 4] = x(1)
          /\ T[From(q, 2)][((q % 4) + 2) % 4] = XTIME(x(2)) /\ T[From(q, 3)][((q % 4) + 1) % 4] = x(3) (+) XTIME(x(3))
      BY <2>2, <2>8
    <3>3. \A a, b, d, e : (a (+) b) (+) (d (+) e) = d (+) (e (+) (a (+) b))
      BY DEF (+)
    <3> QED BY <3>1, <3>2, <3>3
  <2>9. CASE q % 4 = 3
    <3>1. /\ s[q] = x(3) /\ s[At(q, 1)] = x(0) /\ s[At(q, 2)] = x(1) /\ s[At(q, 3)] = x(2)
      BY <2>5, <2>9
    <3>2. /\ T[From(q, 0)][q % 4] = x(0) (+) XTIME(x(0)) /\ T[From(q, 1)][((q % 4) + 3) % 4] = x(1)
          /\ T[From(q, 2)][((q % 4) + 2) % 4] = x(2) /\ T[From(q, 3)][((q % 4) + 1) % 4] = XTIME(x(3))
      BY <2>2, <2>9
    <3>3. \A a, b, d, e : (a (+) b) (+) (d (+) e) = e (+) (a (+) (b (+) d))
      BY DEF (+)
    <3> QED BY <3>1, <3>2, <3>3
  <2> QED BY <2>6, <2>7, <2>8, <2>9
<1> QED BY <1>1, <1>5 DEF Columns, Added, Mixed, s

(* The key schedule.                                                       *)
LEMMA EmbZero == Emb({}) = {}
<1>1. Emb({}) = XorAll({}, C!Column)
  BY SameBytes DEF Emb, C!ApplyEmbedding
<1>2. XorAll({}, C!Column) = {}
  BY DEF XorAll
<1> QED BY <1>1, <1>2

\* What the first word of a round key takes in, byte by byte.
Fresh(key, n, j) == SubByte(key[12 + ((j + 1) % 4)]) (+) (IF j = 0 THEN RCON[n] ELSE {})

LEMMA DeviceKey ==
  ASSUME NEW key, NEW n, NEW q \in 0..15
  PROVE  NextKey(key, n)[q] =
           Fresh(key, n, q % 4) (+)
             (IF q < 4 THEN key[q]
              ELSE IF q < 8 THEN key[q - 4] (+) key[q]
              ELSE IF q < 12 THEN (key[q - 8] (+) key[q - 4]) (+) key[q]
              ELSE ((key[q - 12] (+) key[q - 8]) (+) key[q - 4]) (+) key[q])
<1> DEFINE j == q % 4
           m == q \div 4
           f == [word \in 0..m |-> key[4 * word + j]]
           sum == XorAll(0..m, f)
<1>1. NextKey(key, n)[q] = SubByte(key[12 + ((j + 1) % 4)]) (+) ((IF j = 0 THEN RCON[n] ELSE Zero) (+) sum)
  BY DEF NextKey
<1>2. j \in 0..3 /\ m \in 0..3 /\ q = 4 * m + j
  OBVIOUS
<1>3. \A w \in 0..m : f[w] = key[4 * w + j]
  OBVIOUS
<1> HIDE DEF f, j, m
<1>4. sum = (IF q < 4 THEN key[q]
             ELSE IF q < 8 THEN key[q - 4] (+) key[q]
             ELSE IF q < 12 THEN (key[q - 8] (+) key[q - 4]) (+) key[q]
             ELSE ((key[q - 12] (+) key[q - 8]) (+) key[q - 4]) (+) key[q])
  <2>1. /\ XorAll(0..0, f) = f[0]
        /\ XorAll(0..1, f) = f[0] (+) f[1]
        /\ XorAll(0..2, f) = (f[0] (+) f[1]) (+) f[2]
        /\ XorAll(0..3, f) = ((f[0] (+) f[1]) (+) f[2]) (+) f[3]
    <3>1. XorAll(0..(0 + 1), f) = XorAll(0..0, f) (+) f[0 + 1]
      BY SumTo
    <3>2. XorAll(0..(1 + 1), f) = XorAll(0..1, f) (+) f[1 + 1]
      BY SumTo
    <3>3. XorAll(0..(2 + 1), f) = XorAll(0..2, f) (+) f[2 + 1]
      BY SumTo
    <3>4. XorAll(0..0, f) = f[0]
      BY SumTo
    <3> QED BY <3>1, <3>2, <3>3, <3>4
  <2>2. CASE m = 0
    <3>1. f[0] = key[q] /\ q < 4
      BY <1>2, <1>3, <2>2
    <3> QED BY <2>1, <2>2, <3>1
  <2>3. CASE m = 1
    <3>1. f[0] = key[q - 4] /\ f[1] = key[q] /\ ~(q < 4) /\ q < 8
      BY <1>2, <1>3, <2>3
    <3> QED BY <2>1, <2>3, <3>1
  <2>4. CASE m = 2
    <3>1. f[0] = key[q - 8] /\ f[1] = key[q - 4] /\ f[2] = key[q] /\ ~(q < 4) /\ ~(q < 8) /\ q < 12
      BY <1>2, <1>3, <2>4
    <3> QED BY <2>1, <2>4, <3>1
  <2>5. CASE m = 3
    <3>1. /\ f[0] = key[q - 12] /\ f[1] = key[q - 8] /\ f[2] = key[q - 4] /\ f[3] = key[q]
          /\ ~(q < 4) /\ ~(q < 8) /\ ~(q < 12)
      BY <1>2, <1>3, <2>5
    <3> QED BY <2>1, <2>5, <3>1
  <2> QED BY <1>2, <2>2, <2>3, <2>4, <2>5
<1> HIDE DEF sum
<1> QED BY <1>1, <1>4, XorAssociates DEF Fresh, j, Zero

LEMMA ComputedKey ==
  ASSUME NEW key, NEW n, NEW q \in 0..15,
         NEW sub, sub = [j \in 0..3 |-> C!forward_bit_sbox(key[12 + ((j + 1) % 4)])
                           (+) (IF j = 0 THEN C!ApplyEmbedding(C!rcon[n]) ELSE {})]
  PROVE  /\ C!NextRoundKey(key, n) = [e \in 0..15 |-> C!NextRoundKey(key, n)[e]]
         /\ C!NextRoundKey(key, n)[q] =
              sub[q % 4] (+)
                (IF q < 4 THEN key[q]
                 ELSE IF q < 8 THEN key[q - 4] (+) key[q]
                 ELSE IF q < 12 THEN (key[q - 8] (+) key[q - 4]) (+) key[q]
                 ELSE ((key[q - 12] (+) key[q - 8]) (+) key[q - 4]) (+) key[q])
<1> DEFINE Is(R) == R = [e \in 0..15 |-> key[e] (+) (IF e < 4 THEN sub[e] ELSE R[e - 4])]
           R == CHOOSE r : Is(r)
           a(e) == key[e] (+) sub[e]
           b(e) == key[e] (+) a(e - 4)
           d(e) == key[e] (+) b(e - 4)
           g(e) == key[e] (+) d(e - 4)
           W == [e \in 0..15 |-> IF e < 4 THEN a(e) ELSE IF e < 8 THEN b(e)
                                 ELSE IF e < 12 THEN d(e) ELSE g(e)]
<1>1. C!NextRoundKey(key, n) = [e \in 0..15 |-> R[e]]
  <2> DEFINE Words(s) ==
               LET r[e \in 0..15] == key[e] (+) (IF e < 4 THEN s[e] ELSE r[e - 4])
               IN  [e \in 0..15 |-> r[e]]
             first == [j \in 0..3 |-> C!forward_bit_sbox(key[12 + ((j + 1) % 4)])
                           (+) (IF j = 0 THEN C!ApplyEmbedding(C!rcon[n]) ELSE {})]
  <2>1. C!NextRoundKey(key, n) = C!Once(first, Words)
    BY DEF C!NextRoundKey, C!(+), (+)
  <2>2. Words(sub) = [e \in 0..15 |-> R[e]]
    OBVIOUS
  <2> HIDE DEF Words
  <2>3. C!Once(sub, Words) = Words(sub)
    BY DEF C!Once
  <2> QED BY <2>1, <2>2, <2>3
<1>2. Is(W)
  <2>1. ASSUME NEW e \in 0..15 PROVE W[e] = key[e] (+) (IF e < 4 THEN sub[e] ELSE W[e - 4])
    <3>1. CASE e < 4
      BY <3>1
    <3>2. CASE ~(e < 4)
      <4>1. e - 4 \in 0..15 /\ (e - 4 < 4 <=> e < 8) /\ (e - 4 < 8 <=> e < 12) /\ e - 4 < 12
        BY <3>2
      <4> HIDE DEF a
      <4>2. W[e - 4] = IF e < 8 THEN a(e - 4) ELSE IF e < 12 THEN b(e - 4) ELSE d(e - 4)
        BY <4>1
      <4> QED BY <3>2, <4>1, <4>2
    <3> QED BY <3>1, <3>2
  <2> HIDE DEF W
  <2>2. W = [e \in 0..15 |-> W[e]]
    BY DEF W
  <2> QED BY <2>1, <2>2
<1>3. Is(R)
  BY <1>2
<1> HIDE DEF R, W
<1>4. \A e \in 0..15 : R[e] = key[e] (+) (IF e < 4 THEN sub[e] ELSE R[e - 4])
  BY <1>3
<1>5. \A e \in 0..15 : /\ e < 4 => R[e] = key[e] (+) sub[e]
                       /\ ~(e < 4) => e - 4 \in 0..15 /\ R[e] = key[e] (+) R[e - 4]
  BY <1>4
<1>5a. C!NextRoundKey(key, n) = [e \in 0..15 |-> C!NextRoundKey(key, n)[e]]
  BY <1>1
<1>6. CASE q < 4
  <2>1. q % 4 = q
    BY <1>6
  <2> QED BY <1>1, <1>5, <1>5a, <1>6, <2>1, XorCommutes
<1>7. CASE ~(q < 4) /\ q < 8
  <2>1. q % 4 = q - 4 /\ q - 4 \in 0..15 /\ q - 4 < 4
    BY <1>7
  <2>2. R[q] = key[q] (+) (key[q - 4] (+) sub[q % 4])
    BY <1>5, <1>7, <2>1
  <2>3. \A x, y, z : x (+) (y (+) z) = z (+) (y (+) x)
    BY DEF (+)
  <2> QED BY <1>1, <1>5a, <1>7, <2>2, <2>3
<1>8. CASE ~(q < 8) /\ q < 12
  <2>1. q % 4 = q - 8 /\ q - 4 \in 0..15 /\ q - 8 \in 0..15 /\ q - 8 < 4 /\ ~(q - 4 < 4) /\ ~(q < 4)
        /\ (q - 4) - 4 = q - 8
    BY <1>8
  <2>2. /\ R[q] = key[q] (+) R[q - 4] /\ R[q - 4] = key[q - 4] (+) R[(q - 4) - 4]
        /\ R[q - 8] = key[q - 8] (+) sub[q - 8]
    BY <1>5, <2>1
  <2>3. R[q] = key[q] (+) (key[q - 4] (+) (key[q - 8] (+) sub[q % 4]))
    BY <2>1, <2>2
  <2>4. \A w, x, y, z : x (+) (y (+) (w (+) z)) = z (+) ((w (+) y) (+) x)
    BY DEF (+)
  <2> QED BY <1>1, <1>5a, <1>8, <2>1, <2>3, <2>4
<1>9. CASE ~(q < 12)
  <2>1. q % 4 = q - 12 /\ q - 4 \in 0..15 /\ q - 8 \in 0..15 /\ q - 12 \in 0..15 /\ q - 12 < 4
        /\ ~(q - 4 < 4) /\ ~(q - 8 < 4) /\ ~(q < 4) /\ ~(q < 8)
        /\ (q - 4) - 4 = q - 8 /\ (q - 8) - 4 = q - 12
    BY <1>9
  <2>2. /\ R[q] = key[q] (+) R[q - 4] /\ R[q - 4] = key[q - 4] (+) R[(q - 4) - 4]
        /\ R[q - 8] = key[q - 8] (+) R[(q - 8) - 4] /\ R[q - 12] = key[q - 12] (+) sub[q - 12]
    BY <1>5, <2>1
  <2>3. R[q] = key[q] (+) (key[q - 4] (+) (key[q - 8] (+) (key[q - 12] (+) sub[q % 4])))
    BY <2>1, <2>2
  <2>4. \A v, w, x, y, z : x (+) (y (+) (w (+) (v (+) z))) = z (+) (((v (+) w) (+) y) (+) x)
    BY DEF (+)
  <2> QED BY <1>1, <1>5a, <1>9, <2>1, <2>3, <2>4
<1> QED BY <1>6, <1>7, <1>8, <1>9

LEMMA NextKeyIsBlock ==
  ASSUME NEW key \in Block, NEW n \in 0..9 PROVE NextKey(key, n) \in Block
<1>1. C!rcon[n + 1] \in Byte
  BY DEF C!rcon, Byte, Bits
<1>2. ASSUME NEW q \in 0..15 PROVE NextKey(key, n)[q] \in Byte
  <2>1. 12 + (((q % 4) + 1) % 4) \in 0..15
    OBVIOUS
  <2>2. Fresh(key, n, q % 4) \in Byte
    <3>1. RCON[n] \in Byte /\ {} \in Byte
      BY <1>1, EmbeddingAssumption DEF Byte
    <3>2. SubByte(key[12 + (((q % 4) + 1) % 4)]) \in Byte
      BY <2>1, BytesOf, SubByteIsByte
    <3> QED BY <3>1, <3>2, XorIsByte DEF Fresh
  <2>3. /\ key[q] \in Byte
        /\ ~(q < 4) => key[q - 4] \in Byte
        /\ ~(q < 8) => key[q - 8] \in Byte
        /\ ~(q < 12) => key[q - 12] \in Byte
    BY BytesOf
  <2>4. ~(q < 8) => ~(q < 4)
    OBVIOUS
  <2>5. ~(q < 12) => ~(q < 8)
    OBVIOUS
  <2> QED BY <2>2, <2>3, <2>4, <2>5, DeviceKey, XorIsByte
<1>3. NextKey(key, n) = [q \in 0..15 |-> NextKey(key, n)[q]]
  BY DEF NextKey
<1> QED BY <1>2, <1>3 DEF Block, Buffer, BlockLen

\* Both make the same round keys of the same one.
LEMMA KeysEmbed ==
  ASSUME NEW key \in Block, NEW n \in 0..9
  PROVE  C!NextRoundKey(EmbAll(key), n + 1) = EmbAll(NextKey(key, n))
<1> DEFINE e == EmbAll(key)
           sub == [j \in 0..3 |-> C!forward_bit_sbox(e[12 + ((j + 1) % 4)])
                           (+) (IF j = 0 THEN C!ApplyEmbedding(C!rcon[n + 1]) ELSE {})]
<1>1. ASSUME NEW j \in 0..3 PROVE sub[j] = Emb(Fresh(key, n, j))
  <2>1. 12 + ((j + 1) % 4) \in 0..15
    OBVIOUS
  <2>2. C!forward_bit_sbox(e[12 + ((j + 1) % 4)]) = Emb(SubByte(key[12 + ((j + 1) % 4)]))
    BY <2>1, BytesOf, SboxEmbeds DEF EmbAll
  <2>3. (IF j = 0 THEN C!ApplyEmbedding(C!rcon[n + 1]) ELSE {}) = Emb(IF j = 0 THEN RCON[n] ELSE {})
    BY EmbZero, EmbeddingAssumption DEF Emb
  <2>4. sub[j] = Emb(SubByte(key[12 + ((j + 1) % 4)])) (+) Emb(IF j = 0 THEN RCON[n] ELSE {})
    BY <2>2, <2>3
  <2> QED BY <2>4, EmbAdds DEF Fresh
<1>2. ASSUME NEW q \in 0..15 PROVE C!NextRoundKey(e, n + 1)[q] = Emb(NextKey(key, n)[q])
  <2>1. C!NextRoundKey(e, n + 1)[q] =
           sub[q % 4] (+)
             (IF q < 4 THEN e[q]
              ELSE IF q < 8 THEN e[q - 4] (+) e[q]
              ELSE IF q < 12 THEN (e[q - 8] (+) e[q - 4]) (+) e[q]
              ELSE ((e[q - 12] (+) e[q - 8]) (+) e[q - 4]) (+) e[q])
    BY ComputedKey
  <2>2. /\ e[q] = Emb(key[q])
        /\ ~(q < 4) => e[q - 4] = Emb(key[q - 4])
        /\ ~(q < 8) => e[q - 8] = Emb(key[q - 8])
        /\ ~(q < 12) => e[q - 12] = Emb(key[q - 12])
    BY DEF EmbAll
  <2>3. sub[q % 4] = Emb(Fresh(key, n, q % 4))
    BY <1>1
  <2>4. ~(q < 8) => ~(q < 4)
    OBVIOUS
  <2>5. ~(q < 12) => ~(q < 8)
    OBVIOUS
  <2> HIDE DEF e, sub
  <2> DEFINE k == NextKey(key, n)
             fresh == Fresh(key, n, q % 4)
  <2>6. k[q] = fresh (+)
                 (IF q < 4 THEN key[q]
                  ELSE IF q < 8 THEN key[q - 4] (+) key[q]
                  ELSE IF q < 12 THEN (key[q - 8] (+) key[q - 4]) (+) key[q]
                  ELSE ((key[q - 12] (+) key[q - 8]) (+) key[q - 4]) (+) key[q])
    BY DeviceKey
  <2> HIDE DEF k, fresh
  <2>7. CASE q < 4
    BY <2>1, <2>2, <2>3, <2>6, <2>7, EmbAdds DEF k, fresh
  <2>8. CASE ~(q < 4) /\ q < 8
    BY <2>1, <2>2, <2>3, <2>6, <2>8, EmbAdds DEF k, fresh
  <2>9. CASE ~(q < 4) /\ ~(q < 8) /\ q < 12
    BY <2>1, <2>2, <2>3, <2>6, <2>9, EmbAdds DEF k, fresh
  <2>10. CASE ~(q < 4) /\ ~(q < 8) /\ ~(q < 12)
    BY <2>1, <2>2, <2>3, <2>6, <2>10, EmbAdds DEF k, fresh
  <2> QED BY <2>4, <2>5, <2>7, <2>8, <2>9, <2>10
<1>3. C!NextRoundKey(e, n + 1) = [q \in 0..15 |-> C!NextRoundKey(e, n + 1)[q]]
  <2>1. 0 \in 0..15
    OBVIOUS
  <2> QED BY <2>1, ComputedKey
<1> HIDE DEF e
<1> QED BY <1>2, <1>3 DEF EmbAll, e

LEMMA OnceNextKey == \A k, n : Once(k, LAMBDA z : NextKey(z, n)) = NextKey(k, n)
BY DEF Once

LEMMA OnceRound == \A k, z : Once(z, LAMBDA x : AES_FROUND(k, x)) = AES_FROUND(k, z)
BY DEF Once

\* The device's round keys, each of the one before.
LEMMA RoundKeys ==
  ASSUME NEW key \in Block, NEW rk, rk = mbedtls_aes_setkey_enc(key)
  PROVE  /\ rk[0] = key
         /\ \A n \in 0..9 : rk[n + 1] = NextKey(rk[n], n)
         /\ \A n \in 0..10 : rk[n] \in Block
<1> DEFINE r0 == key               r1 == NextKey(r0, 0)  r2 == NextKey(r1, 1)
           r3 == NextKey(r2, 2)    r4 == NextKey(r3, 3)  r5 == NextKey(r4, 4)
           r6 == NextKey(r5, 5)    r7 == NextKey(r6, 6)  r8 == NextKey(r7, 7)
           r9 == NextKey(r8, 8)    r10 == NextKey(r9, 9)
           G(e) == IF e = 0 THEN r0 ELSE IF e = 1 THEN r1 ELSE IF e = 2 THEN r2
                   ELSE IF e = 3 THEN r3 ELSE IF e = 4 THEN r4 ELSE IF e = 5 THEN r5
                   ELSE IF e = 6 THEN r6 ELSE IF e = 7 THEN r7 ELSE IF e = 8 THEN r8
                   ELSE IF e = 9 THEN r9 ELSE r10
           F == [e \in 0..10 |-> G(e)]
           RK == CHOOSE R : R = [n \in 0..10 |->
                   IF n = 0 THEN key ELSE Once(R[n - 1], LAMBDA k : NextKey(k, n - 1))]
<1>1. \A n \in 0..10 : G(n) = IF n = 0 THEN key ELSE NextKey(F[n - 1], n - 1)
  <2>1. r0 = key
    OBVIOUS
  <2>2. /\ r1 = NextKey(r0, 0) /\ r2 = NextKey(r1, 1) /\ r3 = NextKey(r2, 2)
        /\ r4 = NextKey(r3, 3) /\ r5 = NextKey(r4, 4) /\ r6 = NextKey(r5, 5)
        /\ r7 = NextKey(r6, 6) /\ r8 = NextKey(r7, 7) /\ r9 = NextKey(r8, 8)
        /\ r10 = NextKey(r9, 9)
    OBVIOUS
  <2> HIDE DEF r0, r1, r2, r3, r4, r5, r6, r7, r8, r9, r10
  <2>3. TAKE n \in 0..10
  <2>4. n \in {0, 1, 2, 3, 4, 5, 6, 7, 8, 9, 10}
    BY <2>3
  <2>5. n # 0 => n - 1 \in 0..10 /\ F[n - 1] = G(n - 1)
    OBVIOUS
  <2>6. n # 0 => G(n) = NextKey(G(n - 1), n - 1)
    BY <2>2, <2>4
  <2> QED BY <2>1, <2>5, <2>6
<1> HIDE DEF G
<1>2. \E R : R = [n \in 0..10 |->
                    IF n = 0 THEN key ELSE Once(R[n - 1], LAMBDA k : NextKey(k, n - 1))]
  <2>1. F = [n \in 0..10 |-> IF n = 0 THEN key ELSE NextKey(F[n - 1], n - 1)]
    BY <1>1
  <2>2. F = [n \in 0..10 |->
               IF n = 0 THEN key ELSE Once(F[n - 1], LAMBDA k : NextKey(k, n - 1))]
    BY <2>1, OnceNextKey
  <2> QED BY <2>2
<1>3. RK = [n \in 0..10 |->
              IF n = 0 THEN key ELSE Once(RK[n - 1], LAMBDA k : NextKey(k, n - 1))]
  BY <1>2
<1>4. rk = [n \in 0..10 |-> RK[n]]
  BY DEF mbedtls_aes_setkey_enc
<1> HIDE DEF RK
<1>5. rk[0] = key
  BY <1>3, <1>4
<1>6. ASSUME NEW n \in 0..9 PROVE rk[n + 1] = NextKey(rk[n], n)
  <2>1. n + 1 \in 0..10 /\ n \in 0..10 /\ n + 1 # 0 /\ (n + 1) - 1 = n
    OBVIOUS
  <2>2. RK[n + 1] = NextKey(RK[(n + 1) - 1], (n + 1) - 1)
    <3> DEFINE m == n + 1
    <3>1. m \in 0..10 /\ m # 0
      OBVIOUS
    <3> HIDE DEF m
    <3>2. RK[m] = Once(RK[m - 1], LAMBDA k : NextKey(k, m - 1))
      BY <1>3, <3>1
    <3>3. RK[m] = NextKey(RK[m - 1], m - 1)
      BY <3>2, OnceNextKey
    <3> QED BY <3>3 DEF m
  <2> QED BY <1>4, <2>1, <2>2
<1>7. \A n \in 0..9 : rk[n] \in Block => rk[n + 1] \in Block
  BY <1>6, NextKeyIsBlock
<1>8. /\ rk[0] \in Block => rk[1] \in Block
      /\ rk[1] \in Block => rk[2] \in Block
      /\ rk[2] \in Block => rk[3] \in Block
      /\ rk[3] \in Block => rk[4] \in Block
      /\ rk[4] \in Block => rk[5] \in Block
      /\ rk[5] \in Block => rk[6] \in Block
      /\ rk[6] \in Block => rk[7] \in Block
      /\ rk[7] \in Block => rk[8] \in Block
      /\ rk[8] \in Block => rk[9] \in Block
      /\ rk[9] \in Block => rk[10] \in Block
  BY <1>7
<1>9. \A n \in 0..10 : n \in {0, 1, 2, 3, 4, 5, 6, 7, 8, 9, 10}
  OBVIOUS
<1> QED BY <1>5, <1>6, <1>8, <1>9

\* The device's block after each round.
LEMMA DeviceRounds ==
  ASSUME NEW rk, \A n \in 0..10 : rk[n] \in Block, NEW z \in Block
  PROVE  /\ AfterRounds(rk, z, 0) = Added(rk[0], z)
         /\ \A n \in 0..8 : AfterRounds(rk, z, n + 1) =
                              Added(rk[n + 1], Mixed(SubShift(AfterRounds(rk, z, n))))
         /\ \A n \in 0..9 : AfterRounds(rk, z, n) \in Block
<1> DEFINE x0 == XorBlock(z, rk[0])
           x1 == AES_FROUND(rk[1], x0)  x2 == AES_FROUND(rk[2], x1)
           x3 == AES_FROUND(rk[3], x2)  x4 == AES_FROUND(rk[4], x3)
           x5 == AES_FROUND(rk[5], x4)  x6 == AES_FROUND(rk[6], x5)
           x7 == AES_FROUND(rk[7], x6)  x8 == AES_FROUND(rk[8], x7)
           x9 == AES_FROUND(rk[9], x8)
           G(e) == IF e = 0 THEN x0 ELSE IF e = 1 THEN x1 ELSE IF e = 2 THEN x2
                   ELSE IF e = 3 THEN x3 ELSE IF e = 4 THEN x4 ELSE IF e = 5 THEN x5
                   ELSE IF e = 6 THEN x6 ELSE IF e = 7 THEN x7 ELSE IF e = 8 THEN x8
                   ELSE x9
           F == [e \in 0..9 |-> G(e)]
           X == CHOOSE R : R = [r \in 0..9 |->
                  IF r = 0 THEN XorBlock(z, rk[0])
                           ELSE Once(R[r - 1], LAMBDA x : AES_FROUND(rk[r], x))]
           A(n) == AfterRounds(rk, z, n)
<1>1. \A n \in 0..9 : G(n) = IF n = 0 THEN XorBlock(z, rk[0]) ELSE AES_FROUND(rk[n], F[n - 1])
  <2>1. x0 = XorBlock(z, rk[0])
    OBVIOUS
  <2>2. /\ x1 = AES_FROUND(rk[1], x0) /\ x2 = AES_FROUND(rk[2], x1) /\ x3 = AES_FROUND(rk[3], x2)
        /\ x4 = AES_FROUND(rk[4], x3) /\ x5 = AES_FROUND(rk[5], x4) /\ x6 = AES_FROUND(rk[6], x5)
        /\ x7 = AES_FROUND(rk[7], x6) /\ x8 = AES_FROUND(rk[8], x7) /\ x9 = AES_FROUND(rk[9], x8)
    OBVIOUS
  <2> HIDE DEF x0, x1, x2, x3, x4, x5, x6, x7, x8, x9
  <2>3. TAKE n \in 0..9
  <2>4. n \in {0, 1, 2, 3, 4, 5, 6, 7, 8, 9}
    BY <2>3
  <2>5. n # 0 => n - 1 \in 0..9 /\ F[n - 1] = G(n - 1)
    OBVIOUS
  <2>6. n # 0 => G(n) = AES_FROUND(rk[n], G(n - 1))
    BY <2>2, <2>4
  <2> QED BY <2>1, <2>5, <2>6
<1> HIDE DEF G
<1>2. \E R : R = [r \in 0..9 |->
                    IF r = 0 THEN XorBlock(z, rk[0])
                             ELSE Once(R[r - 1], LAMBDA x : AES_FROUND(rk[r], x))]
  <2>1. F = [r \in 0..9 |-> IF r = 0 THEN XorBlock(z, rk[0]) ELSE AES_FROUND(rk[r], F[r - 1])]
    BY <1>1
  <2>2. F = [r \in 0..9 |->
               IF r = 0 THEN XorBlock(z, rk[0])
                        ELSE Once(F[r - 1], LAMBDA x : AES_FROUND(rk[r], x))]
    BY <2>1, OnceRound
  <2> QED BY <2>2
<1>3. X = [r \in 0..9 |->
             IF r = 0 THEN XorBlock(z, rk[0])
                      ELSE Once(X[r - 1], LAMBDA x : AES_FROUND(rk[r], x))]
  BY <1>2
<1>4. \A n : A(n) = X[n]
  BY DEF AfterRounds
<1> HIDE DEF X
<1>5. A(0) = Added(rk[0], z)
  <2>1. A(0) = XorBlock(z, rk[0])
    <3>1. 0 \in 0..9
      OBVIOUS
    <3>2. X[0] = XorBlock(z, rk[0])
      BY <1>3, <3>1
    <3> QED BY <1>4, <3>2
  <2>2. DOMAIN z = 0..15
    BY DEF Block, Buffer, BlockLen
  <2> QED BY <2>1, <2>2, XorCommutes DEF XorBlock, Added
<1>6. ASSUME NEW n \in 0..8 PROVE A(n + 1) = AES_FROUND(rk[n + 1], A(n))
  <2>1. (n + 1) - 1 = n
    OBVIOUS
  <2>2. X[n + 1] = AES_FROUND(rk[n + 1], X[(n + 1) - 1])
    <3> DEFINE m == n + 1
    <3>1. m \in 0..9 /\ m # 0
      OBVIOUS
    <3> HIDE DEF m
    <3>2. X[m] = Once(X[m - 1], LAMBDA x : AES_FROUND(rk[m], x))
      BY <1>3, <3>1
    <3>3. X[m] = AES_FROUND(rk[m], X[m - 1])
      BY <3>2, OnceRound
    <3> QED BY <3>3 DEF m
  <2> QED BY <1>4, <2>1, <2>2
<1> HIDE DEF A
<1>7. \A n \in 0..8 : A(n) \in Block => A(n + 1) = Added(rk[n + 1], Mixed(SubShift(A(n))))
  BY <1>6, LookUps
<1>8. \A n \in 0..8 : A(n) \in Block => A(n + 1) \in Block
  <2> TAKE n \in 0..8
  <2> HAVE A(n) \in Block
  <2>1. Mixed(SubShift(A(n))) \in Block
    BY RoundBlocks
  <2>2. rk[n + 1] \in Block
    OBVIOUS
  <2> QED BY <1>7, <2>1, <2>2, RoundBlocks
<1>9. A(0) \in Block
  BY <1>5, RoundBlocks
<1>10. /\ A(0) \in Block => A(1) \in Block
       /\ A(1) \in Block => A(2) \in Block
       /\ A(2) \in Block => A(3) \in Block
       /\ A(3) \in Block => A(4) \in Block
       /\ A(4) \in Block => A(5) \in Block
       /\ A(5) \in Block => A(6) \in Block
       /\ A(6) \in Block => A(7) \in Block
       /\ A(7) \in Block => A(8) \in Block
       /\ A(8) \in Block => A(9) \in Block
  BY <1>8
<1>11. \A n \in 0..9 : n \in {0, 1, 2, 3, 4, 5, 6, 7, 8, 9}
  OBVIOUS
<1>12. \A n \in 0..9 : A(n) \in Block
  BY <1>9, <1>10, <1>11
<1> QED BY <1>5, <1>7, <1>12 DEF A

LEMMA DeviceLast ==
  ASSUME NEW rk, NEW z
  PROVE  mbedtls_aes_crypt_ecb(rk, z) = Added(rk[10], SubShift(AfterRounds(rk, z, 9)))
<1> DEFINE x == AfterRounds(rk, z, 9)
           Last(a) == [q \in 0..15 |-> rk[10][q] (+) SubByte(a[From(q, q % 4)])]
<1>1. mbedtls_aes_crypt_ecb(rk, z) = Once(x, Last)
  BY DEF mbedtls_aes_crypt_ecb
<1> HIDE DEF x, Last
<1>2. Once(x, Last) = Last(x)
  BY DEF Once
<1> QED BY <1>1, <1>2 DEF Last, x, Added, SubShift

(* The steps of the computation.                                           *)
LEMMA ComputedRound ==
  ASSUME NEW z, NEW key
  PROVE  C!aesRound(z, key) = C!addRoundKey(C!mixColumns(C!shiftRows(C!subBytes(z))), key)
<1> DEFINE AddKey(mixed) == C!addRoundKey(mixed, key)
           s == C!subBytes(z)
<1>1. C!aesRound(z, key) = C!Once(C!Once(C!Once(s, C!shiftRows), C!mixColumns), AddKey)
  BY DEF C!aesRound
<1> HIDE DEF AddKey, s
<1>2. \A x : C!Once(x, C!shiftRows) = C!shiftRows(x)
  BY DEF C!Once
<1>3. \A x : C!Once(x, C!mixColumns) = C!mixColumns(x)
  BY DEF C!Once
<1>4. \A x : C!Once(x, AddKey) = AddKey(x)
  BY DEF C!Once
<1> QED BY <1>1, <1>2, <1>3, <1>4 DEF AddKey, s

(* Undoing a round.                                                        *)
LEMMA UnSubstituted ==
  ASSUME NEW z \in Block
  PROVE  C!invSubBytes(C!invShiftRows(EmbAll(SubShift(z)))) = EmbAll(z)
<1> DEFINE back(q) == (q + 12 * (q % 4)) % 16
<1>1. \A q \in 0..15 : back(q) \in 0..15 /\ From(back(q), back(q) % 4) = q
  <2>1. \A q \in 0..15 : q \in {0, 1, 2, 3, 4, 5, 6, 7, 8, 9, 10, 11, 12, 13, 14, 15}
    OBVIOUS
  <2> QED BY <2>1 DEF From
<1>2. C!invShiftRows(EmbAll(SubShift(z))) = [q \in 0..15 |-> EmbAll(SubShift(z))[back(q)]]
  BY DEF C!invShiftRows
<1> HIDE DEF back
<1>3. ASSUME NEW q \in 0..15 PROVE EmbAll(SubShift(z))[back(q)] = Emb(SubByte(z[q]))
  BY <1>1 DEF EmbAll, SubShift
<1>4. C!invShiftRows(EmbAll(SubShift(z))) = [q \in 0..15 |-> Emb(SubByte(z[q]))]
  BY <1>2, <1>3
<1>5. \A q \in 0..15 : C!backward_bit_sbox(Emb(SubByte(z[q]))) = Emb(z[q])
  BY BytesOf, SboxEmbeds
<1> QED BY <1>4, <1>5 DEF C!invSubBytes, EmbAll

LEMMA UnAdded ==
  ASSUME NEW key, NEW z \in Block
  PROVE  C!addRoundKey(EmbAll(Added(key, z)), EmbAll(key)) = EmbAll(z)
<1>1. \A q \in 0..15 : Emb(Added(key, z)[q]) (+) Emb(key[q]) = Emb(z[q])
  <2>1. \A q \in 0..15 : (key[q] (+) z[q]) (+) key[q] = z[q]
    BY DEF (+)
  <2> QED BY <2>1, EmbAdds DEF Added
<1> QED BY <1>1, SameBytes DEF C!addRoundKey, EmbAll

\* A byte multiplied by 14, 11, 13 and 9.
Inv(n, b) ==
  LET two  == XTIME(b)
      four == XTIME(two)
      nine == XTIME(four) (+) b
  IN  IF n = 0 THEN XTIME(four) (+) (four (+) two)
      ELSE IF n = 1 THEN nine (+) two
      ELSE IF n = 2 THEN nine (+) four
      ELSE nine

LEMMA InvAdds ==
  ASSUME NEW n \in 0..3, NEW a \in Byte, NEW b \in Byte
  PROVE  Inv(n, a (+) b) = Inv(n, a) (+) Inv(n, b)
<1> DEFINE a2 == XTIME(a)  a4 == XTIME(a2)  a8 == XTIME(a4)
           b2 == XTIME(b)  b4 == XTIME(b2)  b8 == XTIME(b4)
<1>1. a2 \in Byte /\ a4 \in Byte /\ a8 \in Byte /\ b2 \in Byte /\ b4 \in Byte /\ b8 \in Byte
  BY XtimeIsByte
<1>2. XTIME(a (+) b) = a2 (+) b2 /\ XTIME(a2 (+) b2) = a4 (+) b4 /\ XTIME(a4 (+) b4) = a8 (+) b8
  BY <1>1, XtimeAdds
<1>3. /\ Inv(n, a) = IF n = 0 THEN a8 (+) (a4 (+) a2) ELSE IF n = 1 THEN (a8 (+) a) (+) a2
                     ELSE IF n = 2 THEN (a8 (+) a) (+) a4 ELSE a8 (+) a
      /\ Inv(n, b) = IF n = 0 THEN b8 (+) (b4 (+) b2) ELSE IF n = 1 THEN (b8 (+) b) (+) b2
                     ELSE IF n = 2 THEN (b8 (+) b) (+) b4 ELSE b8 (+) b
  BY DEF Inv
<1>4. Inv(n, a (+) b) =
        LET z2 == a2 (+) b2  z4 == a4 (+) b4  z8 == a8 (+) b8  z == a (+) b
        IN  IF n = 0 THEN z8 (+) (z4 (+) z2) ELSE IF n = 1 THEN (z8 (+) z) (+) z2
            ELSE IF n = 2 THEN (z8 (+) z) (+) z4 ELSE z8 (+) z
  BY <1>2 DEF Inv
<1> HIDE DEF a2, a4, a8, b2, b4, b8
<1>5. \A c, d, e, f, g, h : (c (+) d) (+) ((e (+) f) (+) (g (+) h)) =
                              (c (+) (e (+) g)) (+) (d (+) (f (+) h))
  BY DEF (+)
<1>6. \A c, d, e, f, g, h : ((c (+) d) (+) (e (+) f)) (+) (g (+) h) =
                              ((c (+) e) (+) g) (+) ((d (+) f) (+) h)
  BY DEF (+)
<1>7. \A c, d, e, f : (c (+) d) (+) (e (+) f) = (c (+) e) (+) (d (+) f)
  BY DEF (+)
<1>8. CASE n = 0
  <2>1. Inv(n, a) = a8 (+) (a4 (+) a2) /\ Inv(n, b) = b8 (+) (b4 (+) b2)
    BY <1>3, <1>8
  <2>2. Inv(n, a (+) b) = (a8 (+) b8) (+) ((a4 (+) b4) (+) (a2 (+) b2))
    BY <1>4, <1>8
  <2> QED BY <2>1, <2>2, <1>5
<1>9. CASE n = 1
  <2>1. Inv(n, a) = (a8 (+) a) (+) a2 /\ Inv(n, b) = (b8 (+) b) (+) b2
    BY <1>3, <1>9
  <2>2. Inv(n, a (+) b) = ((a8 (+) b8) (+) (a (+) b)) (+) (a2 (+) b2)
    BY <1>4, <1>9
  <2> QED BY <2>1, <2>2, <1>6
<1>10. CASE n = 2
  <2>1. Inv(n, a) = (a8 (+) a) (+) a4 /\ Inv(n, b) = (b8 (+) b) (+) b4
    BY <1>3, <1>10
  <2>2. Inv(n, a (+) b) = ((a8 (+) b8) (+) (a (+) b)) (+) (a4 (+) b4)
    BY <1>4, <1>10
  <2> QED BY <2>1, <2>2, <1>6
<1>11. CASE n = 3
  <2>1. Inv(n, a) = a8 (+) a /\ Inv(n, b) = b8 (+) b
    BY <1>3, <1>11
  <2>2. Inv(n, a (+) b) = (a8 (+) b8) (+) (a (+) b)
    BY <1>4, <1>11
  <2> QED BY <2>1, <2>2, <1>7
<1> QED BY <1>8, <1>9, <1>10, <1>11

\* What a byte of a column, by its distance from the first, contributes to the four
\* products of mixed bytes: itself if it is the first, nothing otherwise.
LEMMA Contributions ==
  ASSUME NEW x
  PROVE  LET z == XTIME(x)
         IN  /\ ((Inv(0, z) (+) Inv(1, x)) (+) Inv(2, x)) (+) (Inv(3, x) (+) Inv(3, z)) = x
             /\ (((Inv(0, x) (+) Inv(0, z)) (+) Inv(1, z)) (+) Inv(2, x)) (+) Inv(3, x) = {}
             /\ ((Inv(0, x) (+) (Inv(1, x) (+) Inv(1, z))) (+) Inv(2, z)) (+) Inv(3, x) = {}
             /\ ((Inv(0, x) (+) Inv(1, x)) (+) (Inv(2, x) (+) Inv(2, z))) (+) Inv(3, z) = {}
<1> DEFINE x2 == XTIME(x)  x4 == XTIME(x2)  x8 == XTIME(x4)  x16 == XTIME(x8)
<1>1. /\ Inv(0, x) = x8 (+) (x4 (+) x2) /\ Inv(1, x) = (x8 (+) x) (+) x2
      /\ Inv(2, x) = (x8 (+) x) (+) x4 /\ Inv(3, x) = x8 (+) x
      /\ Inv(0, x2) = x16 (+) (x8 (+) x4) /\ Inv(1, x2) = (x16 (+) x2) (+) x4
      /\ Inv(2, x2) = (x16 (+) x2) (+) x8 /\ Inv(3, x2) = x16 (+) x2
  BY DEF Inv
<1> HIDE DEF x2, x4, x8, x16
<1>2. ((Inv(0, x2) (+) Inv(1, x)) (+) Inv(2, x)) (+) (Inv(3, x) (+) Inv(3, x2)) = x
  BY <1>1 DEF (+)
<1>3. (((Inv(0, x) (+) Inv(0, x2)) (+) Inv(1, x2)) (+) Inv(2, x)) (+) Inv(3, x) = {}
  BY <1>1 DEF (+)
<1>4. ((Inv(0, x) (+) (Inv(1, x) (+) Inv(1, x2))) (+) Inv(2, x2)) (+) Inv(3, x) = {}
  BY <1>1 DEF (+)
<1>5. ((Inv(0, x) (+) Inv(1, x)) (+) (Inv(2, x) (+) Inv(2, x2))) (+) Inv(3, x2) = {}
  BY <1>1 DEF (+)
<1> QED BY <1>2, <1>3, <1>4, <1>5 DEF x2

LEMMA TwoRows ==
  \A a, b, d, e, f, g, h, k :
    ((a (+) b) (+) (d (+) e)) (+) ((f (+) g) (+) (h (+) k)) =
      ((a (+) f) (+) (b (+) g)) (+) ((d (+) h) (+) (e (+) k))
<1>1. \A a, b, d, e : (a (+) b) (+) (d (+) e) = (a (+) d) (+) (b (+) e)
  BY DEF (+)
<1> QED BY <1>1

\* The products of a mixed byte, sorted by the bytes that are in it.
LEMMA ProductOfMixed ==
  ASSUME NEW n \in 0..3,
         NEW a \in Byte, NEW b \in Byte, NEW d \in Byte, NEW e \in Byte
  PROVE  Inv(n, XTIME(a) (+) ((b (+) XTIME(b)) (+) (d (+) e))) =
           Inv(n, XTIME(a)) (+) ((Inv(n, b) (+) Inv(n, XTIME(b))) (+) (Inv(n, d) (+) Inv(n, e)))
<1>1. XTIME(a) \in Byte /\ XTIME(b) \in Byte
  BY XtimeIsByte
<1>2. b (+) XTIME(b) \in Byte /\ d (+) e \in Byte
  BY <1>1, XorIsByte
<1>3. (b (+) XTIME(b)) (+) (d (+) e) \in Byte
  BY <1>2, XorIsByte
<1>4. Inv(n, b (+) XTIME(b)) = Inv(n, b) (+) Inv(n, XTIME(b))
  BY <1>1, InvAdds
<1>5. Inv(n, d (+) e) = Inv(n, d) (+) Inv(n, e)
  BY InvAdds
<1>6. Inv(n, (b (+) XTIME(b)) (+) (d (+) e)) = Inv(n, b (+) XTIME(b)) (+) Inv(n, d (+) e)
  BY <1>2, InvAdds
<1>7. Inv(n, XTIME(a) (+) ((b (+) XTIME(b)) (+) (d (+) e))) =
        Inv(n, XTIME(a)) (+) Inv(n, (b (+) XTIME(b)) (+) (d (+) e))
  BY <1>1, <1>3, InvAdds
<1> QED BY <1>4, <1>5, <1>6, <1>7

\* The four products of the mixed bytes of a column add up to its first byte.
LEMMA ColumnBack ==
  ASSUME NEW a \in Byte, NEW b \in Byte, NEW d \in Byte, NEW e \in Byte
  PROVE  ((Inv(0, XTIME(a) (+) ((b (+) XTIME(b)) (+) (d (+) e)))
             (+) Inv(1, XTIME(b) (+) ((d (+) XTIME(d)) (+) (e (+) a))))
             (+) Inv(2, XTIME(d) (+) ((e (+) XTIME(e)) (+) (a (+) b))))
             (+) Inv(3, XTIME(e) (+) ((a (+) XTIME(a)) (+) (b (+) d))) = a
<1> DEFINE I(n, x) == Inv(n, x)
           J(n, x) == Inv(n, XTIME(x))
<1>1. Inv(0, XTIME(a) (+) ((b (+) XTIME(b)) (+) (d (+) e))) =
        (J(0, a) (+) (I(0, b) (+) J(0, b))) (+) (I(0, d) (+) I(0, e))
  <2>1. 0 \in 0..3
    OBVIOUS
  <2> QED BY <2>1, ProductOfMixed, XorAssociates
<1>2. Inv(1, XTIME(b) (+) ((d (+) XTIME(d)) (+) (e (+) a))) =
        (I(1, a) (+) J(1, b)) (+) ((I(1, d) (+) J(1, d)) (+) I(1, e))
  <2>1. 1 \in 0..3
    OBVIOUS
  <2>2. Inv(1, XTIME(b) (+) ((d (+) XTIME(d)) (+) (e (+) a))) =
          J(1, b) (+) ((I(1, d) (+) J(1, d)) (+) (I(1, e) (+) I(1, a)))
    BY <2>1, ProductOfMixed
  <2>3. \A w, x, y, z : w (+) (x (+) (y (+) z)) = (z (+) w) (+) (x (+) y)
    BY DEF (+)
  <2> HIDE DEF I, J
  <2> QED BY <2>2, <2>3
<1>3. Inv(2, XTIME(d) (+) ((e (+) XTIME(e)) (+) (a (+) b))) =
        (I(2, a) (+) I(2, b)) (+) (J(2, d) (+) (I(2, e) (+) J(2, e)))
  <2>1. 2 \in 0..3
    OBVIOUS
  <2>2. Inv(2, XTIME(d) (+) ((e (+) XTIME(e)) (+) (a (+) b))) =
          J(2, d) (+) ((I(2, e) (+) J(2, e)) (+) (I(2, a) (+) I(2, b)))
    BY <2>1, ProductOfMixed
  <2>3. \A w, x, y, z : w (+) (x (+) (y (+) z)) = (y (+) z) (+) (w (+) x)
    BY DEF (+)
  <2> HIDE DEF I, J
  <2> QED BY <2>2, <2>3
<1>4. Inv(3, XTIME(e) (+) ((a (+) XTIME(a)) (+) (b (+) d))) =
        ((I(3, a) (+) J(3, a)) (+) I(3, b)) (+) (I(3, d) (+) J(3, e))
  <2>1. 3 \in 0..3
    OBVIOUS
  <2>2. Inv(3, XTIME(e) (+) ((a (+) XTIME(a)) (+) (b (+) d))) =
          J(3, e) (+) ((I(3, a) (+) J(3, a)) (+) (I(3, b) (+) I(3, d)))
    BY <2>1, ProductOfMixed
  <2>3. \A w, x, y, z : w (+) (x (+) (y (+) z)) = (x (+) y) (+) (z (+) w)
    BY DEF (+)
  <2> HIDE DEF I, J
  <2> QED BY <2>2, <2>3
<1>5. /\ ((J(0, a) (+) I(1, a)) (+) I(2, a)) (+) (I(3, a) (+) J(3, a)) = a
      /\ (((I(0, b) (+) J(0, b)) (+) J(1, b)) (+) I(2, b)) (+) I(3, b) = {}
      /\ ((I(0, d) (+) (I(1, d) (+) J(1, d))) (+) J(2, d)) (+) I(3, d) = {}
      /\ ((I(0, e) (+) I(1, e)) (+) (I(2, e) (+) J(2, e))) (+) J(3, e) = {}
  BY Contributions
<1> HIDE DEF I, J
<1> DEFINE s == Inv(0, XTIME(a) (+) ((b (+) XTIME(b)) (+) (d (+) e)))
           t == Inv(1, XTIME(b) (+) ((d (+) XTIME(d)) (+) (e (+) a)))
           u == Inv(2, XTIME(d) (+) ((e (+) XTIME(e)) (+) (a (+) b)))
           v == Inv(3, XTIME(e) (+) ((a (+) XTIME(a)) (+) (b (+) d)))
<1> HIDE DEF s, t, u, v
<1> DEFINE s0 == J(0, a)              s1 == I(0, b) (+) J(0, b)
           s2 == I(0, d)              s3 == I(0, e)
           t0 == I(1, a)              t1 == J(1, b)
           t2 == I(1, d) (+) J(1, d)  t3 == I(1, e)
           u0 == I(2, a)              u1 == I(2, b)
           u2 == J(2, d)              u3 == I(2, e) (+) J(2, e)
           v0 == I(3, a) (+) J(3, a)  v1 == I(3, b)
           v2 == I(3, d)              v3 == J(3, e)
<1>6. /\ s = (s0 (+) s1) (+) (s2 (+) s3) /\ t = (t0 (+) t1) (+) (t2 (+) t3)
      /\ u = (u0 (+) u1) (+) (u2 (+) u3) /\ v = (v0 (+) v1) (+) (v2 (+) v3)
  BY <1>1, <1>2, <1>3, <1>4 DEF s, t, u, v
<1>7. /\ ((s0 (+) t0) (+) u0) (+) v0 = a /\ ((s1 (+) t1) (+) u1) (+) v1 = {}
      /\ ((s2 (+) t2) (+) u2) (+) v2 = {} /\ ((s3 (+) t3) (+) u3) (+) v3 = {}
  BY <1>5
<1> HIDE DEF s0, s1, s2, s3, t0, t1, t2, t3, u0, u1, u2, u3, v0, v1, v2, v3
<1>8. ((s (+) t) (+) u) (+) v = ((((s0 (+) t0) (+) u0) (+) v0) (+) (((s1 (+) t1) (+) u1) (+) v1))
                            (+) ((((s2 (+) t2) (+) u2) (+) v2) (+) (((s3 (+) t3) (+) u3) (+) v3))
  <2>1. s (+) t = ((s0 (+) t0) (+) (s1 (+) t1)) (+) ((s2 (+) t2) (+) (s3 (+) t3))
    <3>1. ((s0 (+) s1) (+) (s2 (+) s3)) (+) ((t0 (+) t1) (+) (t2 (+) t3)) =
            ((s0 (+) t0) (+) (s1 (+) t1)) (+) ((s2 (+) t2) (+) (s3 (+) t3))
      BY ONLY TwoRows, SMT
    <3> QED BY ONLY <1>6, <3>1
  <2> DEFINE w0 == s0 (+) t0  w1 == s1 (+) t1  w2 == s2 (+) t2  w3 == s3 (+) t3
  <2>2. s (+) t = (w0 (+) w1) (+) (w2 (+) w3)
    BY ONLY <2>1
  <2> HIDE DEF w0, w1, w2, w3
  <2>3. (s (+) t) (+) u = ((w0 (+) u0) (+) (w1 (+) u1)) (+) ((w2 (+) u2) (+) (w3 (+) u3))
    <3>1. ((w0 (+) w1) (+) (w2 (+) w3)) (+) ((u0 (+) u1) (+) (u2 (+) u3)) =
            ((w0 (+) u0) (+) (w1 (+) u1)) (+) ((w2 (+) u2) (+) (w3 (+) u3))
      BY ONLY TwoRows, SMT
    <3> QED BY ONLY <1>6, <2>2, <3>1
  <2> DEFINE y0 == w0 (+) u0  y1 == w1 (+) u1  y2 == w2 (+) u2  y3 == w3 (+) u3
  <2>4. (s (+) t) (+) u = (y0 (+) y1) (+) (y2 (+) y3)
    BY ONLY <2>3
  <2> HIDE DEF y0, y1, y2, y3
  <2>5. ((s (+) t) (+) u) (+) v = ((y0 (+) v0) (+) (y1 (+) v1)) (+) ((y2 (+) v2) (+) (y3 (+) v3))
    <3>1. ((y0 (+) y1) (+) (y2 (+) y3)) (+) ((v0 (+) v1) (+) (v2 (+) v3)) =
            ((y0 (+) v0) (+) (y1 (+) v1)) (+) ((y2 (+) v2) (+) (y3 (+) v3))
      BY ONLY TwoRows, SMT
    <3> QED BY ONLY <1>6, <2>4, <3>1
  <2> QED BY <2>5 DEF y0, y1, y2, y3, w0, w1, w2, w3
<1>9. ((s (+) t) (+) u) (+) v = (a (+) {}) (+) ({} (+) {})
  BY <1>7, <1>8
<1>10. (a (+) {}) (+) ({} (+) {}) = a
  BY DEF (+)
<1> QED BY <1>9, <1>10 DEF s, t, u, v

LEMMA UnMixed ==
  ASSUME NEW s \in Block
  PROVE  C!invMixColumns(EmbAll(Mixed(s))) = EmbAll(s)
<1> DEFINE m == Mixed(s)
           terms(q) == [n \in 0..3 |-> C!Mul(C!InvMixColKv[n + 1], EmbAll(m)[4 * (q \div 4) + ((q + n) % 4)])]
           Adds(f) == C!Sum(0..3, f)
<1>1. C!invMixColumns(EmbAll(m)) = [q \in 0..15 |-> C!Once(terms(q), Adds)]
  BY DEF C!invMixColumns
<1>2. \A q : C!Once(terms(q), Adds) = C!Sum(0..3, terms(q))
  <2> TAKE q
  <2> HIDE DEF terms, Adds
  <2>1. C!Once(terms(q), Adds) = Adds(terms(q))
    BY DEF C!Once
  <2> QED BY <2>1 DEF Adds
<1>3. m \in Block
  BY RoundBlocks
<1> HIDE DEF m
<1>4. ASSUME NEW q \in 0..15, NEW n \in 0..3 PROVE terms(q)[n] = Emb(Inv(n, m[At(q, n)]))
  <2>1. At(q, n) \in 0..15
    BY Positions
  <2>2. m[At(q, n)] \in Byte
    BY <1>3, <2>1, BytesOf
  <2>3. terms(q)[n] = C!Mul(C!InvMixColKv[n + 1], Emb(m[At(q, n)]))
    BY <2>1 DEF EmbAll, At
  <2> DEFINE b == m[At(q, n)]
  <2>4. b \in Byte
    BY <2>2
  <2> HIDE DEF b
  <2>5. /\ C!Mul(C!InvMixColKv[1], Emb(b)) = Emb(Inv(0, b))
        /\ C!Mul(C!InvMixColKv[2], Emb(b)) = Emb(Inv(1, b))
        /\ C!Mul(C!InvMixColKv[3], Emb(b)) = Emb(Inv(2, b))
        /\ C!Mul(C!InvMixColKv[4], Emb(b)) = Emb(Inv(3, b))
    BY <2>4, EmbeddingAssumption DEF Emb, Inv
  <2> HIDE DEF terms
  <2>6. n \in {0, 1, 2, 3}
    OBVIOUS
  <2>7. C!Mul(C!InvMixColKv[n + 1], Emb(b)) = Emb(Inv(n, b))
    <3>1. /\ 0 + 1 = 1 /\ 1 + 1 = 2 /\ 2 + 1 = 3 /\ 3 + 1 = 4
      OBVIOUS
    <3> QED BY <2>5, <2>6, <3>1
  <2> QED BY <2>3, <2>7 DEF b
<1> HIDE DEF terms
<1>5. ASSUME NEW q \in 0..15 PROVE C!Sum(0..3, terms(q)) = Emb(s[q])
  <2> DEFINE f == terms(q)
             x(n) == s[At(q, n)]
  <2>1. C!Sum(0..3, f) = ((f[0] (+) f[1]) (+) f[2]) (+) f[3]
    <3> HIDE DEF f
    <3>1. XorAll(0..(0 + 1), f) = XorAll(0..0, f) (+) f[0 + 1]
      BY SumTo
    <3>2. XorAll(0..(1 + 1), f) = XorAll(0..1, f) (+) f[1 + 1]
      BY SumTo
    <3>3. XorAll(0..(2 + 1), f) = XorAll(0..2, f) (+) f[2 + 1]
      BY SumTo
    <3>4. XorAll(0..0, f) = f[0]
      BY SumTo
    <3> QED BY <3>1, <3>2, <3>3, <3>4, SameBytes
  <2>2. \A n \in 0..3 : x(n) \in Byte
    BY Positions, BytesOf
  <2>3. \A n, j \in 0..3 : At(At(q, n), j) = At(q, (n + j) % 4)
    <3>1. \A n \in 0..3 : n \in {0, 1, 2, 3}
      OBVIOUS
    <3>2. q \in {0, 1, 2, 3, 4, 5, 6, 7, 8, 9, 10, 11, 12, 13, 14, 15}
      OBVIOUS
    <3> QED BY <3>1, <3>2 DEF At
  <2>4. ASSUME NEW n \in 0..3
        PROVE  m[At(q, n)] = XTIME(x(n)) (+) ((x((n + 1) % 4) (+) XTIME(x((n + 1) % 4)))
                                          (+) (x((n + 2) % 4) (+) x((n + 3) % 4)))
    <3> DEFINE p == At(q, n)
    <3>1. p \in 0..15
      BY Positions
    <3>2. At(p, 1) = At(q, (n + 1) % 4) /\ At(p, 2) = At(q, (n + 2) % 4) /\ At(p, 3) = At(q, (n + 3) % 4)
      BY <2>3
    <3> HIDE DEF p
    <3>3. m[p] = XTIME(s[p]) (+) ((s[At(p, 1)] (+) XTIME(s[At(p, 1)]))
                              (+) (s[At(p, 2)] (+) s[At(p, 3)]))
      BY <3>1 DEF m, Mixed
    <3> QED BY <3>2, <3>3 DEF p
  <2>5. x(0) = s[q]
    BY Positions
  <2> HIDE DEF x
  <2>6. /\ m[At(q, 0)] = XTIME(x(0)) (+) ((x(1) (+) XTIME(x(1))) (+) (x(2) (+) x(3)))
        /\ m[At(q, 1)] = XTIME(x(1)) (+) ((x(2) (+) XTIME(x(2))) (+) (x(3) (+) x(0)))
        /\ m[At(q, 2)] = XTIME(x(2)) (+) ((x(3) (+) XTIME(x(3))) (+) (x(0) (+) x(1)))
        /\ m[At(q, 3)] = XTIME(x(3)) (+) ((x(0) (+) XTIME(x(0))) (+) (x(1) (+) x(2)))
    <3>1. /\ (0 + 1) % 4 = 1 /\ (0 + 2) % 4 = 2 /\ (0 + 3) % 4 = 3
          /\ (1 + 1) % 4 = 2 /\ (1 + 2) % 4 = 3 /\ (1 + 3) % 4 = 0
          /\ (2 + 1) % 4 = 3 /\ (2 + 2) % 4 = 0 /\ (2 + 3) % 4 = 1
          /\ (3 + 1) % 4 = 0 /\ (3 + 2) % 4 = 1 /\ (3 + 3) % 4 = 2
      OBVIOUS
    <3>2. 0 \in 0..3 /\ 1 \in 0..3 /\ 2 \in 0..3 /\ 3 \in 0..3
      OBVIOUS
    <3> QED BY <2>4, <3>1, <3>2
  <2>7. /\ f[0] = Emb(Inv(0, m[At(q, 0)])) /\ f[1] = Emb(Inv(1, m[At(q, 1)]))
        /\ f[2] = Emb(Inv(2, m[At(q, 2)])) /\ f[3] = Emb(Inv(3, m[At(q, 3)]))
    BY <1>4
  <2> HIDE DEF f
  <2>8. C!Sum(0..3, f) = Emb(((Inv(0, m[At(q, 0)]) (+) Inv(1, m[At(q, 1)])) (+) Inv(2, m[At(q, 2)]))
                               (+) Inv(3, m[At(q, 3)]))
    BY <2>1, <2>7, EmbAdds
  <2>9. x(0) \in Byte /\ x(1) \in Byte /\ x(2) \in Byte /\ x(3) \in Byte
    BY <2>2
  <2>10. ((Inv(0, m[At(q, 0)]) (+) Inv(1, m[At(q, 1)])) (+) Inv(2, m[At(q, 2)]))
                               (+) Inv(3, m[At(q, 3)]) = x(0)
    BY <2>6, <2>9, ColumnBack
  <2> QED BY <2>5, <2>8, <2>10 DEF f
<1>6. C!invMixColumns(EmbAll(m)) = [q \in 0..15 |-> Emb(s[q])]
  BY <1>1, <1>2, <1>5
<1> QED BY <1>6 DEF m, EmbAll

\* The computation at work: where it is says which cells it holds.
Embedding(bytes) == [j \in DOMAIN bytes |-> Emb(bytes[j])]

BlockRuns ==
  LET rk   == mbedtls_aes_setkey_enc(job.key)
      A(n) == AfterRounds(rk, job.cells, n)
  IN  \/ /\ pc = "encrypt" /\ round \in 0..9
         /\ keys = [n \in 0..round |-> EmbAll(rk[n])]
         /\ state = EmbAll(A(round))
      \/ /\ pc = "encrypt" /\ round = 10
         /\ keys = [n \in 0..10 |-> EmbAll(rk[n])]
         /\ state = EmbAll(mbedtls_aes_crypt_ecb(rk, job.cells))
      \/ /\ pc = "decrypt" /\ round \in 0..9
         /\ keys = [n \in 0..10 |-> EmbAll(rk[n])]
         /\ state = EmbAll(A(round))
      \/ pc = "done" /\ state = EmbAll(job.cells)

CellRuns ==
  \/ pc = "encrypt" /\ round = 0 /\ state = Embedding(job.cells)
  \/ /\ pc = "encrypt" /\ round = 1
     /\ state = [j \in DOMAIN job.cells |-> Emb(SubByte(job.cells[j]))]
  \/ pc = "done" /\ round = 0 /\ state = Embedding(job.cells)

CipherRuns ==
  \/ NoCipher
  \/ job \in Inputs /\ job.kind = "block" /\ BlockRuns
  \/ job \in Inputs /\ job.kind = "cell" /\ CellRuns

\* A block's embedding, as the computation makes it.
LEMMA EmbeddedBlock == \A z \in Block : C!SecretArrayEmbedd(z) = EmbAll(z)
BY DEF C!SecretArrayEmbedd, EmbAll, Emb, Block, Buffer, BlockLen

LEMMA JobInputs ==
  ASSUME job \in Inputs
  PROVE  /\ job.kind = "block" => job.key \in Block /\ job.cells \in Block
         /\ job.kind = "cell" => job.cells \in [{0} -> Byte]
BY InputsAssumption

\* What the device computes for the job, round by round.
LEMMA JobRounds ==
  ASSUME job \in Inputs, job.kind = "block",
         NEW rk, rk = mbedtls_aes_setkey_enc(job.key)
  PROVE  /\ rk[0] = job.key
         /\ \A n \in 0..9 : rk[n + 1] = NextKey(rk[n], n)
         /\ \A n \in 0..10 : rk[n] \in Block
         /\ AfterRounds(rk, job.cells, 0) = Added(rk[0], job.cells)
         /\ \A n \in 0..8 : AfterRounds(rk, job.cells, n + 1) =
                              Added(rk[n + 1], Mixed(SubShift(AfterRounds(rk, job.cells, n))))
         /\ \A n \in 0..9 : AfterRounds(rk, job.cells, n) \in Block
         /\ mbedtls_aes_crypt_ecb(rk, job.cells) =
              Added(rk[10], SubShift(AfterRounds(rk, job.cells, 9)))
<1>1. job.key \in Block /\ job.cells \in Block
  BY JobInputs
<1> DEFINE key == job.key
           z   == job.cells
<1>2. key \in Block /\ z \in Block /\ rk = mbedtls_aes_setkey_enc(key)
  BY <1>1
<1> HIDE DEF key, z
<1>3. /\ rk[0] = key
      /\ \A n \in 0..9 : rk[n + 1] = NextKey(rk[n], n)
      /\ \A n \in 0..10 : rk[n] \in Block
  BY <1>2, RoundKeys
<1>4. /\ AfterRounds(rk, z, 0) = Added(rk[0], z)
      /\ \A n \in 0..8 : AfterRounds(rk, z, n + 1) =
                           Added(rk[n + 1], Mixed(SubShift(AfterRounds(rk, z, n))))
      /\ \A n \in 0..9 : AfterRounds(rk, z, n) \in Block
  BY <1>2, <1>3, DeviceRounds
<1>5. mbedtls_aes_crypt_ecb(rk, z) = Added(rk[10], SubShift(AfterRounds(rk, z, 9)))
  BY DeviceLast
<1> QED BY <1>3, <1>4, <1>5 DEF key, z

LEMMA StartsRunning == ASSUME C!Init PROVE CipherRuns
<1>0. job \in Inputs
  BY DEF C!Init
<1>1. CASE job.kind = "block"
  <2> DEFINE rk == mbedtls_aes_setkey_enc(job.key)
  <2>1. job.key \in Block /\ job.cells \in Block
    BY <1>0, <1>1, JobInputs
  <2>2. rk[0] = job.key /\ AfterRounds(rk, job.cells, 0) = Added(rk[0], job.cells)
    BY <1>0, <1>1, JobRounds
  <2>3. pc = "encrypt" /\ round = 0
    BY DEF C!Init
  <2>4. keys = [n \in {0} |-> EmbAll(job.key)]
    BY <2>1, EmbeddedBlock DEF C!Init
  <2>5. state = C!addRoundKey(C!SecretArrayEmbedd(job.cells), keys[0])
    BY <1>1 DEF C!Init
  <2>6. state = EmbAll(Added(job.key, job.cells))
    BY <2>1, <2>4, <2>5, EmbeddedBlock, AddedKey
  <2>7. round \in 0..9 /\ 0..round = {0}
    BY <2>3
  <2> HIDE DEF rk
  <2>8. keys = [n \in 0..round |-> EmbAll(rk[n])]
    BY <2>2, <2>4, <2>7
  <2>9. state = EmbAll(AfterRounds(rk, job.cells, round))
    BY <2>2, <2>3, <2>6
  <2> QED BY <1>0, <1>1, <2>3, <2>7, <2>8, <2>9 DEF rk, CipherRuns, BlockRuns
<1>2. CASE job.kind = "cell"
  <2>1. state = C!SecretArrayEmbedd(job.cells)
    BY <1>2 DEF C!Init
  <2>2. pc = "encrypt" /\ round = 0
    BY DEF C!Init
  <2> QED BY <1>0, <1>2, <2>1, <2>2 DEF CipherRuns, CellRuns, Embedding, Emb, C!SecretArrayEmbedd
<1> QED BY <1>0, <1>1, <1>2, InputsAssumption

LEMMA ExpandsKey ==
  ASSUME job \in Inputs, job.kind = "block",
         NEW rk, rk = mbedtls_aes_setkey_enc(job.key),
         NEW n, n \in 0..9, round = n,
         keys = [m \in 0..n |-> EmbAll(rk[m])],
         C!Expand
  PROVE  keys' = [m \in 0..(n + 1) |-> EmbAll(rk[m])]
<1> DEFINE Extended(key) == [m \in 0..(round + 1) |-> IF m <= round THEN keys[m] ELSE key]
           next == C!NextRoundKey(keys[round], round + 1)
<1>1. keys' = C!Once(next, Extended)
  BY DEF C!Expand
<1>2. keys' = Extended(next)
  <2> HIDE DEF Extended, next
  <2>1. C!Once(next, Extended) = Extended(next)
    BY DEF C!Once
  <2> QED BY <1>1, <2>1
<1>3. next = EmbAll(rk[n + 1])
  <2>1. keys[n] = EmbAll(rk[n])
    OBVIOUS
  <2>2. rk[n] \in Block /\ rk[n + 1] = NextKey(rk[n], n)
    BY JobRounds
  <2>3. C!NextRoundKey(EmbAll(rk[n]), n + 1) = EmbAll(NextKey(rk[n], n))
    BY <2>2, KeysEmbed
  <2> QED BY <2>1, <2>2, <2>3
<1> HIDE DEF next
<1>4. ASSUME NEW m \in 0..(n + 1) PROVE (IF m <= n THEN keys[m] ELSE next) = EmbAll(rk[m])
  <2>1. CASE m <= n
    BY <2>1
  <2>2. CASE ~(m <= n)
    <3>1. m = n + 1
      BY <2>2
    <3> QED BY <1>3, <2>2, <3>1
  <2> QED BY <2>1, <2>2
<1> QED BY <1>2, <1>4

LEMMA CipherSteps ==
  ASSUME CipherRuns, C!Next
  PROVE  CipherRuns'
<1>1. ~NoCipher
  BY DEF NoCipher, none, C!Next, C!FullRound, C!LastRound, C!InvFirst, C!InvRound, C!InvLast,
         C!Cell, C!InvCell
<1>2. job' = job /\ job \in Inputs
  BY <1>1 DEF CipherRuns, C!Next, C!FullRound, C!LastRound, C!InvFirst, C!InvRound, C!InvLast,
              C!Cell, C!InvCell
<1>3. CASE job.kind = "block"
  <2> DEFINE rk == mbedtls_aes_setkey_enc(job.key)
             A(n) == AfterRounds(rk, job.cells, n)
             last == mbedtls_aes_crypt_ecb(rk, job.cells)
  <2>1. rk' = rk /\ last' = last /\ \A n : A(n)' = A(n)
    BY <1>2
  <2>2. /\ rk[0] = job.key
        /\ \A n \in 0..10 : rk[n] \in Block
        /\ A(0) = Added(rk[0], job.cells)
        /\ \A n \in 0..8 : A(n + 1) = Added(rk[n + 1], Mixed(SubShift(A(n))))
        /\ \A n \in 0..9 : A(n) \in Block
        /\ last = Added(rk[10], SubShift(A(9)))
    BY <1>2, <1>3, JobRounds
  <2>3. job.cells \in Block
    BY <1>2, <1>3, JobInputs
  <2>4. rk = mbedtls_aes_setkey_enc(job.key)
    OBVIOUS
  <2>5. \/ pc = "encrypt" /\ round \in 0..9 /\ keys = [n \in 0..round |-> EmbAll(rk[n])]
           /\ state = EmbAll(A(round))
        \/ pc = "encrypt" /\ round = 10 /\ keys = [n \in 0..10 |-> EmbAll(rk[n])]
           /\ state = EmbAll(last)
        \/ pc = "decrypt" /\ round \in 0..9 /\ keys = [n \in 0..10 |-> EmbAll(rk[n])]
           /\ state = EmbAll(A(round))
        \/ pc = "done"
    BY <1>1, <1>3 DEF CipherRuns, BlockRuns
  <2>6. \/ pc' = "encrypt" /\ round' \in 0..9 /\ keys' = [n \in 0..round' |-> EmbAll(rk[n])]
           /\ state' = EmbAll(A(round'))
        \/ pc' = "encrypt" /\ round' = 10 /\ keys' = [n \in 0..10 |-> EmbAll(rk[n])]
           /\ state' = EmbAll(last)
        \/ pc' = "decrypt" /\ round' \in 0..9 /\ keys' = [n \in 0..10 |-> EmbAll(rk[n])]
           /\ state' = EmbAll(A(round'))
        \/ pc' = "done" /\ state' = EmbAll(job.cells)
        => CipherRuns'
    BY <1>2, <1>3, <2>1 DEF CipherRuns, BlockRuns
  <2> HIDE DEF rk, A, last
  <2>7. CASE C!FullRound
    <3>1. pc = "encrypt" /\ round \in 0..8
          /\ keys = [n \in 0..round |-> EmbAll(rk[n])] /\ state = EmbAll(A(round))
      BY <2>5, <2>7 DEF C!FullRound
    <3>2. pc' = "encrypt" /\ round' = round + 1
          /\ state' = C!aesRound(state, keys'[round + 1]) /\ C!Expand
      BY <2>7, <3>1 DEF C!FullRound
    <3>3. round \in 0..9 /\ round + 1 \in 0..9 /\ round + 1 \in 0..(round + 1)
      BY <3>1
    <3>4. keys' = [m \in 0..(round + 1) |-> EmbAll(rk[m])]
      <4> DEFINE n == round
      <4>1. n \in 0..9 /\ round = n /\ keys = [m \in 0..n |-> EmbAll(rk[m])]
        BY <3>1, <3>3
      <4> HIDE DEF n
      <4>2. keys' = [m \in 0..(n + 1) |-> EmbAll(rk[m])]
        BY <1>2, <1>3, <2>4, <3>2, <4>1, ExpandsKey
      <4> QED BY <4>1, <4>2
    <3>5. keys'[round + 1] = EmbAll(rk[round + 1])
      BY <3>3, <3>4
    <3>6. A(round) \in Block /\ A(round + 1) = Added(rk[round + 1], Mixed(SubShift(A(round))))
      BY <2>2, <3>1, <3>3
    <3>7. C!shiftRows(C!subBytes(EmbAll(A(round)))) = EmbAll(SubShift(A(round)))
      BY <3>6, Substituted
    <3>8. C!mixColumns(EmbAll(SubShift(A(round)))) = EmbAll(Mixed(SubShift(A(round))))
      BY <3>6, RoundBlocks, MixedColumns
    <3>9. state' = EmbAll(A(round + 1))
      BY <3>1, <3>2, <3>5, <3>6, <3>7, <3>8, ComputedRound, AddedKey
    <3> QED BY <2>6, <3>2, <3>3, <3>4, <3>9
  <2>8. CASE C!LastRound
    <3>1. pc = "encrypt" /\ round = 9
          /\ keys = [n \in 0..9 |-> EmbAll(rk[n])] /\ state = EmbAll(A(9))
      BY <2>5, <2>8 DEF C!LastRound
    <3> DEFINE AddKey(x) == C!addRoundKey(x, keys'[10])
               s == C!subBytes(state)
    <3>2. pc' = "encrypt" /\ round' = 10 /\ C!Expand
          /\ state' = C!Once(C!Once(s, C!shiftRows), AddKey)
      BY <2>8, <3>1 DEF C!LastRound
    <3>3. state' = C!addRoundKey(C!shiftRows(s), keys'[10])
      <4> HIDE DEF AddKey, s
      <4>1. \A x : C!Once(x, C!shiftRows) = C!shiftRows(x)
        BY DEF C!Once
      <4>2. \A x : C!Once(x, AddKey) = AddKey(x)
        BY DEF C!Once
      <4> QED BY <3>2, <4>1, <4>2 DEF AddKey
    <3>4. keys' = [m \in 0..10 |-> EmbAll(rk[m])]
      <4>1. 9 \in 0..9 /\ 9 + 1 = 10
        OBVIOUS
      <4> DEFINE n == 9
      <4>2. n \in 0..9 /\ round = n /\ keys = [m \in 0..n |-> EmbAll(rk[m])]
        BY <3>1, <4>1
      <4> HIDE DEF n
      <4>3. keys' = [m \in 0..(n + 1) |-> EmbAll(rk[m])]
        BY <1>2, <1>3, <2>4, <3>2, <4>2, ExpandsKey
      <4> QED BY <4>1, <4>3 DEF n
    <3>5. keys'[10] = EmbAll(rk[10])
      BY <3>4
    <3>6. A(9) \in Block
      BY <2>2
    <3>7. C!shiftRows(C!subBytes(EmbAll(A(9)))) = EmbAll(SubShift(A(9)))
      BY <3>6, Substituted
    <3>8. state' = EmbAll(last)
      BY <2>2, <3>1, <3>3, <3>5, <3>7, AddedKey
    <3> QED BY <2>6, <3>2, <3>4, <3>8
  <2>9. CASE C!InvFirst
    <3>1. pc = "encrypt" /\ round = 10
          /\ keys = [n \in 0..10 |-> EmbAll(rk[n])] /\ state = EmbAll(last)
      BY <2>5, <2>9 DEF C!InvFirst
    <3>2. pc' = "decrypt" /\ round' = 9 /\ keys' = keys
          /\ state' = C!Once(C!Once(C!addRoundKey(state, keys[10]), C!invShiftRows), C!invSubBytes)
      BY <2>9 DEF C!InvFirst
    <3>3. state' = C!invSubBytes(C!invShiftRows(C!addRoundKey(state, keys[10])))
      <4>1. \A x : C!Once(x, C!invShiftRows) = C!invShiftRows(x)
        BY DEF C!Once
      <4>2. \A x : C!Once(x, C!invSubBytes) = C!invSubBytes(x)
        BY DEF C!Once
      <4> QED BY <3>2, <4>1, <4>2
    <3>4. keys[10] = EmbAll(rk[10])
      BY <3>1
    <3>5. A(9) \in Block
      BY <2>2
    <3>6. C!addRoundKey(state, keys[10]) = EmbAll(SubShift(A(9)))
      BY <2>2, <3>1, <3>4, <3>5, RoundBlocks, UnAdded
    <3>7. state' = EmbAll(A(9))
      BY <3>3, <3>5, <3>6, UnSubstituted
    <3>8. 9 \in 0..9
      OBVIOUS
    <3> QED BY <2>6, <3>1, <3>2, <3>7, <3>8
  <2>10. CASE C!InvRound
    <3>1. pc = "decrypt" /\ round \in 1..9
          /\ keys = [n \in 0..10 |-> EmbAll(rk[n])] /\ state = EmbAll(A(round))
      BY <2>5, <2>10 DEF C!InvRound
    <3>2. pc' = "decrypt" /\ round' = round - 1 /\ keys' = keys
          /\ state' = C!invAesRound(state, keys[round])
      BY <2>10, <3>1 DEF C!InvRound
    <3>3. state' = C!invSubBytes(C!invShiftRows(C!invMixColumns(C!addRoundKey(state, keys[round]))))
      <4> DEFINE x == state
                 k == keys[round]
      <4>1. C!invAesRound(x, k) = C!Once(C!Once(C!Once(C!addRoundKey(x, k), C!invMixColumns),
                                              C!invShiftRows), C!invSubBytes)
        BY DEF C!invAesRound
      <4> HIDE DEF x, k
      <4>2. \A y : C!Once(y, C!invMixColumns) = C!invMixColumns(y)
        BY DEF C!Once
      <4>3. \A y : C!Once(y, C!invShiftRows) = C!invShiftRows(y)
        BY DEF C!Once
      <4>4. \A y : C!Once(y, C!invSubBytes) = C!invSubBytes(y)
        BY DEF C!Once
      <4> QED BY <3>2, <4>1, <4>2, <4>3, <4>4 DEF x, k
    <3> DEFINE n == round - 1
    <3>4. n \in 0..8 /\ n \in 0..9 /\ n + 1 = round /\ round' = n /\ round \in 0..10
      BY <3>1, <3>2
    <3> HIDE DEF n
    <3>5. keys[round] = EmbAll(rk[n + 1])
      BY <3>1, <3>4
    <3>6. A(n) \in Block /\ state = EmbAll(Added(rk[n + 1], Mixed(SubShift(A(n)))))
      BY <2>2, <3>1, <3>4
    <3>7. SubShift(A(n)) \in Block /\ Mixed(SubShift(A(n))) \in Block
      BY <3>6, RoundBlocks
    <3>8. C!addRoundKey(state, keys[round]) = EmbAll(Mixed(SubShift(A(n))))
      BY <3>5, <3>6, <3>7, UnAdded
    <3>9. state' = EmbAll(A(n))
      BY <3>3, <3>6, <3>7, <3>8, UnMixed, UnSubstituted
    <3> QED BY <2>6, <3>1, <3>2, <3>4, <3>9
  <2>11. CASE C!InvLast
    <3>1. pc = "decrypt" /\ round = 0
          /\ keys = [n \in 0..10 |-> EmbAll(rk[n])] /\ state = EmbAll(A(0))
      BY <2>5, <2>11 DEF C!InvLast
    <3>2. pc' = "done" /\ state' = C!addRoundKey(state, keys[0])
      BY <2>11 DEF C!InvLast
    <3>3. keys[0] = EmbAll(rk[0])
      BY <3>1
    <3>4. state' = EmbAll(job.cells)
      BY <2>2, <2>3, <3>1, <3>2, <3>3, UnAdded
    <3> QED BY <2>6, <3>2, <3>4
  <2> QED BY <1>3, <2>7, <2>8, <2>9, <2>10, <2>11 DEF C!Next, C!Cell, C!InvCell
<1>4. CASE job.kind = "cell"
  <2>1. \A j \in DOMAIN job.cells : job.cells[j] \in Byte
    BY <1>2, <1>4, JobInputs
  <2>2. \/ pc = "encrypt" /\ round = 0 /\ state = Embedding(job.cells)
        \/ pc = "encrypt" /\ round = 1
           /\ state = [j \in DOMAIN job.cells |-> Emb(SubByte(job.cells[j]))]
        \/ pc = "done"
    BY <1>1, <1>4 DEF CipherRuns, CellRuns
  <2>3. CASE C!Cell
    <3>1. state = Embedding(job.cells)
      BY <2>2, <2>3 DEF C!Cell
    <3>2. pc' = "encrypt" /\ round' = 1 /\ state' = C!subBytes(state)
      BY <2>3 DEF C!Cell
    <3>3. state' = [j \in DOMAIN job.cells |-> C!forward_bit_sbox(Emb(job.cells[j]))]
      BY <3>1, <3>2 DEF C!subBytes, Embedding
    <3>4. \A j \in DOMAIN job.cells : C!forward_bit_sbox(Emb(job.cells[j])) = Emb(SubByte(job.cells[j]))
      BY <2>1, SboxEmbeds
    <3>5. state' = [j \in DOMAIN job.cells |-> Emb(SubByte(job.cells[j]))]
      BY <3>3, <3>4
    <3> QED BY <1>2, <1>4, <3>2, <3>5 DEF CipherRuns, CellRuns
  <2>4. CASE C!InvCell
    <3>1. state = [j \in DOMAIN job.cells |-> Emb(SubByte(job.cells[j]))]
      BY <2>2, <2>4 DEF C!InvCell
    <3>2. pc' = "done" /\ round' = 0 /\ state' = C!invSubBytes(state)
      BY <2>4 DEF C!InvCell
    <3>3. state' = [j \in DOMAIN job.cells |-> C!backward_bit_sbox(Emb(SubByte(job.cells[j])))]
      BY <3>1, <3>2 DEF C!invSubBytes
    <3>4. \A j \in DOMAIN job.cells : C!backward_bit_sbox(Emb(SubByte(job.cells[j]))) = Emb(job.cells[j])
      BY <2>1, SboxEmbeds
    <3>5. state' = Embedding(job.cells)
      BY <3>3, <3>4 DEF Embedding
    <3> QED BY <1>2, <1>4, <3>2, <3>5 DEF CipherRuns, CellRuns
  <2> QED BY <1>4, <2>3, <2>4 DEF C!Next, C!FullRound, C!LastRound, C!InvFirst, C!InvRound, C!InvLast
<1> QED BY <1>2, <1>3, <1>4, InputsAssumption

LEMMA CipherRunsHolds == MCSpec => []CipherRuns
<1>1. MCInit => CipherRuns
  BY StartsRunning DEF MCInit, CipherRuns
<1>2. CipherRuns /\ [MCNext]_allVars => CipherRuns'
  <2> SUFFICES ASSUME CipherRuns, [MCNext]_allVars PROVE CipherRuns'
    OBVIOUS
  <2>1. CASE C!Next
    BY <2>1, CipherSteps
  <2>2. CASE UNCHANGED cipherVars
    BY <2>2 DEF cipherVars, CipherRuns, NoCipher, BlockRuns, CellRuns
  <2> QED BY <2>1, <2>2 DEF MCNext, allVars
<1> QED BY <1>1, <1>2, PTL DEF MCSpec

\* SboxAgrees, for every byte: subBytes of an embedded byte is what the device's
\* table FSb has for the byte, embedded.
THEOREM SboxAgreesHolds == MCSpec => []SboxAgrees
<1>1. CipherRuns => SboxAgrees
  <2> SUFFICES ASSUME CipherRuns, job.kind = "cell", round = 1
               PROVE  state[0] = C!ApplyEmbedding(SubByte(job.cells[0]))
    BY DEF SboxAgrees
  <2>1. job \in Inputs /\ CellRuns
    BY DEF CipherRuns, NoCipher, none
  <2>2. DOMAIN job.cells = {0}
    BY <2>1, JobInputs
  <2>3. state = [j \in DOMAIN job.cells |-> Emb(SubByte(job.cells[j]))]
    BY <2>1 DEF CellRuns
  <2> QED BY <2>2, <2>3 DEF Emb
<1> QED BY <1>1, CipherRunsHolds, PTL

\* CipherAgrees, for every key and every block: after each round of aesMain, and of
\* expandAESKey, cells and key are the embedded ones of mbedtls_aes_crypt_ecb.
THEOREM CipherAgreesHolds == MCSpec => []CipherAgrees
<1>1. CipherRuns => CipherAgrees
  <2> SUFFICES ASSUME CipherRuns, job.kind = "block", pc = "encrypt" PROVE CipherAgrees
    BY DEF CipherAgrees
  <2> DEFINE rk == mbedtls_aes_setkey_enc(job.key)
             A(n) == AfterRounds(rk, job.cells, n)
             last == mbedtls_aes_crypt_ecb(rk, job.cells)
             Agrees(r) ==
               /\ keys[round] = C!SecretArrayEmbedd(r[round])
               /\ state = C!SecretArrayEmbedd(IF round < 10 THEN AfterRounds(r, job.cells, round)
                                              ELSE mbedtls_aes_crypt_ecb(r, job.cells))
  <2>1. CipherAgrees <=> Once(rk, Agrees)
    BY DEF CipherAgrees
  <2>2. Once(rk, Agrees) = Agrees(rk)
    <3> HIDE DEF rk, Agrees
    <3> QED BY DEF Once
  <2>3. ~NoCipher /\ job \in Inputs /\ BlockRuns
    BY DEF CipherRuns, NoCipher, none
  <2>4. /\ \A n \in 0..10 : rk[n] \in Block
        /\ \A n \in 0..9 : A(n) \in Block
        /\ last = Added(rk[10], SubShift(A(9)))
    BY <2>3, JobRounds
  <2>5. \/ round \in 0..9 /\ keys = [n \in 0..round |-> EmbAll(rk[n])] /\ state = EmbAll(A(round))
        \/ round = 10 /\ keys = [n \in 0..10 |-> EmbAll(rk[n])] /\ state = EmbAll(last)
    BY <2>3 DEF BlockRuns
  <2>6. CASE round \in 0..9 /\ keys = [n \in 0..round |-> EmbAll(rk[n])] /\ state = EmbAll(A(round))
    <3>1. round < 10 /\ round \in 0..10 /\ round \in 0..round
      BY <2>6
    <3> HIDE DEF rk
    <3>2. keys[round] = C!SecretArrayEmbedd(rk[round])
      BY <2>4, <2>6, <3>1, EmbeddedBlock
    <3>3. state = C!SecretArrayEmbedd(AfterRounds(rk, job.cells, round))
      BY <2>4, <2>6, EmbeddedBlock
    <3> QED BY <2>1, <2>2, <3>1, <3>2, <3>3
  <2>7. CASE round = 10 /\ keys = [n \in 0..10 |-> EmbAll(rk[n])] /\ state = EmbAll(last)
    <3> HIDE DEF rk
    <3>1. last \in Block
      <4>1. rk[10] \in Block /\ A(9) \in Block
        BY <2>4
      <4> QED BY <2>4, <4>1, RoundBlocks
    <3>2. keys[round] = C!SecretArrayEmbedd(rk[round])
      BY <2>4, <2>7, EmbeddedBlock
    <3>3. state = C!SecretArrayEmbedd(mbedtls_aes_crypt_ecb(rk, job.cells))
      BY <2>7, <3>1, EmbeddedBlock
    <3> QED BY <2>1, <2>2, <2>7, <3>2, <3>3
  <2> QED BY <2>5, <2>6, <2>7
<1> QED BY <1>1, CipherRunsHolds, PTL

\* DecryptionInverts, for every key, block and byte: what invAesMain makes of what
\* aesMain made, and invSubBytes of what subBytes did, are the embedded bytes.
THEOREM DecryptionInvertsHolds == MCSpec => []DecryptionInverts
<1>1. CipherRuns => DecryptionInverts
  <2> SUFFICES ASSUME CipherRuns, pc = "done" PROVE DecryptionInverts
    BY DEF DecryptionInverts
  <2>1. \A j \in DOMAIN job.cells : job.cells[j] \in Byte
    BY JobInputs DEF CipherRuns, NoCipher, Block, Buffer, BlockLen
  <2>2. state = Embedding(job.cells)
    <3>1. \A z \in Block : EmbAll(z) = Embedding(z)
      BY DEF EmbAll, Embedding, Block, Buffer, BlockLen
    <3> QED BY <3>1, JobInputs DEF CipherRuns, NoCipher, BlockRuns, CellRuns
  <2>3. \A j \in DOMAIN job.cells : C!InverseEmbedding(Emb(job.cells[j])) = job.cells[j]
    BY <2>1, EmbeddingAssumption DEF Emb
  <2> QED BY <2>2, <2>3 DEF DecryptionInverts, Embedding, Emb, C!SecretArrayEmbedd
<1> QED BY <1>1, CipherRunsHolds, PTL
=============================================================================
