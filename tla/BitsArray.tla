----------------------------- MODULE BitsArray ------------------------------
(***************************************************************************)
(* BitsArray of MPC/code/utils.py: arrays in the memory of the virtual     *)
(* machine, which MP-SPDZ hands out and takes back. An access by index, by *)
(* a pair (start, n) or of the whole array is one of n elements from start *)
(* on.                                                                     *)
(***************************************************************************)
EXTENDS Integers, Sequences, FiniteSetsExt

CONSTANTS
  Arrays,      \* the objects
  Lengths,     \* their lengths
  MemSize,     \* dtype.mem_size(), the cells that an element takes
  Cells,       \* how many cells the memory has
  Values,      \* what elements can be
  MaxStore,    \* how many are stored at once
  Careful      \* nobody uses an array that he freed, or elements it has not

ASSUME ArraysAssumption ==
  /\ Lengths \subseteq Nat /\ MemSize \in Nat /\ MemSize > 0 /\ Cells \in Nat
  /\ MaxStore \in Nat /\ Careful \in BOOLEAN

VARIABLES
  mem,        \* the memory: of which value, and which part of it
  array,      \* the objects of which __init__ has run
  owned,      \* those whose memory MP-SPDZ has not got back
  content     \* history: what was stored in the elements

arrayVars == <<mem, array, owned, content>>

None == "none"

\* The cells of n elements of a from start on.
Span(address, n) == address..(address + n * MemSize - 1)
Held(a)          == Span(array[a].address, array[a].length)

ArraysInit ==
  /\ mem = [x \in 0..(Cells - 1) |-> <<None, 0>>]
  /\ array = << >>
  /\ owned = {}
  /\ content = << >>

\* f, and v for a new object.
With(f, a, v) == [b \in DOMAIN f \cup {a} |-> IF b = a THEN v ELSE f[b]]

\* Slip: the length is that in cells.
NewInCells(a, length, address) ==
  /\ a \notin DOMAIN array
  /\ Span(address, length) \subseteq DOMAIN mem
  /\ \A b \in owned : Held(b) \cap Span(address, length) = {}
  /\ array' = With(array, a, [address |-> address, length |-> length * MemSize, freed |-> FALSE])
  /\ owned' = owned \cup {a}
  /\ content' = With(content, a, [k \in 0..(length * MemSize - 1) |-> None])
  /\ UNCHANGED mem

\* __init__. dtype.malloc gives any cells that nobody owns.
New(a, length, address) ==
  /\ a \notin DOMAIN array
  /\ Span(address, length) \subseteq DOMAIN mem
  /\ \A b \in owned : Held(b) \cap Span(address, length) = {}
  /\ array' = With(array, a, [address |-> address, length |-> length, freed |-> FALSE])
  /\ owned' = owned \cup {a}
  /\ content' = With(content, a, [k \in 0..(length - 1) |-> None])
  /\ UNCHANGED mem

\* The assertion of all three methods, and what the callers take care of.
MayUse(a, start, n) ==
  /\ a \in DOMAIN array /\ ~array[a].freed
  /\ Careful => a \in owned /\ start + n <= array[a].length

\* Slip: elements lie one cell apart.
ElementClose(a, k) == array[a].address + k

\* The address of an element, which the loops reach step by step.
Element(a, k) == array[a].address + k * MemSize

\* store_in_mem. What happens beyond the memory is MP-SPDZ's.
Store(a, start, state) ==
  LET n == Len(state)
      at(x) == {k \in 0..(n - 1) : x \in Span(Element(a, start + k), 1)}
  IN  /\ MayUse(a, start, n)
      /\ Element(a, start + n) <= Cells
      /\ mem' = [x \in DOMAIN mem |->
                   IF at(x) = {} THEN mem[x]
                   ELSE <<state[Max(at(x)) + 1], x - Element(a, start + Max(at(x)))>>]
      /\ content' = [content EXCEPT ![a] =
                       [k \in DOMAIN @ |-> IF k \in start..(start + n - 1)
                                           THEN state[k - start + 1] ELSE @[k]]]
      /\ UNCHANGED <<array, owned>>

\* free. The flag stays as it is.
Free(a) ==
  /\ MayUse(a, 0, 0)
  /\ owned' = owned \ {a}
  /\ UNCHANGED <<mem, array, content>>

\* The element that load_mem returns for index k, or None if its cells do not
\* hold one element.
Load(a, k) ==
  LET at == Element(a, k)
      v  == mem[at][1]
  IN  IF \A q \in 0..(MemSize - 1) : mem[at + q] = <<v, q>> THEN v ELSE None

ArraysNext ==
  \E a \in Arrays :
    \/ \E length \in Lengths, address \in DOMAIN mem : New(a, length, address)
    \/ \E start \in 0..Cells, n \in 1..MaxStore : \E state \in [1..n -> Values] :
         Store(a, start, state)
    \/ Free(a)

ArraysSpec == ArraysInit /\ [][ArraysNext]_arrayVars

(***************************************************************************)
(* Properties                                                              *)
(***************************************************************************)
ArraysTypeOK ==
  /\ DOMAIN mem = 0..(Cells - 1)
  /\ owned \subseteq DOMAIN array /\ DOMAIN array \subseteq Arrays
  /\ \A a \in DOMAIN array :
       /\ array[a].length \in Lengths /\ array[a].address \in Nat
       /\ DOMAIN content[a] = 0..(array[a].length - 1)

\* Whoever is careful loads what was stored last in that element, whatever is
\* done to other arrays, before or after, in the same memory.
LoadsStored ==
  Careful => \A a \in owned : \A k \in DOMAIN content[a] :
               content[a][k] # None => Load(a, k) = content[a][k]
=============================================================================
