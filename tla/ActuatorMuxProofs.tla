-------------------------- MODULE ActuatorMuxProofs --------------------------
(***************************************************************************)
(* Theorems about ActuatorMux, for any patterns, lookups and requests.     *)
(* Registration adds one occurrence of one string; a swap, once its second *)
(* store is done, changes no number of occurrences; so the list always is  *)
(* what was registered.  A clear fDirty means that the last sort was not   *)
(* followed by a registration.  A request that nothing overlaps therefore  *)
(* reads a sorted and complete list, though it reads without the mutex.    *)
(***************************************************************************)
EXTENDS ActuatorMux, FiniteSetTheorems, SequenceTheorems, TLAPS

(* Sequences.                                                              *)

LEMMA PositionsFinite ==
  ASSUME NEW q \in Seq(Nat), NEW x
  PROVE  /\ DOMAIN q = 1 .. Len(q) /\ Len(q) \in Nat
         /\ IsFiniteSet({i \in DOMAIN q : q[i] = x})
         /\ Occurrences(q, x) \in Nat
<1>1. DOMAIN q = 1 .. Len(q) /\ Len(q) \in Nat
  BY LenProperties
<1>2. IsFiniteSet({i \in DOMAIN q : q[i] = x})
  <2>1. IsFiniteSet(1 .. Len(q))
    BY <1>1, FS_Interval
  <2>2. {i \in DOMAIN q : q[i] = x} \in SUBSET (1 .. Len(q))
    BY <1>1
  <2>3. QED
    BY <2>1, <2>2, FS_Subset
<1>3. Occurrences(q, x) \in Nat
  BY <1>2, FS_CardinalityType DEF Occurrences
<1>4. QED
  BY <1>1, <1>2, <1>3

LEMMA OccurrencesAppend ==
  ASSUME NEW q \in Seq(Nat), NEW e \in Nat, NEW x
  PROVE  Occurrences(Append(q, e), x) = Occurrences(q, x) + IF e = x THEN 1 ELSE 0
<1> DEFINE P == {i \in DOMAIN q : q[i] = x}
           n == Len(q) + 1
<1>1. /\ DOMAIN q = 1 .. Len(q) /\ Len(q) \in Nat
      /\ IsFiniteSet(P) /\ Cardinality(P) \in Nat
  BY PositionsFinite DEF Occurrences
<1>2. /\ DOMAIN Append(q, e) = 1 .. n
      /\ \A i \in 1 .. Len(q) : Append(q, e)[i] = q[i]
      /\ Append(q, e)[n] = e
  BY AppendProperties, LenProperties
<1>3. n \notin P
  BY <1>1
<1>4. CASE e = x
  <2>1. {i \in DOMAIN Append(q, e) : Append(q, e)[i] = x} = P \cup {n}
    BY <1>1, <1>2, <1>4
  <2>2. Cardinality(P \cup {n}) = Cardinality(P) + 1
    BY <1>1, <1>3, FS_AddElement
  <2>3. QED
    BY <1>4, <2>1, <2>2 DEF Occurrences
<1>5. CASE e # x
  <2>1. {i \in DOMAIN Append(q, e) : Append(q, e)[i] = x} = P
    BY <1>1, <1>2, <1>5
  <2>2. Occurrences(Append(q, e), x) = Cardinality(P) /\ Occurrences(q, x) = Cardinality(P)
    BY <2>1 DEF Occurrences
  <2>3. QED
    BY <1>1, <1>5, <2>2
<1>6. QED
  BY <1>4, <1>5

\* A permutation of the positions keeps the number of occurrences.
LEMMA OccurrencesSwap ==
  ASSUME NEW q \in Seq(Nat), NEW s \in Seq(Nat), NEW a \in 1 .. Len(q), NEW b \in 1 .. Len(q), NEW x,
         Len(s) = Len(q), s[a] = q[b], s[b] = q[a],
         \A i \in 1 .. Len(q) : i # a /\ i # b => s[i] = q[i]
  PROVE  Occurrences(s, x) = Occurrences(q, x)
<1> DEFINE P == {i \in DOMAIN q : q[i] = x}
           Q == {i \in DOMAIN s : s[i] = x}
           f == [i \in P |-> IF i = a THEN b ELSE IF i = b THEN a ELSE i]
<1>1. DOMAIN q = 1 .. Len(q) /\ DOMAIN s = 1 .. Len(q) /\ IsFiniteSet(P)
  BY PositionsFinite
<1>2. f \in [P -> Q]
  BY <1>1
<1>3. \A i, j \in P : f[i] = f[j] => i = j
  OBVIOUS
<1>4. \A j \in Q : \E i \in P : f[i] = j
  <2> TAKE j \in Q
  <2>1. CASE j = a
    <3>1. b \in P /\ f[b] = j
      BY <1>1, <2>1
    <3>2. QED
      BY <3>1
  <2>2. CASE j = b
    <3>1. a \in P /\ f[a] = j
      BY <1>1, <2>2
    <3>2. QED
      BY <3>1
  <2>3. CASE j # a /\ j # b
    <3>1. j \in P /\ f[j] = j
      BY <1>1, <2>3
    <3>2. QED
      BY <3>1
  <2>4. QED
    BY <2>1, <2>2, <2>3
<1>5. f \in Bijection(P, Q)
  BY <1>2, <1>3, <1>4 DEF Bijection, Injection, Surjection, IsInjective
<1>6. ExistsBijection(P, Q)
  BY <1>5 DEF ExistsBijection
<1>7. QED
  BY <1>1, <1>6, FS_Bijection DEF Occurrences

(* The current array.                                                      *)

LEMMA CurrentSeq ==
  ASSUME TypeOK, Len(Current) = length
  PROVE  /\ Len(arrays) \in Nat \ {0}
         /\ Current \in Seq(Nat) /\ DOMAIN Current = 1 .. length /\ length \in Nat \ {0}
         /\ \A i \in 1 .. length : Current[i] \in Nat
         /\ Mappings = Current
<1>1. Len(arrays) \in Nat \ {0}
  BY EmptySeq DEF TypeOK
<1>2. Current \in Seq(Nat)
  BY <1>1, ElementOfSeq DEF TypeOK, Current
<1>3. DOMAIN Current = 1 .. length /\ length \in Nat \ {0}
  BY <1>2, LenProperties DEF TypeOK
<1>4. \A i \in 1 .. length : Current[i] \in Nat
  BY <1>2, ElementOfSeq
<1>5. Mappings = Current
  BY <1>2, SubSeqFull DEF Mappings
<1>6. QED
  BY <1>1, <1>2, <1>3, <1>4, <1>5

\* addMapping puts one string behind the others, in this array or in another.
LEMMA AppendCurrent ==
  ASSUME TypeOK, Len(Current) = length, NEW p \in Nat, AppendMapping(p)
  PROVE  /\ arrays' \in Seq(Seq(Nat)) /\ arrays' # << >> /\ Len(arrays') >= Len(arrays)
         /\ Current' = Append(Current, p) /\ length' = length + 1
         /\ Len(Current)' = length' /\ length' \in 1 .. Len(Current)'
<1> USE CurrentSeq
<1>1. Append(Current, p) \in Seq(Nat) /\ Len(Append(Current, p)) = length + 1
  BY AppendProperties
<1>2. arrays \in Seq(Seq(Nat)) /\ DOMAIN arrays = 1 .. Len(arrays)
  BY LenProperties DEF TypeOK
<1>3. CASE length < Capacity(Len(arrays))
  <2>1. arrays' = [arrays EXCEPT ![Len(arrays)] = Append(Current, p)]
    BY <1>3 DEF AppendMapping, Current
  <2>2. /\ arrays' \in Seq(Seq(Nat)) /\ Len(arrays') = Len(arrays)
        /\ arrays'[Len(arrays)] = Append(Current, p)
    BY <1>1, <1>2, <2>1, ExceptSeq
  <2>3. Current' = Append(Current, p)
    BY <2>2 DEF Current
  <2>4. arrays' # << >>
    BY <2>2, EmptySeq
  <2>5. QED
    BY <1>1, <2>2, <2>3, <2>4 DEF AppendMapping
<1>4. CASE ~(length < Capacity(Len(arrays)))
  <2>1. arrays' = Append(arrays, Append(Current, p))
    BY <1>4 DEF AppendMapping
  <2>2. /\ arrays' \in Seq(Seq(Nat)) /\ Len(arrays') = Len(arrays) + 1
        /\ arrays'[Len(arrays) + 1] = Append(Current, p) /\ arrays' # << >>
    <3> DEFINE T == Seq(Nat)
               new == Append(Current, p)
    <3>1. new \in T /\ arrays \in Seq(T) /\ arrays' = Append(arrays, new)
      BY <1>1, <1>2, <2>1
    <3> HIDE DEF T, new
    <3>2. /\ arrays' \in Seq(T) /\ Len(arrays') = Len(arrays) + 1
          /\ arrays'[Len(arrays) + 1] = new /\ arrays' # << >>
      BY <3>1, AppendProperties
    <3>3. QED
      BY <3>2 DEF T, new
  <2>3. Current' = Append(Current, p)
    BY <2>2 DEF Current
  <2>4. QED
    BY <1>1, <2>2, <2>3 DEF AppendMapping
<1>5. QED
  BY <1>3, <1>4

LEMMA StoreArray ==
  ASSUME NEW a \in Seq(Seq(Nat)), NEW k \in 1 .. Len(a), NEW q \in Seq(Nat)
  PROVE  /\ [a EXCEPT ![k] = q] \in Seq(Seq(Nat)) /\ Len([a EXCEPT ![k] = q]) = Len(a)
         /\ [a EXCEPT ![k] = q][k] = q
<1> DEFINE T == Seq(Nat)
<1>1. a \in Seq(T) /\ q \in T
  OBVIOUS
<1> HIDE DEF T
<1>2. /\ [a EXCEPT ![k] = q] \in Seq(T) /\ Len([a EXCEPT ![k] = q]) = Len(a)
      /\ \A j \in 1 .. Len(a) : [a EXCEPT ![k] = q][j] = IF j = k THEN q ELSE a[j]
  BY <1>1, ExceptSeq
<1>3. QED
  BY <1>2 DEF T

\* A store of the sort.
LEMMA StoreCurrent ==
  ASSUME TypeOK, Len(Current) = length, NEW i \in 1 .. length, NEW v \in Nat,
         arrays' = [arrays EXCEPT ![Len(arrays)][i] = v]
  PROVE  /\ arrays' \in Seq(Seq(Nat)) /\ arrays' # << >> /\ Len(arrays') = Len(arrays)
         /\ Current' = [Current EXCEPT ![i] = v] /\ Len(Current)' = length
<1> USE CurrentSeq
<1>1. arrays' = [arrays EXCEPT ![Len(arrays)] = [Current EXCEPT ![i] = v]]
  BY DEF Current
<1>2. [Current EXCEPT ![i] = v] \in Seq(Nat) /\ Len([Current EXCEPT ![i] = v]) = length
  BY ExceptSeq
<1>3. /\ arrays' \in Seq(Seq(Nat)) /\ Len(arrays') = Len(arrays)
      /\ arrays'[Len(arrays)] = [Current EXCEPT ![i] = v]
  <2>1. PICK k, q : k = Len(arrays) /\ q = [Current EXCEPT ![i] = v]
    OBVIOUS
  <2>2. arrays \in Seq(Seq(Nat)) /\ k \in 1 .. Len(arrays) /\ q \in Seq(Nat)
    BY <1>2, <2>1 DEF TypeOK
  <2>3. arrays' = [arrays EXCEPT ![k] = q]
    BY <1>1, <2>1
  <2>4. /\ arrays' \in Seq(Seq(Nat)) /\ Len(arrays') = Len(arrays)
        /\ arrays'[k] = q
    BY ONLY <2>2, <2>3, StoreArray
  <2>5. QED
    BY <2>1, <2>4
<1>4. arrays' # << >>
  BY <1>3, EmptySeq
<1>5. QED
  BY <1>2, <1>3, <1>4 DEF Current

\* Whatever sort.Strings swaps next is in the list.
LEMMA NextSwap ==
  ASSUME TypeOK, Len(Current) = length, NEW r \in Readers, SwapFirst(r)
  PROVE  \E i, j \in 1 .. length :
           /\ i # j /\ Current[i] \in Nat /\ Current[j] \in Nat
           /\ half' = <<j, Current[i]>>
           /\ arrays' = [arrays EXCEPT ![Len(arrays)][i] = Current[j]]
<1>1. PICK i, j \in 1 .. length :
        /\ MaySwap(i, j) /\ half' = <<j, Current[i]>>
        /\ arrays' = [arrays EXCEPT ![Len(arrays)][i] = Current[j]]
  BY DEF SwapFirst
<1>2. i # j
  BY <1>1, CurrentSeq DEF MaySwap
<1>3. Current[i] \in Nat /\ Current[j] \in Nat
  BY CurrentSeq
<1>4. QED
  BY <1>1, <1>2, <1>3

(* Types.                                                                  *)

LEMMA TypeInit == ASSUME Init PROVE TypeOK /\ Len(Current) = length /\ Current = <<MappingURL>>
<1> USE PatternAssumption
<1>1. <<MappingURL>> \in Seq(Nat) /\ Len(<<MappingURL>>) = 1
  BY DEF Empty
<1>2. PICK q : q = <<MappingURL>>
  OBVIOUS
<1>3. arrays = <<q>> /\ q \in Seq(Nat)
  BY <1>1, <1>2 DEF Init
<1>4. /\ arrays \in Seq(Seq(Nat)) /\ arrays # << >> /\ Len(arrays) = 1 /\ arrays[1] = q
  <2> DEFINE T == Seq(Nat)
  <2>1. arrays = <<q>> /\ q \in T
    BY <1>3
  <2> HIDE DEF T
  <2>2. arrays \in Seq(T) /\ arrays # << >> /\ Len(arrays) = 1 /\ arrays[1] = q
    BY <2>1
  <2>3. QED
    BY <2>2 DEF T
<1>5. Current = <<MappingURL>> /\ Len(Current) = 1 /\ length = 1
  BY <1>1, <1>2, <1>4 DEF Init, Current
<1>6. slice \in [Readers -> [array : Nat, len : Nat]]
  BY DEF Init
<1>7. listing \in [Readers -> Seq(Nat \cup {Junk})]
  BY DEF Init
<1>8. QED
  BY <1>4, <1>5, <1>6, <1>7 DEF Init, TypeOK

LEMMA ElementType ==
  ASSUME TypeOK, NEW k \in 1 .. Len(arrays), NEW i \in Nat \ {0}
  PROVE  Element(k, i) \in Nat \cup {Junk}
<1>1. arrays[k] \in Seq(Nat)
  BY ElementOfSeq DEF TypeOK
<1>2. CASE i <= Len(arrays[k])
  <2>1. i \in 1 .. Len(arrays[k])
    BY <1>1, <1>2, LenProperties
  <2>2. arrays[k][i] \in Nat
    BY <1>1, <2>1, ElementOfSeq
  <2>3. QED
    BY <1>2, <2>2 DEF Element
<1>3. QED
  BY <1>2 DEF Element

LEMMA TypeStep ==
  ASSUME TypeOK, SortInv, SliceInv, Next
  PROVE  TypeOK'
<1> USE PatternAssumption
<1>1. Len(Current) = length
  BY DEF SortInv
<1>2. ASSUME NEW p \in Patterns, Route(p) PROVE TypeOK'
  BY <1>2 DEF Route, muxVars, readerVars, TypeOK, Calls, Current
<1>3. ASSUME NEW p \in Nat, AddMapping(p)
      PROVE  /\ arrays' \in Seq(Seq(Nat)) /\ arrays' # << >>
             /\ length' \in 1 .. Len(Current)' /\ fDirty' \in BOOLEAN
             /\ mutex' \in Readers \cup {Free} /\ (half' = << >> \/ half' \in (1 .. length') \X Nat)
             /\ alone' \in [Readers -> BOOLEAN]
  <2>1. AppendMapping(p)
    BY <1>3 DEF AddMapping
  <2>2. arrays' \in Seq(Seq(Nat)) /\ arrays' # << >> /\ length' \in 1 .. Len(Current)'
    BY <1>1, <2>1, AppendCurrent
  <2>3. half = << >>
    BY <1>3 DEF AddMapping, SortInv
  <2>4. QED
    BY <1>3, <2>2, <2>3 DEF AddMapping, Disturb, TypeOK
<1>4. ASSUME NEW p \in Patterns, Map(p) PROVE TypeOK'
  <2>1. p \in Nat /\ AddMapping(p)
    BY <1>4 DEF Map
  <2>2. UNCHANGED <<routes, readerVars, known>> /\ handled' \in [Calls -> {"new", "routed", "done"}]
    BY <1>4 DEF Map, TypeOK
  <2>3. /\ arrays' \in Seq(Seq(Nat)) /\ arrays' # << >>
        /\ length' \in 1 .. Len(Current)' /\ fDirty' \in BOOLEAN
        /\ mutex' \in Readers \cup {Free} /\ (half' = << >> \/ half' \in (1 .. length') \X Nat)
        /\ alone' \in [Readers -> BOOLEAN]
    BY <1>3, <2>1
  <2>4. UNCHANGED <<routes, pc, slice, listing, known>>
    BY <2>2 DEF readerVars
  <2>5. QED
    BY <2>2, <2>3, <2>4 DEF TypeOK
<1>5. ASSUME NEW c \in Lookups, Lookup(c) PROVE TypeOK'
  <2>1. AddMapping(Empty) /\ Empty \in Nat
    BY <1>5 DEF Lookup, Empty
  <2>2. UNCHANGED <<routes, readerVars, known>> /\ handled' \in [Calls -> {"new", "routed", "done"}]
    BY <1>5 DEF Lookup, TypeOK
  <2>3. /\ arrays' \in Seq(Seq(Nat)) /\ arrays' # << >>
        /\ length' \in 1 .. Len(Current)' /\ fDirty' \in BOOLEAN
        /\ mutex' \in Readers \cup {Free} /\ (half' = << >> \/ half' \in (1 .. length') \X Nat)
        /\ alone' \in [Readers -> BOOLEAN]
    BY <1>3, <2>1
  <2>4. UNCHANGED <<routes, pc, slice, listing, known>>
    BY <2>2 DEF readerVars
  <2>5. QED
    BY <2>2, <2>3, <2>4 DEF TypeOK
<1>6. ASSUME NEW r \in Readers, Request(r) \/ Lock(r) \/ Unlock(r) \/ Serve(r) PROVE TypeOK'
  <2>1. Current' = Current
    BY <1>6 DEF Request, Lock, Unlock, Serve, muxVars, Current
  <2>2. UNCHANGED <<arrays, length, half, routes, handled, slice, listing>>
    BY <1>6 DEF Request, Lock, Unlock, Serve, muxVars
  <2>3. \E v \in {"new", "lock", "sort", "load", "read", "served"} : pc' = [pc EXCEPT ![r] = v]
    BY <1>6 DEF Request, Lock, Unlock, Serve
  <2>4. known' \in [Readers -> SUBSET Patterns] /\ alone' \in [Readers -> BOOLEAN]
    <3>1. CASE Request(r)
      <4>1. \E v \in SUBSET Patterns : known' = [known EXCEPT ![r] = v]
        BY <3>1 DEF Request
      <4>2. \E b \in BOOLEAN : alone' = [alone EXCEPT ![r] = b]
        BY <3>1 DEF Request
      <4>3. QED
        BY <4>1, <4>2 DEF TypeOK
    <3>2. CASE Lock(r)
      BY <3>2 DEF Lock, Disturb, TypeOK
    <3>3. CASE Unlock(r) \/ Serve(r)
      BY <3>3 DEF Unlock, Serve, TypeOK
    <3>4. QED
      BY <1>6, <3>1, <3>2, <3>3
  <2>5. fDirty' \in BOOLEAN /\ mutex' \in Readers \cup {Free}
    <3>1. fDirty' = FALSE \/ UNCHANGED fDirty
      BY <1>6, Zenon DEF Request, Lock, Unlock, Serve, muxVars
    <3>2. mutex' \in {r, Free} \/ UNCHANGED mutex
      BY <1>6 DEF Request, Lock, Unlock, Serve
    <3>3. QED
      BY <3>1, <3>2 DEF TypeOK
  <2>6. QED
    <3>1. pc' \in [Readers -> {"new", "lock", "sort", "load", "read", "served"}]
      BY <2>3 DEF TypeOK
    <3>2. QED
      BY <2>1, <2>2, <2>4, <2>5, <3>1 DEF TypeOK
<1>7. ASSUME NEW i \in 1 .. length, NEW v \in Nat,
             arrays' = [arrays EXCEPT ![Len(arrays)][i] = v],
             half' = << >> \/ half' \in (1 .. length) \X Nat,
             UNCHANGED <<length, fDirty, mutex, routes, handled, readerVars, known, alone>>
      PROVE  TypeOK'
  <2>1. /\ arrays' \in Seq(Seq(Nat)) /\ arrays' # << >> /\ Len(Current)' = length
    BY <1>1, <1>7, StoreCurrent
  <2>2. length' \in 1 .. Len(Current)'
    BY <1>7, <2>1 DEF TypeOK
  <2>3. QED
    BY <1>7, <2>1, <2>2 DEF TypeOK, readerVars
<1>8. ASSUME NEW r \in Readers, SwapFirst(r) PROVE TypeOK'
  <2>1. PICK i, j \in 1 .. length :
          /\ Current[i] \in Nat /\ Current[j] \in Nat
          /\ half' = <<j, Current[i]>>
          /\ arrays' = [arrays EXCEPT ![Len(arrays)][i] = Current[j]]
    BY <1>1, <1>8, NextSwap
  <2>2. half' \in (1 .. length) \X Nat
    BY <2>1
  <2>3. UNCHANGED <<length, fDirty, mutex, routes, handled, readerVars, known, alone>>
    BY <1>8 DEF SwapFirst
  <2>4. QED
    BY <1>7, <2>1, <2>2, <2>3
<1>9. ASSUME NEW r \in Readers, SwapSecond(r) PROVE TypeOK'
  <2>1. half[1] \in 1 .. length /\ half[2] \in Nat
    BY <1>9 DEF SwapSecond, TypeOK
  <2>2. QED
    BY <1>7, <1>9, <2>1 DEF SwapSecond
<1>10. ASSUME NEW r \in Readers, LoadPointer(r) \/ LoadLength(r) PROVE TypeOK'
  <2>1. UNCHANGED <<muxVars, mutex, half, routes, handled, listing, known, alone>> /\ Current' = Current
    BY <1>10 DEF LoadPointer, LoadLength, muxVars, Current
  <2>2. pc' \in [Readers -> {"new", "lock", "sort", "load", "read", "served"}]
    BY <1>10 DEF LoadPointer, LoadLength, TypeOK
  <2>3. Len(arrays) \in Nat /\ length \in Nat
    BY <1>1, CurrentSeq
  <2>4. slice' \in [Readers -> [array : Nat, len : Nat]]
    <3>1. slice[r] \in [array : Nat, len : Nat]
      BY DEF TypeOK
    <3>2. \E v \in [array : Nat, len : Nat] : slice' = [slice EXCEPT ![r] = v]
      BY <1>10, <2>3, <3>1 DEF LoadPointer, LoadLength
    <3>3. QED
      BY <3>2 DEF TypeOK
  <2>5. QED
    BY <2>1, <2>2, <2>4 DEF TypeOK, muxVars
<1>11. ASSUME NEW r \in Readers, Read(r) PROVE TypeOK'
  <2>1. UNCHANGED <<muxVars, mutex, half, routes, handled, pc, slice, known, alone>> /\ Current' = Current
    BY <1>11 DEF Read, muxVars, Current
  <2>2. listing[r] \in Seq(Nat \cup {Junk})
    BY DEF TypeOK
  <2>3. Len(listing[r]) + 1 \in Nat \ {0}
    BY <2>2, LenProperties
  <2>4. slice[r].array \in 1 .. Len(arrays)
    <3>1. slice[r].array \in Nat /\ slice[r].array > 0 /\ slice[r].array <= Len(arrays)
      BY <1>11 DEF Read, SliceInv, TypeOK
    <3>2. QED
      BY <1>1, <3>1, CurrentSeq
  <2>5. Element(slice[r].array, Len(listing[r]) + 1) \in Nat \cup {Junk}
    BY <2>3, <2>4, ElementType
  <2>6. Append(listing[r], Element(slice[r].array, Len(listing[r]) + 1)) \in Seq(Nat \cup {Junk})
    BY <2>2, <2>5, AppendProperties
  <2>7. listing' \in [Readers -> Seq(Nat \cup {Junk})]
    BY <1>11, <2>6 DEF Read, TypeOK
  <2>8. QED
    BY <2>1, <2>7 DEF TypeOK, muxVars
<1>12. CASE Done
  BY <1>12 DEF Done, vars, muxVars, readerVars, TypeOK, Current
<1>13. QED
  BY <1>2, <1>4, <1>5, <1>6, <1>8, <1>9, <1>10, <1>11, <1>12 DEF Next, DisplayEndpoints

(* The mutex and the flag.                                                 *)

LEMMA SortInvInit == ASSUME Init PROVE SortInv
<1> USE ThreadAssumption
<1>1. Len(Current) = length
  BY TypeInit
<1>2. QED
  BY <1>1 DEF Init, SortInv

LEMMA SortStep ==
  ASSUME TypeOK, SortInv, Next
  PROVE  SortInv'
<1> USE ThreadAssumption
<1>1. Len(Current) = length
  BY DEF SortInv
<1>2. ASSUME UNCHANGED <<muxVars, mutex, half>>,
             \A r \in Readers : pc'[r] = "sort" <=> pc[r] = "sort"
      PROVE  SortInv'
  BY <1>2 DEF SortInv, muxVars, Inversions, Current
<1>3. ASSUME NEW p \in Nat, AddMapping(p), UNCHANGED pc PROVE SortInv'
  <2>1. Len(Current)' = length'
    BY <1>1, <1>3, AppendCurrent DEF AddMapping
  <2>2. QED
    BY <1>3, <2>1 DEF AddMapping, SortInv
<1>4. ASSUME NEW p \in Patterns, Route(p) PROVE SortInv'
  BY <1>2, <1>4 DEF Route, readerVars
<1>5. ASSUME NEW p \in Patterns, Map(p) PROVE SortInv'
  BY <1>3, <1>5, PatternAssumption DEF Map, readerVars
<1>6. ASSUME NEW c \in Lookups, Lookup(c) PROVE SortInv'
  BY <1>3, <1>6 DEF Lookup, readerVars, Empty
<1>7. ASSUME NEW r \in Readers, Request(r) \/ LoadPointer(r) \/ LoadLength(r) \/ Read(r) \/ Serve(r)
      PROVE SortInv'
  <2>1. UNCHANGED <<muxVars, mutex, half>>
    BY <1>7 DEF Request, LoadPointer, LoadLength, Read, Serve
  <2>2. pc[r] # "sort" /\ \E v \in {"lock", "load", "read", "served"} : pc' = [pc EXCEPT ![r] = v]
    BY <1>7 DEF Request, LoadPointer, LoadLength, Read, Serve, TypeOK
  <2>3. QED
    BY <1>2, <2>1, <2>2 DEF TypeOK
<1>8. ASSUME NEW r \in Readers, Lock(r) PROVE SortInv'
  <2>1. /\ UNCHANGED <<length, arrays, fDirty, half>> /\ mutex = Free /\ mutex' = r
        /\ pc' = [pc EXCEPT ![r] = "sort"]
    BY <1>8 DEF Lock, muxVars
  <2>2. \A q \in Readers : pc'[q] = "sort" <=> mutex' = q
    BY <2>1 DEF TypeOK, SortInv
  <2>3. UNCHANGED <<Current, Inversions>>
    BY <2>1 DEF Inversions, Current
  <2>4. QED
    BY <2>1, <2>2, <2>3 DEF SortInv
<1>9. ASSUME NEW r \in Readers, Unlock(r) PROVE SortInv'
  <2>1. /\ UNCHANGED <<length, arrays, half>> /\ mutex = r /\ mutex' = Free
        /\ half = << >> /\ Inversions = {} /\ pc' = [pc EXCEPT ![r] = "load"]
    BY <1>9 DEF Unlock, SortInv
  <2>2. \A q \in Readers : pc'[q] = "sort" <=> mutex' = q
    BY <2>1 DEF TypeOK, SortInv
  <2>3. UNCHANGED <<Current, Inversions>>
    BY <2>1 DEF Inversions, Current
  <2>4. QED
    BY <2>1, <2>2, <2>3 DEF SortInv
<1>10. ASSUME NEW r \in Readers, pc[r] = "sort", NEW i \in 1 .. length, NEW v \in Nat,
              arrays' = [arrays EXCEPT ![Len(arrays)][i] = v],
              fDirty \/ length > InsertionMax, UNCHANGED <<length, fDirty, mutex, pc>>
       PROVE  SortInv'
  <2>1. Len(Current)' = length'
    BY <1>1, <1>10, StoreCurrent
  <2>2. mutex # Free
    BY <1>10 DEF SortInv
  <2>3. length \in Nat /\ (~fDirty => ~(length <= InsertionMax))
    BY <1>1, <1>10, CurrentSeq, PatternAssumption
  <2>4. ~(~fDirty' /\ (mutex' = Free \/ length' <= InsertionMax))
    BY <1>10, <2>2, <2>3, Zenon
  <2>5. \A q \in Readers : pc'[q] = "sort" <=> mutex' = q
    BY <1>10 DEF SortInv
  <2>6. QED
    BY <1>10, <2>1, <2>2, <2>4, <2>5, Zenon DEF SortInv
<1>11. ASSUME NEW r \in Readers, SwapFirst(r) PROVE SortInv'
  <2>1. PICK i, j \in 1 .. length :
          /\ Current[j] \in Nat
          /\ arrays' = [arrays EXCEPT ![Len(arrays)][i] = Current[j]]
    BY <1>1, <1>11, NextSwap
  <2>2. ASSUME ~fDirty PROVE length > InsertionMax
    <3>1. CASE length <= InsertionMax
      <4>1. Inversions = {}
        BY <2>2, <3>1 DEF SortInv
      <4>2. \A a, b : ~MaySwap(a, b)
        BY <3>1, <4>1 DEF MaySwap
      <4>3. QED
        BY <1>11, <4>2 DEF SwapFirst
    <3>2. QED
      BY <3>1, <1>1, CurrentSeq, PatternAssumption
  <2>3. UNCHANGED <<length, fDirty, mutex, pc>> /\ pc[r] = "sort"
    BY <1>11 DEF SwapFirst, readerVars
  <2>4. QED
    BY <1>10, <2>1, <2>2, <2>3
<1>12. ASSUME NEW r \in Readers, SwapSecond(r) PROVE SortInv'
  <2>1. half[1] \in 1 .. length /\ half[2] \in Nat
    BY <1>12 DEF SwapSecond, TypeOK
  <2>2. fDirty \/ length > InsertionMax
    <3>1. fDirty \/ ~(length <= InsertionMax)
      BY <1>12 DEF SwapSecond, SortInv
    <3>2. QED
      BY <3>1, <1>1, CurrentSeq, PatternAssumption
  <2>3. UNCHANGED <<length, fDirty, mutex, pc>> /\ pc[r] = "sort"
        /\ arrays' = [arrays EXCEPT ![Len(arrays)][half[1]] = half[2]]
    BY <1>12 DEF SwapSecond, readerVars
  <2>4. QED
    BY <1>10, <2>1, <2>2, <2>3
<1>13. CASE Done
  BY <1>2, <1>13 DEF Done, vars, readerVars
<1>14. QED
  BY <1>4, <1>5, <1>6, <1>7, <1>8, <1>9, <1>11, <1>12, <1>13 DEF Next, DisplayEndpoints

(* What is listed.                                                         *)

LEMMA SettledSeq ==
  ASSUME TypeOK, Len(Current) = length
  PROVE  Settled \in Seq(Nat) /\ Len(Settled) = length
<1>1. Current \in Seq(Nat)
  BY CurrentSeq
<1>2. CASE half = << >>
  BY <1>1, <1>2 DEF Settled
<1>3. CASE half # << >>
  <2>1. half[1] \in 1 .. Len(Current) /\ half[2] \in Nat
    BY <1>3 DEF TypeOK
  <2>2. Settled = [Current EXCEPT ![half[1]] = half[2]]
    BY <1>3 DEF Settled
  <2>3. QED
    BY <1>1, <2>1, <2>2, ExceptSeq
<1>4. QED
  BY <1>2, <1>3

\* The two stores of a swap leave the same strings there.
LEMMA SwapFirstSettled ==
  ASSUME TypeOK, SortInv, NEW r \in Readers, SwapFirst(r)
  PROVE  /\ \A x : Occurrences(Settled', x) = Occurrences(Settled, x)
         /\ \A i \in 1 .. length : \E j \in 1 .. length : Settled'[i] = Settled[j]
<1>1. Len(Current) = length
  BY DEF SortInv
<1>2. PICK b, a \in 1 .. length :
        /\ b # a /\ Current[b] \in Nat /\ Current[a] \in Nat
        /\ half' = <<a, Current[b]>>
        /\ arrays' = [arrays EXCEPT ![Len(arrays)][b] = Current[a]]
  BY <1>1, NextSwap
<1>3. PICK u, v : u = Current[a] /\ v = Current[b]
  OBVIOUS
<1>4. /\ b \in 1 .. length /\ a \in 1 .. length /\ a # b /\ u \in Nat /\ v \in Nat
      /\ half' = <<a, v>> /\ UNCHANGED length
  BY <1>2, <1>3 DEF SwapFirst
<1>5. Current \in Seq(Nat) /\ Settled = Current
  BY <1>1, CurrentSeq DEF Settled, SwapFirst
<1>6. Current' = [Current EXCEPT ![b] = u]
  <2>1. arrays' = [arrays EXCEPT ![Len(arrays)][b] = u]
    BY <1>2, <1>3 DEF SwapFirst
  <2>2. QED
    BY <1>1, <1>4, <2>1, StoreCurrent
<1>7. Settled' = [[Current EXCEPT ![b] = u] EXCEPT ![a] = v]
  BY <1>4, <1>6 DEF Settled
<1>8. PICK q, s : q = Current /\ s = [[q EXCEPT ![b] = u] EXCEPT ![a] = v]
  OBVIOUS
<1>9. q \in Seq(Nat) /\ Len(q) = length /\ q[a] = u /\ q[b] = v
  BY <1>1, <1>3, <1>5, <1>8
<1>10. /\ s \in Seq(Nat) /\ Len(s) = Len(q) /\ s[a] = q[b] /\ s[b] = q[a]
       /\ \A i \in 1 .. Len(q) : i # a /\ i # b => s[i] = q[i]
  <2>1. /\ [q EXCEPT ![b] = u] \in Seq(Nat) /\ Len([q EXCEPT ![b] = u]) = Len(q)
        /\ \A i \in 1 .. Len(q) : [q EXCEPT ![b] = u][i] = IF i = b THEN u ELSE q[i]
    BY <1>4, <1>9, ExceptSeq
  <2>2. PICK t : t = [q EXCEPT ![b] = u]
    OBVIOUS
  <2>3. t \in Seq(Nat) /\ Len(t) = Len(q) /\ \A i \in 1 .. Len(q) : t[i] = IF i = b THEN u ELSE q[i]
    BY <2>1, <2>2
  <2>4. s = [t EXCEPT ![a] = v]
    BY <1>8, <2>2
  <2>5. /\ s \in Seq(Nat) /\ Len(s) = Len(t)
        /\ \A i \in 1 .. Len(t) : s[i] = IF i = a THEN v ELSE t[i]
    BY <1>4, <1>9, <2>3, <2>4, ExceptSeq
  <2>6. QED
    BY <1>4, <1>9, <2>3, <2>5
<1>11. \A x : Occurrences(s, x) = Occurrences(q, x)
  BY <1>4, <1>9, <1>10, OccurrencesSwap
<1>12. \A i \in 1 .. length : \E j \in 1 .. length : s[i] = q[j]
  BY <1>4, <1>9, <1>10
<1>13. QED
  BY <1>5, <1>7, <1>8, <1>11, <1>12

LEMMA SwapSecondSettled ==
  ASSUME TypeOK, SortInv, NEW r \in Readers, SwapSecond(r)
  PROVE  Settled' = Settled
<1>1. Len(Current) = length
  BY DEF SortInv
<1>2. PICK a, v : a = half[1] /\ v = half[2]
  OBVIOUS
<1>3. a \in 1 .. length /\ v \in Nat
  BY <1>2 DEF SwapSecond, TypeOK
<1>4. arrays' = [arrays EXCEPT ![Len(arrays)][a] = v]
  BY <1>2 DEF SwapSecond
<1>5. Current' = [Current EXCEPT ![a] = v]
  BY <1>1, <1>3, <1>4, StoreCurrent
<1>6. QED
  BY <1>2, <1>5 DEF Settled, SwapSecond

LEMMA ContentInitInv == ASSUME Init PROVE ContentInv
<1> USE PatternAssumption, ThreadAssumption
<1>1. PICK q : q = <<MappingURL>>
  OBVIOUS
<1>2. Settled = q /\ length = 1
  BY <1>1, TypeInit DEF Init, Settled
<1>3. << >> \in Seq(Nat) /\ MappingURL \in Nat /\ q = Append(<< >>, MappingURL)
  BY <1>1
<1>4. \A x : Occurrences(q, x) = Occurrences(<< >>, x) + IF MappingURL = x THEN 1 ELSE 0
  BY <1>3, OccurrencesAppend
<1>5. \A x : Occurrences(<< >>, x) = 0
  <2> TAKE x
  <2>1. {i \in DOMAIN << >> : << >>[i] = x} = {}
    OBVIOUS
  <2>2. QED
    BY <2>1, FS_EmptySet DEF Occurrences
<1>6. \A x : Occurrences(q, x) = IF MappingURL = x THEN 1 ELSE 0
  BY <1>4, <1>5
<1>7. \A i \in 1 .. length : Settled[i] \in {MappingURL, Empty} \cup Patterns
  BY <1>1, <1>2
<1>8. DoneLookups = {} /\ \A p \in Patterns : handled[p] # "done"
  BY DEF Init, DoneLookups, Calls
<1>9. IsFiniteSet(DoneLookups) /\ Cardinality(DoneLookups) = 0
  BY <1>8, FS_EmptySet
<1>10. Occurrences(Settled, MappingURL) = 1 /\ Occurrences(Settled, Empty) = 0
  BY <1>2, <1>6 DEF Empty
<1>11. \A p \in Patterns : Occurrences(Settled, p) = 0
  BY <1>2, <1>6
<1>12. QED
  BY <1>7, <1>8, <1>9, <1>10, <1>11 DEF ContentInv

LEMMA AppendSettled ==
  ASSUME TypeOK, SortInv, NEW p \in Nat, AddMapping(p)
  PROVE  /\ \A x : Occurrences(Settled', x) = Occurrences(Settled, x) + IF p = x THEN 1 ELSE 0
         /\ length' = length + 1 /\ \A i \in 1 .. length : Settled'[i] = Settled[i]
         /\ Settled'[length'] = p
         /\ \A x : Occurrences(Settled, x) \in Nat
<1>1. Len(Current) = length /\ half = << >> /\ half' = << >>
  BY DEF SortInv, AddMapping
<1>2. Settled = Current /\ Current \in Seq(Nat)
  BY <1>1, CurrentSeq DEF Settled
<1>3. Current' = Append(Current, p) /\ length' = length + 1
  BY <1>1, AppendCurrent DEF AddMapping
<1>4. PICK q : q = Current
  OBVIOUS
<1>5. Settled = q /\ Settled' = Append(q, p) /\ q \in Seq(Nat) /\ Len(q) = length
  BY <1>1, <1>2, <1>3, <1>4 DEF Settled
<1>6. \A x : Occurrences(Append(q, p), x) = Occurrences(q, x) + IF p = x THEN 1 ELSE 0
  BY <1>5, OccurrencesAppend
<1>7. \A x : Occurrences(q, x) \in Nat
  BY <1>5, PositionsFinite
<1>8. (\A i \in 1 .. Len(q) : Append(q, p)[i] = q[i]) /\ Append(q, p)[Len(q) + 1] = p
  BY <1>5, AppendProperties
<1>9. QED
  BY <1>3, <1>5, <1>6, <1>7, <1>8

LEMMA ContentStep ==
  ASSUME TypeOK, SortInv, ContentInv, Next
  PROVE  ContentInv'
<1> USE PatternAssumption, ThreadAssumption
<1> DEFINE Strings == {MappingURL, Empty} \cup Patterns
<1>1. Len(Current) = length /\ length \in Nat
  BY CurrentSeq DEF SortInv
<1>2. ASSUME \A x : Occurrences(Settled', x) = Occurrences(Settled, x),
             \A i \in 1 .. length : \E j \in 1 .. length : Settled'[i] = Settled[j],
             length' = length,
             \A c \in Calls : handled'[c] = "done" <=> handled[c] = "done"
      PROVE  ContentInv'
  <2>1. UNCHANGED DoneLookups
    BY <1>2 DEF DoneLookups, Calls
  <2>2. \A i \in 1 .. length' : Settled'[i] \in Strings
    BY <1>2 DEF ContentInv
  <2>3. QED
    BY <1>2, <2>1, <2>2 DEF ContentInv, Calls
<1>3. ASSUME UNCHANGED <<arrays, length, half>>,
             \A c \in Calls : handled'[c] = "done" <=> handled[c] = "done"
      PROVE  ContentInv'
  <2>1. Settled' = Settled
    BY <1>3 DEF Settled, Current
  <2>2. QED
    BY <1>2, <1>3, <2>1
<1>4. ASSUME NEW p \in Patterns, Route(p) PROVE ContentInv'
  <2>1. \A c \in Calls : handled'[c] = "done" <=> handled[c] = "done"
    BY <1>4 DEF Route, TypeOK
  <2>2. QED
    BY <1>3, <1>4, <2>1 DEF Route, muxVars
<1>5. ASSUME NEW p \in Strings \ {MappingURL}, AddMapping(p)
      PROVE  /\ \A i \in 1 .. length' : Settled'[i] \in Strings
             /\ Occurrences(Settled', MappingURL) = 1
             /\ \A x : Occurrences(Settled, x) \in Nat
             /\ \A x : Occurrences(Settled', x) = Occurrences(Settled, x) + IF p = x THEN 1 ELSE 0
  <2>1. p \in Nat
    BY DEF Empty
  <2>2. /\ \A x : Occurrences(Settled', x) = Occurrences(Settled, x) + IF p = x THEN 1 ELSE 0
        /\ length' = length + 1 /\ \A i \in 1 .. length : Settled'[i] = Settled[i]
        /\ Settled'[length'] = p
        /\ \A x : Occurrences(Settled, x) \in Nat
    BY <1>5, <2>1, AppendSettled
  <2>3. \A i \in 1 .. length' : Settled'[i] \in Strings
    BY <1>1, <2>2 DEF ContentInv
  <2>4. Occurrences(Settled', MappingURL) = 1
    BY <2>2 DEF ContentInv
  <2>5. QED
    BY <2>2, <2>3, <2>4
<1>6. ASSUME NEW p \in Patterns, Map(p) PROVE ContentInv'
  <2>1. /\ \A i \in 1 .. length' : Settled'[i] \in Strings
        /\ Occurrences(Settled', MappingURL) = 1
        /\ \A x : Occurrences(Settled, x) \in Nat
        /\ \A x : Occurrences(Settled', x) = Occurrences(Settled, x) + IF p = x THEN 1 ELSE 0
    BY <1>5, <1>6 DEF Map
  <2>2. handled[p] = "routed" /\ handled' = [handled EXCEPT ![p] = "done"]
    BY <1>6 DEF Map
  <2>3. handled \in [Calls -> {"new", "routed", "done"}]
    BY DEF TypeOK
  <2>4. UNCHANGED DoneLookups
    BY <2>2, <2>3 DEF DoneLookups, Calls
  <2>5. \A o \in Patterns : Occurrences(Settled', o) = IF handled'[o] = "done" THEN 1 ELSE 0
    <3> TAKE o \in Patterns
    <3>1. Occurrences(Settled, o) = IF handled[o] = "done" THEN 1 ELSE 0
      BY DEF ContentInv
    <3>2. CASE o = p
      BY <2>1, <2>2, <2>3, <3>1, <3>2 DEF Calls
    <3>3. CASE o # p
      BY <2>1, <2>2, <2>3, <3>1, <3>3 DEF Calls
    <3>4. QED
      BY <3>2, <3>3
  <2>6. Occurrences(Settled', Empty) = Cardinality(DoneLookups)
    BY <2>1 DEF ContentInv
  <2>7. QED
    BY <2>1, <2>4, <2>5, <2>6 DEF ContentInv
<1>7. ASSUME NEW c \in Lookups, Lookup(c) PROVE ContentInv'
  <2>1. /\ \A i \in 1 .. length' : Settled'[i] \in Strings
        /\ Occurrences(Settled', MappingURL) = 1
        /\ \A x : Occurrences(Settled, x) \in Nat
        /\ \A x : Occurrences(Settled', x) = Occurrences(Settled, x) + IF Empty = x THEN 1 ELSE 0
    BY <1>5, <1>7 DEF Lookup
  <2>2. handled[c] = "new" /\ handled' = [handled EXCEPT ![c] = "done"]
    BY <1>7 DEF Lookup
  <2>3. handled \in [Calls -> {"new", "routed", "done"}] /\ c \notin Patterns
    BY DEF TypeOK
  <2>4. DoneLookups' = DoneLookups \cup {c} /\ c \notin DoneLookups
    BY <2>2, <2>3 DEF DoneLookups, Calls
  <2>5. IsFiniteSet(DoneLookups') /\ Cardinality(DoneLookups') = Cardinality(DoneLookups) + 1
    BY <2>4, FS_AddElement DEF ContentInv
  <2>6. Occurrences(Settled', Empty) = Cardinality(DoneLookups')
    BY <2>1, <2>5 DEF ContentInv
  <2>7. \A o \in Patterns : Occurrences(Settled', o) = IF handled'[o] = "done" THEN 1 ELSE 0
    <3> TAKE o \in Patterns
    <3>1. handled'[o] = handled[o] /\ o # Empty
      BY <2>2, <2>3 DEF Calls
    <3>2. QED
      BY <2>1, <3>1 DEF ContentInv
  <2>8. QED
    BY <2>1, <2>5, <2>6, <2>7 DEF ContentInv
<1>8. ASSUME NEW r \in Readers,
             Request(r) \/ Lock(r) \/ Unlock(r) \/ LoadPointer(r) \/ LoadLength(r) \/ Read(r) \/ Serve(r)
      PROVE ContentInv'
  <2>1. UNCHANGED <<arrays, length, half, handled>>
    BY <1>8 DEF Request, Lock, Unlock, LoadPointer, LoadLength, Read, Serve, muxVars
  <2>2. QED
    BY <1>3, <2>1
<1>9. ASSUME NEW r \in Readers, SwapFirst(r) PROVE ContentInv'
  BY <1>2, <1>9, SwapFirstSettled DEF SwapFirst
<1>10. ASSUME NEW r \in Readers, SwapSecond(r) PROVE ContentInv'
  BY <1>2, <1>10, SwapSecondSettled DEF SwapSecond
<1>11. CASE Done
  BY <1>3, <1>11 DEF Done, vars, muxVars
<1>12. QED
  BY <1>4, <1>6, <1>7, <1>8, <1>9, <1>10, <1>11 DEF Next, DisplayEndpoints

\* While the mutex is free nothing is half stored.
LEMMA ContentIsMappings ==
  ASSUME TypeOK, SortInv, ContentInv
  PROVE  /\ mutex = Free => Settled = Current /\ Mappings = Current
         /\ MappingsAreRegistrations
<1>1. Len(Current) = length
  BY DEF SortInv
<1>2. mutex = Free => Settled = Current /\ Mappings = Current
  BY <1>1, CurrentSeq DEF SortInv, Settled
<1>3. MappingsAreRegistrations
  BY <1>2 DEF ContentInv, MappingsAreRegistrations, DoneLookups
<1>4. QED
  BY <1>2, <1>3

(* Requests.                                                               *)

LEMMA SliceStep ==
  ASSUME TypeOK, SortInv, SliceInv, Next
  PROVE  SliceInv'
<1>1. Len(Current) = length /\ Len(arrays) \in Nat \ {0} /\ length \in Nat \ {0}
  BY CurrentSeq DEF SortInv
<1>2. ASSUME UNCHANGED <<pc, slice, listing>>, Len(arrays') \in Nat, Len(arrays') >= Len(arrays)
      PROVE  SliceInv'
  <2> SUFFICES ASSUME NEW q \in Readers PROVE SliceInv!(q)'
    BY DEF SliceInv
  <2>1. slice[q].array \in Nat
    BY DEF TypeOK
  <2>2. SliceInv!(q)
    BY DEF SliceInv
  <2>3. QED
    BY <1>1, <1>2, <2>1, <2>2
<1>3. ASSUME NEW r \in Readers,
             UNCHANGED <<slice, listing, arrays>>, \E v \in {"lock", "sort", "load", "served"} :
               /\ pc' = [pc EXCEPT ![r] = v]
               /\ v \in {"lock", "sort", "load"} => pc[r] \in {"new", "lock", "sort"}
               /\ v = "served" => pc[r] = "read"
      PROVE  SliceInv'
  <2> SUFFICES ASSUME NEW q \in Readers PROVE SliceInv!(q)'
    BY DEF SliceInv
  <2>1. SliceInv!(q)
    BY DEF SliceInv
  <2>2. QED
    BY <1>3, <2>1 DEF TypeOK
<1>4. ASSUME NEW p \in Patterns, Route(p) PROVE SliceInv'
  BY <1>1, <1>2, <1>4 DEF Route, muxVars, readerVars
<1>5. ASSUME NEW p \in Nat, AddMapping(p), UNCHANGED readerVars PROVE SliceInv'
  <2>1. Len(arrays') \in Nat /\ Len(arrays') >= Len(arrays)
    <3>1. arrays' \in Seq(Seq(Nat)) /\ Len(arrays') >= Len(arrays)
      BY <1>1, <1>5, AppendCurrent DEF AddMapping
    <3>2. QED
      BY <3>1, LenProperties
  <2>2. QED
    BY <1>2, <1>5, <2>1 DEF readerVars
<1>6. ASSUME NEW p \in Patterns, Map(p) PROVE SliceInv'
  BY <1>5, <1>6, PatternAssumption DEF Map
<1>7. ASSUME NEW c \in Lookups, Lookup(c) PROVE SliceInv'
  BY <1>5, <1>7 DEF Lookup, Empty
<1>8. ASSUME NEW r \in Readers, Request(r) \/ Lock(r) \/ Unlock(r) \/ Serve(r) PROVE SliceInv'
  <2>1. UNCHANGED <<slice, listing, arrays>>
    BY <1>8 DEF Request, Lock, Unlock, Serve, muxVars
  <2>2. CASE Request(r) /\ fDirty
    BY <1>3, <2>1, <2>2 DEF Request
  <2>3. CASE Request(r) /\ ~fDirty
    BY <1>3, <2>1, <2>3 DEF Request
  <2>4. CASE Lock(r)
    BY <1>3, <2>1, <2>4 DEF Lock
  <2>5. CASE Unlock(r)
    BY <1>3, <2>1, <2>5 DEF Unlock
  <2>6. CASE Serve(r)
    BY <1>3, <2>1, <2>6 DEF Serve
  <2>7. QED
    BY <1>8, <2>2, <2>3, <2>4, <2>5, <2>6
<1>9. ASSUME NEW r \in Readers, SwapFirst(r) PROVE SliceInv'
  <2>1. PICK i, j \in 1 .. length :
          /\ Current[j] \in Nat
          /\ arrays' = [arrays EXCEPT ![Len(arrays)][i] = Current[j]]
    BY <1>1, <1>9, NextSwap
  <2>2. Len(arrays') = Len(arrays)
    BY <1>1, <2>1, StoreCurrent
  <2>3. QED
    BY <1>1, <1>2, <1>9, <2>2 DEF SwapFirst, readerVars
<1>10. ASSUME NEW r \in Readers, SwapSecond(r) PROVE SliceInv'
  <2>1. half[1] \in 1 .. length /\ half[2] \in Nat
    BY <1>10 DEF SwapSecond, TypeOK
  <2>2. Len(arrays') = Len(arrays)
    BY <1>1, <1>10, <2>1, StoreCurrent DEF SwapSecond
  <2>3. QED
    BY <1>1, <1>2, <1>10, <2>2 DEF SwapSecond, readerVars
<1>11. ASSUME NEW r \in Readers, LoadPointer(r) PROVE SliceInv'
  <2> SUFFICES ASSUME NEW q \in Readers PROVE SliceInv!(q)'
    BY DEF SliceInv
  <2>1. SliceInv!(q) /\ slice \in [Readers -> [array : Nat, len : Nat]]
    BY DEF SliceInv, TypeOK
  <2>2. /\ pc[r] = "load" /\ UNCHANGED <<arrays, listing>>
        /\ slice' = [slice EXCEPT ![r].array = Len(arrays)]
        /\ pc' = [pc EXCEPT ![r] = IF slice[r].len > 0 THEN "read" ELSE "load"]
    BY <1>11 DEF LoadPointer, muxVars
  <2>3. CASE q = r
    BY <1>1, <2>1, <2>2, <2>3 DEF TypeOK
  <2>4. CASE q # r
    BY <2>1, <2>2, <2>4 DEF TypeOK
  <2>5. QED
    BY <2>3, <2>4
<1>12. ASSUME NEW r \in Readers, LoadLength(r) PROVE SliceInv'
  <2> SUFFICES ASSUME NEW q \in Readers PROVE SliceInv!(q)'
    BY DEF SliceInv
  <2>1. SliceInv!(q) /\ slice \in [Readers -> [array : Nat, len : Nat]]
    BY DEF SliceInv, TypeOK
  <2>2. /\ pc[r] = "load" /\ UNCHANGED <<arrays, listing>>
        /\ slice' = [slice EXCEPT ![r].len = length]
        /\ pc' = [pc EXCEPT ![r] = IF slice[r].array > 0 THEN "read" ELSE "load"]
    BY <1>12 DEF LoadLength, muxVars
  <2>3. CASE q = r
    BY <1>1, <2>1, <2>2, <2>3 DEF TypeOK
  <2>4. CASE q # r
    BY <2>1, <2>2, <2>4 DEF TypeOK
  <2>5. QED
    BY <2>3, <2>4
<1>13. ASSUME NEW r \in Readers, Read(r) PROVE SliceInv'
  <2> SUFFICES ASSUME NEW q \in Readers PROVE SliceInv!(q)'
    BY DEF SliceInv
  <2>1. SliceInv!(q)
    BY DEF SliceInv
  <2>2. /\ pc[r] = "read" /\ UNCHANGED <<arrays, slice, pc>>
        /\ q # r => listing'[q] = listing[q]
    BY <1>13 DEF Read, muxVars, TypeOK
  <2>3. QED
    BY <2>1, <2>2
<1>14. CASE Done
  BY <1>1, <1>2, <1>14 DEF Done, vars, muxVars, readerVars
<1>15. QED
  BY <1>4, <1>6, <1>7, <1>8, <1>9, <1>10, <1>11, <1>12, <1>13, <1>14 DEF Next, DisplayEndpoints

LEMMA AloneStep ==
  ASSUME TypeOK, SortInv, SliceInv, AloneInv, Next
  PROVE  AloneInv'
<1> USE ThreadAssumption
<1>1. Len(Current) = length /\ Len(arrays) \in Nat \ {0} /\ length \in Nat \ {0}
  BY CurrentSeq DEF SortInv
<1> SUFFICES ASSUME NEW q \in Readers, alone'[q], InProgress(q)' PROVE AloneInv!(q)!2'
  BY DEF AloneInv
<1> DEFINE Registered == {p \in Patterns : handled[p] = "done"}
<1>2. ASSUME UNCHANGED <<pc[q], alone[q], known[q], slice[q], listing[q]>>,
             UNCHANGED <<muxVars, mutex, Registered>>
      PROVE  AloneInv!(q)!2'
  <2>1. AloneInv!(q)!2 /\ UNCHANGED <<Current, arrays, length, fDirty>>
    BY <1>2 DEF AloneInv, InProgress, Current, muxVars
  <2>2. QED
    BY <1>2, <2>1
<1>3. ASSUME NEW p \in Patterns, Route(p) PROVE AloneInv!(q)!2'
  <2>1. UNCHANGED Registered
    BY <1>3 DEF Route, TypeOK, Calls
  <2>2. QED
    BY <1>2, <1>3, <2>1 DEF Route, readerVars
<1>4. ASSUME NEW p, AddMapping(p), UNCHANGED pc PROVE FALSE
  BY <1>4 DEF AddMapping, Disturb, InProgress
<1>5. ASSUME NEW p \in Patterns, Map(p) PROVE FALSE
  BY <1>4, <1>5 DEF Map, readerVars
<1>6. ASSUME NEW c \in Lookups, Lookup(c) PROVE FALSE
  BY <1>4, <1>6 DEF Lookup, readerVars
<1>7. ASSUME NEW r \in Readers, Request(r) PROVE AloneInv!(q)!2'
  <2>1. UNCHANGED <<muxVars, mutex, handled, slice, listing, Registered>>
    BY <1>7 DEF Request
  <2>2. CASE q = r
    <3>1. /\ pc[q] = "new" /\ pc'[q] = IF fDirty THEN "lock" ELSE "load"
          /\ known'[q] = Registered
      BY <1>7, <2>2 DEF Request, TypeOK
    <3>2. mutex = Free
      BY <1>7, <2>2 DEF Request, TypeOK
    <3>3. slice[q].array = 0 /\ slice[q].len = 0
      BY <3>1 DEF SliceInv
    <3>4. QED
      BY <2>1, <3>1, <3>2, <3>3 DEF muxVars
  <2>3. CASE q # r
    <3>1. UNCHANGED <<pc[q], alone[q], known[q], slice[q], listing[q]>>
      BY <1>7, <2>3 DEF Request, TypeOK
    <3>2. QED
      BY <1>2, <2>1, <3>1
  <2>4. QED
    BY <2>2, <2>3
<1>8. ASSUME NEW r \in Readers, Lock(r) PROVE AloneInv!(q)!2'
  <2>1. UNCHANGED <<muxVars, handled, slice, listing, known, Registered>> /\ mutex' = r
    BY <1>8 DEF Lock
  <2>2. alone[q] /\ (q = r \/ ~InProgress(q))
    BY <1>8 DEF Lock, Disturb
  <2>3. q = r
    BY <1>8, <2>2 DEF Lock, InProgress, TypeOK
  <2>4. pc[q] = "lock" /\ pc'[q] = "sort"
    BY <1>8, <2>3 DEF Lock, TypeOK
  <2>5. AloneInv!(q)!2
    BY <2>2, <2>4 DEF AloneInv, InProgress
  <2>6. QED
    BY <2>1, <2>3, <2>4, <2>5 DEF muxVars
<1>9. ASSUME NEW r \in Readers, pc[r] = "sort", UNCHANGED <<length, pc, slice, handled, known, alone, mutex>>,
             Len(arrays') = Len(arrays)
      PROVE  AloneInv!(q)!2'
  <2>1. mutex = r
    BY <1>9 DEF SortInv
  <2>2. AloneInv!(q)!2
    BY <1>9 DEF AloneInv, InProgress
  <2>3. q = r
    BY <2>1, <2>2
  <2>4. QED
    BY <1>9, <2>2, <2>3
<1>10. ASSUME NEW r \in Readers, SwapFirst(r) PROVE AloneInv!(q)!2'
  <2>1. PICK i, j \in 1 .. length :
          /\ Current[j] \in Nat
          /\ arrays' = [arrays EXCEPT ![Len(arrays)][i] = Current[j]]
    BY <1>1, <1>10, NextSwap
  <2>2. Len(arrays') = Len(arrays)
    BY <1>1, <2>1, StoreCurrent
  <2>3. QED
    BY <1>9, <1>10, <2>2 DEF SwapFirst, readerVars
<1>11. ASSUME NEW r \in Readers, SwapSecond(r) PROVE AloneInv!(q)!2'
  <2>1. half[1] \in 1 .. length /\ half[2] \in Nat
    BY <1>11 DEF SwapSecond, TypeOK
  <2>2. Len(arrays') = Len(arrays)
    BY <1>1, <1>11, <2>1, StoreCurrent DEF SwapSecond
  <2>3. QED
    BY <1>9, <1>11, <2>2 DEF SwapSecond, readerVars
<1>12. ASSUME NEW r \in Readers, Unlock(r) PROVE AloneInv!(q)!2'
  <2>1. /\ mutex = r /\ mutex' = Free /\ fDirty' = FALSE /\ pc' = [pc EXCEPT ![r] = "load"]
        /\ UNCHANGED <<arrays, length, handled, slice, listing, known, alone>>
    BY <1>12 DEF Unlock, SortInv
  <2>2. q = r
    <3>1. CASE q # r
      <4>1. AloneInv!(q)!2
        BY <2>1, <3>1 DEF AloneInv, InProgress, TypeOK
      <4>2. QED
        BY <2>1, <3>1, <4>1
    <3>2. QED
      BY <3>1
  <2>3. pc[q] = "sort" /\ pc'[q] = "load"
    BY <1>12, <2>1, <2>2 DEF Unlock, TypeOK
  <2>4. AloneInv!(q)!2
    BY <2>1, <2>3 DEF AloneInv, InProgress
  <2>5. QED
    BY <2>1, <2>3, <2>4
<1>13. ASSUME NEW r \in Readers, LoadPointer(r) \/ LoadLength(r) \/ Read(r) \/ Serve(r), q # r
       PROVE  AloneInv!(q)!2'
  <2>1. /\ UNCHANGED <<pc[q], alone[q], known[q], slice[q], listing[q]>>
        /\ UNCHANGED <<muxVars, mutex, Registered>>
    BY <1>13 DEF LoadPointer, LoadLength, Read, Serve, TypeOK
  <2>2. QED
    BY <1>2, <2>1
<1>14. ASSUME LoadPointer(q) \/ LoadLength(q) PROVE AloneInv!(q)!2'
  <2>1. /\ pc[q] = "load" /\ pc'[q] \in {"load", "read"}
        /\ UNCHANGED <<arrays, length, fDirty, mutex, handled, listing, known, alone, Registered, Current>>
    BY <1>14 DEF LoadPointer, LoadLength, TypeOK, muxVars, Current
  <2>2. AloneInv!(q)!2 /\ listing[q] = << >>
    BY <2>1 DEF AloneInv, InProgress, SliceInv
  <2>3. slice'[q].array \in {0, Len(arrays)} /\ slice'[q].len \in {0, length}
    <3>1. slice \in [Readers -> [array : Nat, len : Nat]]
      BY DEF TypeOK
    <3>2. CASE LoadPointer(q)
      <4>1. slice'[q].array = Len(arrays) /\ slice'[q].len = slice[q].len
        BY <3>1, <3>2 DEF LoadPointer
      <4>2. QED
        BY <2>2, <4>1
    <3>3. CASE LoadLength(q)
      <4>1. slice'[q].array = slice[q].array /\ slice'[q].len = length
        BY <3>1, <3>3 DEF LoadLength
      <4>2. QED
        BY <2>2, <4>1
    <3>4. QED
      BY <1>14, <3>2, <3>3
  <2>4. Len(listing[q]) = 0
    BY <2>2
  <2>5. QED
    BY <1>1, <2>1, <2>2, <2>3, <2>4
<1>15. ASSUME Read(q) PROVE AloneInv!(q)!2'
  <2>1. /\ pc[q] = "read" /\ Len(listing[q]) < slice[q].len
        /\ UNCHANGED <<arrays, length, fDirty, mutex, handled, pc, slice, known, alone, Registered, Current>>
    BY <1>15 DEF Read, muxVars, Current
  <2>2. /\ AloneInv!(q)!2 /\ slice[q].array > 0 /\ slice[q].len > 0
    BY <2>1 DEF AloneInv, InProgress, SliceInv
  <2>3. slice[q].array = Len(arrays) /\ slice[q].len = length
    BY <1>1, <2>2
  <2>4. PICK s, n : s = listing[q] /\ n = Len(s)
    OBVIOUS
  <2>5. s \in Seq(Nat \cup {Junk}) /\ n \in Nat /\ n + 1 \in 1 .. length
    <3>1. s \in Seq(Nat \cup {Junk})
      BY <2>4 DEF TypeOK
    <3>2. n \in Nat
      BY <2>4, <3>1, LenProperties
    <3>3. QED
      BY <1>1, <2>1, <2>3, <2>4, <3>1, <3>2
  <2>6. Element(slice[q].array, n + 1) = Current[n + 1] /\ Current[n + 1] \in Nat
    <3>1. Current[n + 1] \in Nat
      BY <1>1, <2>5, CurrentSeq
    <3>2. QED
      BY <1>1, <2>3, <2>5, <3>1 DEF Element, Current
  <2>7. listing'[q] = Append(s, Current[n + 1])
    BY <1>15, <2>4, <2>6 DEF Read, TypeOK
  <2>8. PICK e : e = Current[n + 1]
    OBVIOUS
  <2>9. /\ Len(Append(s, e)) = n + 1 /\ Append(s, e)[n + 1] = e
        /\ \A i \in 1 .. n : Append(s, e)[i] = s[i]
    BY <2>4, <2>5, <2>6, <2>8, AppendProperties
  <2>10. \A i \in 1 .. n : s[i] = Current[i]
    BY <2>1, <2>2, <2>4
  <2>11. \A i \in 1 .. n + 1 : Append(s, e)[i] = Current[i]
    <3> TAKE i \in 1 .. n + 1
    <3>1. CASE i = n + 1
      BY <2>8, <2>9, <3>1
    <3>2. CASE i # n + 1
      <4>1. i \in 1 .. n
        BY <2>5, <3>2
      <4>2. QED
        BY <2>9, <2>10, <4>1
    <3>3. QED
      BY <3>1, <3>2
  <2>12. Len(listing'[q]) <= length /\ \A i \in 1 .. Len(listing'[q]) : listing'[q][i] = Current[i]
    BY <2>5, <2>7, <2>8, <2>9, <2>11
  <2>13. QED
    BY <2>1, <2>2, <2>12
<1>16. ASSUME Serve(q) PROVE FALSE
  BY <1>16 DEF Serve, InProgress, TypeOK
<1>17. CASE Done
  BY <1>2, <1>17 DEF Done, vars, muxVars, readerVars
<1>18. QED
  BY <1>3, <1>5, <1>6, <1>7, <1>8, <1>10, <1>11, <1>12, <1>13, <1>14, <1>15, <1>16, <1>17
     DEF Next, DisplayEndpoints

\* A list without inversions is sorted.
LEMMA NoInversions ==
  ASSUME TypeOK, Len(Current) = length, Inversions = {}
  PROVE  \A i \in 2 .. length : Current[i - 1] <= Current[i]
<1> SUFFICES ASSUME NEW i \in 2 .. length PROVE Current[i - 1] <= Current[i]
  OBVIOUS
<1>1. length \in Nat /\ Current[i] \in Nat /\ Current[i - 1] \in Nat
  <2>1. length \in Nat
    BY CurrentSeq
  <2>2. i \in 1 .. length /\ i - 1 \in 1 .. length
    BY <2>1
  <2>3. QED
    BY <2>1, <2>2, CurrentSeq
<1>2. ~(Current[i] < Current[i - 1])
  BY DEF Inversions
<1>3. QED
  BY <1>1, <1>2

\* A string occurs in the list as often as it was registered.
LEMMA OccurrenceIsMember ==
  ASSUME NEW q \in Seq(Nat), NEW x
  PROVE  /\ Occurrences(q, x) = 1 => x \in ToSet(q)
         /\ Occurrences(q, x) = 0 => x \notin ToSet(q)
<1> DEFINE P == {i \in DOMAIN q : q[i] = x}
<1>1. IsFiniteSet(P) /\ Occurrences(q, x) = Cardinality(P)
  BY PositionsFinite DEF Occurrences
<1>2. Cardinality(P) = 0 <=> P = {}
  BY <1>1, FS_EmptySet
<1>3. P = {} <=> x \notin ToSet(q)
  BY DEF ToSet
<1>4. QED
  BY <1>1, <1>2, <1>3

LEMMA UndisturbedStep ==
  ASSUME TypeOK, SortInv, ContentInv, SliceInv, AloneInv, UndisturbedListing, Next
  PROVE  UndisturbedListing'
<1> USE ThreadAssumption, PatternAssumption
<1>1. Len(Current) = length /\ Len(arrays) \in Nat \ {0} /\ length \in Nat \ {0} /\ Current \in Seq(Nat)
  BY CurrentSeq DEF SortInv
<1> SUFFICES ASSUME NEW q \in Readers, pc'[q] = "served", alone'[q]
             PROVE  UndisturbedListing!(q)!2'
  BY DEF UndisturbedListing
<1>2. CASE pc[q] = "served"
  <2>1. /\ UNCHANGED <<known[q], listing[q]>> /\ alone[q]
    <3>1. ASSUME NEW p \in Patterns, Route(p) \/ Map(p) PROVE <2>1
      BY <3>1 DEF Route, Map, AddMapping, Disturb, readerVars
    <3>2. ASSUME NEW c \in Lookups, Lookup(c) PROVE <2>1
      BY <3>2 DEF Lookup, AddMapping, Disturb, readerVars
    <3>3. ASSUME NEW r \in Readers, Request(r) PROVE <2>1
      BY <1>2, <3>3 DEF Request, TypeOK
    <3>4. ASSUME NEW r \in Readers, Lock(r) PROVE <2>1
      BY <3>4 DEF Lock, Disturb
    <3>5. ASSUME NEW r \in Readers, Read(r) PROVE <2>1
      BY <1>2, <3>5 DEF Read, TypeOK
    <3>6. ASSUME NEW r \in Readers,
                 SwapFirst(r) \/ SwapSecond(r) \/ Unlock(r) \/ LoadPointer(r) \/ LoadLength(r) \/ Serve(r)
          PROVE  <2>1
      BY <3>6 DEF SwapFirst, SwapSecond, Unlock, LoadPointer, LoadLength, Serve, readerVars
    <3>7. CASE Done
      BY <3>7 DEF Done, vars, readerVars
    <3>8. QED
      BY <3>1, <3>2, <3>3, <3>4, <3>5, <3>6, <3>7 DEF Next, DisplayEndpoints
  <2>2. UndisturbedListing!(q)!2
    BY <1>2, <2>1 DEF UndisturbedListing
  <2>3. QED
    BY <2>1, <2>2
<1>3. CASE pc[q] # "served"
  <2>1. Serve(q)
    <3>1. ASSUME NEW p \in Patterns, Route(p) \/ Map(p) PROVE FALSE
      BY <1>3, <3>1 DEF Route, Map, readerVars
    <3>2. ASSUME NEW c \in Lookups, Lookup(c) PROVE FALSE
      BY <1>3, <3>2 DEF Lookup, readerVars
    <3>3. ASSUME NEW r \in Readers,
                 Request(r) \/ Lock(r) \/ Unlock(r) \/ LoadPointer(r) \/ LoadLength(r)
          PROVE  FALSE
      BY <1>3, <3>3 DEF Request, Lock, Unlock, LoadPointer, LoadLength, TypeOK
    <3>4. ASSUME NEW r \in Readers, SwapFirst(r) \/ SwapSecond(r) \/ Read(r) PROVE FALSE
      BY <1>3, <3>4 DEF SwapFirst, SwapSecond, Read, readerVars
    <3>5. ASSUME NEW r \in Readers, Serve(r) PROVE r = q
      BY <1>3, <3>5 DEF Serve, TypeOK
    <3>6. CASE Done
      BY <1>3, <3>6 DEF Done, vars, readerVars
    <3>7. QED
      BY <3>1, <3>2, <3>3, <3>4, <3>5, <3>6 DEF Next, DisplayEndpoints
  <2>2. /\ pc[q] = "read" /\ Len(listing[q]) = slice[q].len /\ alone[q]
        /\ UNCHANGED <<known, listing>>
    BY <2>1 DEF Serve
  <2>3. AloneInv!(q)!2 /\ slice[q].len > 0
    BY <2>2 DEF AloneInv, InProgress, SliceInv
  <2>4. /\ Len(listing[q]) = length /\ \A i \in 1 .. length : listing[q][i] = Current[i]
    BY <1>1, <2>2, <2>3
  <2>5. mutex = Free /\ ~fDirty
    BY <2>2, <2>3 DEF SortInv
  <2>6. listing[q] = Current
    <3>1. listing[q] \in Seq(Nat \cup {Junk}) /\ Current \in Seq(Nat \cup {Junk})
      <4>1. Current \in Seq(Nat \cup {Junk})
        BY <1>1
      <4>2. QED
        BY <4>1 DEF TypeOK
    <3>2. QED
      BY <1>1, <2>4, <3>1, SeqEqual
  <2>7. \A i \in 2 .. length : Current[i - 1] <= Current[i]
    BY <1>1, <2>5, NoInversions DEF SortInv
  <2>8. Settled = Current
    BY <2>5, ContentIsMappings
  <2>9. known[q] \subseteq ToSet(Current)
    <3> SUFFICES ASSUME NEW p \in known[q] PROVE p \in ToSet(Current)
      OBVIOUS
    <3>1. p \in Patterns /\ handled[p] = "done"
      BY <2>2, <2>3
    <3>2. Occurrences(Current, p) = 1
      BY <2>8, <3>1 DEF ContentInv
    <3>3. QED
      BY <1>1, <3>2, OccurrenceIsMember
  <2>10. ToSet(Current) \subseteq known[q] \cup {MappingURL, Empty}
    <3> SUFFICES ASSUME NEW x \in ToSet(Current), x \notin {MappingURL, Empty}
                 PROVE  x \in known[q]
      OBVIOUS
    <3>1. PICK i \in 1 .. length : x = Current[i]
      BY <1>1, CurrentSeq DEF ToSet
    <3>2. x \in Patterns
      BY <2>8, <3>1 DEF ContentInv
    <3>3. handled[x] = "done"
      <4>1. CASE handled[x] # "done"
        <5>1. Occurrences(Current, x) = 0
          BY <2>8, <3>2, <4>1 DEF ContentInv
        <5>2. QED
          BY <1>1, <5>1, OccurrenceIsMember
      <4>2. QED
        BY <4>1
    <3>4. QED
      BY <2>2, <2>3, <3>2, <3>3
  <2>11. QED
    BY <2>2, <2>4, <2>6, <2>7, <2>9, <2>10
<1>4. QED
  BY <1>2, <1>3

(* The theorems.                                                           *)

LEMMA MuxInvInit == ASSUME Init PROVE MuxInv
<1>1. TypeOK /\ SortInv
  BY TypeInit, SortInvInit
<1>2. ContentInv
  BY ContentInitInv
<1>3. MappingsAreRegistrations
  BY <1>1, <1>2, ContentIsMappings
<1>4. SliceInv
  <2>1. Len(arrays) = 1
    BY DEF Init
  <2>2. QED
    BY <2>1 DEF Init, SliceInv
<1>5. AloneInv /\ UndisturbedListing
  BY DEF Init, AloneInv, InProgress, UndisturbedListing
<1>6. QED
  BY <1>1, <1>2, <1>3, <1>4, <1>5 DEF MuxInv

LEMMA MuxInvNext == ASSUME MuxInv, [Next]_vars PROVE MuxInv'
<1>1. CASE Next
  <2>1. TypeOK /\ SortInv /\ ContentInv /\ SliceInv /\ AloneInv /\ UndisturbedListing
    BY DEF MuxInv
  <2>2. TypeOK'
    BY <1>1, <2>1, TypeStep
  <2>3. SortInv'
    BY <1>1, <2>1, SortStep
  <2>4. ContentInv'
    BY <1>1, <2>1, ContentStep
  <2>5. SliceInv'
    BY <1>1, <2>1, SliceStep
  <2>6. AloneInv'
    BY <1>1, <2>1, AloneStep
  <2>7. UndisturbedListing'
    BY <1>1, <2>1, UndisturbedStep
  <2>8. MappingsAreRegistrations'
    <3>1. (mutex = Free => Settled = Current /\ Mappings = Current)'
      BY <2>2, <2>3, <2>4, ContentIsMappings, PTL
    <3>2. QED
      BY <2>4, <3>1 DEF ContentInv, MappingsAreRegistrations, DoneLookups
  <2>9. QED
    BY <2>2, <2>3, <2>4, <2>5, <2>6, <2>7, <2>8 DEF MuxInv
<1>2. CASE UNCHANGED vars
  <2>1. /\ UNCHANGED <<arrays, length, fDirty, mutex, half, routes, handled>>
        /\ UNCHANGED <<pc, slice, listing, known, alone>>
    BY <1>2 DEF vars, muxVars, readerVars
  <2>2. UNCHANGED <<Current, Inversions, Settled, Mappings, DoneLookups>>
    BY <2>1 DEF Current, Inversions, Settled, Mappings, DoneLookups
  <2>3. TypeOK' /\ SortInv'
    BY <2>1, <2>2 DEF MuxInv, TypeOK, SortInv
  <2>4. ContentInv' /\ MappingsAreRegistrations'
    BY <2>1, <2>2 DEF MuxInv, ContentInv, MappingsAreRegistrations
  <2>5. SliceInv' /\ UndisturbedListing'
    BY <2>1 DEF MuxInv, SliceInv, UndisturbedListing
  <2>6. AloneInv'
    BY <2>1, <2>2 DEF MuxInv, AloneInv, InProgress
  <2>7. QED
    BY <2>3, <2>4, <2>5, <2>6 DEF MuxInv
<1>3. QED
  BY <1>1, <1>2

\* The inductive invariant holds: in particular, whenever no request sorts,
\* every pattern whose registration has returned is in m.mappings once, and
\* "" as often as Handler was called.
THEOREM MuxInvariance == Spec => []MuxInv
<1>1. Init => MuxInv
  BY MuxInvInit
<1>2. MuxInv /\ [Next]_vars => MuxInv'
  BY MuxInvNext
<1>3. QED
  BY <1>1, <1>2, PTL DEF Spec

\* A request that reads fDirty clear while nobody sorts has a sorted list.
THEOREM CleanListIsSorted == Spec => []CleanIsSorted
<1>1. MuxInv => CleanIsSorted
  <2> SUFFICES ASSUME MuxInv, ~fDirty, mutex = Free
               PROVE  \A i \in 2 .. length : Mappings[i - 1] <= Mappings[i]
    BY DEF CleanIsSorted
  <2>1. TypeOK /\ Len(Current) = length /\ Inversions = {}
    BY DEF MuxInv, SortInv
  <2>2. Mappings = Current
    BY <2>1, CurrentSeq
  <2>3. QED
    BY <2>1, <2>2, NoInversions
<1>2. QED
  BY <1>1, MuxInvariance, PTL

\* The list is read without the mutex; a request that no registration and no
\* other sort overlaps is served the sorted list of what was registered.
THEOREM UndisturbedRequest == Spec => []UndisturbedListing
<1>1. MuxInv => UndisturbedListing
  BY DEF MuxInv
<1>2. QED
  BY <1>1, MuxInvariance, PTL

\* append leaves the elements that are there alone, in the current array and
\* in those that readers may still hold.
LEMMA AppendKeeps ==
  ASSUME TypeOK, Len(Current) = length, NEW p \in Nat, AppendMapping(p),
         NEW k \in DOMAIN arrays, NEW i \in DOMAIN arrays[k]
  PROVE  arrays'[k][i] = arrays[k][i]
<1> USE CurrentSeq
<1>1. arrays \in Seq(Seq(Nat)) /\ DOMAIN arrays = 1 .. Len(arrays)
  BY LenProperties DEF TypeOK
<1>2. \A j \in DOMAIN Current : Append(Current, p)[j] = Current[j]
  OBVIOUS
<1>3. CASE length < Capacity(Len(arrays))
  <2>1. arrays' = [arrays EXCEPT ![Len(arrays)] = Append(Current, p)]
    BY <1>3 DEF AppendMapping, Current
  <2>2. k = Len(arrays) => arrays'[k] = Append(Current, p) /\ arrays[k] = Current
    BY <1>1, <2>1 DEF Current
  <2>3. k # Len(arrays) => arrays'[k] = arrays[k]
    BY <1>1, <2>1
  <2>4. CASE k = Len(arrays)
    <3>1. PICK new, old : new = Append(Current, p) /\ old = Current
      OBVIOUS
    <3>2. arrays'[k] = new /\ arrays[k] = old /\ i \in DOMAIN old
      BY <2>2, <2>4, <3>1
    <3>3. new[i] = old[i]
      BY <1>2, <3>1, <3>2
    <3>4. QED
      BY <3>2, <3>3
  <2>5. QED
    BY <2>3, <2>4
<1>4. CASE ~(length < Capacity(Len(arrays)))
  <2>1. arrays' = Append(arrays, Append(Current, p))
    BY <1>4 DEF AppendMapping
  <2>2. arrays'[k] = arrays[k]
    <3> DEFINE T == Seq(Nat)
               new == Append(Current, p)
    <3>1. new \in T /\ arrays \in Seq(T) /\ arrays' = Append(arrays, new) /\ k \in 1 .. Len(arrays)
      BY <1>1, <2>1, AppendProperties
    <3> HIDE DEF T, new
    <3>2. QED
      BY <3>1, AppendProperties
  <2>3. QED
    BY <2>2
<1>5. QED
  BY <1>3, <1>4

\* A clean short list has nothing to swap, whoever sorts it.
LEMMA CleanStep ==
  ASSUME MuxInv, [Next]_vars, ~fDirty, length <= InsertionMax,
         NEW k \in DOMAIN arrays, NEW i \in DOMAIN arrays[k]
  PROVE  arrays'[k][i] = arrays[k][i]
<1>1. TypeOK /\ Len(Current) = length /\ half = << >> /\ Inversions = {}
  BY DEF MuxInv, SortInv
<1>2. ASSUME NEW p \in Nat, AddMapping(p) PROVE arrays'[k][i] = arrays[k][i]
  BY <1>1, <1>2, AppendKeeps DEF AddMapping
<1>3. CASE \E p \in Patterns : Map(p)
  BY <1>2, <1>3, PatternAssumption DEF Map
<1>4. CASE \E c \in Lookups : Lookup(c)
  BY <1>2, <1>4 DEF Lookup, Empty
<1>5. CASE arrays' = arrays
  BY <1>5
<1>6. ASSUME NEW r \in Readers PROVE ~SwapFirst(r) /\ ~SwapSecond(r)
  BY <1>1 DEF SwapFirst, SwapSecond, MaySwap
<1>7. CASE UNCHANGED vars \/ Done
  BY <1>5, <1>7 DEF Done, vars, muxVars
<1>8. CASE \E p \in Patterns : Route(p)
  BY <1>5, <1>8 DEF Route, muxVars
<1>9. CASE \E r \in Readers : DisplayEndpoints(r)
  BY <1>5, <1>6, <1>9
  DEF DisplayEndpoints, Request, Lock, Unlock, LoadPointer, LoadLength, Read, Serve, muxVars
<1>10. QED
  BY <1>3, <1>4, <1>7, <1>8, <1>9 DEF Next

\* While fDirty is clear and the list is no longer than what sort.Strings sorts
\* by insertion no store moves an entry under a reader.
THEOREM CleanListIsStable == Spec => CleanIsStable
<1>1. MuxInv /\ [Next]_vars
        => [~fDirty /\ length <= InsertionMax =>
              \A k \in DOMAIN arrays : \A i \in DOMAIN arrays[k] :
                arrays'[k][i] = arrays[k][i]]_vars
  BY CleanStep
<1>2. QED
  BY <1>1, MuxInvariance, PTL DEF Spec, CleanIsStable
=============================================================================
