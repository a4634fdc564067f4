---------------------------- MODULE ActuatorMux ----------------------------
(***************************************************************************)
(* The site map of actuator/mux.go: a ServeMux that remembers the patterns *)
(* registered with it and lists them at one URL.                           *)
(*                                                                         *)
(* Handle and HandleFunc append to m.mappings under the mutex; a request   *)
(* for the list sorts m.mappings in place under the mutex, if it sees      *)
(* fDirty without it, and then reads m.mappings without it.  A Go slice is *)
(* a pointer, a length and an array others may share, so the model keeps   *)
(* the arrays: append writes into the spare room of the current array or   *)
(* moves to a new one of twice the size, and a reader loads pointer and    *)
(* length in two steps, then the elements one by one.                      *)
(*                                                                         *)
(* sort.Strings swaps entries, each time in two stores, until they are in  *)
(* order.  Up to 12 it sorts by insertion: it always swaps the first       *)
(* neighbours that are out of order, and none in a sorted list.  How it    *)
(* sorts more depends on the release of Go (a quicksort, or a pdqsort      *)
(* since 1.19), so the model lets it swap any two, in a sorted list too.   *)
(*                                                                         *)
(* Abstraction: a pattern is a number, in the order of the strings; "" is  *)
(* the least.  A string is loaded and stored in one step.                  *)
(***************************************************************************)
EXTENDS Integers, Sequences, FiniteSets, SequencesExt

CONSTANTS
  Patterns,    \* the patterns to be registered, one call of Handle for each
  Lookups,     \* the calls of Handler
  Readers,     \* the requests for the list
  MappingURL,  \* its URL
  InsertionMax, \* the longest list that sort.Strings sorts by insertion: 12
  Free         \* "the mutex is not held"

Empty == 0     \* the pattern ""
Junk  == -1    \* what lies beyond the end of an array

ASSUME PatternAssumption ==
  /\ Patterns \subseteq Nat \ {Empty}
  /\ MappingURL \in Nat \ ({Empty} \cup Patterns)
  /\ InsertionMax \in Nat
ASSUME ThreadAssumption ==
  /\ Lookups \cap (Readers \cup Patterns) = {}
  /\ Free \notin Readers

VARIABLES
  arrays,   \* the arrays m.mappings has pointed to; the last one is current
  length,   \* len(m.mappings)
  fDirty,
  mutex,    \* the reader that holds it while it sorts, or Free
  half,     \* a swap between its two stores: what is stored next and where
  routes,   \* the patterns that the embedded ServeMux serves
  handled,  \* calls of Handle, HandleFunc and Handler: "new", "routed", "done"
  pc,       \* a request: "new", "lock", "sort", "load", "read", "served"
  slice,    \* its copy of the slice: an array and a length, 0 if not loaded
  listing,  \* what it has read
  known,    \* history: the patterns whose Handle had returned when it came
  alone     \* history: no registration and no other sort overlaps the request

muxVars == <<arrays, length, fDirty>>
readerVars == <<pc, slice, listing>>
vars == <<muxVars, mutex, half, routes, handled, readerVars, known, alone>>

Calls == Patterns \cup Lookups

Init ==
  /\ arrays = << <<MappingURL>> >>
  /\ length = 1
  /\ fDirty = TRUE
  /\ mutex = Free
  /\ half = << >>
  /\ routes = {}
  /\ handled = [c \in Calls |-> "new"]
  /\ pc = [r \in Readers |-> "new"]
  /\ slice = [r \in Readers |-> [array |-> 0, len |-> 0]]
  /\ listing = [r \in Readers |-> << >>]
  /\ known = [r \in Readers |-> {}]
  /\ alone = [r \in Readers |-> TRUE]

Current == arrays[Len(arrays)]
Mappings == SubSeq(Current, 1, length)

\* append doubles the capacity when it moves: 1, 2, 4, ...
Capacity(k) == 2 ^ (k - 1)

InProgress(r) == pc[r] \notin {"new", "served"}

\* A write to what readers share: from now on the readers at work are not alone.
Disturb(who) == alone' = [r \in Readers |-> alone[r] /\ (r = who \/ ~InProgress(r))]

----------------------------------------------------------------------------
(* Registration.                                                           *)

\* Mutant: a full array is not copied in full.
AppendForgets(p) ==
  /\ length' = length + 1
  /\ IF length < Capacity(Len(arrays))
       THEN arrays' = [arrays EXCEPT ![Len(arrays)] = Append(@, p)]
       ELSE arrays' = Append(arrays, [Current EXCEPT ![length] = p] \o <<p>>)

\* m.mappings = append(m.mappings, pattern)
AppendMapping(p) ==
  /\ length' = length + 1
  /\ IF length < Capacity(Len(arrays))
       THEN arrays' = [arrays EXCEPT ![Len(arrays)] = Append(@, p)]
       ELSE arrays' = Append(arrays, Append(Current, p))

\* Mutant: fDirty is left alone.
AddMappingClean(p) ==
  /\ mutex = Free
  /\ AppendMapping(p)
  /\ Disturb(Free)
  /\ UNCHANGED <<fDirty, mutex, half>>

\* addMapping, one critical section.
AddMapping(p) ==
  /\ mutex = Free
  /\ AppendMapping(p)
  /\ fDirty' = TRUE
  /\ Disturb(Free)
  /\ UNCHANGED <<mutex, half>>

\* Handle and HandleFunc: first the ServeMux ...
Route(p) ==
  /\ handled[p] = "new"
  /\ handled' = [handled EXCEPT ![p] = "routed"]
  /\ routes' = routes \cup {p}
  /\ UNCHANGED <<muxVars, mutex, half, readerVars, known, alone>>

\* ... then the list.
Map(p) ==
  /\ handled[p] = "routed"
  /\ AddMapping(p)
  /\ handled' = [handled EXCEPT ![p] = "done"]
  /\ UNCHANGED <<routes, readerVars, known>>

\* Handler adds its result "pattern" before it has one.
Lookup(c) ==
  /\ handled[c] = "new"
  /\ AddMapping(Empty)
  /\ handled' = [handled EXCEPT ![c] = "done"]
  /\ UNCHANGED <<routes, readerVars, known>>

----------------------------------------------------------------------------
(* The list.                                                               *)

\* A request for MappingURL; fDirty is read without the mutex.
Request(r) ==
  /\ pc[r] = "new"
  /\ pc' = [pc EXCEPT ![r] = IF fDirty THEN "lock" ELSE "load"]
  /\ known' = [known EXCEPT ![r] = {p \in Patterns : handled[p] = "done"}]
  /\ alone' = [alone EXCEPT ![r] = mutex = Free]
  /\ UNCHANGED <<muxVars, mutex, half, routes, handled, slice, listing>>

\* m.mutex.Lock()
Lock(r) ==
  /\ pc[r] = "lock"
  /\ mutex = Free
  /\ mutex' = r
  /\ pc' = [pc EXCEPT ![r] = "sort"]
  /\ Disturb(r)
  /\ UNCHANGED <<muxVars, half, routes, handled, slice, listing, known>>

\* Neighbours in the wrong order.
Inversions == {i \in 2 .. length : Current[i] < Current[i - 1]}

\* sort.Strings may swap entries i and j next.
MaySwap(i, j) ==
  IF length <= InsertionMax
  THEN i \in Inversions /\ j = i - 1 /\ \A k \in Inversions : i <= k
  ELSE i # j

\* The two stores of data[i], data[j] = data[j], data[i].
SwapFirst(r) ==
  /\ pc[r] = "sort"
  /\ half = << >>
  /\ \E i, j \in 1 .. length :
       /\ MaySwap(i, j)
       /\ half' = <<j, Current[i]>>
       /\ arrays' = [arrays EXCEPT ![Len(arrays)][i] = Current[j]]
  /\ UNCHANGED <<length, fDirty, mutex, routes, handled, readerVars, known, alone>>

SwapSecond(r) ==
  /\ pc[r] = "sort"
  /\ half # << >>
  /\ half' = << >>
  /\ arrays' = [arrays EXCEPT ![Len(arrays)][half[1]] = half[2]]
  /\ UNCHANGED <<length, fDirty, mutex, routes, handled, readerVars, known, alone>>

\* Mutant: fDirty is cleared and the mutex released before the sort.
UnlockUnsorted(r) ==
  /\ pc[r] = "sort"
  /\ half = << >>
  /\ fDirty' = FALSE
  /\ mutex' = Free
  /\ pc' = [pc EXCEPT ![r] = "load"]
  /\ UNCHANGED <<arrays, length, half, routes, handled, slice, listing, known, alone>>

\* Sorted: m.fDirty = false, and the mutex is released.
Unlock(r) ==
  /\ pc[r] = "sort"
  /\ half = << >> /\ Inversions = {}
  /\ fDirty' = FALSE
  /\ mutex' = Free
  /\ pc' = [pc EXCEPT ![r] = "load"]
  /\ UNCHANGED <<arrays, length, half, routes, handled, slice, listing, known, alone>>

\* m.mappings is copied without the mutex, pointer and length in any order.
LoadPointer(r) ==
  /\ pc[r] = "load"
  /\ slice[r].array = 0
  /\ slice' = [slice EXCEPT ![r].array = Len(arrays)]
  /\ pc' = [pc EXCEPT ![r] = IF slice[r].len > 0 THEN "read" ELSE "load"]
  /\ UNCHANGED <<muxVars, mutex, half, routes, handled, listing, known, alone>>

LoadLength(r) ==
  /\ pc[r] = "load"
  /\ slice[r].len = 0
  /\ slice' = [slice EXCEPT ![r].len = length]
  /\ pc' = [pc EXCEPT ![r] = IF slice[r].array > 0 THEN "read" ELSE "load"]
  /\ UNCHANGED <<muxVars, mutex, half, routes, handled, listing, known, alone>>

\* Element i of array k, which may end before it.
Element(k, i) == IF i <= Len(arrays[k]) THEN arrays[k][i] ELSE Junk

\* The template, or the encoder, reads the next element.
Read(r) ==
  /\ pc[r] = "read"
  /\ Len(listing[r]) < slice[r].len
  /\ listing' = [listing EXCEPT ![r] = Append(@, Element(slice[r].array, Len(@) + 1))]
  /\ UNCHANGED <<muxVars, mutex, half, routes, handled, pc, slice, known, alone>>

Serve(r) ==
  /\ pc[r] = "read"
  /\ Len(listing[r]) = slice[r].len
  /\ pc' = [pc EXCEPT ![r] = "served"]
  /\ UNCHANGED <<muxVars, mutex, half, routes, handled, slice, listing, known, alone>>

Done ==
  /\ \A c \in Calls : handled[c] = "done"
  /\ \A r \in Readers : pc[r] = "served"
  /\ UNCHANGED vars

DisplayEndpoints(r) ==
  \/ Request(r) \/ Lock(r) \/ SwapFirst(r) \/ SwapSecond(r) \/ Unlock(r)
  \/ LoadPointer(r) \/ LoadLength(r) \/ Read(r) \/ Serve(r)

Next ==
  \/ \E p \in Patterns : Route(p) \/ Map(p)
  \/ \E c \in Lookups : Lookup(c)
  \/ \E r \in Readers : DisplayEndpoints(r)
  \/ Done

Spec == Init /\ [][Next]_vars
----------------------------------------------------------------------------
(* Properties.                                                             *)

TypeOK ==
  /\ arrays \in Seq(Seq(Nat)) /\ arrays # << >>
  /\ length \in 1 .. Len(Current)
  /\ fDirty \in BOOLEAN
  /\ mutex \in Readers \cup {Free}
  /\ half = << >> \/ half \in (1 .. length) \X Nat
  /\ routes \subseteq Patterns
  /\ handled \in [Calls -> {"new", "routed", "done"}]
  /\ pc \in [Readers -> {"new", "lock", "sort", "load", "read", "served"}]
  /\ slice \in [Readers -> [array : Nat, len : Nat]]
  /\ listing \in [Readers -> Seq(Nat \cup {Junk})]
  /\ known \in [Readers -> SUBSET Patterns]
  /\ alone \in [Readers -> BOOLEAN]

Occurrences(q, x) == Cardinality({i \in DOMAIN q : q[i] = x})

\* Nothing that was registered gets lost or doubled, and nothing else gets in
\* but "", once per call of Handler, however registrations and sorts overlap.
MappingsAreRegistrations ==
  mutex = Free =>
    /\ Occurrences(Mappings, MappingURL) = 1
    /\ \A p \in Patterns :
         Occurrences(Mappings, p) = IF handled[p] = "done" THEN 1 ELSE 0
    /\ Occurrences(Mappings, Empty) = Cardinality({c \in Lookups : handled[c] = "done"})

\* fDirty may be read without the mutex: if it is clear and nobody holds the
\* mutex, the list is sorted.
CleanIsSorted ==
  ~fDirty /\ mutex = Free => \A i \in 2 .. length : Mappings[i - 1] <= Mappings[i]

\* A request that no registration and no other sort overlaps gets the sorted
\* list of all that was registered before it came.
UndisturbedListing ==
  \A r \in Readers : pc[r] = "served" /\ alone[r] =>
    /\ known[r] \subseteq ToSet(listing[r])
    /\ ToSet(listing[r]) \subseteq known[r] \cup {MappingURL, Empty}
    /\ \A i \in 2 .. Len(listing[r]) : listing[r][i - 1] <= listing[r][i]

\* While fDirty is clear and the list is short nothing stores into what a
\* request reads, though others that had seen it set still lock the mutex and
\* sort: only the first sort after a registration moves entries under a reader.
CleanIsStable ==
  [][~fDirty /\ length <= InsertionMax =>
       \A k \in DOMAIN arrays : \A i \in DOMAIN arrays[k] :
         arrays'[k][i] = arrays[k][i]]_vars
-----------------------------------------------------------------------------
(* The inductive invariant behind the theorems of ActuatorMuxProofs.       *)

\* The sorting request holds the mutex; what it has half stored, it stores.
\* A request may sort again what another has sorted: it leaves it sorted, and
\* in a short list it has nothing to swap.
SortInv ==
  /\ Len(Current) = length
  /\ \A r \in Readers : pc[r] = "sort" <=> mutex = r
  /\ half # << >> => mutex # Free
  /\ ~fDirty /\ (mutex = Free \/ length <= InsertionMax) => half = << >> /\ Inversions = {}

\* The current array with the second store of a swap done.
Settled == IF half = << >> THEN Current ELSE [Current EXCEPT ![half[1]] = half[2]]

DoneLookups == {c \in Lookups : handled[c] = "done"}

\* What is listed, between two stores too.
ContentInv ==
  /\ \A i \in 1 .. length : Settled[i] \in {MappingURL, Empty} \cup Patterns
  /\ Occurrences(Settled, MappingURL) = 1
  /\ \A p \in Patterns :
       Occurrences(Settled, p) = IF handled[p] = "done" THEN 1 ELSE 0
  /\ IsFiniteSet(DoneLookups) /\ Occurrences(Settled, Empty) = Cardinality(DoneLookups)

\* A request copies the slice before it reads.
SliceInv ==
  \A r \in Readers :
    /\ slice[r].array <= Len(arrays)
    /\ pc[r] \in {"new", "lock", "sort"} => slice[r].array = 0 /\ slice[r].len = 0
    /\ pc[r] \in {"read", "served"} => slice[r].array > 0 /\ slice[r].len > 0
    /\ pc[r] \in {"new", "lock", "sort", "load"} => listing[r] = << >>

\* Nothing changes under a request that is alone: it copies the current array
\* and length, and has read the elements that are there.
AloneInv ==
  \A r \in Readers : alone[r] /\ InProgress(r) =>
    /\ mutex \in {Free, r}
    /\ known[r] = {p \in Patterns : handled[p] = "done"}
    /\ pc[r] \in {"load", "read"} => ~fDirty
    /\ slice[r].array \in {0, Len(arrays)} /\ slice[r].len \in {0, length}
    /\ pc[r] = "read" =>
         /\ Len(listing[r]) <= length
         /\ \A i \in 1 .. Len(listing[r]) : listing[r][i] = Current[i]

MuxInv ==
  /\ TypeOK /\ SortInv /\ ContentInv /\ SliceInv /\ AloneInv
  /\ MappingsAreRegistrations /\ UndisturbedListing
=============================================================================
