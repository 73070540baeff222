------------------------ MODULE UsedObjectListProofs ------------------------
(***************************************************************************)
(* What the operators of UsedObjectList return, for lists of any capacity. *)
(***************************************************************************)
EXTENDS UsedObjectList, FiniteSetTheorems, TLAPS

\* The capacity of a list is the number of its slots, and only the list that
\* was never allocated has none.
LEMMA ListFacts ==
    ASSUME NEW S, NEW list \in Lists(S)
    PROVE  /\ Capacity(list) \in 0..MaxCapacity
           /\ list \in [Entries(Capacity(list)) -> S]
           /\ DOMAIN list = 0..(Capacity(list) - 1)
           /\ list = Empty <=> Capacity(list) = 0
           /\ list # Empty => Capacity(list) > 0
  <1>1. PICK n \in 0..MaxCapacity : list \in [Entries(n) -> S]
    BY DEF Lists
  <1>2. n \in Nat
    BY CapacityAssumption
  <1>3. Capacity(list) = n
    <2>1. DOMAIN list = 0..(n - 1)
      BY <1>1 DEF Entries
    <2>2. Cardinality(0..(n - 1)) = IF 0 > n - 1 THEN 0 ELSE (n - 1) - 0 + 1
      BY <1>2, FS_Interval
    <2> QED
      BY <1>2, <2>1, <2>2 DEF Capacity
  <1>4. list = Empty <=> n = 0
    BY <1>1, <1>2 DEF Entries, Empty
  <1> QED
    BY <1>1, <1>2, <1>3, <1>4 DEF Entries

\* A function on 0..n-1 is a list of capacity n.
LEMMA MakeList ==
    ASSUME NEW S, NEW n \in 0..MaxCapacity, NEW f \in [Entries(n) -> S]
    PROVE  f \in Lists(S) /\ Capacity(f) = n /\ DOMAIN f = 0..(n - 1)
  <1>1. n \in Nat
    BY CapacityAssumption
  <1>2. f \in Lists(S)
    BY DEF Lists
  <1>3. DOMAIN f = 0..(n - 1)
    BY DEF Entries
  <1>4. Cardinality(0..(n - 1)) = IF 0 > n - 1 THEN 0 ELSE (n - 1) - 0 + 1
    BY <1>1, FS_Interval
  <1> QED
    BY <1>1, <1>2, <1>3, <1>4 DEF Capacity

\* The list that was never allocated.
LEMMA EmptyFacts ==
    ASSUME NEW S
    PROVE  Empty \in Lists(S) /\ Capacity(Empty) = 0 /\ DOMAIN Empty = {}
  <1>1. Empty \in [Entries(0) -> S] /\ 0 \in 0..MaxCapacity
    BY CapacityAssumption DEF Empty, Entries
  <1> QED
    BY <1>1, MakeList DEF Empty

\* loader_get_next_available_entry hands out a slot that is free, or the first
\* slot past the end of a full list; everything before it is in use.
LEMMA NextIndexFacts ==
    ASSUME NEW list \in Lists(BOOLEAN), NEW i \in NextIndex(list)
    PROVE  /\ i \in Nat /\ i <= Capacity(list)
           /\ i \in DOMAIN list => ~list[i]
           /\ i \notin DOMAIN list => i = Capacity(list) /\ ~HasFree(list)
           /\ \A j \in Nat : j < i => j \in DOMAIN list /\ list[j]
  <1>1. Capacity(list) \in Nat /\ DOMAIN list = 0..(Capacity(list) - 1)
    BY ListFacts, CapacityAssumption
  <1>2. CASE HasFree(list)
    BY <1>1, <1>2 DEF NextIndex, FirstFree
  <1>3. CASE ~HasFree(list)
    BY <1>1, <1>3 DEF NextIndex, HasFree
  <1> QED
    BY <1>2, <1>3

\* Afterwards the list has the slot, in use, and every other slot is as it was;
\* slots that were added are free.
LEMMA TakenFacts ==
    ASSUME NEW list \in Lists(BOOLEAN), NEW i \in NextIndex(list),
           list = Empty \/ HasFree(list) \/ CanGrow(list)
    PROVE  /\ Taken(list, i) \in Lists(BOOLEAN)
           /\ DOMAIN list \subseteq DOMAIN Taken(list, i)
           /\ i \in DOMAIN Taken(list, i) /\ Taken(list, i)[i]
           /\ \A j \in DOMAIN Taken(list, i) : j # i =>
                Taken(list, i)[j] = (j \in DOMAIN list /\ list[j])
  <1> DEFINE c == Capacity(list)
  <1>1. /\ c \in Nat /\ c <= MaxCapacity /\ list \in [0..(c - 1) -> BOOLEAN]
        /\ DOMAIN list = 0..(c - 1) /\ (list = Empty <=> c = 0)
    BY ListFacts, CapacityAssumption DEF Entries
  <1>2. /\ i \in Nat /\ i <= c
        /\ i \notin DOMAIN list => i = c /\ ~HasFree(list)
    BY NextIndexFacts
  <1>3. InitialCapacity \in Nat /\ MaxCapacity \in Nat /\ 0 < InitialCapacity
        /\ InitialCapacity <= MaxCapacity
    BY CapacityAssumption
  <1>4. CASE list = Empty
    <2>1. Taken(list, i) = [j \in Entries(InitialCapacity) |-> j = i]
      BY <1>4 DEF Taken
    <2>2. i = 0 /\ DOMAIN list = {}
      BY <1>1, <1>2, <1>4
    <2>3. Taken(list, i) \in [Entries(InitialCapacity) -> BOOLEAN]
      BY <2>1
    <2>4. Taken(list, i) \in Lists(BOOLEAN) /\ DOMAIN Taken(list, i) = 0..(InitialCapacity - 1)
      BY <1>3, <2>3, MakeList
    <2> QED
      BY <1>3, <2>1, <2>2, <2>4
  <1>5. CASE list # Empty /\ i \in DOMAIN list
    <2>1. Taken(list, i) = [list EXCEPT ![i] = TRUE]
      BY <1>5 DEF Taken
    <2>2. Taken(list, i) \in [Entries(c) -> BOOLEAN]
      BY <1>1, <2>1 DEF Entries
    <2>3. Taken(list, i) \in Lists(BOOLEAN)
      BY <1>1, <1>3, <2>2, MakeList
    <2> QED
      BY <1>1, <1>5, <2>1, <2>3
  <1>6. CASE list # Empty /\ i \notin DOMAIN list
    <2>1. Taken(list, i) = [j \in Entries(2 * c) |-> j \in DOMAIN list \/ j = i]
      BY <1>6 DEF Taken
    <2>2. i = c /\ ~HasFree(list) /\ 2 * c <= MaxCapacity
      BY <1>2, <1>6 DEF CanGrow
    <2>3. Taken(list, i) \in [Entries(2 * c) -> BOOLEAN] /\ 2 * c \in 0..MaxCapacity
      BY <1>1, <1>3, <2>1, <2>2
    <2>4. Taken(list, i) \in Lists(BOOLEAN) /\ DOMAIN Taken(list, i) = 0..(2 * c - 1)
      BY <2>3, MakeList
    <2>5. \A j \in DOMAIN list : list[j] = TRUE
      BY <1>1, <2>2 DEF HasFree
    <2>6. c > 0
      BY <1>1, <1>6
    <2> QED
      BY <1>1, <2>1, <2>2, <2>4, <2>5, <2>6 DEF Entries
  <1> QED
    BY <1>4, <1>5, <1>6

\* loader_release_object_from_list clears the slot and leaves the others.
LEMMA ReleasedFacts ==
    ASSUME NEW list \in Lists(BOOLEAN), NEW i
    PROVE  /\ Released(list, i) \in Lists(BOOLEAN)
           /\ DOMAIN Released(list, i) = DOMAIN list
           /\ \A j \in DOMAIN list : Released(list, i)[j] = (list[j] /\ j # i)
  <1>1. list \in [Entries(Capacity(list)) -> BOOLEAN] /\ Capacity(list) \in 0..MaxCapacity
    BY ListFacts
  <1>2. Released(list, i) \in [Entries(Capacity(list)) -> BOOLEAN]
    BY <1>1 DEF Released
  <1> QED
    BY <1>1, <1>2, MakeList DEF Released

\* A driver's list that was made or grown keeps its entries; the new ones are
\* null, or whatever the application's allocator left there.
LEMMA ExtendedFacts ==
    ASSUME NEW S, Null \in S, Garbage \in S, NEW list \in Lists(S), NEW i \in Nat,
           NEW app \in BOOLEAN, NEW l \in Extended(list, i, app),
           list = Empty \/ ~IsShort(list, i) \/ CanGrow(list)
    PROVE  /\ l \in Lists(S)
           /\ DOMAIN list \subseteq DOMAIN l
           /\ \A j \in DOMAIN list : l[j] = list[j]
           /\ \A j \in DOMAIN l \ DOMAIN list : l[j] \in NewEntry(app)
           /\ list = Empty => Capacity(l) = InitialCapacity
           /\ list # Empty /\ ~IsShort(list, i) => l = list
           /\ list # Empty /\ IsShort(list, i) => Capacity(l) = 2 * Capacity(list)
  <1> DEFINE c == Capacity(list)
  <1>1. /\ c \in Nat /\ c <= MaxCapacity /\ list \in [0..(c - 1) -> S]
        /\ DOMAIN list = 0..(c - 1) /\ (list = Empty <=> c = 0)
    BY ListFacts, CapacityAssumption DEF Entries
  <1>2. InitialCapacity \in 0..MaxCapacity /\ MaxCapacity \in Nat
    BY CapacityAssumption
  <1>3. CASE list = Empty
    <2>1. l = [j \in Entries(InitialCapacity) |-> Null]
      BY <1>3 DEF Extended
    <2>2. l \in [Entries(InitialCapacity) -> S]
      BY <2>1
    <2>3. l \in Lists(S) /\ Capacity(l) = InitialCapacity
      BY <1>2, <2>2, MakeList
    <2> QED
      BY <1>1, <1>3, <2>1, <2>3 DEF NewEntry
  <1>4. CASE list # Empty /\ ~IsShort(list, i)
    BY <1>4 DEF Extended
  <1>5. CASE list # Empty /\ IsShort(list, i)
    <2>1. PICK new \in [Entries(2 * c) \ DOMAIN list -> NewEntry(app)] :
             l = [j \in Entries(2 * c) |-> IF j \in DOMAIN list THEN list[j] ELSE new[j]]
      BY <1>5 DEF Extended
    <2>2. 2 * c \in 0..MaxCapacity
      BY <1>1, <1>2, <1>5 DEF CanGrow
    <2>3. NewEntry(app) \subseteq S
      BY DEF NewEntry
    <2>4. l \in [Entries(2 * c) -> S]
      BY <1>1, <2>1, <2>3
    <2>5. l \in Lists(S) /\ Capacity(l) = 2 * c /\ DOMAIN l = 0..(2 * c - 1)
      BY <2>2, <2>4, MakeList
    <2> QED
      BY <1>1, <1>5, <2>1, <2>5 DEF Entries
  <1> QED
    BY <1>3, <1>4, <1>5
=============================================================================
