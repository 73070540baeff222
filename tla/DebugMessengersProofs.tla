------------------------ MODULE DebugMessengersProofs ------------------------
(***************************************************************************)
(* For any number of drivers and messengers and lists of any size: a       *)
(* messenger exists in every driver that supports the extension, no driver *)
(* is left with a messenger the loader lost, and none is asked to destroy  *)
(* what it does not have, under the conditions DebugMessengers states.     *)
(***************************************************************************)
EXTENDS DebugMessengers, UsedObjectListProofs, SequenceTheorems

-----------------------------------------------------------------------------
(* The inductive invariant                                                 *)

\* A messenger's slot is in use and its own, and a slot that is in use belongs
\* to a messenger.
SlotsInv ==
    /\ \A m \in DOMAIN messenger : /\ messenger[m] \in DOMAIN messengers_list
                                   /\ messengers_list[messenger[m]]
    /\ \A l, m \in DOMAIN messenger : messenger[l] = messenger[m] => l = m
    /\ \A i \in DOMAIN messengers_list : messengers_list[i] =>
         \E m \in DOMAIN messenger : messenger[m] = i

\* The drivers' lists are made in the order of the drivers, after the list of
\* slots, and have an entry for every messenger.
ListsInv ==
    /\ messengers_list = Empty => \A d \in Drivers : messenger_list[d] = Empty
    /\ \A d, e \in icd_terms : d < e /\ messenger_list[d] = Empty => messenger_list[e] = Empty
    /\ \A d \in icd_terms, m \in DOMAIN messenger : messenger[m] \in DOMAIN messenger_list[d]

\* A driver without the extension has no messenger.
SupportInv == \A d \in Drivers \ Supporting : live[d] = {}

\* The callbacks are those of the messengers, each once.
CallbacksInv ==
    /\ \A i, j \in 1..Len(dbg_functions) : dbg_functions[i] = dbg_functions[j] => i = j
    /\ IsFiniteSet(DOMAIN messenger)
    /\ ToSet(dbg_functions) = DOMAIN messenger
    /\ Len(dbg_functions) = Cardinality(DOMAIN messenger)

BackedInv == RolledBackCleanly => AllBacked /\ invalid = {}

IndInv == /\ TypeOK /\ SlotsInv /\ ListsInv /\ SupportInv /\ CallbacksInv
          /\ NothingLeaked /\ BackedInv

-----------------------------------------------------------------------------
(* Facts about sequences without duplicates                                *)

\* RemoveFirst takes the element out and nothing else.
LEMMA RemoveFirstFacts ==
    ASSUME NEW S, NEW s \in Seq(S), NEW e \in ToSet(s),
           \A i, j \in 1..Len(s) : s[i] = s[j] => i = j
    PROVE  /\ RemoveFirst(s, e) \in Seq(S)
           /\ Len(RemoveFirst(s, e)) = Len(s) - 1
           /\ ToSet(RemoveFirst(s, e)) = ToSet(s) \ {e}
           /\ \A i, j \in 1..Len(RemoveFirst(s, e)) :
                RemoveFirst(s, e)[i] = RemoveFirst(s, e)[j] => i = j
  <1>1. DOMAIN s = 1..Len(s) /\ Len(s) \in Nat
    OBVIOUS
  <1>2. PICK k \in 1..Len(s) : s[k] = e
    BY <1>1 DEF ToSet
  <1> DEFINE I == {i \in 1..Len(s) : s[i] = e}
  <1>3. I = {k}
    BY <1>2
  <1>4. Min({k}) = k
    BY <1>1 DEF Min
  <1>5. RemoveFirst(s, e) = RemoveAt(s, k)
    BY <1>2, <1>3, <1>4 DEF RemoveFirst, SelectInSeq
  <1> DEFINE a == SubSeq(s, 1, k - 1)
             b == SubSeq(s, k + 1, Len(s))
             r == a \o b
  <1>6. /\ a \in Seq(S) /\ Len(a) = k - 1 /\ \A i \in 1..(k - 1) : a[i] = s[i]
    <2>1. 1 \in Int /\ k - 1 \in Int /\ \A i \in 1..(k - 1) : s[i] \in S
      BY <1>1
    <2>2. /\ SubSeq(s, 1, k - 1) \in Seq(S)
          /\ Len(SubSeq(s, 1, k - 1)) = IF 1 <= k - 1 THEN (k - 1) - 1 + 1 ELSE 0
          /\ \A i \in 1..((k - 1) - 1 + 1) : SubSeq(s, 1, k - 1)[i] = s[1 + i - 1]
      BY <2>1, SubSeqProperties
    <2> QED
      BY <1>1, <2>2
  <1>7. /\ b \in Seq(S) /\ Len(b) = Len(s) - k /\ \A i \in 1..(Len(s) - k) : b[i] = s[k + i]
    <2>1. k + 1 \in Int /\ Len(s) \in Int /\ \A i \in (k + 1)..Len(s) : s[i] \in S
      BY <1>1
    <2>2. /\ SubSeq(s, k + 1, Len(s)) \in Seq(S)
          /\ Len(SubSeq(s, k + 1, Len(s))) = IF k + 1 <= Len(s) THEN Len(s) - (k + 1) + 1 ELSE 0
          /\ \A i \in 1..(Len(s) - (k + 1) + 1) : SubSeq(s, k + 1, Len(s))[i] = s[(k + 1) + i - 1]
      BY <2>1, SubSeqProperties
    <2> QED
      BY <1>1, <2>2
  <1> HIDE DEF a, b
  <1>8. /\ r \in Seq(S) /\ Len(r) = Len(s) - 1
        /\ \A i \in 1..(Len(s) - 1) : r[i] = IF i < k THEN s[i] ELSE s[i + 1]
    <2>1. /\ r \in Seq(S) /\ Len(r) = Len(a) + Len(b)
          /\ \A i \in 1..(Len(a) + Len(b)) : r[i] = IF i <= Len(a) THEN a[i] ELSE b[i - Len(a)]
      <3>1. a \in Seq(S) /\ b \in Seq(S)
        BY <1>6, <1>7
      <3> QED
        BY <3>1
    <2>2. Len(a) + Len(b) = Len(s) - 1
      BY <1>1, <1>6, <1>7
    <2>3. ASSUME NEW i \in 1..(Len(s) - 1)
          PROVE  r[i] = IF i < k THEN s[i] ELSE s[i + 1]
      <3>1. CASE i < k
        BY <1>1, <1>6, <2>1, <2>2, <3>1
      <3>2. CASE ~(i < k)
        <4>1. r[i] = b[i - (k - 1)] /\ i - (k - 1) \in 1..(Len(s) - k)
          BY <1>1, <1>6, <2>1, <2>2, <3>2
        <4>2. b[i - (k - 1)] = s[k + (i - (k - 1))]
          BY <1>7, <4>1
        <4>3. k + (i - (k - 1)) = i + 1
          BY <1>1
        <4> QED
          BY <3>2, <4>1, <4>2, <4>3
      <3> QED
        BY <3>1, <3>2
    <2> QED
      BY <2>1, <2>2, <2>3
  <1> HIDE DEF r
  <1>9. RemoveFirst(s, e) = r
    BY <1>5 DEF RemoveAt, r, a, b
  <1>10. DOMAIN r = 1..(Len(s) - 1)
    BY <1>8
  <1>11. ToSet(r) = ToSet(s) \ {e}
    <2>1. ASSUME NEW x \in ToSet(r) PROVE x \in ToSet(s) \ {e}
      <3>1. PICK i \in 1..(Len(s) - 1) : r[i] = x
        BY <1>10 DEF ToSet
      <3>2. PICK j \in 1..Len(s) : s[j] = x /\ j # k
        BY <1>1, <1>8, <3>1
      <3> QED
        BY <1>1, <1>2, <3>2 DEF ToSet
    <2>2. ASSUME NEW x \in ToSet(s), x # e PROVE x \in ToSet(r)
      <3>1. PICK j \in 1..Len(s) : s[j] = x
        BY <1>1 DEF ToSet
      <3>2. j # k
        BY <1>2, <2>2, <3>1
      <3>3. CASE j < k
        <4>1. j \in 1..(Len(s) - 1) /\ r[j] = x
          BY <1>1, <1>8, <3>1, <3>3
        <4> QED
          BY <1>10, <4>1 DEF ToSet
      <3>4. CASE j > k
        <4>1. j - 1 \in 1..(Len(s) - 1) /\ ~(j - 1 < k) /\ (j - 1) + 1 = j
          BY <1>1, <3>4
        <4>2. r[j - 1] = x
          BY <1>8, <3>1, <4>1
        <4> QED
          BY <1>10, <4>1, <4>2 DEF ToSet
      <3> QED
        BY <1>1, <3>2, <3>3, <3>4
    <2> QED
      BY <2>1, <2>2
  <1>12. \A i, j \in 1..(Len(s) - 1) : r[i] = r[j] => i = j
    <2> SUFFICES ASSUME NEW i \in 1..(Len(s) - 1), NEW j \in 1..(Len(s) - 1), r[i] = r[j]
                 PROVE  i = j
      OBVIOUS
    <2> DEFINE f(n) == IF n < k THEN n ELSE n + 1
    <2>1. f(i) \in 1..Len(s) /\ f(j) \in 1..Len(s)
      BY <1>1
    <2>2. s[f(i)] = s[f(j)]
      BY <1>8
    <2>3. f(i) = f(j)
      <3> HIDE DEF f
      <3> QED
        BY <2>1, <2>2
    <2> QED
      BY <1>1, <2>3
  <1> QED
    BY <1>8, <1>9, <1>11, <1>12

\* A new element is put in front of a sequence that does not have it.
LEMMA PrependFacts ==
    ASSUME NEW S, NEW s \in Seq(S), NEW e \in S, e \notin ToSet(s),
           \A i, j \in 1..Len(s) : s[i] = s[j] => i = j
    PROVE  /\ <<e>> \o s \in Seq(S)
           /\ Len(<<e>> \o s) = Len(s) + 1
           /\ ToSet(<<e>> \o s) = ToSet(s) \cup {e}
           /\ \A i, j \in 1..Len(<<e>> \o s) : (<<e>> \o s)[i] = (<<e>> \o s)[j] => i = j
  <1> DEFINE r == <<e>> \o s
  <1>1. DOMAIN s = 1..Len(s) /\ Len(s) \in Nat
    OBVIOUS
  <1>2. /\ r \in Seq(S) /\ Len(r) = Len(s) + 1 /\ r[1] = e
        /\ \A i \in 2..(Len(s) + 1) : r[i] = s[i - 1]
    OBVIOUS
  <1> HIDE DEF r
  <1>3. DOMAIN r = 1..(Len(s) + 1)
    BY <1>2
  <1>4. \A i \in 1..(Len(s) + 1) : i # 1 => i \in 2..(Len(s) + 1) /\ i - 1 \in 1..Len(s)
    BY <1>1
  <1>5. \A i \in 1..Len(s) : s[i] # e
    BY <1>1 DEF ToSet
  <1>6. ToSet(r) = ToSet(s) \cup {e}
    <2>1. ASSUME NEW x \in ToSet(r) PROVE x \in ToSet(s) \cup {e}
      BY <1>1, <1>2, <1>3, <1>4 DEF ToSet
    <2>2. ASSUME NEW x \in ToSet(s) PROVE x \in ToSet(r)
      <3>1. PICK j \in 1..Len(s) : s[j] = x
        BY <1>1 DEF ToSet
      <3>2. j + 1 \in 2..(Len(s) + 1) /\ (j + 1) - 1 = j
        BY <1>1
      <3>3. r[j + 1] = x
        BY <1>2, <3>1, <3>2
      <3> QED
        BY <1>1, <1>3, <3>2, <3>3 DEF ToSet
    <2>3. e \in ToSet(r)
      BY <1>1, <1>2, <1>3 DEF ToSet
    <2> QED
      BY <2>1, <2>2, <2>3
  <1>7. ASSUME NEW i \in 1..(Len(s) + 1), NEW j \in 1..(Len(s) + 1), r[i] = r[j]
        PROVE  i = j
    BY <1>1, <1>2, <1>4, <1>5, <1>7
  <1> QED
    BY <1>2, <1>6, <1>7 DEF r

-----------------------------------------------------------------------------
(* terminator_CreateDebugUtilsMessengerEXT                                 *)

Values == DriverHandles \cup {Null, Garbage}

\* What the type invariant says of the parts the actions touch.
LEMMA TypeFacts ==
    ASSUME TypeOK
    PROVE  /\ messenger \in [DOMAIN messenger -> Entries(MaxCapacity)]
           /\ DOMAIN messenger \subseteq Handles
           /\ \A m \in DOMAIN messenger : messenger[m] \in Nat
           /\ messenger_list \in [Drivers -> Lists(Values)]
           /\ icd_terms \subseteq Drivers
           /\ \A d \in Drivers : live[d] \subseteq DriverHandles /\ Null \notin live[d]
                                 /\ Garbage \notin live[d]
  <1>1. PICK A \in SUBSET Handles : messenger \in [A -> Entries(MaxCapacity)]
    BY DEF TypeOK
  <1>2. DOMAIN messenger = A
    BY <1>1
  <1>3. \A m \in DOMAIN messenger : messenger[m] \in Nat
    BY <1>1, CapacityAssumption DEF Entries
  <1>4. messenger_list \in [Drivers -> Lists(Values)] /\ icd_terms \subseteq Drivers
    BY DEF TypeOK, Values
  <1>5. \A d \in Drivers : live[d] \subseteq DriverHandles /\ Null \notin live[d]
                           /\ Garbage \notin live[d]
    BY HandlesDistinct DEF TypeOK
  <1> QED
    BY <1>1, <1>2, <1>3, <1>4, <1>5

\* The slot a creation takes belongs to no messenger, and every driver's list
\* reaches it after at most one doubling: the slots before it all belong to
\* messengers, which the list covers.
LEMMA SlotFacts ==
    ASSUME TypeOK, SlotsInv, ListsInv, NEW i \in NextIndex(messengers_list)
    PROVE  /\ i \in Nat
           /\ \A m \in DOMAIN messenger : messenger[m] # i
           /\ \A d \in icd_terms :
                /\ messenger_list[d] = Empty => i = 0
                /\ messenger_list[d] # Empty => i < 2 * Capacity(messenger_list[d])
  <1>1. /\ i \in Nat
        /\ i \in DOMAIN messengers_list => ~messengers_list[i]
        /\ \A j \in Nat : j < i => j \in DOMAIN messengers_list /\ messengers_list[j]
    BY NextIndexFacts DEF TypeOK
  <1>2. \A m \in DOMAIN messenger : messenger[m] # i
    BY <1>1 DEF SlotsInv
  <1>3. ASSUME NEW j \in Nat, j < i, NEW d \in icd_terms
        PROVE  j \in DOMAIN messenger_list[d]
    <2>1. \E m \in DOMAIN messenger : messenger[m] = j
      BY <1>1, <1>3 DEF SlotsInv
    <2> QED
      BY <2>1 DEF ListsInv
  <1>4. ASSUME NEW d \in icd_terms
        PROVE  /\ messenger_list[d] = Empty => i = 0
               /\ messenger_list[d] # Empty => i < 2 * Capacity(messenger_list[d])
    <2> DEFINE l == messenger_list[d]
               c == Capacity(l)
    <2>1. l \in Lists(Values)
      BY TypeFacts
    <2>2. c \in Nat /\ DOMAIN l = 0..(c - 1) /\ (l = Empty <=> c = 0)
      <3> HIDE DEF l
      <3> QED
        BY <2>1, ListFacts, CapacityAssumption
    <2>3. c < i => c \in DOMAIN l
      BY <1>3, <2>2
    <2>4. 0 < i => 0 \in DOMAIN l
      BY <1>3
    <2> HIDE DEF l, c
    <2>5. ~(c < i)
      BY <1>1, <2>2, <2>3
    <2>6. (l = Empty => i = 0) /\ (l # Empty => i < 2 * c)
      BY <1>1, <2>2, <2>4, <2>5
    <2> QED
      BY <2>6 DEF l, c
  <1> QED
    BY <1>1, <1>2, <1>4

\* The loop over the drivers in reached: their lists have the slot now, with
\* what the driver wrote there, and every other entry is as it was.
LEMMA CreateInFacts ==
    ASSUME TypeOK, SlotsInv, ListsInv, NEW i \in NextIndex(messengers_list),
           NEW reached \in SUBSET icd_terms, NEW handle,
           \A d \in DOMAIN handle : handle[d] \in Values,
           Bounded(i, reached), CreateIn(i, reached, handle)
    PROVE  /\ messenger_list' \in [Drivers -> Lists(Values)]
           /\ \A d \in Drivers \ reached : messenger_list'[d] = messenger_list[d]
           /\ \A d \in reached :
                /\ messenger_list'[d] # Empty
                /\ DOMAIN messenger_list[d] \subseteq DOMAIN messenger_list'[d]
                /\ i \in DOMAIN messenger_list'[d]
                /\ \A j \in DOMAIN messenger_list[d] : j # i =>
                     messenger_list'[d][j] = messenger_list[d][j]
                /\ d \in DOMAIN handle => messenger_list'[d][i] = handle[d]
  <1>1. /\ messenger_list' = [d \in Drivers |-> messenger_list'[d]]
        /\ \A d \in Drivers : IF d \in reached THEN messenger_list'[d] \in Written(d, i, handle)
                                               ELSE messenger_list'[d] = messenger_list[d]
    BY DEF CreateIn
  <1>2. reached \subseteq Drivers /\ messenger_list \in [Drivers -> Lists(Values)]
    BY TypeFacts
  <1>3. ASSUME NEW d \in reached
        PROVE  /\ messenger_list'[d] \in Lists(Values)
               /\ messenger_list'[d] # Empty
               /\ DOMAIN messenger_list[d] \subseteq DOMAIN messenger_list'[d]
               /\ i \in DOMAIN messenger_list'[d]
               /\ \A j \in DOMAIN messenger_list[d] : j # i =>
                    messenger_list'[d][j] = messenger_list[d][j]
               /\ d \in DOMAIN handle => messenger_list'[d][i] = handle[d]
    <2> DEFINE app == "uncleared" \in env
               old == messenger_list[d]
               c == Capacity(old)
    <2>1. messenger_list'[d] \in Written(d, i, handle)
      BY <1>1, <1>2
    <2>2. PICK l \in Extended(old, i, app) :
            messenger_list'[d] = [j \in DOMAIN l |-> IF j = i /\ d \in DOMAIN handle
                                                     THEN handle[d] ELSE l[j]]
      BY <2>1 DEF Written
    <2>3. old \in Lists(Values) /\ (old = Empty \/ ~IsShort(old, i) \/ CanGrow(old))
      BY <1>2 DEF Bounded
    <2>4. /\ old = Empty => i = 0
          /\ old # Empty => i < 2 * c
      BY SlotFacts
    <2>5. Null \in Values /\ Garbage \in Values /\ app \in BOOLEAN
      BY DEF Values
    <2> HIDE DEF app, old, c
    <2>a. i \in Nat
      BY SlotFacts
    <2>6. /\ l \in Lists(Values)
          /\ DOMAIN old \subseteq DOMAIN l
          /\ \A j \in DOMAIN old : l[j] = old[j]
          /\ old = Empty => Capacity(l) = InitialCapacity
          /\ old # Empty /\ ~IsShort(old, i) => l = old
          /\ old # Empty /\ IsShort(old, i) => Capacity(l) = 2 * Capacity(old)
      BY <2>a, <2>2, <2>3, <2>5, ExtendedFacts
    <2>7. /\ Capacity(l) \in 0..MaxCapacity /\ l \in [Entries(Capacity(l)) -> Values]
          /\ DOMAIN l = 0..(Capacity(l) - 1)
      BY <2>6, ListFacts
    <2>8. i \in DOMAIN l
      <3>1. CASE old = Empty
        BY <2>4, <2>6, <2>7, <3>1, CapacityAssumption
      <3>2. CASE old # Empty /\ ~IsShort(old, i)
        BY <2>6, <3>2 DEF IsShort
      <3>3. CASE old # Empty /\ IsShort(old, i)
        BY <2>a, <2>4, <2>6, <2>7, <3>3, CapacityAssumption DEF c
      <3> QED
        BY <3>1, <3>2, <3>3
    <2>9. messenger_list'[d] \in [Entries(Capacity(l)) -> Values]
      BY <2>2, <2>7
    <2>10. messenger_list'[d] \in Lists(Values)
      BY <2>7, <2>9 DEF Lists
    <2>11. DOMAIN messenger_list'[d] = DOMAIN l
      BY <2>2
    <2>12. messenger_list'[d] # Empty
      BY <2>8, <2>11 DEF Empty
    <2> QED
      BY <2>2, <2>6, <2>8, <2>10, <2>11, <2>12 DEF old
  <1>4. messenger_list' \in [Drivers -> Lists(Values)]
    BY <1>1, <1>2, <1>3
  <1> QED
    BY <1>1, <1>3, <1>4

\* The entries of the messengers that exist are not touched by a creation.
LEMMA EntriesKept ==
    ASSUME TypeOK, SlotsInv, ListsInv, NEW i \in NextIndex(messengers_list),
           NEW reached \in SUBSET icd_terms, NEW handle,
           \A d \in DOMAIN handle : handle[d] \in Values,
           Bounded(i, reached), CreateIn(i, reached, handle),
           NEW d \in icd_terms, NEW m \in DOMAIN messenger
    PROVE  /\ messenger[m] \in DOMAIN messenger_list[d]
           /\ messenger[m] \in DOMAIN messenger_list'[d]
           /\ messenger_list'[d][messenger[m]] = messenger_list[d][messenger[m]]
           /\ Entry(messenger_list[d], messenger[m]) = messenger_list[d][messenger[m]]
           /\ Entry(messenger_list'[d], messenger[m]) = messenger_list[d][messenger[m]]
  <1>1. messenger[m] \in DOMAIN messenger_list[d] /\ d \in Drivers
    BY TypeFacts DEF ListsInv
  <1>2. messenger[m] # i
    BY SlotFacts
  <1>3. messenger[m] \in DOMAIN messenger_list'[d]
        /\ messenger_list'[d][messenger[m]] = messenger_list[d][messenger[m]]
    <2>1. CASE d \in reached
      BY <1>1, <1>2, <2>1, CreateInFacts
    <2>2. CASE d \notin reached
      BY <1>1, <2>2, CreateInFacts
    <2> QED
      BY <2>1, <2>2
  <1> QED
    BY <1>1, <1>3 DEF Entry

\* A messenger is created.
LEMMA CreateMessengerStep ==
    ASSUME IndInv, CreateMessenger
    PROVE  IndInv'
  <1>a. TypeOK /\ SlotsInv /\ ListsInv /\ SupportInv /\ CallbacksInv /\ NothingLeaked /\ BackedInv
    BY DEF IndInv
  <1> DEFINE ds == icd_terms \cap Supporting
  <1>1. PICK i \in NextIndex(messengers_list), handle \in NewHandles(ds),
             m \in Handles \ DOMAIN messenger :
          /\ Bounded(i, icd_terms)
          /\ CreateIn(i, icd_terms, handle)
          /\ messengers_list' = Taken(messengers_list, i)
          /\ live' = [d \in Drivers |-> IF d \in DOMAIN handle
                                        THEN live[d] \cup {handle[d]} ELSE live[d]]
          /\ messenger' = [r \in DOMAIN messenger \cup {m} |-> IF r = m THEN i ELSE messenger[r]]
          /\ dbg_functions' = <<m>> \o dbg_functions
    BY DEF CreateMessenger
  <1>2. UNCHANGED <<icd_terms, invalid, env>>
    BY DEF CreateMessenger
  <1>3. /\ DOMAIN handle = ds
        /\ \A d \in ds : handle[d] \in DriverHandles /\ handle[d] \notin live[d]
        /\ \A d \in DOMAIN handle : handle[d] \in Values
    BY <1>1 DEF NewHandles, Values
  <1>b. icd_terms \in SUBSET icd_terms /\ icd_terms \subseteq Drivers
    BY <1>a, TypeFacts
  <1>4. /\ messenger_list' \in [Drivers -> Lists(Values)]
        /\ \A d \in Drivers \ icd_terms : messenger_list'[d] = messenger_list[d]
        /\ \A d \in icd_terms :
             /\ messenger_list'[d] # Empty
             /\ i \in DOMAIN messenger_list'[d]
             /\ d \in ds => messenger_list'[d][i] = handle[d]
    BY <1>a, <1>b, <1>1, <1>3, CreateInFacts
  <1>5. \A d \in icd_terms : \A r \in DOMAIN messenger :
          /\ messenger[r] \in DOMAIN messenger_list'[d]
          /\ Entry(messenger_list'[d], messenger[r]) = Entry(messenger_list[d], messenger[r])
    BY <1>a, <1>b, <1>1, <1>3, EntriesKept
  <1>6. /\ messengers_list' \in Lists(BOOLEAN)
        /\ DOMAIN messengers_list \subseteq DOMAIN messengers_list'
        /\ i \in DOMAIN messengers_list' /\ messengers_list'[i]
        /\ \A j \in DOMAIN messengers_list' : j # i =>
             messengers_list'[j] = (j \in DOMAIN messengers_list /\ messengers_list[j])
    BY <1>a, <1>1, TakenFacts DEF TypeOK, Bounded
  <1>7. /\ DOMAIN messenger' = DOMAIN messenger \cup {m} /\ messenger'[m] = i
        /\ \A r \in DOMAIN messenger : messenger'[r] = messenger[r] /\ messenger[r] # i /\ r # m
    BY <1>a, <1>1, SlotFacts
  <1>8. /\ live' \in [Drivers -> SUBSET DriverHandles]
        /\ \A d \in ds : live'[d] = live[d] \cup {handle[d]}
        /\ \A d \in Drivers \ ds : live'[d] = live[d]
    <2>1. ds \subseteq Drivers
      BY <1>b
    <2> QED
      BY <1>a, <1>1, <1>3, <2>1 DEF TypeOK
  <1>c. /\ <<m>> \o dbg_functions \in Seq(Handles)
        /\ Len(<<m>> \o dbg_functions) = Len(dbg_functions) + 1
        /\ ToSet(<<m>> \o dbg_functions) = ToSet(dbg_functions) \cup {m}
        /\ \A p, q \in 1..Len(<<m>> \o dbg_functions) :
             (<<m>> \o dbg_functions)[p] = (<<m>> \o dbg_functions)[q] => p = q
    <2>1. dbg_functions \in Seq(Handles) /\ m \in Handles /\ m \notin ToSet(dbg_functions)
      BY <1>a, <1>1 DEF TypeOK, CallbacksInv
    <2>2. \A p, q \in 1..Len(dbg_functions) : dbg_functions[p] = dbg_functions[q] => p = q
      BY <1>a DEF CallbacksInv
    <2> QED
      BY <2>1, <2>2, PrependFacts
  <1> HIDE DEF ds
  <1>9. TypeOK'
    <2>1. i \in Entries(MaxCapacity)
      <3> DEFINE L == messengers_list'
      <3>1. L \in Lists(BOOLEAN) /\ i \in DOMAIN L
        BY <1>6
      <3> HIDE DEF L
      <3> QED
        BY <3>1, ListFacts, CapacityAssumption DEF Entries
    <2>2. messenger' \in [DOMAIN messenger \cup {m} -> Entries(MaxCapacity)]
      BY <1>a, <1>1, <2>1, TypeFacts
    <2>3. DOMAIN messenger \cup {m} \in SUBSET Handles
      BY <1>a, TypeFacts
    <2>4. dbg_functions' \in Seq(Handles)
      BY <1>c, <1>1
    <2> QED
      BY <1>a, <1>2, <1>4, <1>6, <1>8, <2>2, <2>3, <2>4 DEF TypeOK, Values
  <1>10. SlotsInv'
    <2>1. \A r \in DOMAIN messenger' :
            messenger'[r] \in DOMAIN messengers_list' /\ messengers_list'[messenger'[r]]
      BY <1>a, <1>6, <1>7 DEF SlotsInv
    <2>2. \A q, r \in DOMAIN messenger' : messenger'[q] = messenger'[r] => q = r
      BY <1>a, <1>7 DEF SlotsInv
    <2>3. ASSUME NEW j \in DOMAIN messengers_list', messengers_list'[j]
          PROVE  \E r \in DOMAIN messenger' : messenger'[r] = j
      <3>1. CASE j = i
        BY <1>7, <3>1
      <3>2. CASE j # i
        <4>1. PICK r \in DOMAIN messenger : messenger[r] = j
          BY <1>a, <1>6, <2>3, <3>2 DEF SlotsInv
        <4> QED
          BY <1>7, <4>1
      <3> QED
        BY <3>1, <3>2
    <2> QED
      BY <2>1, <2>2, <2>3 DEF SlotsInv
  <1>11. ListsInv'
    <2>1. messengers_list' # Empty
      BY <1>6 DEF Empty
    <2> QED
      BY <1>2, <1>4, <1>5, <1>7, <2>1 DEF ListsInv
  <1>12. SupportInv'
    BY <1>a, <1>8 DEF SupportInv, ds
  <1>13. CallbacksInv'
    <2>1. /\ IsFiniteSet(DOMAIN messenger \cup {m})
          /\ Cardinality(DOMAIN messenger \cup {m}) = Cardinality(DOMAIN messenger) + 1
      BY <1>a, <1>1, FS_AddElement DEF CallbacksInv
    <2> QED
      BY <1>a, <1>c, <1>1, <1>7, <2>1 DEF CallbacksInv
  <1>d. \A d \in icd_terms : d \in ds => Entry(messenger_list'[d], i) = handle[d]
    BY <1>4 DEF Entry
  <1>14. NothingLeaked'
    <2>1. ASSUME NEW d \in icd_terms, NEW h \in live'[d]
          PROVE  \E r \in DOMAIN messenger' : Entry(messenger_list'[d], messenger'[r]) = h
      <3>1. CASE d \in ds /\ h = handle[d]
        BY <1>d, <1>7, <3>1
      <3>2. CASE h \in live[d]
        <4>1. PICK r \in DOMAIN messenger : Entry(messenger_list[d], messenger[r]) = h
          BY <1>a, <3>2 DEF NothingLeaked
        <4> QED
          BY <1>5, <1>7, <4>1
      <3> QED
        BY <1>b, <1>8, <2>1, <3>1, <3>2
    <2>2. \A d \in Drivers \ icd_terms : live'[d] = {}
      BY <1>a, <1>8 DEF NothingLeaked, ds
    <2> QED
      BY <1>2, <2>1, <2>2 DEF NothingLeaked
  <1>15. BackedInv'
    <2> SUFFICES ASSUME RolledBackCleanly PROVE AllBacked' /\ invalid' = {}
      BY <1>2 DEF BackedInv, RolledBackCleanly
    <2>1. AllBacked /\ invalid = {}
      BY <1>a DEF BackedInv
    <2>2. ASSUME NEW d \in icd_terms \cap Supporting
          PROVE  /\ \A r \in DOMAIN messenger' : Entry(messenger_list'[d], messenger'[r]) \in live'[d]
                 /\ \A q, r \in DOMAIN messenger' :
                      Entry(messenger_list'[d], messenger'[q]) = Entry(messenger_list'[d], messenger'[r])
                        => q = r
      <3>1. /\ d \in ds /\ Entry(messenger_list'[d], messenger'[m]) = handle[d]
            /\ live'[d] = live[d] \cup {handle[d]} /\ handle[d] \notin live[d]
        BY <1>d, <1>3, <1>7, <1>8 DEF ds
      <3>2. \A r \in DOMAIN messenger :
              /\ Entry(messenger_list'[d], messenger'[r]) = Entry(messenger_list[d], messenger[r])
              /\ Entry(messenger_list[d], messenger[r]) \in live[d]
        BY <1>5, <1>7, <2>1 DEF AllBacked
      <3>3. \A q, r \in DOMAIN messenger :
              Entry(messenger_list[d], messenger[q]) = Entry(messenger_list[d], messenger[r]) => q = r
        BY <2>1 DEF AllBacked
      <3> QED
        BY <1>7, <3>1, <3>2, <3>3
    <2> QED
      BY <1>2, <2>1, <2>2 DEF AllBacked
  <1> QED
    BY <1>9, <1>10, <1>11, <1>12, <1>13, <1>14, <1>15 DEF IndInv

\* What the loop over the drivers leaves alive.
LEMMA DestroyAtFacts ==
    ASSUME TypeOK, NEW lists, NEW i, NEW created,
           \A d \in Drivers : created[d] \subseteq DriverHandles,
           DestroyAt(lists, i, created)
    PROVE  /\ live' \in [Drivers -> SUBSET DriverHandles]
           /\ \A d \in Drivers : live'[d] = (live[d] \cup created[d]) \ Destroyed(lists, i)[d]
           /\ invalid' \subseteq Drivers
           /\ (\A d \in Drivers : Destroyed(lists, i)[d] \subseteq live[d] \cup created[d]) =>
                invalid' = invalid
  <1> DEFINE gone == Destroyed(lists, i)
             had == [d \in Drivers |-> live[d] \cup created[d]]
  <1>1. /\ live' = [d \in Drivers |-> had[d] \ gone[d]]
        /\ invalid' = invalid \cup {d \in Drivers : ~(gone[d] \subseteq had[d])}
    BY DEF DestroyAt
  <1>2. \A d \in Drivers : had[d] = live[d] \cup created[d] /\ had[d] \subseteq DriverHandles
    BY DEF TypeOK
  <1>3. invalid \subseteq Drivers
    BY DEF TypeOK
  <1> HIDE DEF gone, had
  <1>4. /\ live' \in [Drivers -> SUBSET DriverHandles]
        /\ \A d \in Drivers : live'[d] = (live[d] \cup created[d]) \ gone[d]
    BY <1>1, <1>2
  <1>5. (\A d \in Drivers : gone[d] \subseteq live[d] \cup created[d]) => invalid' = invalid
    BY <1>1, <1>2, <1>3
  <1> QED
    BY <1>1, <1>3, <1>4, <1>5 DEF gone

\* No slot can be had, and the roll-back looks at slot 0.
LEMMA CreateNoSlotStep ==
    ASSUME IndInv, CreateNoSlot
    PROVE  IndInv'
  <1>a. TypeOK /\ SlotsInv /\ ListsInv /\ SupportInv /\ CallbacksInv /\ NothingLeaked /\ BackedInv
    BY DEF IndInv
  <1> DEFINE none == [d \in Drivers |-> {}]
  <1>1. /\ DestroyAt(messenger_list, 0, none)
        /\ UNCHANGED <<icd_terms, messengers_list, messenger, messenger_list, dbg_functions, env>>
        /\ \/ "slot_init" \in env /\ messengers_list = Empty
           \/ "slot_grow" \in env
    BY DEF CreateNoSlot
  <1>2. \A d \in Drivers : none[d] = {}
    OBVIOUS
  <1> HIDE DEF none
  <1>3. /\ live' \in [Drivers -> SUBSET DriverHandles]
        /\ \A d \in Drivers : live'[d] = live[d] \ Destroyed(messenger_list, 0)[d]
        /\ invalid' \subseteq Drivers
        /\ (\A d \in Drivers : Destroyed(messenger_list, 0)[d] \subseteq live[d]) => invalid' = invalid
    <2>1. \A d \in Drivers : none[d] \subseteq DriverHandles /\ live[d] \cup none[d] = live[d]
      BY <1>2
    <2> QED
      BY <1>a, <1>1, <2>1, DestroyAtFacts
  <1>4. TypeOK'
    BY <1>a, <1>1, <1>3 DEF TypeOK
  <1>5. SlotsInv' /\ ListsInv' /\ CallbacksInv'
    BY <1>a, <1>1 DEF SlotsInv, ListsInv, CallbacksInv
  <1>6. SupportInv'
    BY <1>a, <1>3 DEF SupportInv
  <1>7. NothingLeaked'
    <2>1. icd_terms \subseteq Drivers
      BY <1>a, TypeFacts
    <2> QED
      BY <1>a, <1>1, <1>3, <2>1 DEF NothingLeaked
  <1>8. BackedInv'
    <2> SUFFICES ASSUME RolledBackCleanly PROVE AllBacked' /\ invalid' = {}
      BY <1>1 DEF BackedInv, RolledBackCleanly
    <2>1. messengers_list = Empty
      BY <1>1 DEF RolledBackCleanly
    <2>2. \A d \in Drivers : Destroyed(messenger_list, 0)[d] = {}
      BY <1>a, <2>1 DEF Destroyed, ListsInv
    <2>3. DOMAIN messenger = {}
      BY <1>a, <2>1 DEF SlotsInv, Empty
    <2>4. invalid' = {}
      BY <1>a, <1>3, <2>2 DEF BackedInv
    <2> QED
      BY <1>1, <2>3, <2>4 DEF AllBacked
  <1> QED
    BY <1>4, <1>5, <1>6, <1>7, <1>8 DEF IndInv

\* A creation that stops at driver k, or after the last, and is rolled back.
LEMMA CreateFailsStep ==
    ASSUME IndInv, NEW k \in 1..(DriverCount + 1), CreateFails(k)
    PROVE  IndInv'
  <1>a. TypeOK /\ SlotsInv /\ ListsInv /\ SupportInv /\ CallbacksInv /\ NothingLeaked /\ BackedInv
    BY DEF IndInv
  <1> DEFINE before == icd_terms \cap 1..(k - 1)
             ds == before \cap Supporting
             made(h) == [d \in Drivers |-> IF d \in DOMAIN h THEN {h[d]} ELSE {}]
             atNode == "node" \in env /\ k = DriverCount + 1
             atInit == "list_init" \in env /\ k \in icd_terms /\ messenger_list[k] = Empty
  <1>1. UNCHANGED <<icd_terms, messenger, dbg_functions, env>>
    BY DEF CreateFails
  <1>2. PICK i \in NextIndex(messengers_list), handle \in NewHandles(ds) :
          /\ \/ /\ \/ atNode \/ atInit \/ "list_grow" \in env
                /\ Bounded(i, before) /\ CreateIn(i, before, handle)
             \/ /\ "driver" \in env /\ k \in icd_terms
                /\ Bounded(i, before \cup {k})
                /\ \/ CreateIn(i, before \cup {k}, handle)
                   \/ CreateIn(i, before \cup {k}, [d \in DOMAIN handle \cup {k} |->
                                  IF d = k THEN Null ELSE handle[d]])
          /\ messengers_list' = Released(Taken(messengers_list, i), i)
          /\ RollBack(i, made(handle))
    BY DEF CreateFails
  <1>b. icd_terms \subseteq Drivers /\ before \subseteq icd_terms /\ k \notin before /\ k \in Nat
    <2>1. k \in Nat /\ k \notin 1..(k - 1)
      BY DriverCountAssumption
    <2> QED
      BY <1>a, <2>1, TypeFacts
  <1>3. /\ DOMAIN handle = ds
        /\ \A d \in ds : handle[d] \in DriverHandles /\ handle[d] \notin live[d]
    BY <1>2 DEF NewHandles
  <1> DEFINE cleared == [d \in DOMAIN handle \cup {k} |-> IF d = k THEN Null ELSE handle[d]]
  <1>4. PICK reached, written :
          /\ \/ reached = before /\ written = handle /\ (atNode \/ atInit \/ "list_grow" \in env)
             \/ reached = before \cup {k} /\ k \in icd_terms /\ "driver" \in env
          /\ written = handle \/ written = cleared
          /\ Bounded(i, reached) /\ CreateIn(i, reached, written)
    BY <1>2
  <1>5. /\ reached \in SUBSET icd_terms /\ before \subseteq reached
        /\ \A d \in DOMAIN written : written[d] \in Values
        /\ \A d \in ds : d \in DOMAIN written /\ written[d] = handle[d]
    <2>1. CASE written = handle
      BY <1>b, <1>3, <1>4, <2>1 DEF Values
    <2>2. CASE written = cleared
      <3>1. k \notin ds
        BY <1>b
      <3> QED
        BY <1>b, <1>3, <1>4, <2>2, <3>1 DEF Values
    <2> QED
      BY <1>4, <2>1, <2>2
  <1> HIDE DEF cleared
  <1>6. /\ messenger_list' \in [Drivers -> Lists(Values)]
        /\ \A d \in Drivers \ reached : messenger_list'[d] = messenger_list[d]
        /\ \A d \in reached : /\ messenger_list'[d] # Empty
                              /\ i \in DOMAIN messenger_list'[d]
        /\ \A d \in ds : messenger_list'[d][i] = handle[d]
    BY <1>a, <1>4, <1>5, CreateInFacts
  <1>7. \A d \in icd_terms : \A r \in DOMAIN messenger :
          /\ messenger[r] \in DOMAIN messenger_list'[d]
          /\ Entry(messenger_list'[d], messenger[r]) = Entry(messenger_list[d], messenger[r])
    BY <1>a, <1>4, <1>5, EntriesKept
  <1>8. /\ messengers_list' \in Lists(BOOLEAN)
        /\ DOMAIN messengers_list \subseteq DOMAIN messengers_list' /\ i \in DOMAIN messengers_list'
        /\ \A j \in DOMAIN messengers_list' :
             messengers_list'[j] = (j # i /\ j \in DOMAIN messengers_list /\ messengers_list[j])
    <2> DEFINE T == Taken(messengers_list, i)
    <2>1. /\ T \in Lists(BOOLEAN) /\ DOMAIN messengers_list \subseteq DOMAIN T /\ i \in DOMAIN T
          /\ \A j \in DOMAIN T : j # i => T[j] = (j \in DOMAIN messengers_list /\ messengers_list[j])
      BY <1>a, <1>2, TakenFacts DEF TypeOK, Bounded
    <2>2. messengers_list' = Released(T, i)
      BY <1>2
    <2> HIDE DEF T
    <2>3. /\ Released(T, i) \in Lists(BOOLEAN) /\ DOMAIN Released(T, i) = DOMAIN T
          /\ \A j \in DOMAIN T : Released(T, i)[j] = (T[j] /\ j # i)
      BY <2>1, ReleasedFacts
    <2> QED
      BY <2>1, <2>2, <2>3
  <1> DEFINE gone == Destroyed(messenger_list', i)
  <1>9. /\ \A d \in ds : made(handle)[d] = {handle[d]}
        /\ \A d \in Drivers \ ds : made(handle)[d] = {}
        /\ \A d \in Drivers : made(handle)[d] \subseteq DriverHandles
    <2>1. ds \subseteq Drivers
      BY <1>b
    <2> QED
      BY <1>3, <2>1
  <1>10. /\ live' \in [Drivers -> SUBSET DriverHandles]
         /\ \A d \in Drivers : live'[d] = (live[d] \cup made(handle)[d]) \ gone[d]
         /\ invalid' \subseteq Drivers
         /\ (\A d \in Drivers : gone[d] \subseteq live[d] \cup made(handle)[d]) => invalid' = invalid
    <2> DEFINE created == made(handle)
    <2>1. DestroyAt(messenger_list', i, created) /\ \A d \in Drivers : created[d] \subseteq DriverHandles
      BY <1>2, <1>9 DEF RollBack
    <2> HIDE DEF created, gone, made
    <2> QED
      BY <1>a, <2>1, DestroyAtFacts DEF created, gone
  <1>11. \A d \in ds : gone[d] = {handle[d]}
    <2> SUFFICES ASSUME NEW d \in ds PROVE gone[d] = {handle[d]}
      OBVIOUS
    <2>1. /\ d \in icd_terms \cap Supporting /\ d \in Drivers /\ messenger_list'[d] # Empty
          /\ Entry(messenger_list'[d], i) = handle[d]
      BY <1>b, <1>5, <1>6 DEF Entry
    <2>2. handle[d] # Null
      BY <1>3, HandlesDistinct
    <2> QED
      BY <2>1, <2>2 DEF Destroyed
  <1>c. \A d \in Drivers : live'[d] \subseteq live[d]
    <2> SUFFICES ASSUME NEW d \in Drivers PROVE live'[d] \subseteq live[d]
      OBVIOUS
    <2> HIDE DEF gone, made
    <2>1. CASE d \in ds
      BY <1>9, <1>10, <1>11, <2>1
    <2>2. CASE d \notin ds
      BY <1>9, <1>10, <2>2
    <2> QED
      BY <2>1, <2>2
  <1> HIDE DEF gone, made
  <1>12. TypeOK'
    BY <1>a, <1>1, <1>6, <1>8, <1>10 DEF TypeOK, Values
  <1>13. SlotsInv'
    <2>1. \A r \in DOMAIN messenger : messenger[r] # i
      BY <1>a, SlotFacts
    <2> QED
      BY <1>a, <1>1, <1>8, <2>1 DEF SlotsInv
  <1>14. ListsInv'
    <2>1. messengers_list' # Empty
      BY <1>8 DEF Empty
    <2>2. ASSUME NEW d \in icd_terms, NEW e \in icd_terms, d < e, messenger_list'[d] = Empty
          PROVE  messenger_list'[e] = Empty
      <3>1. d \notin reached /\ d \in Drivers /\ e \in Drivers
        BY <1>b, <1>6, <2>2
      <3>2. e \notin reached
        <4>1. d \in Nat /\ e \in Nat /\ d >= 1
          BY <3>1, DriverCountAssumption DEF Drivers
        <4> QED
          BY <1>b, <1>4, <2>2, <3>1, <4>1
      <3> QED
        BY <1>a, <1>6, <2>2, <3>1, <3>2 DEF ListsInv
    <2> QED
      BY <1>1, <1>7, <2>1, <2>2 DEF ListsInv
  <1>15. SupportInv' /\ CallbacksInv'
    BY <1>a, <1>c, <1>1 DEF SupportInv, CallbacksInv
  <1>16. NothingLeaked'
    <2>1. ASSUME NEW d \in icd_terms, NEW h \in live'[d]
          PROVE  \E r \in DOMAIN messenger : Entry(messenger_list'[d], messenger[r]) = h
      <3>1. h \in live[d]
        BY <1>b, <1>c
      <3>2. PICK r \in DOMAIN messenger : Entry(messenger_list[d], messenger[r]) = h
        BY <1>a, <3>1 DEF NothingLeaked
      <3> QED
        BY <1>7, <3>2
    <2>2. \A d \in Drivers \ icd_terms : live'[d] = {}
      BY <1>a, <1>c DEF NothingLeaked
    <2> QED
      BY <1>1, <2>1, <2>2 DEF NothingLeaked
  <1>17. BackedInv'
    <2> SUFFICES ASSUME RolledBackCleanly PROVE AllBacked' /\ invalid' = {}
      BY <1>1 DEF BackedInv, RolledBackCleanly
    <2>1. AllBacked /\ invalid = {}
      BY <1>a DEF BackedInv
    <2>2. reached = before /\ (atNode \/ atInit)
      BY <1>4 DEF RolledBackCleanly
    <2>3. ASSUME NEW d \in Drivers, d \notin ds PROVE gone[d] = {}
      <3>1. CASE d \notin icd_terms \cap Supporting
        BY <3>1 DEF gone, Destroyed
      <3>2. CASE d \in icd_terms \cap Supporting
        <4>1. d \notin before /\ d \in Nat /\ d >= 1 /\ d <= DriverCount
          BY <2>3, <3>2, DriverCountAssumption DEF Drivers
        <4>2. d >= k /\ ~atNode
          BY <1>b, <3>2, <4>1, DriverCountAssumption
        <4>3. k \in icd_terms /\ messenger_list[k] = Empty
          BY <2>2, <4>2
        <4>4. messenger_list[d] = Empty
          BY <1>a, <1>b, <3>2, <4>1, <4>2, <4>3 DEF ListsInv
        <4>5. messenger_list'[d] = Empty
          BY <1>6, <2>2, <4>1, <4>4
        <4> QED
          BY <4>5 DEF gone, Destroyed
      <3> QED
        BY <3>1, <3>2
    <2>4. ASSUME NEW d \in Drivers PROVE live'[d] = live[d] /\ gone[d] \subseteq live[d] \cup made(handle)[d]
      <3>1. CASE d \in ds
        <4>1. /\ handle[d] \notin live[d] /\ made(handle)[d] = {handle[d]} /\ gone[d] = {handle[d]}
              /\ live'[d] = (live[d] \cup made(handle)[d]) \ gone[d]
          BY <1>3, <1>9, <1>10, <1>11, <3>1
        <4>2. live'[d] = (live[d] \cup {handle[d]}) \ {handle[d]}
          BY <4>1
        <4>3. live'[d] = live[d]
          BY <4>1, <4>2
        <4> QED
          BY <4>1, <4>3
      <3>2. CASE d \notin ds
        BY <1>9, <1>10, <2>3, <3>2
      <3> QED
        BY <3>1, <3>2
    <2>5. invalid' = {}
      BY <1>10, <2>1, <2>4
    <2>6. AllBacked'
      <3> SUFFICES ASSUME NEW d \in icd_terms \cap Supporting
                   PROVE  /\ \A m \in DOMAIN messenger : Entry(messenger_list'[d], messenger[m]) \in live'[d]
                          /\ \A l, m \in DOMAIN messenger :
                               Entry(messenger_list'[d], messenger[l]) =
                                 Entry(messenger_list'[d], messenger[m]) => l = m
        BY <1>1 DEF AllBacked
      <3>1. live'[d] = live[d]
        BY <1>b, <2>4
      <3> QED
        BY <1>7, <2>1, <3>1 DEF AllBacked
    <2> QED
      BY <2>5, <2>6
  <1> QED
    BY <1>12, <1>13, <1>14, <1>15, <1>16, <1>17 DEF IndInv

-----------------------------------------------------------------------------
(* terminator_DestroyDebugUtilsMessengerEXT                                *)

\* A messenger is destroyed in every driver.
LEMMA DestroyMessengerStep ==
    ASSUME IndInv, NEW m \in DOMAIN messenger, DestroyMessenger(m)
    PROVE  IndInv'
  <1>a. TypeOK /\ SlotsInv /\ ListsInv /\ SupportInv /\ CallbacksInv /\ NothingLeaked /\ BackedInv
    BY DEF IndInv
  <1> DEFINE none == [d \in Drivers |-> {}]
             i == messenger[m]
             gone == Destroyed(messenger_list, i)
  <1>1. /\ DestroyAt(messenger_list, i, none)
        /\ dbg_functions' = RemoveFirst(dbg_functions, m)
        /\ messengers_list' = Released(messengers_list, i)
        /\ messenger' = [r \in DOMAIN messenger \ {m} |-> messenger[r]]
        /\ UNCHANGED <<icd_terms, messenger_list, env>>
    BY DEF DestroyMessenger, CallbackRemoved, ReleaseSlot
  <1>2. \A d \in Drivers : none[d] \subseteq DriverHandles /\ live[d] \cup none[d] = live[d]
    OBVIOUS
  <1> HIDE DEF none
  <1>3. /\ live' \in [Drivers -> SUBSET DriverHandles]
        /\ \A d \in Drivers : live'[d] = live[d] \ gone[d]
        /\ invalid' \subseteq Drivers
        /\ (\A d \in Drivers : gone[d] \subseteq live[d]) => invalid' = invalid
    <2> HIDE DEF i, gone
    <2> QED
      BY <1>a, <1>1, <1>2, DestroyAtFacts DEF gone
  <1>4. /\ messengers_list' \in Lists(BOOLEAN) /\ DOMAIN messengers_list' = DOMAIN messengers_list
        /\ \A j \in DOMAIN messengers_list : messengers_list'[j] = (messengers_list[j] /\ j # i)
    <2> HIDE DEF i
    <2> QED
      BY <1>a, <1>1, ReleasedFacts DEF TypeOK
  <1>5. /\ RemoveFirst(dbg_functions, m) \in Seq(Handles)
        /\ Len(RemoveFirst(dbg_functions, m)) = Len(dbg_functions) - 1
        /\ ToSet(RemoveFirst(dbg_functions, m)) = ToSet(dbg_functions) \ {m}
        /\ \A p, q \in 1..Len(RemoveFirst(dbg_functions, m)) :
             RemoveFirst(dbg_functions, m)[p] = RemoveFirst(dbg_functions, m)[q] => p = q
    <2>1. dbg_functions \in Seq(Handles) /\ m \in ToSet(dbg_functions)
      BY <1>a DEF TypeOK, CallbacksInv
    <2>2. \A p, q \in 1..Len(dbg_functions) : dbg_functions[p] = dbg_functions[q] => p = q
      BY <1>a DEF CallbacksInv
    <2> QED
      BY <2>1, <2>2, RemoveFirstFacts
  <1>6. /\ DOMAIN messenger' = DOMAIN messenger \ {m}
        /\ \A r \in DOMAIN messenger' : messenger'[r] = messenger[r] /\ messenger[r] # i
    BY <1>a, <1>1 DEF SlotsInv
  <1>7. /\ \A d \in icd_terms \cap Supporting : d \in Drivers /\ gone[d] = {Entry(messenger_list[d], i)} \ {Null}
        /\ \A d \in Drivers : d \notin icd_terms \cap Supporting => gone[d] = {}
    <2>1. \A d \in icd_terms : messenger_list[d] # Empty /\ d \in Drivers
      BY <1>a, TypeFacts DEF ListsInv, Empty
    <2> QED
      BY <2>1 DEF Destroyed
  <1>b. icd_terms \subseteq Drivers
    BY <1>a, TypeFacts
  <1> HIDE DEF gone
  <1>8. TypeOK'
    <2>1. messenger' \in [DOMAIN messenger \ {m} -> Entries(MaxCapacity)]
      BY <1>a, <1>1, TypeFacts
    <2>2. DOMAIN messenger \ {m} \in SUBSET Handles
      BY <1>a, TypeFacts
    <2>3. dbg_functions' \in Seq(Handles)
      BY <1>1, <1>5
    <2> QED
      BY <1>a, <1>1, <1>3, <1>4, <2>1, <2>2, <2>3 DEF TypeOK
  <1>9. SlotsInv'
    <2>1. \A r \in DOMAIN messenger' : messenger'[r] \in DOMAIN messengers_list' /\ messengers_list'[messenger'[r]]
      BY <1>a, <1>4, <1>6 DEF SlotsInv
    <2>2. \A q, r \in DOMAIN messenger' : messenger'[q] = messenger'[r] => q = r
      BY <1>a, <1>6 DEF SlotsInv
    <2>3. ASSUME NEW j \in DOMAIN messengers_list', messengers_list'[j]
          PROVE  \E r \in DOMAIN messenger' : messenger'[r] = j
      <3>1. PICK r \in DOMAIN messenger : messenger[r] = j /\ j # i
        BY <1>a, <1>4, <2>3 DEF SlotsInv
      <3> QED
        BY <1>6, <3>1
    <2> QED
      BY <2>1, <2>2, <2>3 DEF SlotsInv
  <1>10. ListsInv'
    <2>1. i \in DOMAIN messengers_list'
      BY <1>a, <1>4 DEF SlotsInv
    <2>2. messengers_list' # Empty
      BY <2>1 DEF Empty
    <2> QED
      BY <1>a, <1>1, <1>6, <2>2 DEF ListsInv
  <1>11. SupportInv'
    BY <1>a, <1>3 DEF SupportInv
  <1>12. CallbacksInv'
    <2>1. /\ IsFiniteSet(DOMAIN messenger \ {m})
          /\ Cardinality(DOMAIN messenger \ {m}) = Cardinality(DOMAIN messenger) - 1
      BY <1>a, FS_RemoveElement DEF CallbacksInv
    <2> QED
      BY <1>a, <1>1, <1>5, <1>6, <2>1 DEF CallbacksInv
  <1>13. NothingLeaked'
    <2>1. ASSUME NEW d \in icd_terms, NEW h \in live'[d]
          PROVE  \E r \in DOMAIN messenger' : Entry(messenger_list[d], messenger'[r]) = h
      <3>1. h \in live[d] /\ h \notin gone[d] /\ d \in Drivers
        BY <1>b, <1>3, <2>1
      <3>2. h # Null /\ d \in Supporting
        BY <1>a, <3>1, TypeFacts DEF SupportInv
      <3>3. PICK r \in DOMAIN messenger : Entry(messenger_list[d], messenger[r]) = h
        BY <1>a, <3>1 DEF NothingLeaked
      <3>4. r # m
        BY <1>7, <3>1, <3>2, <3>3
      <3> QED
        BY <1>6, <3>3, <3>4
    <2>2. \A d \in Drivers \ icd_terms : live'[d] = {}
      BY <1>a, <1>3 DEF NothingLeaked
    <2> QED
      BY <1>1, <2>1, <2>2 DEF NothingLeaked
  <1>14. BackedInv'
    <2> SUFFICES ASSUME RolledBackCleanly PROVE AllBacked' /\ invalid' = {}
      BY <1>1 DEF BackedInv, RolledBackCleanly
    <2>1. AllBacked /\ invalid = {}
      BY <1>a DEF BackedInv
    <2>2. \A d \in Drivers : gone[d] \subseteq live[d]
      BY <1>7, <2>1 DEF AllBacked
    <2>3. ASSUME NEW d \in icd_terms \cap Supporting
          PROVE  /\ \A r \in DOMAIN messenger' : Entry(messenger_list[d], messenger'[r]) \in live'[d]
                 /\ \A q, r \in DOMAIN messenger' :
                      Entry(messenger_list[d], messenger'[q]) = Entry(messenger_list[d], messenger'[r])
                        => q = r
      <3>1. \A r \in DOMAIN messenger' : /\ Entry(messenger_list[d], messenger'[r]) \in live[d]
                                         /\ Entry(messenger_list[d], messenger'[r]) # Entry(messenger_list[d], i)
        BY <1>6, <2>1 DEF AllBacked
      <3>2. live'[d] = live[d] \ gone[d] /\ gone[d] \subseteq {Entry(messenger_list[d], i)}
        BY <1>3, <1>7
      <3> QED
        BY <1>6, <2>1, <3>1, <3>2 DEF AllBacked
    <2> QED
      BY <1>1, <1>3, <2>1, <2>2, <2>3 DEF AllBacked
  <1> QED
    BY <1>8, <1>9, <1>10, <1>11, <1>12, <1>13, <1>14 DEF IndInv

-----------------------------------------------------------------------------
(* loader_icd_close_objects                                                *)

\* A driver is unloaded, after its messengers were destroyed.
LEMMA UnloadDriverStep ==
    ASSUME IndInv, NEW d \in icd_terms, UnloadDriver(d)
    PROVE  IndInv'
  <1>a. TypeOK /\ SlotsInv /\ ListsInv /\ SupportInv /\ CallbacksInv /\ NothingLeaked /\ BackedInv
    BY DEF IndInv
  <1> DEFINE closed == IF d \in Supporting
                       THEN {messenger_list[d][i] : i \in Closable(d)} \ {Null} ELSE {}
  <1>1. /\ live' = [live EXCEPT ![d] = @ \ closed]
        /\ invalid' = IF closed \subseteq live[d] THEN invalid ELSE invalid \cup {d}
        /\ messenger_list' = [messenger_list EXCEPT ![d] = Empty]
        /\ icd_terms' = icd_terms \ {d}
        /\ UNCHANGED <<messengers_list, messenger, dbg_functions, env>>
    BY DEF UnloadDriver
  <1>2. d \in Drivers /\ icd_terms \subseteq Drivers /\ messenger_list \in [Drivers -> Lists(Values)]
    BY <1>a, TypeFacts
  <1>3. \A r \in DOMAIN messenger : /\ messenger[r] \in Closable(d)
                                    /\ Entry(messenger_list[d], messenger[r]) = messenger_list[d][messenger[r]]
    BY <1>a DEF SlotsInv, ListsInv, Closable, Entry
  <1>4. live[d] \subseteq closed
    <2> SUFFICES ASSUME NEW h \in live[d] PROVE h \in closed
      OBVIOUS
    <2>1. h # Null /\ d \in Supporting
      BY <1>a, <1>2, TypeFacts DEF SupportInv
    <2>2. PICK r \in DOMAIN messenger : Entry(messenger_list[d], messenger[r]) = h
      BY <1>a DEF NothingLeaked
    <2> QED
      BY <1>3, <2>1, <2>2
  <1>5. RolledBackCleanly => closed \subseteq live[d]
    <2> SUFFICES ASSUME RolledBackCleanly, d \in Supporting, NEW i \in Closable(d)
                 PROVE  messenger_list[d][i] \in live[d]
      OBVIOUS
    <2>1. PICK r \in DOMAIN messenger : messenger[r] = i
      BY <1>a DEF Closable, SlotsInv
    <2> QED
      BY <1>a, <1>3, <2>1 DEF BackedInv, AllBacked
  <1> HIDE DEF closed
  <1>6. /\ live' \in [Drivers -> SUBSET DriverHandles]
        /\ live'[d] = {} /\ \A e \in Drivers : e # d => live'[e] = live[e]
    <2>1. live \in [Drivers -> SUBSET DriverHandles]
      BY <1>a DEF TypeOK
    <2>2. live[d] \ closed = {}
      BY <1>4
    <2> QED
      BY <1>1, <1>2, <2>1, <2>2
  <1>7. /\ messenger_list' \in [Drivers -> Lists(Values)]
        /\ messenger_list'[d] = Empty
        /\ \A e \in Drivers : e # d => messenger_list'[e] = messenger_list[e]
    <2>1. Empty \in Lists(Values)
      BY EmptyFacts
    <2> QED
      BY <1>1, <1>2, <2>1
  <1>8. TypeOK'
    BY <1>a, <1>1, <1>2, <1>6, <1>7 DEF TypeOK, Values
  <1>9. SlotsInv' /\ CallbacksInv'
    BY <1>a, <1>1 DEF SlotsInv, CallbacksInv
  <1>10. ListsInv'
    BY <1>a, <1>1, <1>2, <1>7 DEF ListsInv
  <1>11. SupportInv'
    BY <1>a, <1>6 DEF SupportInv
  <1>12. NothingLeaked'
    BY <1>a, <1>1, <1>2, <1>6, <1>7 DEF NothingLeaked
  <1>13. BackedInv'
    <2> SUFFICES ASSUME RolledBackCleanly PROVE AllBacked' /\ invalid' = {}
      BY <1>1 DEF BackedInv, RolledBackCleanly
    <2>1. AllBacked /\ invalid = {}
      BY <1>a DEF BackedInv
    <2>2. \A e \in icd_terms' : e \in icd_terms /\ messenger_list'[e] = messenger_list[e] /\ live'[e] = live[e]
      BY <1>1, <1>2, <1>6, <1>7
    <2> QED
      BY <1>1, <1>5, <2>1, <2>2 DEF AllBacked
  <1> QED
    BY <1>8, <1>9, <1>10, <1>11, <1>12, <1>13 DEF IndInv

-----------------------------------------------------------------------------
(* The theorems                                                            *)

\* The invariant holds in the beginning.
LEMMA InitInd == Init => IndInv
  <1> SUFFICES ASSUME Init PROVE IndInv
    OBVIOUS
  <1>1. /\ icd_terms = Drivers /\ messengers_list = Empty /\ messenger = Empty
        /\ messenger_list = [d \in Drivers |-> Empty] /\ dbg_functions = <<>>
        /\ live = [d \in Drivers |-> {}] /\ invalid = {} /\ env \in Environments
    BY DEF Init
  <1>2. Empty \in Lists(BOOLEAN) /\ Empty \in Lists(Values) /\ DOMAIN Empty = {}
    BY EmptyFacts
  <1>3. TypeOK
    <2>1. {} \in SUBSET Handles /\ Empty \in [{} -> Entries(MaxCapacity)]
      BY DEF Empty
    <2> QED
      BY <1>1, <1>2, <2>1 DEF TypeOK, Values
  <1>4. SlotsInv /\ ListsInv /\ SupportInv /\ NothingLeaked /\ BackedInv
    BY <1>1, <1>2, SupportingAssumption DEF SlotsInv, ListsInv, SupportInv, NothingLeaked, BackedInv, AllBacked
  <1>5. CallbacksInv
    BY <1>1, <1>2, FS_EmptySet DEF CallbacksInv, ToSet
  <1> QED
    BY <1>3, <1>4, <1>5 DEF IndInv

\* The invariant is inductive: every entry point of debug_utils.c and the
\* unloading of a driver keep the slots, the drivers' lists and what the
\* drivers hold in agreement.
THEOREM Inductive == Spec => []IndInv
  <1>1. Init => IndInv
    BY InitInd
  <1>2. IndInv /\ [Next]_vars => IndInv'
    <2> SUFFICES ASSUME IndInv, [Next]_vars PROVE IndInv'
      OBVIOUS
    <2>1. CASE CreateMessenger
      BY <2>1, CreateMessengerStep
    <2>2. CASE CreateNoSlot
      BY <2>2, CreateNoSlotStep
    <2>3. CASE \E k \in 1..(DriverCount + 1) : CreateFails(k)
      BY <2>3, CreateFailsStep
    <2>4. CASE \E m \in DOMAIN messenger : DestroyMessenger(m)
      BY <2>4, DestroyMessengerStep
    <2>5. CASE \E d \in icd_terms : UnloadDriver(d)
      BY <2>5, UnloadDriverStep
    <2>6. CASE UNCHANGED vars
      <3>1. UNCHANGED <<icd_terms, messengers_list, messenger, messenger_list, dbg_functions,
                        live, invalid, env>>
        BY <2>6 DEF vars
      <3>2. TypeOK'
        BY <3>1 DEF IndInv, TypeOK
      <3>3. SlotsInv' /\ ListsInv'
        BY <3>1 DEF IndInv, SlotsInv, ListsInv
      <3>4. SupportInv' /\ CallbacksInv' /\ NothingLeaked'
        BY <3>1 DEF IndInv, SupportInv, CallbacksInv, NothingLeaked
      <3>5. BackedInv'
        BY <3>1 DEF IndInv, BackedInv, AllBacked, RolledBackCleanly
      <3> QED
        BY <3>2, <3>3, <3>4, <3>5 DEF IndInv
    <2> QED
      BY <2>1, <2>2, <2>3, <2>4, <2>5, <2>6 DEF Next
  <1> QED
    BY <1>1, <1>2, PTL DEF Spec

\* Every messenger of the application exists in every driver that supports the
\* extension, under a handle of its own, if no driver fails a creation and no
\* list fails to grow, and its callback is registered once.
THEOREM MessengersBackedHolds == Spec => []MessengersBacked
  <1>1. IndInv => MessengersBacked
    BY DEF IndInv, CallbacksInv, BackedInv, MessengersBacked
  <1> QED
    BY <1>1, Inductive, PTL

\* No driver holds a messenger the loader has lost, whatever fails half-way
\* through a creation, and none outlives its driver's instance.
THEOREM NothingLeakedHolds == Spec => []NothingLeaked
  <1>1. IndInv => NothingLeaked
    BY DEF IndInv
  <1> QED
    BY <1>1, Inductive, PTL

\* A roll-back, a destruction and the unloading of a driver ask the driver to
\* destroy only what it has, under the same conditions.
THEOREM DestroysOnlyLiveHolds == Spec => []DestroysOnlyLive
  <1>1. IndInv => DestroysOnlyLive
    BY DEF IndInv, BackedInv, DestroysOnlyLive
  <1> QED
    BY <1>1, Inductive, PTL
=============================================================================
