--------------------------- MODULE SurfacesProofs ---------------------------
(***************************************************************************)
(* For any number of threads, drivers and surfaces, and lists of any size: *)
(* surfaces never share a slot, a driver's list covers every surface and   *)
(* holds only living handles, and nothing is left in a driver, under the   *)
(* conditions each property of Surfaces states.                            *)
(***************************************************************************)
EXTENDS Surfaces, UsedObjectListProofs

-----------------------------------------------------------------------------
(* The inductive invariant                                                 *)

\* A thread that makes no calls is never in one; a call is about a surface that
\* exists; a driver that is being called is loaded and its list has the
\* surface's slot; a surface that is being destroyed is in no other call; and a
\* single thread's calls find the lists where they were.
CallsInv ==
    /\ \A t \in Threads : t \notin env.threads => call[t] = Idle
    /\ \A t \in Threads : call[t].op # "idle" => call[t].s \in DOMAIN surface
    /\ \A t \in Threads : call[t].op = "query" =>
         /\ call[t].d \in icd_terms
         /\ surface[call[t].s] \in DOMAIN surface_list[call[t].d]
    /\ \A t, u \in Threads : call[t].op = "destroy" /\ call[u].op # "idle" /\ t # u =>
         call[t].s # call[u].s
    /\ SingleThreaded => \A t \in Threads : call[t].moved = {}

\* The slots of the surfaces.
SlotsInv ==
    /\ \A s \in DOMAIN surface : /\ surface[s] \in DOMAIN surfaces_list
                                 /\ surfaces_list[surface[s]]
    /\ \A r, s \in DOMAIN surface : surface[r] = surface[s] => r = s
    /\ SingleThreaded /\ ~env.oom => LostSlots = {}

\* A driver's list that exists has at least InitialCapacity entries.
CapacityInv ==
    /\ \A d \in Drivers : surface_list[d] # Empty => Capacity(surface_list[d]) >= InitialCapacity
    /\ ListsCoverSurfaces

\* No call writes into a list that was reallocated: no two calls overlap, or
\* the list still has its first size.
Steady(d) == SingleThreaded \/ Capacity(surface_list[d]) <= InitialCapacity

DestroyingAt(i) == \E s \in DOMAIN surface : surface[s] = i /\ Destroying(s)

\* What makes driver d's list sound: the calls under way still know where it
\* is, a handle in it is live, belongs to a surface and to one slot only, all
\* this except for the slots of surfaces that are being destroyed.
DriverSound(d) ==
    /\ \A t \in Threads : d \notin call[t].moved
    /\ \A i \in DOMAIN surface_list[d] : surface_list[d][i] # Null =>
         /\ \E s \in DOMAIN surface : surface[s] = i
         /\ surface_list[d][i] \in live[d] \/ DestroyingAt(i)
         /\ \A j \in DOMAIN surface_list[d] : j # i /\ surface_list[d][j] = surface_list[d][i] =>
              DestroyingAt(i) \/ DestroyingAt(j)

EntriesInv ==
    ~env.app_allocator => \A d \in icd_terms : Steady(d) => DriverSound(d)

\* With one thread: a driver asked for a surface has none in that slot yet, and
\* a surface that is being destroyed is gone from the drivers.
LeakInv ==
    SingleThreaded =>
      /\ NoSurfaceLeaked
      /\ \A t \in Threads : call[t].op = "query" =>
           surface_list[call[t].d][surface[call[t].s]] = Null
      /\ \A t \in Threads : call[t].op = "destroy" =>
           \A d \in icd_terms : Entry(d, surface[call[t].s]) \notin live[d]

IndInv == TypeOK /\ CallsInv /\ SlotsInv /\ CapacityInv /\ EntriesInv /\ LeakInv

-----------------------------------------------------------------------------
(* Types                                                                   *)

Values == DriverHandles \cup {Null, Garbage}

\* What the type invariant says of the parts the actions touch.
LEMMA TypeFacts ==
    ASSUME TypeOK
    PROVE  /\ surface \in [DOMAIN surface -> Entries(MaxCapacity)]
           /\ DOMAIN surface \subseteq Handles
           /\ \A s \in DOMAIN surface : surface[s] \in Nat
           /\ \A d \in Drivers : surface_list[d] \in Lists(Values)
           /\ env.app_allocator \in BOOLEAN /\ env.threads \subseteq Threads
  <1>1. env \in EnvironmentType
    BY EnvironmentsAssumption DEF TypeOK
  <1>2. PICK A \in SUBSET Handles : surface \in [A -> Entries(MaxCapacity)]
    BY DEF TypeOK
  <1>3. DOMAIN surface = A
    BY <1>2
  <1>4. \A s \in DOMAIN surface : surface[s] \in Nat
    BY <1>2, CapacityAssumption DEF Entries
  <1>5. \A d \in Drivers : surface_list[d] \in Lists(Values)
    BY DEF TypeOK, Values
  <1>6. env.app_allocator \in BOOLEAN /\ env.threads \subseteq Threads
    BY <1>1 DEF EnvironmentType
  <1> QED
    BY <1>2, <1>3, <1>4, <1>5, <1>6

\* The shapes a call can have.
LEMMA CallFacts ==
    ASSUME TypeOK, NEW t \in Threads
    PROVE  /\ call[t] \in Calls
           /\ call[t] = Idle <=> call[t].op = "idle"
           /\ call[t] = Idle => call[t].moved = {}
           /\ call[t].op = "idle" \/ call[t].op = "query" \/ call[t].op = "destroy"
           /\ call[t].op # "idle" => call[t].s \in Handles
           /\ call[t].op = "query" =>
                /\ call[t].d \in Drivers /\ call[t].moved \subseteq Drivers
                /\ call[t] \in [op : {"query"}, s : Handles, d : Drivers, moved : SUBSET Drivers]
           /\ call[t].op = "destroy" =>
                call[t] \in [op : {"destroy"}, s : Handles, d : {0}, moved : SUBSET (0..DriverCount)]
  <1>1. call[t] \in Calls
    BY DEF TypeOK
  <1> QED
    BY <1>1 DEF Calls, Idle

\* What every creation does to the drivers' lists, whether it succeeds or not:
\* the lists it reached keep their entries, and double at most once.
LEMMA ExtendFacts ==
    ASSUME TypeOK, NEW i \in NextIndex(surfaces_list), NEW reached \in SUBSET icd_terms,
           Bounded(i, reached), ExtendLists(i, reached)
    PROVE  /\ surface_list' \in [Drivers -> Lists(Values)]
           /\ \A d \in Drivers : d \notin reached => surface_list'[d] = surface_list[d]
           /\ \A d \in Drivers :
                /\ DOMAIN surface_list[d] \subseteq DOMAIN surface_list'[d]
                /\ \A j \in DOMAIN surface_list[d] : surface_list'[d][j] = surface_list[d][j]
                /\ \A j \in DOMAIN surface_list'[d] \ DOMAIN surface_list[d] :
                     surface_list'[d][j] \in NewEntry(env.app_allocator)
           /\ \A d \in reached :
                /\ surface_list[d] = Empty => Capacity(surface_list'[d]) = InitialCapacity
                /\ surface_list[d] # Empty /\ i \in DOMAIN surface_list[d] =>
                     surface_list'[d] = surface_list[d]
                /\ surface_list[d] # Empty /\ i \notin DOMAIN surface_list[d] =>
                     Capacity(surface_list'[d]) = 2 * Capacity(surface_list[d])
  <1>1. i \in Nat
    BY NextIndexFacts DEF TypeOK
  <1>2. /\ DOMAIN surface_list' = Drivers
        /\ surface_list' = [d \in Drivers |-> surface_list'[d]]
        /\ \A d \in Drivers : IF d \in reached
              THEN surface_list'[d] \in Extended(surface_list[d], i, env.app_allocator)
              ELSE surface_list'[d] = surface_list[d]
    BY DEF ExtendLists
  <1>3. ASSUME NEW d \in Drivers, d \notin reached
        PROVE  surface_list'[d] = surface_list[d] /\ surface_list'[d] \in Lists(Values)
    BY <1>2, <1>3, TypeFacts
  <1>4. ASSUME NEW d \in reached
        PROVE  /\ surface_list'[d] \in Lists(Values)
               /\ DOMAIN surface_list[d] \subseteq DOMAIN surface_list'[d]
               /\ \A j \in DOMAIN surface_list[d] : surface_list'[d][j] = surface_list[d][j]
               /\ \A j \in DOMAIN surface_list'[d] \ DOMAIN surface_list[d] :
                    surface_list'[d][j] \in NewEntry(env.app_allocator)
               /\ surface_list[d] = Empty => Capacity(surface_list'[d]) = InitialCapacity
               /\ surface_list[d] # Empty /\ i \in DOMAIN surface_list[d] =>
                    surface_list'[d] = surface_list[d]
               /\ surface_list[d] # Empty /\ i \notin DOMAIN surface_list[d] =>
                    Capacity(surface_list'[d]) = 2 * Capacity(surface_list[d])
    <2>1. d \in Drivers /\ surface_list[d] \in Lists(Values) /\ env.app_allocator \in BOOLEAN
      BY TypeFacts DEF TypeOK
    <2>2. surface_list'[d] \in Extended(surface_list[d], i, env.app_allocator)
      BY <1>2, <2>1
    <2>3. surface_list[d] = Empty \/ ~IsShort(surface_list[d], i) \/ CanGrow(surface_list[d])
      BY DEF Bounded
    <2>4. Null \in Values /\ Garbage \in Values
      BY DEF Values
    <2> DEFINE old == surface_list[d]
               new == surface_list'[d]
    <2>5. /\ old \in Lists(Values) /\ new \in Extended(old, i, env.app_allocator)
          /\ old = Empty \/ ~IsShort(old, i) \/ CanGrow(old)
      BY <2>1, <2>2, <2>3
    <2> HIDE DEF old, new
    <2>6. /\ new \in Lists(Values)
          /\ DOMAIN old \subseteq DOMAIN new
          /\ \A j \in DOMAIN old : new[j] = old[j]
          /\ \A j \in DOMAIN new \ DOMAIN old : new[j] \in NewEntry(env.app_allocator)
          /\ old = Empty => Capacity(new) = InitialCapacity
          /\ old # Empty /\ ~IsShort(old, i) => new = old
          /\ old # Empty /\ IsShort(old, i) => Capacity(new) = 2 * Capacity(old)
      BY <1>1, <2>1, <2>4, <2>5, ExtendedFacts
    <2> QED
      BY <2>6 DEF old, new, IsShort
  <1>5. surface_list' \in [Drivers -> Lists(Values)]
    BY <1>2, <1>3, <1>4
  <1> QED
    BY <1>3, <1>4, <1>5

\* What every creation does to the calls of the other threads: it may move the
\* lists under them, but only the ones it reallocates.
LEMMA MoveFacts ==
    ASSUME TypeOK, NEW i \in NextIndex(surfaces_list), NEW reached \in SUBSET icd_terms,
           MoveLists(i, reached)
    PROVE  /\ call' \in [Threads -> Calls]
           /\ \A t \in Threads :
                /\ call'[t].op = call[t].op /\ call'[t].s = call[t].s /\ call'[t].d = call[t].d
                /\ call[t] = Idle => call'[t] = Idle
                /\ \A d \in Drivers : d \in call'[t].moved /\ d \notin call[t].moved =>
                     d \in reached /\ surface_list[d] # Empty /\ i \notin DOMAIN surface_list[d]
  <1> DEFINE resized == {d \in reached : surface_list[d] # Empty /\ IsShort(surface_list[d], i)}
                           \cup (IF surfaces_list # Empty /\ NeedsMemory(surfaces_list)
                                 THEN {0} ELSE {})
  <1>1. PICK m \in SUBSET resized :
          call' = [t \in Threads |->
            CASE call[t].op = "query"   -> [call[t] EXCEPT !.moved = @ \cup (m \cap {call[t].d})]
              [] call[t].op = "destroy" -> [call[t] EXCEPT !.moved = @ \cup m]
              [] OTHER                  -> call[t]]
    BY DEF MoveLists
  <1>2. m \subseteq 0..DriverCount
    BY DriverCountAssumption DEF TypeOK, Drivers
  <1>3. \A d \in Drivers : d \in m =>
          d \in reached /\ surface_list[d] # Empty /\ i \notin DOMAIN surface_list[d]
    BY DriverCountAssumption DEF Drivers, IsShort
  <1> HIDE DEF resized
  <1>4. ASSUME NEW t \in Threads
        PROVE  /\ call'[t] \in Calls
               /\ call'[t].op = call[t].op /\ call'[t].s = call[t].s /\ call'[t].d = call[t].d
               /\ call[t] = Idle => call'[t] = Idle
               /\ \A d \in Drivers : d \in call'[t].moved => d \in call[t].moved \/ d \in m
    <2>1. CASE call[t].op = "query"
      <3>1. call[t] \in [op : {"query"}, s : Handles, d : Drivers, moved : SUBSET Drivers]
        BY <2>1, CallFacts
      <3>2. call'[t] = [call[t] EXCEPT !.moved = @ \cup (m \cap {call[t].d})]
        BY <1>1, <2>1
      <3>3. m \cap {call[t].d} \subseteq Drivers
        BY <3>1
      <3>4. call'[t] \in [op : {"query"}, s : Handles, d : Drivers, moved : SUBSET Drivers]
        BY <3>1, <3>2, <3>3
      <3> QED
        BY <2>1, <3>1, <3>2, <3>4 DEF Calls, Idle
    <2>2. CASE call[t].op = "destroy"
      <3>1. call[t] \in [op : {"destroy"}, s : Handles, d : {0}, moved : SUBSET (0..DriverCount)]
        BY <2>2, CallFacts
      <3>2. call'[t] = [call[t] EXCEPT !.moved = @ \cup m]
        BY <1>1, <2>2
      <3>3. call'[t] \in [op : {"destroy"}, s : Handles, d : {0}, moved : SUBSET (0..DriverCount)]
        BY <1>2, <3>1, <3>2
      <3> QED
        BY <2>2, <3>1, <3>2, <3>3 DEF Calls, Idle
    <2>3. CASE call[t].op = "idle"
      BY <1>1, <2>3, CallFacts
    <2> QED
      BY <2>1, <2>2, <2>3, CallFacts
  <1>5. call' \in [Threads -> Calls]
    BY <1>1, <1>4
  <1> QED
    BY <1>3, <1>4, <1>5

-----------------------------------------------------------------------------
(* vkCreate*SurfaceKHR                                                     *)

\* The slot a creation takes belongs to no surface.
LEMMA SlotIsFree ==
    ASSUME TypeOK, SlotsInv, NEW i \in NextIndex(surfaces_list)
    PROVE  \A s \in DOMAIN surface : surface[s] # i
  <1>1. i \in DOMAIN surfaces_list => ~surfaces_list[i]
    BY NextIndexFacts DEF TypeOK
  <1> QED
    BY <1>1 DEF SlotsInv

\* When only one thread makes calls, none is under way while it starts one.
LEMMA AloneIsIdle ==
    ASSUME TypeOK, CallsInv, SingleThreaded, NEW t \in env.threads, call[t] = Idle
    PROVE  \A u \in Threads : call[u] = Idle
  BY DEF CallsInv, SingleThreaded

\* A creation leaves the calls of the other threads in order.
LEMMA CreatesKeepsCalls ==
    ASSUME TypeOK, CallsInv, NEW t \in env.threads, NEW i \in NextIndex(surfaces_list),
           NEW reached \in SUBSET icd_terms, Creates(t, i, reached),
           DOMAIN surface \subseteq DOMAIN surface',
           \A r \in DOMAIN surface : surface'[r] = surface[r],
           UNCHANGED <<icd_terms, env>>
    PROVE  CallsInv'
  <1>1. ExtendLists(i, reached) /\ MoveLists(i, reached) /\ Bounded(i, reached) /\ call[t] = Idle
    BY DEF Creates
  <1>2. \A u \in Threads :
          /\ call'[u].op = call[u].op /\ call'[u].s = call[u].s /\ call'[u].d = call[u].d
          /\ call[u] = Idle => call'[u] = Idle
    BY <1>1, MoveFacts
  <1>3. \A d \in Drivers : DOMAIN surface_list[d] \subseteq DOMAIN surface_list'[d]
    BY <1>1, ExtendFacts
  <1>4. icd_terms \subseteq Drivers
    BY DEF TypeOK
  <1>5. SingleThreaded' => \A u \in Threads : call'[u].moved = {}
    <2> SUFFICES ASSUME SingleThreaded, NEW u \in Threads PROVE call'[u].moved = {}
      BY DEF SingleThreaded
    <2>1. call'[u] = Idle
      BY <1>1, <1>2, AloneIsIdle
    <2> QED
      BY <2>1 DEF Idle
  <1> QED
    BY <1>2, <1>3, <1>4, <1>5 DEF CallsInv

\* A creation leaves the drivers' lists as sound as they were: what it adds is
\* null, and the entry of the slot it gives back holds no living surface.
LEMMA CreatesKeepsEntries ==
    ASSUME TypeOK, CallsInv, SlotsInv, CapacityInv, EntriesInv,
           NEW t \in env.threads, NEW i \in NextIndex(surfaces_list),
           NEW reached \in SUBSET icd_terms, Creates(t, i, reached),
           DOMAIN surface \subseteq DOMAIN surface',
           \A r \in DOMAIN surface : surface'[r] = surface[r],
           UNCHANGED <<icd_terms, env>>,
           \A d \in Drivers : \/ live'[d] = live[d]
                              \/ /\ i \in DOMAIN surface_list'[d]
                                 /\ live'[d] = live[d] \ {surface_list'[d][i]}
    PROVE  EntriesInv'
  <1>1. ExtendLists(i, reached) /\ MoveLists(i, reached) /\ Bounded(i, reached) /\ call[t] = Idle
    BY DEF Creates
  <1> SUFFICES ASSUME ~env.app_allocator, NEW d \in icd_terms, Steady(d)'
               PROVE  DriverSound(d)'
    BY DEF EntriesInv
  <1>2. d \in Drivers /\ surface_list[d] \in Lists(Values) /\ surface_list'[d] \in Lists(Values)
    BY <1>1, TypeFacts, ExtendFacts DEF TypeOK
  <1>3. /\ DOMAIN surface_list[d] \subseteq DOMAIN surface_list'[d]
        /\ \A j \in DOMAIN surface_list[d] : surface_list'[d][j] = surface_list[d][j]
        /\ \A j \in DOMAIN surface_list'[d] \ DOMAIN surface_list[d] : surface_list'[d][j] = Null
    BY <1>1, <1>2, ExtendFacts DEF NewEntry
  <1> DEFINE c == Capacity(surface_list[d])
             c1 == Capacity(surface_list'[d])
  <1>4. /\ c \in Nat /\ c1 \in Nat /\ InitialCapacity \in Nat /\ InitialCapacity > 0
        /\ surface_list[d] # Empty => c >= InitialCapacity
        /\ surface_list[d] = Empty <=> c = 0
    BY <1>2, ListFacts, CapacityAssumption DEF CapacityInv
  <1>5. /\ d \notin reached => c1 = c
        /\ d \in reached => /\ surface_list[d] = Empty => c1 = InitialCapacity
                            /\ surface_list[d] # Empty /\ i \in DOMAIN surface_list[d] => c1 = c
                            /\ surface_list[d] # Empty /\ i \notin DOMAIN surface_list[d] =>
                                 c1 = 2 * c
    BY <1>1, <1>2, ExtendFacts
  <1>6. SingleThreaded \/ c1 <= InitialCapacity
    BY DEF Steady, SingleThreaded
  <1>7. Steady(d)
    BY <1>4, <1>5, <1>6 DEF Steady
  <1>8. DriverSound(d)
    BY <1>7 DEF EntriesInv
  <1>9. \A u \in Threads :
          /\ call'[u].op = call[u].op /\ call'[u].s = call[u].s
          /\ call[u] = Idle => call'[u] = Idle
          /\ d \in call'[u].moved /\ d \notin call[u].moved =>
               d \in reached /\ surface_list[d] # Empty /\ i \notin DOMAIN surface_list[d]
    BY <1>1, <1>2, MoveFacts
  <1>10. ASSUME NEW u \in Threads
         PROVE  d \notin call'[u].moved
    <2>1. CASE SingleThreaded
      <3>1. call'[u] = Idle
        BY <1>1, <1>9, <2>1, AloneIsIdle
      <3> QED
        BY <3>1 DEF Idle
    <2>2. CASE c1 <= InitialCapacity
      <3>1. d \notin call[u].moved
        BY <1>8 DEF DriverSound
      <3> QED
        BY <1>4, <1>5, <1>9, <2>2, <3>1
    <2> QED
      BY <1>6, <2>1, <2>2
  <1>11. \A j : DestroyingAt(j) => DestroyingAt(j)'
    BY <1>9 DEF DestroyingAt, Destroying
  <1>12. live'[d] = live[d]
    <2>1. i \in DOMAIN surface_list'[d] => surface_list'[d][i] = Null
      BY <1>3, <1>8, SlotIsFree DEF DriverSound
    <2>2. Null \notin live[d]
      BY <1>2, HandlesDistinct DEF TypeOK
    <2>3. live[d] \ {Null} = live[d]
      BY <2>2
    <2> QED
      BY <1>2, <2>1, <2>3
  <1>13. ASSUME NEW j \in DOMAIN surface_list'[d], surface_list'[d][j] # Null
         PROVE  /\ \E s \in DOMAIN surface' : surface'[s] = j
                /\ surface_list'[d][j] \in live'[d] \/ DestroyingAt(j)'
                /\ \A k \in DOMAIN surface_list'[d] :
                     k # j /\ surface_list'[d][k] = surface_list'[d][j] =>
                       DestroyingAt(j)' \/ DestroyingAt(k)'
    <2>1. j \in DOMAIN surface_list[d] /\ surface_list'[d][j] = surface_list[d][j]
      BY <1>3, <1>13
    <2>2. \A k \in DOMAIN surface_list'[d] : surface_list'[d][k] = surface_list'[d][j] =>
            k \in DOMAIN surface_list[d] /\ surface_list'[d][k] = surface_list[d][k]
      BY <1>3, <1>13
    <2> QED
      BY <1>8, <1>11, <1>12, <1>13, <2>1, <2>2 DEF DriverSound
  <1> QED
    BY <1>10, <1>13 DEF DriverSound

\* A creation leaks nothing: no list loses an entry.
LEMMA CreatesKeepsLeakInv ==
    ASSUME TypeOK, CallsInv, LeakInv,
           NEW t \in env.threads, NEW i \in NextIndex(surfaces_list),
           NEW reached \in SUBSET icd_terms, Creates(t, i, reached),
           DOMAIN surface \subseteq DOMAIN surface',
           \A r \in DOMAIN surface : surface'[r] = surface[r],
           UNCHANGED <<icd_terms, env>>,
           \A d \in Drivers : live'[d] \subseteq live[d]
    PROVE  LeakInv'
  <1>1. ExtendLists(i, reached) /\ MoveLists(i, reached) /\ Bounded(i, reached) /\ call[t] = Idle
    BY DEF Creates
  <1> SUFFICES ASSUME SingleThreaded PROVE LeakInv'
    BY DEF LeakInv, SingleThreaded
  <1>2. ASSUME NEW u \in Threads PROVE call'[u].op = "idle"
    <2>1. call[u] = Idle
      BY <1>1, AloneIsIdle
    <2>2. call'[u] = Idle
      BY <1>1, <2>1, MoveFacts
    <2> QED
      BY <2>2 DEF Idle
  <1>3. ASSUME NEW d \in icd_terms, NEW h \in live'[d]
        PROVE  \E s \in DOMAIN surface' : Entry(d, surface[s])' = h
    <2>1. d \in Drivers /\ h \in live[d] /\ h # Garbage
      BY HandlesDistinct DEF TypeOK
    <2>2. PICK s \in DOMAIN surface : Entry(d, surface[s]) = h
      BY <2>1 DEF LeakInv, NoSurfaceLeaked
    <2>3. surface[s] \in DOMAIN surface_list[d] /\ surface_list[d][surface[s]] = h
      BY <2>1, <2>2 DEF Entry
    <2>4. surface[s] \in DOMAIN surface_list'[d] /\ surface_list'[d][surface[s]] = h
      BY <1>1, <2>1, <2>3, ExtendFacts
    <2>5. s \in DOMAIN surface' /\ surface'[s] = surface[s]
      OBVIOUS
    <2> QED
      BY <2>4, <2>5 DEF Entry
  <1>4. \A d \in Drivers \ icd_terms : live'[d] = {}
    BY DEF LeakInv, NoSurfaceLeaked
  <1> QED
    BY <1>2, <1>3, <1>4 DEF LeakInv, NoSurfaceLeaked

\* Slots are only ever lost: the number of lost slots does not go down.
LEMMA LostCount ==
    ASSUME TypeOK', LostSlots \subseteq LostSlots'
    PROVE  /\ IsFiniteSet(LostSlots) /\ IsFiniteSet(LostSlots')
           /\ Cardinality(LostSlots) \in Nat /\ Cardinality(LostSlots') \in Nat
           /\ Cardinality(LostSlots) <= Cardinality(LostSlots')
  <1>1. surfaces_list' \in Lists(BOOLEAN)
    BY DEF TypeOK
  <1> DEFINE L == surfaces_list'
             c == Capacity(L)
  <1>2. c \in Nat /\ DOMAIN L = 0..(c - 1)
    <2> HIDE DEF L
    <2>1. L \in Lists(BOOLEAN)
      BY <1>1 DEF L
    <2> QED
      BY <2>1, ListFacts, CapacityAssumption
  <1>3. IsFiniteSet(0..(c - 1))
    BY <1>2, FS_Interval
  <1>4. LostSlots' \subseteq 0..(c - 1)
    BY <1>2 DEF LostSlots
  <1>5. IsFiniteSet(LostSlots')
    BY <1>3, <1>4, FS_Subset
  <1> QED
    BY <1>5, FS_Subset, FS_CardinalityType

\* A step that loses no cover keeps ListsCoverSurfaces.
LEMMA CoverKept ==
    ASSUME TypeOK', ListsCoverSurfaces, LostSlots \subseteq LostSlots',
           AllCovered /\ Cardinality(LostSlots) < InitialCapacity => AllCovered'
    PROVE  ListsCoverSurfaces'
  <1>1. Cardinality(LostSlots') < InitialCapacity => Cardinality(LostSlots) < InitialCapacity
    BY LostCount, CapacityAssumption
  <1> QED
    BY <1>1 DEF ListsCoverSurfaces

\* A list that was made or grown is no smaller than a new one.
LEMMA CreatesKeepsCapacity ==
    ASSUME TypeOK, CapacityInv, NEW t \in env.threads, NEW i \in NextIndex(surfaces_list),
           NEW reached \in SUBSET icd_terms, Creates(t, i, reached)
    PROVE  \A d \in Drivers :
             surface_list'[d] # Empty => Capacity(surface_list'[d]) >= InitialCapacity
  <1>1. ExtendLists(i, reached) /\ Bounded(i, reached)
    BY DEF Creates
  <1> SUFFICES ASSUME NEW d \in Drivers, surface_list'[d] # Empty
               PROVE  Capacity(surface_list'[d]) >= InitialCapacity
    OBVIOUS
  <1>2. surface_list[d] \in Lists(Values)
    BY TypeFacts
  <1>3. /\ Capacity(surface_list[d]) \in Nat
        /\ surface_list[d] # Empty => Capacity(surface_list[d]) >= InitialCapacity
        /\ InitialCapacity \in Nat
    BY <1>2, ListFacts, CapacityAssumption DEF CapacityInv
  <1>4. CASE d \in reached
    BY <1>1, <1>3, <1>4, ExtendFacts
  <1>5. CASE d \notin reached
    BY <1>1, <1>3, <1>5, ExtendFacts
  <1> QED
    BY <1>4, <1>5

\* The reason ListsCoverSurfaces holds.  A slot is handed out only when all
\* before it are in use.  A list grows once in a creation, so if the slot were
\* still outside, the slots that the growth added would all be in use by no
\* surface, since the list covered every surface before: a new list's worth of
\* lost slots.
LEMMA NewSlotCovered ==
    ASSUME TypeOK, SlotsInv, CapacityInv, NEW t \in env.threads,
           NEW i \in NextIndex(surfaces_list), Creates(t, i, icd_terms),
           AllCovered, Cardinality(LostSlots) < InitialCapacity,
           IsFiniteSet(LostSlots), Cardinality(LostSlots) \in Nat, NEW d \in icd_terms
    PROVE  i \in DOMAIN surface_list'[d]
  <1>1. ExtendLists(i, icd_terms) /\ Bounded(i, icd_terms)
    BY DEF Creates
  <1>2. d \in Drivers /\ surface_list[d] \in Lists(Values) /\ surface_list'[d] \in Lists(Values)
    BY <1>1, TypeFacts, ExtendFacts DEF TypeOK
  <1> DEFINE c == Capacity(surface_list[d])
             c1 == Capacity(surface_list'[d])
  <1>3. /\ c \in Nat /\ c1 \in Nat /\ DOMAIN surface_list[d] = 0..(c - 1)
        /\ DOMAIN surface_list'[d] = 0..(c1 - 1) /\ InitialCapacity \in Nat
        /\ surface_list[d] = Empty <=> c = 0
        /\ surface_list[d] # Empty => c >= InitialCapacity
    BY <1>2, ListFacts, CapacityAssumption DEF CapacityInv
  <1>4. i \in Nat /\ \A j \in Nat : j < i => j \in DOMAIN surfaces_list /\ surfaces_list[j]
    BY NextIndexFacts DEF TypeOK
  <1>5. /\ surface_list[d] = Empty => c1 = InitialCapacity
        /\ surface_list[d] # Empty /\ i \in DOMAIN surface_list[d] =>
             surface_list'[d] = surface_list[d]
        /\ surface_list[d] # Empty /\ i \notin DOMAIN surface_list[d] => c1 = 2 * c
    BY <1>1, ExtendFacts
  <1>6. SUFFICES ASSUME i \notin DOMAIN surface_list'[d] PROVE FALSE
    OBVIOUS
  <1>7. c1 <= i /\ c1 - c >= InitialCapacity /\ c <= c1
    BY <1>3, <1>4, <1>5, <1>6
  <1> HIDE DEF c, c1
  <1>8. c..(c1 - 1) \subseteq LostSlots
    <2> SUFFICES ASSUME NEW j \in c..(c1 - 1) PROVE j \in LostSlots
      OBVIOUS
    <2>1. j \in Nat /\ j < i /\ j >= c
      BY <1>3, <1>4, <1>7 DEF c, c1
    <2>2. j \in DOMAIN surfaces_list /\ surfaces_list[j]
      BY <1>4, <2>1
    <2>3. j \notin DOMAIN surface_list[d]
      BY <1>3, <2>1 DEF c
    <2>4. \A s \in DOMAIN surface : surface[s] # j
      BY <2>3 DEF AllCovered
    <2> QED
      BY <2>2, <2>4 DEF LostSlots
  <1>9. Cardinality(c..(c1 - 1)) >= InitialCapacity
    <2>1. c \in Int /\ c1 - 1 \in Int
      BY <1>3 DEF c, c1
    <2>2. Cardinality(c..(c1 - 1)) = IF c > c1 - 1 THEN 0 ELSE (c1 - 1) - c + 1
      BY <2>1, FS_Interval
    <2> QED
      BY <1>3, <1>7, <2>1, <2>2, CapacityAssumption DEF c, c1
  <1>10. Cardinality(c..(c1 - 1)) <= Cardinality(LostSlots)
    BY <1>8, FS_Subset
  <1>11. Cardinality(c..(c1 - 1)) \in Nat
    BY <1>8, FS_Subset, FS_CardinalityType
  <1> QED
    BY <1>3, <1>9, <1>10, <1>11

\* A surface is created.
LEMMA CreateSurfaceStep ==
    ASSUME IndInv, NEW t \in env.threads, CreateSurface(t)
    PROVE  IndInv'
  <1>a. TypeOK /\ CallsInv /\ SlotsInv /\ CapacityInv /\ EntriesInv /\ LeakInv
    BY DEF IndInv
  <1>1. PICK i \in NextIndex(surfaces_list), s \in Handles \ DOMAIN surface :
          /\ Creates(t, i, icd_terms)
          /\ surfaces_list' = Taken(surfaces_list, i)
          /\ surface' = [r \in DOMAIN surface \cup {s} |-> IF r = s THEN i ELSE surface[r]]
    BY DEF CreateSurface
  <1>2. UNCHANGED <<icd_terms, live, env>>
    BY DEF CreateSurface
  <1>3. ExtendLists(i, icd_terms) /\ MoveLists(i, icd_terms) /\ Bounded(i, icd_terms)
    BY <1>1 DEF Creates
  <1>4. /\ surfaces_list' \in Lists(BOOLEAN)
        /\ DOMAIN surfaces_list \subseteq DOMAIN surfaces_list'
        /\ i \in DOMAIN surfaces_list' /\ surfaces_list'[i]
        /\ \A j \in DOMAIN surfaces_list' : j # i =>
             surfaces_list'[j] = (j \in DOMAIN surfaces_list /\ surfaces_list[j])
    BY <1>a, <1>1, <1>3, TakenFacts DEF TypeOK, Bounded
  <1>5. /\ DOMAIN surface' = DOMAIN surface \cup {s} /\ surface'[s] = i
        /\ \A r \in DOMAIN surface : surface'[r] = surface[r]
    BY <1>1
  <1>6. \A r \in DOMAIN surface : surface[r] # i
    BY <1>a, <1>1, SlotIsFree
  <1>7. TypeOK'
    <2>1. i \in Entries(MaxCapacity)
      <3> DEFINE L == surfaces_list'
      <3>1. L \in Lists(BOOLEAN) /\ i \in DOMAIN L
        BY <1>4
      <3> HIDE DEF L
      <3> QED
        BY <3>1, ListFacts, CapacityAssumption DEF Entries
    <2>2. surface' \in [DOMAIN surface \cup {s} -> Entries(MaxCapacity)]
      BY <1>a, <1>1, <2>1, TypeFacts
    <2>3. DOMAIN surface \cup {s} \in SUBSET Handles
      BY <1>a, TypeFacts
    <2>4. surface_list' \in [Drivers -> Lists(Values)] /\ call' \in [Threads -> Calls]
      BY <1>a, <1>1, <1>3, ExtendFacts, MoveFacts
    <2> QED
      BY <1>a, <1>2, <1>4, <2>2, <2>3, <2>4 DEF TypeOK, Values
  <1>8. CallsInv'
    BY <1>a, <1>1, <1>2, <1>5, CreatesKeepsCalls
  <1>9. SlotsInv'
    <2>1. \A r \in DOMAIN surface' : surface'[r] \in DOMAIN surfaces_list' /\ surfaces_list'[surface'[r]]
      BY <1>a, <1>4, <1>5, <1>6 DEF SlotsInv
    <2>2. \A q, r \in DOMAIN surface' : surface'[q] = surface'[r] => q = r
      BY <1>a, <1>5, <1>6 DEF SlotsInv
    <2>3. ASSUME SingleThreaded, ~env.oom, NEW j \in LostSlots' PROVE FALSE
      <3>1. j \in DOMAIN surfaces_list' /\ surfaces_list'[j] /\ \A r \in DOMAIN surface' : surface'[r] # j
        BY DEF LostSlots
      <3>2. j # i
        BY <1>5, <3>1
      <3>3. j \in DOMAIN surfaces_list /\ surfaces_list[j]
        BY <1>4, <3>1, <3>2
      <3>4. j \in LostSlots
        BY <1>5, <3>1, <3>3 DEF LostSlots
      <3> QED
        BY <1>a, <2>3, <3>4 DEF SlotsInv
    <2> QED
      BY <1>2, <2>1, <2>2, <2>3 DEF SlotsInv, SingleThreaded
  <1>10. CapacityInv'
    <2>1. LostSlots \subseteq LostSlots'
      <3> SUFFICES ASSUME NEW j \in LostSlots PROVE j \in LostSlots'
        OBVIOUS
      <3>1. j \in DOMAIN surfaces_list /\ surfaces_list[j] /\ \A r \in DOMAIN surface : surface[r] # j
        BY DEF LostSlots
      <3>2. j # i
        BY <1>a, <1>1, <3>1, NextIndexFacts DEF TypeOK
      <3>3. j \in DOMAIN surfaces_list' /\ surfaces_list'[j]
        BY <1>4, <3>1, <3>2
      <3>4. \A r \in DOMAIN surface' : surface'[r] # j
        BY <1>5, <3>1, <3>2
      <3> QED
        BY <3>3, <3>4 DEF LostSlots
    <2>2. ASSUME AllCovered, Cardinality(LostSlots) < InitialCapacity PROVE AllCovered'
      <3> SUFFICES ASSUME NEW r \in DOMAIN surface', NEW d \in icd_terms
                   PROVE  surface'[r] \in DOMAIN surface_list'[d]
        BY <1>2 DEF AllCovered
      <3>1. CASE r = s
        BY <1>a, <1>1, <1>5, <1>7, <2>1, <2>2, <3>1, LostCount, NewSlotCovered
      <3>2. CASE r # s
        <4>1. r \in DOMAIN surface /\ d \in Drivers
          BY <1>a, <1>5, <3>2 DEF TypeOK
        <4>2. surface[r] \in DOMAIN surface_list[d]
          BY <2>2, <4>1 DEF AllCovered
        <4>3. DOMAIN surface_list[d] \subseteq DOMAIN surface_list'[d]
          BY <1>a, <1>1, <1>3, <4>1, ExtendFacts
        <4> QED
          BY <1>5, <4>1, <4>2, <4>3
      <3> QED
        BY <3>1, <3>2
    <2>3. ListsCoverSurfaces'
      BY <1>a, <1>7, <2>1, <2>2, CoverKept DEF CapacityInv
    <2> QED
      BY <1>a, <1>1, <2>3, CreatesKeepsCapacity DEF CapacityInv
  <1>11. EntriesInv'
    BY <1>a, <1>1, <1>2, <1>5, CreatesKeepsEntries
  <1>12. LeakInv'
    BY <1>a, <1>1, <1>2, <1>5, CreatesKeepsLeakInv
  <1> QED
    BY <1>7, <1>8, <1>9, <1>10, <1>11, <1>12 DEF IndInv

\* A creation that ran out of memory: the slot it took is lost.
LEMMA CreateOutOfMemoryStep ==
    ASSUME IndInv, NEW t \in env.threads, CreateOutOfMemory(t)
    PROVE  IndInv'
  <1>a. TypeOK /\ CallsInv /\ SlotsInv /\ CapacityInv /\ EntriesInv /\ LeakInv
    BY DEF IndInv
  <1>1. PICK i \in NextIndex(surfaces_list), k \in 0..DriverCount :
          /\ Creates(t, i, icd_terms \cap 1..k)
          /\ surfaces_list' = Taken(surfaces_list, i)
    BY DEF CreateOutOfMemory
  <1>2. UNCHANGED <<icd_terms, surface, live, env>> /\ env.oom
    BY DEF CreateOutOfMemory
  <1> DEFINE reached == icd_terms \cap 1..k
  <1>b. reached \in SUBSET icd_terms /\ Creates(t, i, reached)
    BY <1>1
  <1> HIDE DEF reached
  <1>3. ExtendLists(i, reached) /\ MoveLists(i, reached) /\ Bounded(i, reached)
    BY <1>b DEF Creates
  <1>4. /\ surfaces_list' \in Lists(BOOLEAN)
        /\ DOMAIN surfaces_list \subseteq DOMAIN surfaces_list'
        /\ \A j \in DOMAIN surfaces_list' : j # i =>
             surfaces_list'[j] = (j \in DOMAIN surfaces_list /\ surfaces_list[j])
    BY <1>a, <1>1, <1>3, TakenFacts DEF TypeOK, Bounded
  <1>5. DOMAIN surface \subseteq DOMAIN surface' /\ \A r \in DOMAIN surface : surface'[r] = surface[r]
    BY <1>2
  <1>6. \A r \in DOMAIN surface : surface[r] # i
    BY <1>a, <1>1, SlotIsFree
  <1>7. TypeOK'
    <2>1. surface_list' \in [Drivers -> Lists(Values)] /\ call' \in [Threads -> Calls]
      BY <1>a, <1>b, <1>1, <1>3, ExtendFacts, MoveFacts
    <2> QED
      BY <1>a, <1>2, <1>4, <2>1 DEF TypeOK, Values
  <1>8. CallsInv'
    BY <1>a, <1>b, <1>2, <1>5, CreatesKeepsCalls
  <1>9. SlotsInv'
    BY <1>a, <1>2, <1>4, <1>6 DEF SlotsInv
  <1>10. CapacityInv'
    <2>1. ASSUME NEW j \in LostSlots PROVE j \in LostSlots'
      <3>1. j \in DOMAIN surfaces_list /\ surfaces_list[j] /\ \A r \in DOMAIN surface : surface[r] # j
        BY DEF LostSlots
      <3>2. j # i
        BY <1>a, <1>1, <3>1, NextIndexFacts DEF TypeOK
      <3> QED
        BY <1>2, <1>4, <3>1, <3>2 DEF LostSlots
    <2>2. AllCovered => AllCovered'
      <3>1. \A d \in icd_terms : DOMAIN surface_list[d] \subseteq DOMAIN surface_list'[d]
        BY <1>a, <1>b, <1>1, <1>3, ExtendFacts DEF TypeOK
      <3> QED
        BY <1>2, <3>1 DEF AllCovered
    <2>3. ListsCoverSurfaces'
      <3>1. LostSlots \subseteq LostSlots'
        BY <2>1
      <3> QED
        BY <1>a, <1>7, <2>2, <3>1, CoverKept DEF CapacityInv
    <2> QED
      BY <1>a, <1>b, <2>3, CreatesKeepsCapacity DEF CapacityInv
  <1>11. EntriesInv'
    BY <1>a, <1>b, <1>2, <1>5, CreatesKeepsEntries
  <1>12. LeakInv'
    BY <1>a, <1>b, <1>2, <1>5, CreatesKeepsLeakInv
  <1> QED
    BY <1>7, <1>8, <1>9, <1>10, <1>11, <1>12 DEF IndInv

\* A creation that fails after the lists were made: the slot is given back.
LEMMA CreateCopyFailsStep ==
    ASSUME IndInv, NEW t \in env.threads, CreateCopyFails(t)
    PROVE  IndInv'
  <1>a. TypeOK /\ CallsInv /\ SlotsInv /\ CapacityInv /\ EntriesInv /\ LeakInv
    BY DEF IndInv
  <1>1. PICK i \in NextIndex(surfaces_list) :
          /\ Creates(t, i, icd_terms)
          /\ CleanupSlot(i)
          /\ live' = [d \in Drivers |->
               IF d \in icd_terms /\ i \in DOMAIN surface_list'[d]
               THEN live[d] \ {surface_list'[d][i]} ELSE live[d]]
    BY DEF CreateCopyFails
  <1>2. UNCHANGED <<icd_terms, surface, env>>
    BY DEF CreateCopyFails
  <1>3. ExtendLists(i, icd_terms) /\ MoveLists(i, icd_terms) /\ Bounded(i, icd_terms)
    BY <1>1 DEF Creates
  <1>4. /\ surfaces_list' \in Lists(BOOLEAN)
        /\ DOMAIN surfaces_list \subseteq DOMAIN surfaces_list'
        /\ \A j \in DOMAIN surfaces_list' :
             surfaces_list'[j] = (j # i /\ j \in DOMAIN surfaces_list /\ surfaces_list[j])
    <2> DEFINE T == Taken(surfaces_list, i)
    <2>1. /\ T \in Lists(BOOLEAN) /\ DOMAIN surfaces_list \subseteq DOMAIN T
          /\ \A j \in DOMAIN T : j # i => T[j] = (j \in DOMAIN surfaces_list /\ surfaces_list[j])
      BY <1>a, <1>1, <1>3, TakenFacts DEF TypeOK, Bounded
    <2>2. surfaces_list' = Released(T, i)
      BY <1>1 DEF CleanupSlot
    <2> HIDE DEF T
    <2>3. /\ Released(T, i) \in Lists(BOOLEAN) /\ DOMAIN Released(T, i) = DOMAIN T
          /\ \A j \in DOMAIN T : Released(T, i)[j] = (T[j] /\ j # i)
      BY <2>1, ReleasedFacts
    <2> QED
      BY <2>1, <2>2, <2>3
  <1>5. DOMAIN surface \subseteq DOMAIN surface' /\ \A r \in DOMAIN surface : surface'[r] = surface[r]
    BY <1>2
  <1>6. \A r \in DOMAIN surface : surface[r] # i
    BY <1>a, <1>1, SlotIsFree
  <1>b. /\ live' \in [Drivers -> SUBSET DriverHandles]
        /\ \A d \in Drivers : live'[d] \subseteq live[d]
        /\ \A d \in Drivers : \/ live'[d] = live[d]
                              \/ /\ i \in DOMAIN surface_list'[d]
                                 /\ live'[d] = live[d] \ {surface_list'[d][i]}
    BY <1>a, <1>1 DEF TypeOK
  <1>7. TypeOK'
    <2>1. surface_list' \in [Drivers -> Lists(Values)] /\ call' \in [Threads -> Calls]
      BY <1>a, <1>1, <1>3, ExtendFacts, MoveFacts
    <2> QED
      BY <1>a, <1>b, <1>2, <1>4, <2>1 DEF TypeOK, Values
  <1>8. CallsInv'
    BY <1>a, <1>1, <1>2, <1>5, CreatesKeepsCalls
  <1>c. LostSlots = LostSlots'
    <2>1. ASSUME NEW j \in LostSlots PROVE j \in LostSlots'
      <3>1. j \in DOMAIN surfaces_list /\ surfaces_list[j] /\ \A r \in DOMAIN surface : surface[r] # j
        BY DEF LostSlots
      <3>2. j # i
        BY <1>a, <1>1, <3>1, NextIndexFacts DEF TypeOK
      <3> QED
        BY <1>2, <1>4, <3>1, <3>2 DEF LostSlots
    <2>2. ASSUME NEW j \in LostSlots' PROVE j \in LostSlots
      BY <1>2, <1>4 DEF LostSlots
    <2> QED
      BY <2>1, <2>2
  <1>9. SlotsInv'
    <2>1. \A r \in DOMAIN surface : surface[r] \in DOMAIN surfaces_list' /\ surfaces_list'[surface[r]]
      BY <1>a, <1>4, <1>6 DEF SlotsInv
    <2> QED
      BY <1>a, <1>c, <1>2, <2>1 DEF SlotsInv, SingleThreaded
  <1>10. CapacityInv'
    <2>2. AllCovered => AllCovered'
      <3>1. \A d \in icd_terms : DOMAIN surface_list[d] \subseteq DOMAIN surface_list'[d]
        BY <1>a, <1>1, <1>3, ExtendFacts DEF TypeOK
      <3> QED
        BY <1>2, <3>1 DEF AllCovered
    <2>3. ListsCoverSurfaces'
      BY <1>a, <1>c, <2>2 DEF CapacityInv, ListsCoverSurfaces
    <2> QED
      BY <1>a, <1>1, <2>3, CreatesKeepsCapacity DEF CapacityInv
  <1>11. EntriesInv'
    BY <1>a, <1>b, <1>1, <1>2, <1>5, CreatesKeepsEntries
  <1>12. LeakInv'
    BY <1>a, <1>b, <1>1, <1>2, <1>5, CreatesKeepsLeakInv
  <1> QED
    BY <1>7, <1>8, <1>9, <1>10, <1>11, <1>12 DEF IndInv

-----------------------------------------------------------------------------
(* wsi_unwrap_icd_surface                                                  *)

\* A driver that has no surface in the slot is asked for one.
LEMMA QueryCreatesStep ==
    ASSUME IndInv, NEW t \in env.threads, NEW s \in DOMAIN surface, NEW d \in icd_terms,
           QueryCreates(t, s, d)
    PROVE  IndInv'
  <1>a. TypeOK /\ CallsInv /\ SlotsInv /\ CapacityInv /\ EntriesInv /\ LeakInv
    BY DEF IndInv
  <1>b. t \in Threads /\ s \in Handles /\ d \in Drivers
    BY <1>a, TypeFacts DEF TypeOK
  <1>1. /\ call[t] = Idle /\ ~Destroying(s)
        /\ surface[s] \in DOMAIN surface_list[d] /\ surface_list[d][surface[s]] = Null
        /\ UNCHANGED <<icd_terms, surfaces_list, surface, surface_list, live, env>>
    BY DEF QueryCreates
  <1> DEFINE c == [op |-> "query", s |-> s, d |-> d, moved |-> {}]
  <1>2. /\ call' \in [Threads -> Calls] /\ call'[t] = c
        /\ \A u \in Threads : u # t => call'[u] = call[u]
    <2>1. c \in Calls
      BY <1>b DEF Calls
    <2>2. call' = [call EXCEPT ![t] = c] /\ call \in [Threads -> Calls]
      BY <1>a DEF QueryCreates, TypeOK
    <2> QED
      BY <1>b, <2>1, <2>2
  <1>3. TypeOK'
    BY <1>a, <1>1, <1>2 DEF TypeOK
  <1>4. CallsInv'
    <2>1. \A u, v \in Threads : call'[u].op = "destroy" /\ call'[v].op # "idle" /\ u # v =>
            call'[u].s # call'[v].s
      BY <1>a, <1>b, <1>1, <1>2 DEF CallsInv, Destroying
    <2> QED
      BY <1>a, <1>b, <1>1, <1>2, <2>1 DEF CallsInv, SingleThreaded
  <1>5. SlotsInv' /\ CapacityInv'
    BY <1>a, <1>1 DEF SlotsInv, CapacityInv, ListsCoverSurfaces, AllCovered, LostSlots,
                      SingleThreaded
  <1>6. EntriesInv'
    <2> SUFFICES ASSUME ~env.app_allocator, NEW e \in icd_terms, Steady(e) PROVE DriverSound(e)'
      BY <1>1 DEF EntriesInv, Steady, SingleThreaded
    <2>1. DriverSound(e)
      BY <1>a DEF EntriesInv
    <2>2. \A j : DestroyingAt(j) => DestroyingAt(j)'
      BY <1>1, <1>2 DEF DestroyingAt, Destroying, Idle
    <2>3. \A u \in Threads : e \notin call'[u].moved
      BY <1>2, <2>1 DEF DriverSound
    <2> QED
      BY <1>1, <2>1, <2>2, <2>3 DEF DriverSound
  <1>7. LeakInv'
    BY <1>a, <1>b, <1>1, <1>2 DEF LeakInv, NoSurfaceLeaked, Entry, SingleThreaded
  <1> QED
    BY <1>3, <1>4, <1>5, <1>6, <1>7 DEF IndInv

\* The calls when thread t's call has ended.
LEMMA CallEnds ==
    ASSUME TypeOK, NEW t \in env.threads, call' = [call EXCEPT ![t] = Idle]
    PROVE  /\ t \in Threads /\ call' \in [Threads -> Calls] /\ call'[t] = Idle
           /\ \A u \in Threads : u # t => call'[u] = call[u]
  BY TypeFacts DEF TypeOK, Calls

\* The driver answers a query with an error.
LEMMA QueryFailsStep ==
    ASSUME IndInv, NEW t \in env.threads, QueryFails(t)
    PROVE  IndInv'
  <1>a. TypeOK /\ CallsInv /\ SlotsInv /\ CapacityInv /\ EntriesInv /\ LeakInv
    BY DEF IndInv
  <1>1. /\ call[t].op = "query"
        /\ UNCHANGED <<icd_terms, surfaces_list, surface, surface_list, live, env>>
    BY DEF QueryFails
  <1>2. /\ t \in Threads /\ call' \in [Threads -> Calls] /\ call'[t] = Idle
        /\ \A u \in Threads : u # t => call'[u] = call[u]
    BY <1>a, CallEnds DEF QueryFails
  <1>3. TypeOK'
    BY <1>a, <1>1, <1>2 DEF TypeOK
  <1>4. CallsInv'
    BY <1>a, <1>1, <1>2 DEF CallsInv, SingleThreaded, Idle
  <1>5. SlotsInv' /\ CapacityInv'
    BY <1>a, <1>1 DEF SlotsInv, CapacityInv, ListsCoverSurfaces, AllCovered, LostSlots,
                      SingleThreaded
  <1>6. EntriesInv'
    <2> SUFFICES ASSUME ~env.app_allocator, NEW e \in icd_terms, Steady(e) PROVE DriverSound(e)'
      BY <1>1 DEF EntriesInv, Steady, SingleThreaded
    <2>1. DriverSound(e)
      BY <1>a DEF EntriesInv
    <2>2. \A j : DestroyingAt(j) => DestroyingAt(j)'
      BY <1>1, <1>2 DEF DestroyingAt, Destroying
    <2>3. \A u \in Threads : e \notin call'[u].moved
      BY <1>2, <2>1 DEF DriverSound, Idle
    <2> QED
      BY <1>1, <2>1, <2>2, <2>3 DEF DriverSound
  <1>7. LeakInv'
    BY <1>a, <1>1, <1>2 DEF LeakInv, NoSurfaceLeaked, Entry, SingleThreaded, Idle
  <1> QED
    BY <1>3, <1>4, <1>5, <1>6, <1>7 DEF IndInv

\* The driver has made a surface and writes its handle where it was told to.
LEMMA QueryCreatedStep ==
    ASSUME IndInv, NEW t \in env.threads, QueryCreated(t)
    PROVE  IndInv'
  <1>a. TypeOK /\ CallsInv /\ SlotsInv /\ CapacityInv /\ EntriesInv /\ LeakInv
    BY DEF IndInv
  <1>0. PICK d, s, i : d = call[t].d /\ s = call[t].s /\ i = surface[s]
    OBVIOUS
  <1>1. /\ call[t].op = "query"
        /\ UNCHANGED <<icd_terms, surfaces_list, surface, env>>
        /\ call' = [call EXCEPT ![t] = Idle]
    BY DEF QueryCreated
  <1>2. PICK h \in DriverHandles \ live[d] :
          /\ live' = [live EXCEPT ![d] = @ \cup {h}]
          /\ surface_list' = IF d \in call[t].moved THEN surface_list
                             ELSE [surface_list EXCEPT ![d][i] = h]
    BY <1>0 DEF QueryCreated
  <1>3. /\ t \in Threads /\ call' \in [Threads -> Calls] /\ call'[t] = Idle
        /\ \A u \in Threads : u # t => call'[u] = call[u]
    BY <1>a, <1>1, CallEnds
  <1>4. /\ d \in icd_terms /\ d \in Drivers /\ s \in DOMAIN surface
        /\ i \in DOMAIN surface_list[d] /\ surface_list[d] \in Lists(Values)
    BY <1>a, <1>0, <1>1, <1>3, TypeFacts DEF CallsInv, TypeOK
  <1>5. /\ DOMAIN live' = Drivers /\ live'[d] = live[d] \cup {h}
        /\ \A e \in Drivers : e # d => live'[e] = live[e]
        /\ live' \in [Drivers -> SUBSET DriverHandles]
    BY <1>a, <1>2, <1>4 DEF TypeOK
  <1>6. /\ surface_list' \in [Drivers -> Lists(Values)]
        /\ \A e \in Drivers : /\ DOMAIN surface_list'[e] = DOMAIN surface_list[e]
                              /\ Capacity(surface_list'[e]) = Capacity(surface_list[e])
                              /\ surface_list'[e] = Empty <=> surface_list[e] = Empty
                              /\ e # d => surface_list'[e] = surface_list[e]
        /\ \A j \in DOMAIN surface_list[d] : j # i => surface_list'[d][j] = surface_list[d][j]
        /\ d \notin call[t].moved => surface_list'[d][i] = h
    <2>1. surface_list \in [Drivers -> Lists(Values)]
      BY <1>a DEF TypeOK, Values
    <2>2. CASE d \in call[t].moved
      BY <1>2, <2>1, <2>2
    <2>3. CASE d \notin call[t].moved
      <3> DEFINE l == [surface_list[d] EXCEPT ![i] = h]
                 n == Capacity(surface_list[d])
      <3>1. surface_list[d] \in [Entries(n) -> Values] /\ n \in 0..MaxCapacity
        BY <1>4, ListFacts
      <3>2. h \in Values
        BY DEF Values
      <3>3. l \in [Entries(n) -> Values]
        BY <3>1, <3>2
      <3>4. l \in Lists(Values) /\ Capacity(l) = n
        <4> HIDE DEF l, n
        <4> QED
          BY <3>1, <3>3, MakeList
      <3>5. /\ DOMAIN l = DOMAIN surface_list[d] /\ l[i] = h
            /\ \A j \in DOMAIN surface_list[d] : j # i => l[j] = surface_list[d][j]
        BY <1>4
      <3>6. l # Empty /\ surface_list[d] # Empty
        BY <1>4, <3>5 DEF Empty
      <3>7. surface_list' = [surface_list EXCEPT ![d] = l]
        BY <1>2, <2>3
      <3> HIDE DEF l, n
      <3> QED
        BY <1>4, <2>1, <3>4, <3>5, <3>6, <3>7 DEF n
    <2> QED
      BY <2>2, <2>3
  <1>7. TypeOK'
    BY <1>a, <1>1, <1>3, <1>5, <1>6 DEF TypeOK, Values
  <1>8. CallsInv'
    <2>1. \A u \in Threads : call'[u].op = "query" =>
            call'[u].d \in icd_terms /\ surface[call'[u].s] \in DOMAIN surface_list'[call'[u].d]
      BY <1>a, <1>3, <1>6 DEF CallsInv, Idle, TypeOK
    <2>2. \A u, v \in Threads : call'[u].op = "destroy" /\ call'[v].op # "idle" /\ u # v =>
            call'[u].s # call'[v].s
      BY <1>a, <1>3 DEF CallsInv, Idle
    <2>3. \A u \in Threads : /\ u \notin env.threads => call'[u] = Idle
                             /\ call'[u].op # "idle" => call'[u].s \in DOMAIN surface
                             /\ SingleThreaded => call'[u].moved = {}
      BY <1>a, <1>3 DEF CallsInv, Idle
    <2> QED
      BY <1>1, <2>1, <2>2, <2>3 DEF CallsInv, SingleThreaded
  <1>9. SlotsInv'
    BY <1>a, <1>1 DEF SlotsInv, LostSlots, SingleThreaded
  <1>10. CapacityInv'
    <2>1. LostSlots' = LostSlots /\ (AllCovered => AllCovered')
      BY <1>a, <1>1, <1>6 DEF LostSlots, AllCovered, TypeOK
    <2> QED
      BY <1>a, <1>6, <2>1 DEF CapacityInv, ListsCoverSurfaces
  <1>11. EntriesInv'
    <2> SUFFICES ASSUME ~env.app_allocator, NEW e \in icd_terms, Steady(e) PROVE DriverSound(e)'
      BY <1>a, <1>1, <1>6 DEF EntriesInv, Steady, SingleThreaded, TypeOK
    <2>1. DriverSound(e) /\ e \in Drivers
      BY <1>a DEF EntriesInv, TypeOK
    <2>2. \A j : DestroyingAt(j) => DestroyingAt(j)'
      BY <1>1, <1>3 DEF DestroyingAt, Destroying
    <2>3. \A u \in Threads : e \notin call'[u].moved
      BY <1>3, <2>1 DEF DriverSound, Idle
    <2>4. CASE e # d
      <3>1. surface_list'[e] = surface_list[e] /\ live'[e] = live[e]
        BY <1>5, <1>6, <2>1, <2>4
      <3> QED
        BY <1>1, <2>1, <2>2, <2>3, <3>1 DEF DriverSound
    <2>5. CASE e = d
      <3>1. surface_list'[d][i] = h /\ h # Null
        BY <1>3, <1>6, <2>1, <2>5, HandlesDistinct DEF DriverSound
      <3>2. ASSUME NEW j \in DOMAIN surface_list[d], surface_list'[d][j] = h, j # i
            PROVE  DestroyingAt(j)
        BY <1>2, <1>6, <2>1, <2>5, <3>1, <3>2 DEF DriverSound
      <3>3. ASSUME NEW j \in DOMAIN surface_list'[d], surface_list'[d][j] # Null
            PROVE  /\ \E r \in DOMAIN surface : surface[r] = j
                   /\ surface_list'[d][j] \in live'[d] \/ DestroyingAt(j)
                   /\ \A k \in DOMAIN surface_list'[d] :
                        k # j /\ surface_list'[d][k] = surface_list'[d][j] =>
                          DestroyingAt(j) \/ DestroyingAt(k)
        <4>1. CASE j = i
          BY <1>0, <1>4, <1>5, <1>6, <3>1, <3>2, <4>1
        <4>2. CASE j # i
          <5>1. j \in DOMAIN surface_list[d] /\ surface_list'[d][j] = surface_list[d][j]
            BY <1>4, <1>6, <4>2
          <5>2. /\ \E r \in DOMAIN surface : surface[r] = j
                /\ surface_list'[d][j] \in live'[d] \/ DestroyingAt(j)
            BY <1>5, <2>1, <2>5, <3>3, <5>1 DEF DriverSound
          <5>3. ASSUME NEW k \in DOMAIN surface_list'[d], k # j,
                       surface_list'[d][k] = surface_list'[d][j]
                PROVE  DestroyingAt(j) \/ DestroyingAt(k)
            <6>1. CASE k = i
              BY <3>1, <3>2, <4>2, <5>1, <5>3, <6>1
            <6>2. CASE k # i
              BY <1>4, <1>6, <2>1, <2>5, <3>3, <5>1, <5>3, <6>2 DEF DriverSound
            <6> QED
              BY <6>1, <6>2
          <5> QED
            BY <5>2, <5>3
        <4> QED
          BY <4>1, <4>2
      <3> QED
        BY <1>1, <2>2, <2>3, <2>5, <3>3 DEF DriverSound
    <2> QED
      BY <2>4, <2>5
  <1>12. LeakInv'
    <2> SUFFICES ASSUME SingleThreaded PROVE LeakInv'
      BY <1>1 DEF LeakInv, SingleThreaded
    <2>1. /\ d \notin call[t].moved /\ surface_list[d][i] = Null /\ NoSurfaceLeaked
      BY <1>a, <1>0, <1>1, <1>3 DEF CallsInv, LeakInv
    <2>2. \A u \in Threads : call'[u] = Idle
      <3>1. \A u \in Threads : u # t => call[u] = Idle
        BY <1>a DEF CallsInv, SingleThreaded
      <3> QED
        BY <1>3, <3>1
    <2>3. ASSUME NEW e \in icd_terms, NEW g \in live'[e]
          PROVE  \E r \in DOMAIN surface : Entry(e, surface[r])' = g
      <3>1. e \in Drivers
        BY <1>a DEF TypeOK
      <3>2. CASE e = d /\ g = h
        <4>1. i \in DOMAIN surface_list'[d] /\ surface_list'[d][i] = h
          BY <1>4, <1>6, <2>1
        <4>2. Entry(e, surface[s])' = g
          BY <1>0, <1>1, <3>2, <4>1 DEF Entry
        <4> QED
          BY <1>4, <4>2
      <3>3. CASE ~(e = d /\ g = h)
        <4>1. g \in live[e] /\ g # Garbage /\ g # Null
          <5>1. g \in live[e]
            BY <1>5, <3>1, <3>3
          <5>2. live[e] \subseteq DriverHandles
            BY <1>a, <3>1 DEF TypeOK
          <5> QED
            BY <5>1, <5>2, HandlesDistinct
        <4>2. PICK r \in DOMAIN surface : Entry(e, surface[r]) = g
          BY <2>1, <4>1 DEF NoSurfaceLeaked
        <4>3. surface[r] \in DOMAIN surface_list[e] /\ surface_list[e][surface[r]] = g
          BY <4>1, <4>2 DEF Entry
        <4>4. surface[r] \in DOMAIN surface_list'[e] /\ surface_list'[e][surface[r]] = g
          BY <1>6, <2>1, <3>1, <4>1, <4>3
        <4> QED
          BY <1>1, <4>4 DEF Entry
      <3> QED
        BY <3>2, <3>3
    <2>4. \A e \in Drivers \ icd_terms : live'[e] = {}
      BY <1>4, <1>5, <2>1 DEF NoSurfaceLeaked
    <2> QED
      BY <1>1, <2>2, <2>3, <2>4 DEF LeakInv, NoSurfaceLeaked, Idle
  <1> QED
    BY <1>7, <1>8, <1>9, <1>10, <1>11, <1>12 DEF IndInv

-----------------------------------------------------------------------------
(* vkDestroySurfaceKHR                                                     *)

\* The drivers have destroyed their surfaces of the slot.
LEMMA DestroySurfaceStep ==
    ASSUME IndInv, NEW t \in env.threads, NEW s \in DOMAIN surface, DestroySurface(t, s)
    PROVE  IndInv'
  <1>a. TypeOK /\ CallsInv /\ SlotsInv /\ CapacityInv /\ EntriesInv /\ LeakInv
    BY DEF IndInv
  <1>b. t \in Threads /\ s \in Handles /\ icd_terms \subseteq Drivers
    BY <1>a, TypeFacts DEF TypeOK
  <1>1. /\ call[t] = Idle /\ ~InUse(s)
        /\ UNCHANGED <<icd_terms, surfaces_list, surface, surface_list, env>>
    BY DEF DestroySurface
  <1>2. /\ live' \in [Drivers -> SUBSET DriverHandles]
        /\ \A d \in Drivers : live'[d] \subseteq live[d]
        /\ \A d \in icd_terms : live'[d] = live[d] \ {Entry(d, surface[s])}
    BY <1>a, <1>b DEF DestroySurface, TypeOK
  <1> DEFINE c == [op |-> "destroy", s |-> s, d |-> 0, moved |-> {}]
  <1>3. /\ call' \in [Threads -> Calls] /\ call'[t] = c
        /\ \A u \in Threads : u # t => call'[u] = call[u]
    <2>1. c \in Calls
      BY <1>b DEF Calls
    <2>2. call' = [call EXCEPT ![t] = c] /\ call \in [Threads -> Calls]
      BY <1>a DEF DestroySurface, TypeOK
    <2> QED
      BY <1>b, <2>1, <2>2
  <1>4. TypeOK'
    BY <1>a, <1>1, <1>2, <1>3 DEF TypeOK
  <1>5. CallsInv'
    <2>1. \A u, v \in Threads : call'[u].op = "destroy" /\ call'[v].op # "idle" /\ u # v =>
            call'[u].s # call'[v].s
      BY <1>a, <1>b, <1>1, <1>3 DEF CallsInv, InUse
    <2> QED
      BY <1>a, <1>b, <1>1, <1>3, <2>1 DEF CallsInv, SingleThreaded
  <1>6. SlotsInv' /\ CapacityInv'
    BY <1>a, <1>1 DEF SlotsInv, CapacityInv, ListsCoverSurfaces, AllCovered, LostSlots,
                      SingleThreaded
  <1>7. EntriesInv'
    <2> SUFFICES ASSUME ~env.app_allocator, NEW e \in icd_terms, Steady(e) PROVE DriverSound(e)'
      BY <1>1 DEF EntriesInv, Steady, SingleThreaded
    <2>1. DriverSound(e)
      BY <1>a DEF EntriesInv
    <2>2. \A j : DestroyingAt(j) => DestroyingAt(j)'
      BY <1>1, <1>3 DEF DestroyingAt, Destroying, Idle
    <2>3. DestroyingAt(surface[s])'
      BY <1>b, <1>1, <1>3 DEF DestroyingAt, Destroying
    <2>4. ~DestroyingAt(surface[s])
      <3>1. \A r \in DOMAIN surface : surface[r] = surface[s] => r = s
        BY <1>a DEF SlotsInv
      <3>2. ~Destroying(s)
        BY <1>1 DEF Destroying, InUse
      <3> QED
        BY <3>1, <3>2 DEF DestroyingAt
    <2>5. \A u \in Threads : e \notin call'[u].moved
      BY <1>3, <2>1 DEF DriverSound
    <2>6. ASSUME NEW j \in DOMAIN surface_list[e], surface_list[e][j] # Null
          PROVE  surface_list[e][j] \in live'[e] \/ DestroyingAt(j)'
      <3>1. CASE j = surface[s]
        BY <1>1, <2>3, <3>1 DEF DestroyingAt
      <3>2. CASE j # surface[s] /\ surface_list[e][j] # Entry(e, surface[s])
        BY <1>2, <2>1, <2>2, <2>6, <3>2 DEF DriverSound
      <3>3. CASE j # surface[s] /\ surface_list[e][j] = Entry(e, surface[s])
                   /\ surface[s] \in DOMAIN surface_list[e]
        <4>1. surface_list[e][surface[s]] = surface_list[e][j]
          BY <3>3 DEF Entry
        <4>2. DestroyingAt(j)
          BY <2>1, <2>4, <2>6, <3>3, <4>1 DEF DriverSound
        <4> QED
          BY <2>2, <4>2
      <3>4. CASE surface[s] \notin DOMAIN surface_list[e]
                   /\ surface_list[e][j] = Entry(e, surface[s])
        <4>1. surface_list[e][j] = Garbage
          BY <3>4 DEF Entry
        <4>2. Garbage \notin live[e]
          BY <1>a, <1>b, HandlesDistinct DEF TypeOK
        <4> QED
          BY <2>1, <2>2, <2>6, <4>1, <4>2 DEF DriverSound
      <3> QED
        BY <3>1, <3>2, <3>3, <3>4
    <2> QED
      BY <1>1, <2>1, <2>2, <2>5, <2>6 DEF DriverSound
  <1>8. LeakInv'
    <2> SUFFICES ASSUME SingleThreaded PROVE LeakInv'
      BY <1>1 DEF LeakInv, SingleThreaded
    <2>1. \A u \in Threads : u # t => call'[u] = Idle
      BY <1>a, <1>1, <1>3, AloneIsIdle
    <2>2. NoSurfaceLeaked'
      <3>1. NoSurfaceLeaked
        BY <1>a DEF LeakInv
      <3> QED
        BY <1>b, <1>1, <1>2, <3>1 DEF NoSurfaceLeaked, Entry
    <2>3. \A u \in Threads : call'[u].op = "destroy" =>
            \A d \in icd_terms : Entry(d, surface[call'[u].s]) \notin live'[d]
      BY <1>2, <1>3, <2>1 DEF Idle
    <2>4. \A u \in Threads : call'[u].op # "query"
      BY <1>3, <2>1 DEF Idle
    <2> QED
      BY <1>1, <2>2, <2>3, <2>4 DEF LeakInv, Entry
  <1> QED
    BY <1>4, <1>5, <1>6, <1>7, <1>8 DEF IndInv

\* The entries are cleared, the slot is given back and the surface is gone.
LEMMA DestroyFinishedStep ==
    ASSUME IndInv, NEW t \in env.threads, DestroyFinished(t)
    PROVE  IndInv'
  <1>a. TypeOK /\ CallsInv /\ SlotsInv /\ CapacityInv /\ EntriesInv /\ LeakInv
    BY DEF IndInv
  <1>0. PICK s, i, moved : s = call[t].s /\ i = surface[s] /\ moved = call[t].moved
    OBVIOUS
  <1>1. /\ call[t].op = "destroy"
        /\ UNCHANGED <<icd_terms, live, env>>
        /\ call' = [call EXCEPT ![t] = Idle]
        /\ surfaces_list' = IF 0 \in moved THEN surfaces_list ELSE Released(surfaces_list, i)
        /\ surface' = [r \in DOMAIN surface \ {s} |-> surface[r]]
        /\ EntriesCleared(i, moved)
    BY <1>0 DEF DestroyFinished
  <1>2. /\ t \in Threads /\ call' \in [Threads -> Calls] /\ call'[t] = Idle
        /\ \A u \in Threads : u # t => call'[u] = call[u]
    BY <1>a, <1>1, CallEnds
  <1>3. /\ s \in DOMAIN surface
        /\ DOMAIN surface' = DOMAIN surface \ {s}
        /\ \A r \in DOMAIN surface' : surface'[r] = surface[r] /\ surface[r] # i
    BY <1>a, <1>0, <1>1, <1>2 DEF CallsInv, SlotsInv
  <1>4. /\ surfaces_list' \in Lists(BOOLEAN) /\ DOMAIN surfaces_list' = DOMAIN surfaces_list
        /\ \A j \in DOMAIN surfaces_list : j # i => surfaces_list'[j] = surfaces_list[j]
        /\ 0 \notin moved => \A j \in DOMAIN surfaces_list : surfaces_list'[j] => j # i
    <2>1. surfaces_list \in Lists(BOOLEAN)
      BY <1>a DEF TypeOK
    <2>2. /\ Released(surfaces_list, i) \in Lists(BOOLEAN)
          /\ DOMAIN Released(surfaces_list, i) = DOMAIN surfaces_list
          /\ \A j \in DOMAIN surfaces_list :
               Released(surfaces_list, i)[j] = (surfaces_list[j] /\ j # i)
      BY <2>1, ReleasedFacts
    <2>3. \A j \in DOMAIN surfaces_list : surfaces_list[j] \in BOOLEAN
      BY <2>1, ListFacts
    <2> QED
      BY <1>1, <2>1, <2>2, <2>3
  <1>5. /\ surface_list' \in [Drivers -> Lists(Values)]
        /\ \A d \in Drivers :
             /\ DOMAIN surface_list'[d] = DOMAIN surface_list[d]
             /\ Capacity(surface_list'[d]) = Capacity(surface_list[d])
             /\ surface_list'[d] = Empty <=> surface_list[d] = Empty
             /\ \A j \in DOMAIN surface_list[d] : j # i => surface_list'[d][j] = surface_list[d][j]
             /\ d \in icd_terms \ moved /\ i \in DOMAIN surface_list[d] => surface_list'[d][i] = Null
    <2>1. DOMAIN surface_list' = Drivers /\ surface_list' = [d \in Drivers |-> surface_list'[d]]
      BY <1>1 DEF EntriesCleared
    <2>2. ASSUME NEW d \in Drivers
          PROVE  /\ surface_list'[d] \in Lists(Values)
                 /\ DOMAIN surface_list'[d] = DOMAIN surface_list[d]
                 /\ Capacity(surface_list'[d]) = Capacity(surface_list[d])
                 /\ surface_list'[d] = Empty <=> surface_list[d] = Empty
                 /\ \A j \in DOMAIN surface_list[d] : j # i => surface_list'[d][j] = surface_list[d][j]
                 /\ d \in icd_terms \ moved /\ i \in DOMAIN surface_list[d] =>
                      surface_list'[d][i] = Null
      <3>1. surface_list[d] \in Lists(Values)
        BY <1>a, TypeFacts
      <3>2. CASE d \in icd_terms \ moved /\ i \in DOMAIN surface_list[d]
        <4> DEFINE l == [surface_list[d] EXCEPT ![i] = Null]
                   n == Capacity(surface_list[d])
        <4>1. surface_list[d] \in [Entries(n) -> Values] /\ n \in 0..MaxCapacity
          BY <3>1, ListFacts
        <4>2. l \in [Entries(n) -> Values]
          BY <4>1 DEF Values
        <4>3. l \in Lists(Values) /\ Capacity(l) = n
          <5> HIDE DEF l, n
          <5> QED
            BY <4>1, <4>2, MakeList
        <4>4. /\ DOMAIN l = DOMAIN surface_list[d] /\ l[i] = Null
              /\ \A j \in DOMAIN surface_list[d] : j # i => l[j] = surface_list[d][j]
          BY <3>2
        <4>5. l # Empty /\ surface_list[d] # Empty
          BY <3>2, <4>4 DEF Empty
        <4>6. surface_list'[d] = l
          BY <1>1, <3>2 DEF EntriesCleared
        <4> HIDE DEF l, n
        <4> QED
          BY <4>3, <4>4, <4>5, <4>6 DEF n
      <3>3. CASE ~(d \in icd_terms \ moved /\ i \in DOMAIN surface_list[d])
        <4>1. surface_list'[d] = surface_list[d]
          BY <1>1, <3>3 DEF EntriesCleared
        <4> QED
          BY <3>1, <3>3, <4>1
      <3> QED
        BY <3>2, <3>3
    <2> QED
      BY <2>1, <2>2
  <1>6. TypeOK'
    <2>1. surface' \in [DOMAIN surface \ {s} -> Entries(MaxCapacity)]
      BY <1>a, <1>1, TypeFacts
    <2>2. DOMAIN surface \ {s} \in SUBSET Handles
      BY <1>a, TypeFacts
    <2> QED
      BY <1>a, <1>1, <1>2, <1>4, <1>5, <2>1, <2>2 DEF TypeOK, Values
  <1>b. \A u \in Threads : u # t /\ call[u].op # "idle" => call[u].s # s
    BY <1>a, <1>0, <1>1, <1>2 DEF CallsInv
  <1>7. CallsInv'
    <2>1. \A u \in Threads : call'[u].op # "idle" => call'[u].s \in DOMAIN surface'
      BY <1>a, <1>b, <1>2, <1>3 DEF CallsInv, Idle
    <2>2. \A u \in Threads : call'[u].op = "query" =>
            /\ call'[u].d \in icd_terms
            /\ surface'[call'[u].s] \in DOMAIN surface_list'[call'[u].d]
      <3> SUFFICES ASSUME NEW u \in Threads, call'[u].op = "query"
                   PROVE  /\ call'[u].d \in icd_terms
                          /\ surface'[call'[u].s] \in DOMAIN surface_list'[call'[u].d]
        OBVIOUS
      <3>1. u # t /\ call'[u] = call[u]
        BY <1>2 DEF Idle
      <3>2. call[u].d \in icd_terms /\ surface[call[u].s] \in DOMAIN surface_list[call[u].d]
        BY <1>a, <3>1 DEF CallsInv
      <3>3. call[u].d \in Drivers
        BY <1>a, <3>2 DEF TypeOK
      <3>4. call[u].s \in DOMAIN surface'
        BY <2>1, <3>1
      <3> QED
        BY <1>3, <1>5, <3>1, <3>2, <3>3, <3>4
    <2>3. \A u, v \in Threads : call'[u].op = "destroy" /\ call'[v].op # "idle" /\ u # v =>
            call'[u].s # call'[v].s
      BY <1>a, <1>2 DEF CallsInv, Idle
    <2>4. \A u \in Threads : /\ u \notin env.threads => call'[u] = Idle
                             /\ SingleThreaded => call'[u].moved = {}
      BY <1>a, <1>2 DEF CallsInv, Idle
    <2> QED
      BY <1>1, <2>1, <2>2, <2>3, <2>4 DEF CallsInv, SingleThreaded
  <1>8. SlotsInv'
    <2>1. \A r \in DOMAIN surface' : surface'[r] \in DOMAIN surfaces_list' /\ surfaces_list'[surface'[r]]
      BY <1>a, <1>3, <1>4 DEF SlotsInv
    <2>2. \A q, r \in DOMAIN surface' : surface'[q] = surface'[r] => q = r
      BY <1>a, <1>3 DEF SlotsInv
    <2>3. ASSUME SingleThreaded, ~env.oom, NEW j \in LostSlots' PROVE FALSE
      <3>1. 0 \notin moved
        BY <1>a, <1>0, <1>2, <2>3 DEF CallsInv
      <3>2. j \in DOMAIN surfaces_list' /\ surfaces_list'[j] /\ \A r \in DOMAIN surface' : surface'[r] # j
        BY DEF LostSlots
      <3>3. j # i /\ j \in DOMAIN surfaces_list /\ surfaces_list[j]
        BY <1>4, <3>1, <3>2
      <3>4. \A r \in DOMAIN surface : surface[r] # j
        BY <1>0, <1>3, <3>2, <3>3
      <3>5. j \in LostSlots
        BY <3>3, <3>4 DEF LostSlots
      <3> QED
        BY <1>a, <2>3, <3>5 DEF SlotsInv
    <2> QED
      BY <1>1, <2>1, <2>2, <2>3 DEF SlotsInv, SingleThreaded
  <1>9. CapacityInv'
    <2>1. ASSUME NEW j \in LostSlots PROVE j \in LostSlots'
      <3>1. j \in DOMAIN surfaces_list /\ surfaces_list[j] /\ \A r \in DOMAIN surface : surface[r] # j
        BY DEF LostSlots
      <3>2. j # i
        BY <1>0, <1>3, <3>1
      <3> QED
        BY <1>3, <1>4, <3>1, <3>2 DEF LostSlots
    <2>2. AllCovered => AllCovered'
      BY <1>a, <1>1, <1>3, <1>5 DEF AllCovered, TypeOK
    <2>3. LostSlots \subseteq LostSlots'
      BY <2>1
    <2>4. ListsCoverSurfaces'
      BY <1>a, <1>6, <2>2, <2>3, CoverKept DEF CapacityInv
    <2> QED
      BY <1>a, <1>5, <2>4 DEF CapacityInv
  <1>10. EntriesInv'
    <2> SUFFICES ASSUME ~env.app_allocator, NEW e \in icd_terms, Steady(e) PROVE DriverSound(e)'
      BY <1>a, <1>1, <1>5 DEF EntriesInv, Steady, SingleThreaded, TypeOK
    <2>1. DriverSound(e) /\ e \in Drivers
      BY <1>a DEF EntriesInv, TypeOK
    <2>2. e \notin moved
      BY <1>0, <1>2, <2>1 DEF DriverSound
    <2>3. ASSUME NEW j, j # i, DestroyingAt(j) PROVE DestroyingAt(j)'
      <3>1. PICK r \in DOMAIN surface : surface[r] = j /\ Destroying(r)
        BY <2>3 DEF DestroyingAt
      <3>2. PICK u \in Threads : call[u].op = "destroy" /\ call[u].s = r
        BY <3>1 DEF Destroying
      <3>3. r # s
        BY <1>0, <2>3, <3>1
      <3>4. u # t
        BY <1>0, <3>2, <3>3
      <3>5. r \in DOMAIN surface' /\ surface'[r] = j
        BY <1>3, <3>1, <3>3
      <3>6. call'[u].op = "destroy" /\ call'[u].s = r
        BY <1>2, <3>2, <3>4
      <3> QED
        BY <3>5, <3>6 DEF DestroyingAt, Destroying
    <2>4. \A u \in Threads : e \notin call'[u].moved
      BY <1>2, <2>1 DEF DriverSound, Idle
    <2>5. ASSUME NEW j \in DOMAIN surface_list'[e], surface_list'[e][j] # Null
          PROVE  /\ \E r \in DOMAIN surface' : surface'[r] = j
                 /\ surface_list'[e][j] \in live'[e] \/ DestroyingAt(j)'
                 /\ \A k \in DOMAIN surface_list'[e] :
                      k # j /\ surface_list'[e][k] = surface_list'[e][j] =>
                        DestroyingAt(j)' \/ DestroyingAt(k)'
      <3>1. /\ j # i /\ j \in DOMAIN surface_list[e] /\ surface_list'[e][j] = surface_list[e][j]
        BY <1>5, <2>1, <2>2, <2>5
      <3>2. \A k \in DOMAIN surface_list'[e] : surface_list'[e][k] = surface_list'[e][j] =>
              k # i /\ k \in DOMAIN surface_list[e] /\ surface_list'[e][k] = surface_list[e][k]
        BY <1>5, <2>1, <2>2, <2>5
      <3>3. \E r \in DOMAIN surface' : surface'[r] = j
        BY <1>0, <1>3, <2>1, <2>5, <3>1 DEF DriverSound
      <3>4. surface_list'[e][j] \in live'[e] \/ DestroyingAt(j)'
        BY <1>1, <2>1, <2>3, <2>5, <3>1 DEF DriverSound
      <3>5. ASSUME NEW k \in DOMAIN surface_list'[e], k # j,
                   surface_list'[e][k] = surface_list'[e][j]
            PROVE  DestroyingAt(j)' \/ DestroyingAt(k)'
        BY <2>1, <2>3, <2>5, <3>1, <3>2, <3>5 DEF DriverSound
      <3> QED
        BY <3>3, <3>4, <3>5
    <2> QED
      BY <2>4, <2>5 DEF DriverSound
  <1>11. LeakInv'
    <2> SUFFICES ASSUME SingleThreaded PROVE LeakInv'
      BY <1>1 DEF LeakInv, SingleThreaded
    <2>1. NoSurfaceLeaked /\ \A d \in icd_terms : Entry(d, i) \notin live[d]
      BY <1>a, <1>0, <1>1, <1>2 DEF LeakInv
    <2>2. \A u \in Threads : call'[u] = Idle
      <3>1. \A u \in Threads : u # t => call[u] = Idle
        BY <1>a DEF CallsInv, SingleThreaded
      <3> QED
        BY <1>2, <3>1
    <2>3. ASSUME NEW e \in icd_terms, NEW g \in live[e]
          PROVE  \E r \in DOMAIN surface' : Entry(e, surface[r])' = g
      <3>1. e \in Drivers /\ g # Garbage
        BY <1>a, HandlesDistinct DEF TypeOK
      <3>2. PICK r \in DOMAIN surface : Entry(e, surface[r]) = g
        BY <2>1 DEF NoSurfaceLeaked
      <3>3. surface[r] # i /\ r # s
        BY <1>0, <2>1, <3>2
      <3>4. surface[r] \in DOMAIN surface_list[e] /\ surface_list[e][surface[r]] = g
        BY <3>1, <3>2 DEF Entry
      <3>5. /\ r \in DOMAIN surface' /\ surface'[r] = surface[r]
            /\ surface[r] \in DOMAIN surface_list'[e] /\ surface_list'[e][surface[r]] = g
        BY <1>3, <1>5, <3>1, <3>3, <3>4
      <3> QED
        BY <3>5 DEF Entry
    <2> QED
      BY <1>1, <2>1, <2>2, <2>3 DEF LeakInv, NoSurfaceLeaked, Idle
  <1> QED
    BY <1>6, <1>7, <1>8, <1>9, <1>10, <1>11 DEF IndInv

-----------------------------------------------------------------------------
(* The destruction of a driver's instance                                  *)

\* What a driver that is unloaded held is gone, and its list with it.
LEMMA UnloadDriverStep ==
    ASSUME IndInv, NEW d \in icd_terms, UnloadDriver(d)
    PROVE  IndInv'
  <1>a. TypeOK /\ CallsInv /\ SlotsInv /\ CapacityInv /\ EntriesInv /\ LeakInv
    BY DEF IndInv
  <1>b. d \in Drivers /\ icd_terms \subseteq Drivers
    BY <1>a DEF TypeOK
  <1>1. /\ \A t \in Threads : call[t] = Idle
        /\ icd_terms' = icd_terms \ {d}
        /\ UNCHANGED <<surfaces_list, surface, call, env>>
    BY DEF UnloadDriver
  <1>2. /\ live' \in [Drivers -> SUBSET DriverHandles]
        /\ live'[d] = live[d] \ {surface_list[d][i] : i \in Closable(d)}
        /\ \A e \in Drivers : e # d => live'[e] = live[e]
    BY <1>a, <1>b DEF UnloadDriver, TypeOK
  <1>3. /\ surface_list' \in [Drivers -> Lists(Values)]
        /\ surface_list'[d] = Empty
        /\ \A e \in Drivers : e # d => surface_list'[e] = surface_list[e]
    <2>1. Empty \in Lists(Values)
      BY EmptyFacts
    <2> QED
      BY <1>a, <1>b, <2>1 DEF UnloadDriver, TypeOK, Values
  <1>4. TypeOK'
    BY <1>a, <1>1, <1>2, <1>3 DEF TypeOK, Values
  <1>5. CallsInv'
    <2>1. \A t \in Threads : call'[t] = Idle /\ call'[t].op = "idle" /\ call'[t].moved = {}
      BY <1>1 DEF Idle
    <2> QED
      BY <2>1 DEF CallsInv
  <1>6. SlotsInv'
    BY <1>a, <1>1 DEF SlotsInv, LostSlots, SingleThreaded
  <1>7. CapacityInv'
    <2>1. LostSlots' = LostSlots /\ (AllCovered => AllCovered')
      BY <1>b, <1>1, <1>3 DEF LostSlots, AllCovered
    <2> QED
      BY <1>a, <1>3, <2>1 DEF CapacityInv, ListsCoverSurfaces
  <1>8. EntriesInv'
    <2> SUFFICES ASSUME ~env.app_allocator, NEW e \in icd_terms', Steady(e)' PROVE DriverSound(e)'
      BY <1>1 DEF EntriesInv
    <2>1. /\ e \in icd_terms /\ e # d /\ surface_list'[e] = surface_list[e] /\ live'[e] = live[e]
      BY <1>b, <1>1, <1>2, <1>3
    <2>2. Steady(e)
      BY <1>1, <2>1 DEF Steady, SingleThreaded
    <2>3. DriverSound(e)
      BY <1>a, <2>1, <2>2 DEF EntriesInv
    <2>4. \A j : DestroyingAt(j)' <=> DestroyingAt(j)
      BY <1>1 DEF DestroyingAt, Destroying
    <2> QED
      BY <1>1, <2>1, <2>3, <2>4 DEF DriverSound
  <1>9. LeakInv'
    <2> SUFFICES ASSUME SingleThreaded PROVE LeakInv'
      BY <1>1 DEF LeakInv, SingleThreaded
    <2>1. NoSurfaceLeaked
      BY <1>a DEF LeakInv
    <2>2. ASSUME NEW h \in live'[d] PROVE FALSE
      <3>1. h \in live[d] /\ h # Garbage
        BY <1>a, <1>b, <1>2, HandlesDistinct DEF TypeOK
      <3>2. PICK s \in DOMAIN surface : Entry(d, surface[s]) = h
        BY <2>1, <3>1 DEF NoSurfaceLeaked
      <3>3. surface[s] \in DOMAIN surface_list[d] /\ surface_list[d][surface[s]] = h
        BY <3>1, <3>2 DEF Entry
      <3>4. surface[s] \in Closable(d)
        BY <1>a, <3>3 DEF Closable, SlotsInv
      <3> QED
        BY <1>2, <3>3, <3>4
    <2>3. \A e \in icd_terms' : \A h \in live'[e] :
            \E s \in DOMAIN surface' : Entry(e, surface[s])' = h
      BY <1>b, <1>1, <1>2, <1>3, <2>1 DEF NoSurfaceLeaked, Entry
    <2>4. \A e \in Drivers \ icd_terms' : live'[e] = {}
      BY <1>1, <1>2, <2>1, <2>2 DEF NoSurfaceLeaked
    <2> QED
      BY <1>1, <2>3, <2>4 DEF LeakInv, NoSurfaceLeaked, Idle
  <1> QED
    BY <1>4, <1>5, <1>6, <1>7, <1>8, <1>9 DEF IndInv

-----------------------------------------------------------------------------
(* The theorems                                                            *)

\* Every state of every behaviour satisfies the inductive invariant.
THEOREM Inductive == Spec => []IndInv
  <1>1. Init => IndInv
    <2> SUFFICES ASSUME Init PROVE IndInv
      OBVIOUS
    <2>1. /\ surfaces_list = Empty /\ surface = Empty /\ icd_terms = Drivers
          /\ surface_list = [d \in Drivers |-> Empty] /\ live = [d \in Drivers |-> {}]
          /\ call = [t \in Threads |-> Idle] /\ env \in Environments
      BY DEF Init
    <2>2. Empty \in Lists(BOOLEAN) /\ Empty \in Lists(Values) /\ DOMAIN Empty = {}
      BY EmptyFacts
    <2>3. Empty \in [{} -> Entries(MaxCapacity)]
      BY DEF Empty
    <2>4. TypeOK
      BY <2>1, <2>2, <2>3 DEF TypeOK, Calls, Values
    <2>5. CallsInv /\ SlotsInv
      BY <2>1, <2>2 DEF CallsInv, SlotsInv, Idle, LostSlots
    <2>6. CapacityInv /\ EntriesInv
      BY <2>1, <2>2 DEF CapacityInv, ListsCoverSurfaces, AllCovered, EntriesInv, DriverSound, Idle
    <2>7. LeakInv
      BY <2>1 DEF LeakInv, NoSurfaceLeaked, Idle
    <2> QED
      BY <2>4, <2>5, <2>6, <2>7 DEF IndInv
  <1>2. IndInv /\ [Next]_vars => IndInv'
    <2> SUFFICES ASSUME IndInv, [Next]_vars PROVE IndInv'
      OBVIOUS
    <2>1. ASSUME NEW t \in env.threads, CreateSurface(t) PROVE IndInv'
      BY <2>1, CreateSurfaceStep
    <2>2. CASE UNCHANGED vars
      <3>1. UNCHANGED <<icd_terms, surfaces_list, surface, surface_list, live, call, env>>
        BY <2>2 DEF vars
      <3>2. TypeOK' /\ CallsInv'
        BY <3>1 DEF IndInv, TypeOK, CallsInv, SingleThreaded
      <3>3. SlotsInv' /\ CapacityInv'
        BY <3>1 DEF IndInv, SlotsInv, CapacityInv, ListsCoverSurfaces, AllCovered, LostSlots,
                    SingleThreaded
      <3>4. EntriesInv'
        BY <3>1 DEF IndInv, EntriesInv, Steady, DriverSound, DestroyingAt, Destroying, SingleThreaded
      <3>5. LeakInv'
        BY <3>1 DEF IndInv, LeakInv, NoSurfaceLeaked, Entry, SingleThreaded
      <3> QED
        BY <3>2, <3>3, <3>4, <3>5 DEF IndInv
    <2>3. ASSUME NEW t \in env.threads, CreateNoSlot(t) PROVE IndInv'
      BY <2>2, <2>3 DEF CreateNoSlot
    <2>4. ASSUME NEW t \in env.threads, CreateOutOfMemory(t) PROVE IndInv'
      BY <2>4, CreateOutOfMemoryStep
    <2>5. ASSUME NEW t \in env.threads, CreateCopyFails(t) PROVE IndInv'
      BY <2>5, CreateCopyFailsStep
    <2>6. ASSUME NEW t \in env.threads, NEW s \in DOMAIN surface, NEW d \in icd_terms,
                 QueryCreates(t, s, d)
          PROVE  IndInv'
      BY <2>6, QueryCreatesStep
    <2>7. ASSUME NEW t \in env.threads, QueryCreated(t) PROVE IndInv'
      BY <2>7, QueryCreatedStep
    <2>8. ASSUME NEW t \in env.threads, QueryFails(t) PROVE IndInv'
      BY <2>8, QueryFailsStep
    <2>9. ASSUME NEW t \in env.threads, NEW s \in DOMAIN surface, DestroySurface(t, s)
          PROVE  IndInv'
      BY <2>9, DestroySurfaceStep
    <2>10. ASSUME NEW t \in env.threads, DestroyFinished(t) PROVE IndInv'
      BY <2>10, DestroyFinishedStep
    <2>11. ASSUME NEW d \in icd_terms, UnloadDriver(d) PROVE IndInv'
      BY <2>11, UnloadDriverStep
    <2> QED
      BY <2>1, <2>2, <2>3, <2>4, <2>5, <2>6, <2>7, <2>8, <2>9, <2>10, <2>11 DEF Next
  <1> QED
    BY <1>1, <1>2, PTL DEF Spec

\* For any number of threads and drivers and lists of any size: no two surfaces
\* share a slot, every surface's slot is in use, and without overlapping calls
\* and without running out of memory no slot is lost (loader_get_next_available_entry,
\* terminator_DestroySurfaceKHR).
THEOREM SlotsOwnedHolds == Spec => []SlotsOwned
  <1>1. IndInv => SlotsOwned
    BY DEF IndInv, SlotsInv, SlotsOwned
  <1> QED
    BY <1>1, Inductive, PTL

\* Every driver's list has an entry for every surface, as long as fewer slots
\* are lost than a new list has (allocate_icd_surface_struct, which doubles a
\* list once and does not look whether that was enough).
THEOREM ListsCoverSurfacesHolds == Spec => []ListsCoverSurfaces
  <1>1. IndInv => ListsCoverSurfaces
    BY DEF IndInv, CapacityInv
  <1> QED
    BY <1>1, Inductive, PTL

\* A handle in a driver's list is one of that driver's living surfaces, or its
\* surface is being destroyed (wsi_unwrap_icd_surface,
\* terminator_DestroySurfaceKHR).
THEOREM EntriesLiveHolds == Spec => []EntriesLive
  <1>1. ASSUME IndInv PROVE EntriesLive
    <2> SUFFICES ASSUME ~env.app_allocator, SingleThreaded \/ NeverGrown,
                        NEW d \in icd_terms, NEW i \in DOMAIN surface_list[d]
                 PROVE  \/ surface_list[d][i] \in {Null} \cup live[d]
                        \/ \E s \in DOMAIN surface : surface[s] = i /\ Destroying(s)
      BY DEF EntriesLive
    <2>1. Steady(d)
      BY <1>1 DEF Steady, NeverGrown, IndInv, TypeOK
    <2>2. DriverSound(d)
      BY <1>1, <2>1 DEF IndInv, EntriesInv
    <2> QED
      BY <2>2 DEF DriverSound, DestroyingAt
  <1> QED
    BY <1>1, Inductive, PTL

\* For an application whose calls do not overlap, no driver holds a surface that
\* the loader lost track of, and none when its instance is destroyed
\* (loader_icd_close_objects).
THEOREM NothingLeakedHolds == Spec => []NothingLeaked
  <1>1. IndInv => NothingLeaked
    BY DEF IndInv, LeakInv, NothingLeaked
  <1> QED
    BY <1>1, Inductive, PTL
=============================================================================
