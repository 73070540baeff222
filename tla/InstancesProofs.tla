--------------------------- MODULE InstancesProofs ---------------------------
(***************************************************************************)
(* For any number of drivers, instances and preloaded libraries, and any   *)
(* environment: libraries and driver instances have exactly one owner, and *)
(* loader.instances lists what exists.                                     *)
(***************************************************************************)
EXTENDS Instances, FiniteSetTheorems, TLAPS

-----------------------------------------------------------------------------
(* The inductive invariant                                                 *)

Listed(a) == \E i \in DOMAIN instances : instances[i] = a
AtHead(a) == instances # <<>> /\ instances[1] = a

\* A driver has an icd_term only if its library is in icd_tramp_list.
TermsScanned == \A a \in DOMAIN inst : DOMAIN inst[a].icd_terms \subseteq inst[a].scanned

\* Only the creation under way, after it ran out of memory, has an icd_term
\* without an instance.
NullTerms ==
    \A a \in DOMAIN inst : \A d \in DOMAIN inst[a].icd_terms :
        inst[a].icd_terms[d] = None =>
            a = Self /\ At("terminator") /\ creating.res # "success" /\ creating.todo = {}

\* What a creation has done when it reaches each phase.
PhaseInv ==
    /\ At("begin") => inst[Self].scanned = {}
    /\ creating.phase \in {"begin", "scanned", "linked"} =>
         inst[Self].icd_terms = NoTerms /\ creating.made = {} /\ creating.res = "success"
    /\ creating.phase \in {"begin", "scanned"} => ~Listed(Self)
    /\ creating.phase \in {"linked", "terminator", "back"} => AtHead(Self)
    /\ At("returned") => AtHead(Self) \/ (~Listed(Self) /\ creating.res # "success")
    /\ At("terminator") => creating.todo \subseteq inst[Self].scanned \ DOMAIN inst[Self].icd_terms

\* While the terminator's loop runs, in the environments OneDriverSuffices is about.
LoopInv ==
    At("terminator") /\ env \cap {"oom", "extensions"} = {} =>
        creating.res = "success" /\ DOMAIN inst[Self].icd_terms = creating.made

IndInv == /\ TypeOK /\ LibrariesOwned /\ TermsScanned /\ InstancesListed
          /\ NullTerms /\ PhaseInv /\ LoopInv /\ OneDriverSuffices /\ NoInstanceLost

-----------------------------------------------------------------------------
(* Types                                                                   *)

\* A creation under way.
Busy == [a : DOMAIN inst, phase : Phases, todo : SUBSET Drivers, res : Results,
         forced : BOOLEAN, made : SUBSET Drivers]

LEMMA TermsType ==
    ASSUME NEW t
    PROVE  t \in Terms <=> /\ DOMAIN t \subseteq Drivers
                           /\ t \in [DOMAIN t -> DriverInstances \cup {None}]
  BY DEF Terms

LEMMA NoTermsType == NoTerms \in Terms /\ DOMAIN NoTerms = {}
  <1>1. DOMAIN NoTerms = {} /\ NoTerms \in [{} -> DriverInstances \cup {None}]
    BY DEF NoTerms
  <1> QED
    BY <1>1, TermsType

\* An instance that has no icd_term has no icd_terms.
LEMMA EmptyTerms ==
    ASSUME NEW t \in Terms
    PROVE  t = NoTerms <=> DOMAIN t = {}
  BY TermsType DEF NoTerms

LEMMA InstType ==
    ASSUME TypeOK
    PROVE  /\ DOMAIN inst \subseteq InstanceAddr
           /\ inst \in [DOMAIN inst -> Instance]
           /\ \A a \in DOMAIN inst :
                /\ inst[a].scanned \subseteq Drivers
                /\ inst[a].icd_terms \in Terms
  BY DEF TypeOK, Instance

LEMMA CreatingType ==
    ASSUME TypeOK
    PROVE  /\ LockFree <=> At("none")
           /\ LockFree <=> Self \notin DOMAIN inst
           /\ LockFree => Self = None
           /\ ~LockFree => creating \in Busy
  <1>1. CASE creating = NotCreating
    BY <1>1, InstType, NamesDistinct DEF NotCreating, LockFree, At, Self
  <1>2. CASE creating \in Busy
    BY <1>2 DEF NotCreating, LockFree, At, Self, Busy, Phases
  <1> QED
    BY <1>1, <1>2 DEF TypeOK, Busy

LEMMA WithTerms ==
    ASSUME NEW t \in Terms, NEW d \in Drivers, NEW v \in DriverInstances \cup {None}
    PROVE  /\ With(t, d, v) \in Terms
           /\ DOMAIN With(t, d, v) = DOMAIN t \cup {d}
           /\ With(t, d, v)[d] = v
           /\ \A e \in DOMAIN t \ {d} : With(t, d, v)[e] = t[e]
  <1>1. DOMAIN With(t, d, v) = DOMAIN t \cup {d}
    BY DEF With
  <1>2. With(t, d, v) \in [DOMAIN t \cup {d} -> DriverInstances \cup {None}]
    BY TermsType DEF With
  <1> QED
    BY <1>1, <1>2, TermsType DEF With

LEMMA WithoutTerms ==
    ASSUME NEW t \in Terms, NEW d
    PROVE  /\ Without(t, d) \in Terms
           /\ DOMAIN Without(t, d) = DOMAIN t \ {d}
           /\ \A e \in DOMAIN t \ {d} : Without(t, d)[e] = t[e]
  <1>1. DOMAIN Without(t, d) = DOMAIN t \ {d}
    BY DEF Without
  <1>2. Without(t, d) \in [DOMAIN t \ {d} -> DriverInstances \cup {None}]
    BY TermsType DEF Without
  <1> QED
    BY <1>1, <1>2, TermsType DEF Without

\* Removing one entry of a list.
LEMMA UnlinkedList ==
    ASSUME NEW S, NEW list \in Seq(S), NEW i \in DOMAIN list
    PROVE  /\ Unlinked(list, i) \in Seq(S)
           /\ Len(Unlinked(list, i)) = Len(list) - 1
           /\ \A j \in DOMAIN list \ {i} : \E k \in DOMAIN Unlinked(list, i) :
                Unlinked(list, i)[k] = list[j]
           /\ \A j \in DOMAIN Unlinked(list, i) : \E k \in DOMAIN list \ {i} :
                Unlinked(list, i)[j] = list[k]
           /\ (\A j, k \in DOMAIN list : list[j] = list[k] => j = k) =>
                \A j, k \in DOMAIN Unlinked(list, i) :
                    Unlinked(list, i)[j] = Unlinked(list, i)[k] => j = k
  <1> DEFINE n == Len(list)
             u == Unlinked(list, i)
  <1>1. n \in Nat /\ DOMAIN list = 1..n /\ i \in 1..n /\ n - 1 \in Nat
        /\ \A j \in 1..n : list[j] \in S
    OBVIOUS
  <1>2. DOMAIN u = 1..(n - 1) /\ \A j \in 1..(n - 1) : u[j] = IF j < i THEN list[j] ELSE list[j + 1]
    BY DEF Unlinked
  <1>3. u \in [1..(n - 1) -> S]
    BY <1>1 DEF Unlinked
  <1> HIDE DEF u, n
  <1>4. u \in Seq(S) /\ Len(u) = n - 1
    <2>1. ASSUME NEW m \in Nat, u \in [1..m -> S]
          PROVE  u \in Seq(S) /\ Len(u) = m
      BY <2>1
    <2> QED
      BY <1>1, <1>3, <2>1
  <1>5. ASSUME NEW j \in DOMAIN list \ {i}
        PROVE  \E k \in DOMAIN u : u[k] = list[j]
    <2>1. CASE j < i
      BY <1>1, <1>2, <2>1
    <2>2. CASE j > i
      <3>1. j - 1 \in 1..(n - 1) /\ ~(j - 1 < i) /\ (j - 1) + 1 = j
        BY <1>1, <2>2
      <3> QED
        BY <1>2, <3>1
    <2> QED
      BY <1>1, <2>1, <2>2
  <1>6. ASSUME NEW j \in DOMAIN u
        PROVE  \E k \in DOMAIN list \ {i} : u[j] = list[k]
    <2>1. CASE j < i
      BY <1>1, <1>2, <2>1
    <2>2. CASE ~(j < i)
      <3>1. j + 1 \in (1..n) \ {i}
        BY <1>1, <1>2, <2>2
      <3> QED
        BY <1>1, <1>2, <2>2, <3>1
    <2> QED
      BY <2>1, <2>2
  <1>7. ASSUME \A j, k \in DOMAIN list : list[j] = list[k] => j = k,
               NEW j \in DOMAIN u, NEW k \in DOMAIN u, u[j] = u[k]
        PROVE  j = k
    <2> DEFINE at(x) == IF x < i THEN x ELSE x + 1
    <2>1. \A x \in DOMAIN u : at(x) \in DOMAIN list /\ u[x] = list[at(x)]
      BY <1>1, <1>2
    <2>2. at(j) = at(k)
      BY <1>7, <2>1
    <2> QED
      BY <1>1, <1>2, <2>2
  <1> QED
    BY <1>4, <1>5, <1>6, <1>7 DEF u, n

\* The entry of preloaded_icds that is unloaded leaves the list, and the others
\* stay, each once.
LEMMA CondensedList ==
    ASSUME NEW list \in Seq(Drivers \cup {None}), NEW i \in DOMAIN list, list[i] # None,
           \A j, k \in DOMAIN list : list[j] = list[k] /\ list[j] # None => j = k
    PROVE  /\ Condensed(list, i) \in Seq(Drivers \cup {None})
           /\ Named(Condensed(list, i)) = Named(list) \ {list[i]}
           /\ \A j, k \in DOMAIN Condensed(list, i) :
                Condensed(list, i)[j] = Condensed(list, i)[k] /\ Condensed(list, i)[j] # None
                  => j = k
  <1> DEFINE n == Len(list)
             m == IF i > 1 THEN n - 1 ELSE n
             c == Condensed(list, i)
  <1>1. /\ n \in Nat /\ DOMAIN list = 1..n /\ i \in 1..n
        /\ m \in Nat /\ m <= n /\ (i > 1 => m = n - 1) /\ (i = 1 => m = n)
        /\ \A j \in 1..n : list[j] \in Drivers \cup {None}
        /\ \A j, k \in 1..n : list[j] = list[k] /\ list[j] # None => j = k
    OBVIOUS
  <1>2. c = [j \in 1..m |-> IF j = n THEN None ELSE IF j = i THEN list[n] ELSE list[j]]
    BY DEF Condensed
  <1> HIDE DEF c, m, n
  <1>3. DOMAIN c = 1..m
        /\ \A j \in 1..m : c[j] = IF j = n THEN None ELSE IF j = i THEN list[n] ELSE list[j]
    BY <1>2
  <1>4. c \in [1..m -> Drivers \cup {None}]
    BY <1>1, <1>2
  <1>5. c \in Seq(Drivers \cup {None})
    <2>1. ASSUME NEW k \in Nat, c \in [1..k -> Drivers \cup {None}]
          PROVE  c \in Seq(Drivers \cup {None})
      BY <2>1
    <2> QED
      BY <1>1, <1>4, <2>1
  <1>6. ASSUME NEW d, d # None, \E j \in 1..m : c[j] = d
        PROVE  d # list[i] /\ \E j \in 1..n : list[j] = d
    <2>1. PICK j \in 1..m : c[j] = d
      BY <1>6
    <2>2. j \in 1..n /\ j # n
      BY <1>1, <1>3, <1>6, <2>1
    <2>3. CASE j = i
      BY <1>1, <1>3, <1>6, <2>1, <2>2, <2>3
    <2>4. CASE j # i
      BY <1>1, <1>3, <1>6, <2>1, <2>2, <2>4
    <2> QED
      BY <2>3, <2>4
  <1>7. ASSUME NEW d, d # None, d # list[i], NEW j \in 1..n, list[j] = d
        PROVE  \E k \in 1..m : c[k] = d
    <2>1. j # i
      BY <1>7
    <2>2. CASE j # n
      <3>1. j \in 1..m
        BY <1>1, <2>2
      <3> QED
        BY <1>3, <1>7, <2>1, <2>2, <3>1
    <2>3. CASE j = n
      <3>1. i \in 1..m /\ i # n
        BY <1>1, <2>1, <2>3
      <3> QED
        BY <1>3, <1>7, <2>3, <3>1
    <2> QED
      BY <2>2, <2>3
  <1>8. Named(c) = Named(list) \ {list[i]}
    <2>1. \A d : d \in Named(c) <=> d # None /\ \E j \in 1..m : c[j] = d
      BY <1>3 DEF Named
    <2>2. \A d : d \in Named(list) <=> d # None /\ \E j \in 1..n : list[j] = d
      BY <1>1 DEF Named
    <2> QED
      BY <1>6, <1>7, <2>1, <2>2
  <1>9. ASSUME NEW j \in 1..m, NEW k \in 1..m, c[j] = c[k], c[j] # None
        PROVE  j = k
    <2>1. j # n /\ k # n /\ j \in 1..n /\ k \in 1..n
      BY <1>1, <1>3, <1>9
    <2>2. CASE j # i /\ k # i
      BY <1>1, <1>3, <1>9, <2>1, <2>2
    <2>3. CASE j = i \/ k = i
      BY <1>1, <1>3, <1>9, <2>1, <2>3
    <2> QED
      BY <2>2, <2>3
  <1> QED
    BY <1>3, <1>5, <1>8, <1>9 DEF c

LEMMA ScanOrderList ==
    ASSUME NEW S \in SUBSET Drivers, NEW q \in ScanOrder(S)
    PROVE  /\ q \in Seq(Drivers \cup {None})
           /\ Named(q) = S
           /\ \A j, k \in DOMAIN q : q[j] = q[k] => j = k
  <1>1. IsFiniteSet(S) /\ Cardinality(S) \in Nat
    <2>1. IsFiniteSet(Drivers)
      BY DriverCountAssumption, FS_Interval DEF Drivers
    <2> QED
      BY <2>1, FS_Subset, FS_CardinalityType
  <1> DEFINE n == Cardinality(S)
  <1>2. /\ q \in [1..n -> S] /\ \A a, b \in 1..n : q[a] = q[b] => a = b
        /\ \A t \in S : \E s \in 1..n : q[s] = t
    BY DEF ScanOrder, Bijection, Injection, Surjection, IsInjective
  <1> HIDE DEF n
  <1>3. q \in Seq(Drivers \cup {None})
    <2>1. ASSUME NEW k \in Nat, q \in [1..k -> S]
          PROVE  q \in Seq(Drivers \cup {None})
      BY <2>1
    <2> QED
      BY <1>1, <1>2, <2>1 DEF n
  <1>4. None \notin S
    BY NamesDistinct
  <1>5. Named(q) = S
    BY <1>2, <1>4 DEF Named
  <1> QED
    BY <1>2, <1>3, <1>5

-----------------------------------------------------------------------------
(* Every variable keeps its type                                           *)

\* TypeOK without creating.
StateType ==
    /\ \E A \in SUBSET InstanceAddr : inst \in [A -> Instance]
    /\ instances \in Seq(InstanceAddr)
    /\ preloaded \in Seq(Drivers \cup {None})
    /\ preload_made \in BOOLEAN
    /\ pending \in 0..MaxPending
    /\ opened \in [Drivers -> SUBSET (InstanceAddr \cup {Preload})]
    /\ live \in [Drivers -> SUBSET DriverInstances]
    /\ env \in Environments

LEMMA TypeSplit == TypeOK <=> StateType /\ (LockFree \/ creating \in Busy)
  BY DEF TypeOK, StateType, LockFree, Busy

LEMMA TypeSplitPrime == TypeOK' <=> StateType' /\ (LockFree' \/ (creating \in Busy)')
  BY DEF TypeOK, StateType, LockFree, Busy

\* The creation is at one of its phases, so it is under way.
LEMMA BusyPhase ==
    ASSUME TypeOK, NEW phase \in Phases, At(phase)
    PROVE  /\ ~LockFree /\ creating \in Busy /\ Self \in DOMAIN inst
           /\ creating.todo \subseteq Drivers /\ creating.res \in Results
           /\ creating.made \subseteq Drivers /\ creating.forced \in BOOLEAN
  <1>1. ~LockFree
    BY CreatingType DEF At, Phases
  <1>2. creating \in Busy
    BY <1>1, CreatingType
  <1> QED
    BY <1>1, <1>2 DEF Busy, Self

LEMMA GoesStep ==
    ASSUME TypeOK, ~LockFree, DOMAIN inst' = DOMAIN inst,
           NEW phase \in Phases, NEW res \in Results, Goes(phase, res)
    PROVE  /\ (creating \in Busy)'
           /\ creating' = [a |-> Self, phase |-> phase, todo |-> creating.todo, res |-> res,
                           forced |-> creating.forced, made |-> creating.made]
  <1>1. creating \in Busy
    BY CreatingType
  <1> QED
    BY <1>1 DEF Busy, Self, Goes

LEMMA VisitedStep ==
    ASSUME TypeOK, NEW d \in Drivers, Visiting(d), DOMAIN inst' = DOMAIN inst,
           NEW res \in Results, NEW forced \in BOOLEAN, NEW made \in SUBSET Drivers,
           Visited(d, res, forced, made)
    PROVE  /\ (creating \in Busy)'
           /\ creating' = [a |-> Self, phase |-> "terminator", todo |-> creating.todo \ {d},
                           res |-> res, forced |-> creating.forced \/ forced,
                           made |-> creating.made \cup made]
  <1>1. At("terminator") /\ "terminator" \in Phases
    BY DEF Visiting, Phases
  <1>2. creating \in Busy
    BY <1>1, BusyPhase
  <1> QED
    BY <1>1, <1>2 DEF Busy, Self, Visited, At

\* The loop is left for want of memory.
LEMMA LeftStep ==
    ASSUME TypeOK, NEW d \in Drivers, Visiting(d), DOMAIN inst' = DOMAIN inst,
           NEW res \in Results, creating' = [creating EXCEPT !.todo = {}, !.res = res]
    PROVE  /\ (creating \in Busy)'
           /\ creating' = [a |-> Self, phase |-> "terminator", todo |-> {}, res |-> res,
                           forced |-> creating.forced, made |-> creating.made]
  <1>1. At("terminator") /\ "terminator" \in Phases
    BY DEF Visiting, Phases
  <1>2. creating \in Busy
    BY <1>1, BusyPhase
  <1> QED
    BY <1>1, <1>2 DEF Busy, Self, At

LEMMA MemoryResults == OutOfMemory \subseteq Results \ {"success"}
  BY DEF OutOfMemory, Results

-----------------------------------------------------------------------------
(* Steps that change nothing but the state of the call                     *)

\* The part of the invariant that is about what exists, and the part that is
\* about where the creation is.
Core == LibrariesOwned /\ TermsScanned /\ InstancesListed /\ NoInstanceLost
Control == NullTerms /\ PhaseInv /\ LoopInv /\ OneDriverSuffices

LEMMA Parts == IndInv <=> TypeOK /\ Core /\ Control
  BY DEF IndInv, Core, Control

LEMMA PartsPrime == IndInv' <=> TypeOK' /\ Core' /\ Control'
  BY DEF IndInv, Core, Control

OnlyCreating == UNCHANGED <<inst, instances, preloaded, preload_made, pending, opened, live, env>>

LEMMA OnlyCreatingStep ==
    ASSUME IndInv, OnlyCreating, (creating \in Busy)', Self' = Self
    PROVE  TypeOK' /\ Core'
  <1>1. TypeOK'
    BY TypeSplit, TypeSplitPrime DEF IndInv, OnlyCreating, StateType
  <1>2. LibrariesOwned' /\ TermsScanned'
    BY DEF IndInv, OnlyCreating, LibrariesOwned, TermsScanned, Named
  <1>3. InstancesListed'
    BY DEF IndInv, OnlyCreating, InstancesListed
  <1>4. NoInstanceLost'
    BY DEF IndInv, OnlyCreating, NoInstanceLost, InstancesOwned
  <1> QED
    BY <1>1, <1>2, <1>3, <1>4 DEF Core

\* vkCreateInstance gives up before it reaches the terminator.
LEMMA GivesUpStep ==
    ASSUME IndInv, OnlyCreating, creating.phase \in {"begin", "scanned", "linked"},
           NEW res \in Results \ {"success"}, Goes("returned", res)
    PROVE  IndInv'
  <1>1. ~LockFree /\ Self \in DOMAIN inst
    BY BusyPhase DEF IndInv, At, Phases
  <1>2. /\ (creating \in Busy)'
        /\ creating' = [a |-> Self, phase |-> "returned", todo |-> creating.todo, res |-> res,
                        forced |-> creating.forced, made |-> creating.made]
    BY <1>1, GoesStep DEF IndInv, OnlyCreating, Phases
  <1>3. Self' = Self /\ creating'.phase = "returned" /\ creating'.res = res
    BY <1>2 DEF Self
  <1>4. TypeOK' /\ Core'
    BY <1>2, <1>3, OnlyCreatingStep
  <1>5. DOMAIN inst[Self].icd_terms = {}
    BY NoTermsType DEF IndInv, PhaseInv
  <1>6. NullTerms'
    BY <1>3, <1>5 DEF IndInv, OnlyCreating, NullTerms, At
  <1>7. PhaseInv'
    BY <1>3 DEF IndInv, OnlyCreating, PhaseInv, At, Listed, AtHead
  <1>8. LoopInv' /\ OneDriverSuffices'
    BY <1>3 DEF LoopInv, OneDriverSuffices, At
  <1> QED
    BY <1>4, <1>6, <1>7, <1>8, PartsPrime DEF Control

LEMMA CreateRefusedStep == IndInv /\ CreateRefused => IndInv'
  <1>1. ASSUME IndInv, CreateRefused, NEW r \in OutOfMemory \cup {"not_present"},
               Goes("returned", r)
        PROVE  IndInv'
    <2>1. r \in Results \ {"success"}
      BY MemoryResults DEF Results
    <2> QED
      BY <1>1, <2>1, GivesUpStep DEF CreateRefused, OnlyCreating, At
  <1> QED
    BY <1>1 DEF CreateRefused

LEMMA CreateInvalidStep == IndInv /\ CreateInvalid => IndInv'
  <1>1. ASSUME IndInv, CreateInvalid, NEW r \in OutOfMemory \cup {"not_present"},
               Goes("returned", r)
        PROVE  IndInv'
    <2>1. r \in Results \ {"success"}
      BY MemoryResults DEF Results
    <2> QED
      BY <1>1, <2>1, GivesUpStep DEF CreateInvalid, OnlyCreating, At
  <1> QED
    BY <1>1 DEF CreateInvalid

LEMMA CreateCallDownStep == IndInv /\ CreateCallDown => IndInv'
  <1> SUFFICES ASSUME IndInv, CreateCallDown PROVE IndInv'
    OBVIOUS
  <1> USE DEF OnlyCreating
  <1>1. OnlyCreating /\ At("linked")
    BY DEF CreateCallDown
  <1>2. CASE \E r \in OutOfMemory : Goes("returned", r)
    BY <1>1, <1>2, MemoryResults, GivesUpStep DEF At
  <1>3. CASE Goes("returned", "initialization_failed")
    BY <1>1, <1>3, GivesUpStep DEF At, Results
  <1>4. CASE creating' = [creating EXCEPT !.phase = "terminator", !.todo = inst[Self].scanned]
    <2>1. creating \in Busy /\ Self \in DOMAIN inst
      BY <1>1, BusyPhase DEF IndInv, Phases
    <2>2. /\ inst[Self].icd_terms = NoTerms /\ creating.made = {} /\ creating.res = "success"
          /\ AtHead(Self) /\ DOMAIN inst[Self].icd_terms = {}
      BY <1>1, NoTermsType DEF IndInv, PhaseInv, At
    <2>3. inst[Self].scanned \subseteq Drivers
      BY <2>1, InstType DEF IndInv
    <2>4. /\ (creating \in Busy)' /\ Self' = Self /\ creating'.phase = "terminator"
          /\ creating'.todo = inst[Self].scanned /\ creating'.res = "success"
          /\ creating'.made = {}
      BY <1>1, <1>4, <2>1, <2>2, <2>3 DEF Busy, Self, Phases
    <2>5. TypeOK' /\ Core'
      BY <1>1, <2>4, OnlyCreatingStep
    <2>6. NullTerms'
      BY <1>1, <2>2, <2>4 DEF IndInv, NullTerms, At
    <2>7. PhaseInv' /\ LoopInv' /\ OneDriverSuffices'
      BY <1>1, <2>2, <2>4 DEF PhaseInv, LoopInv, OneDriverSuffices, At, AtHead
    <2> QED
      BY <2>5, <2>6, <2>7, PartsPrime DEF Control
  <1> QED
    BY <1>2, <1>3, <1>4 DEF CreateCallDown

\* What the invariant says while the terminator's loop is at driver d.
LEMMA VisitingFacts ==
    ASSUME IndInv, NEW d \in Drivers, Visiting(d)
    PROVE  /\ creating \in Busy /\ Self \in DOMAIN inst /\ At("terminator")
           /\ d \in inst[Self].scanned /\ d \notin DOMAIN inst[Self].icd_terms
           /\ AtHead(Self) /\ inst[Self].icd_terms \in Terms
           /\ creating.todo \subseteq inst[Self].scanned \ DOMAIN inst[Self].icd_terms
           /\ \A e \in DOMAIN inst[Self].icd_terms : inst[Self].icd_terms[e] # None
  <1>1. At("terminator") /\ d \in creating.todo
    BY DEF Visiting
  <1>2. creating \in Busy /\ Self \in DOMAIN inst
    BY <1>1, BusyPhase DEF IndInv, Phases
  <1>3. AtHead(Self) /\ creating.todo \subseteq inst[Self].scanned \ DOMAIN inst[Self].icd_terms
    BY <1>1 DEF IndInv, PhaseInv, At
  <1>4. \A e \in DOMAIN inst[Self].icd_terms : inst[Self].icd_terms[e] # None
    BY <1>1, <1>2 DEF IndInv, NullTerms
  <1> QED
    BY <1>1, <1>2, <1>3, <1>4, InstType DEF IndInv

\* A driver is passed over.
LEMMA PassedOverStep ==
    ASSUME IndInv, NEW d \in Drivers, Visiting(d), OnlyCreating,
           NEW res \in Results, NEW forced \in BOOLEAN, Visited(d, res, forced, {}),
           res = "success" \/ "extensions" \in env
    PROVE  IndInv'
  <1>1. /\ (creating \in Busy)'
        /\ creating' = [a |-> Self, phase |-> "terminator", todo |-> creating.todo \ {d},
                        res |-> res, forced |-> creating.forced \/ forced,
                        made |-> creating.made \cup {}]
    BY VisitedStep DEF IndInv, OnlyCreating
  <1>2. /\ Self' = Self /\ creating'.phase = "terminator"
        /\ creating'.todo = creating.todo \ {d} /\ creating'.res = res
        /\ creating'.made = creating.made
    BY <1>1 DEF Self
  <1>3. TypeOK' /\ Core'
    BY <1>1, <1>2, OnlyCreatingStep
  <1>4. NullTerms'
    BY <1>2, VisitingFacts DEF IndInv, OnlyCreating, NullTerms, At
  <1>5. PhaseInv'
    BY <1>2, VisitingFacts DEF OnlyCreating, PhaseInv, At, AtHead
  <1>6. LoopInv'
    BY <1>2, VisitingFacts DEF IndInv, OnlyCreating, LoopInv, At
  <1>7. OneDriverSuffices'
    BY <1>2 DEF OneDriverSuffices, At
  <1> QED
    BY <1>3, <1>4, <1>5, <1>6, <1>7, PartsPrime DEF Control

LEMMA VisitNoExtensionsStep ==
    ASSUME IndInv, NEW d \in Drivers, VisitNoExtensions(d)
    PROVE  IndInv'
  BY PassedOverStep DEF VisitNoExtensions, OnlyCreating, Results

LEMMA VisitFailsStep ==
    ASSUME IndInv, NEW d \in Drivers, VisitFails(d)
    PROVE  IndInv'
  BY PassedOverStep DEF VisitFails, OnlyCreating, Results

LEMMA CreateComeBackStep == IndInv /\ CreateComeBack => IndInv'
  <1> SUFFICES ASSUME IndInv, CreateComeBack PROVE IndInv'
    OBVIOUS
  <1>1. At("back") /\ OnlyCreating
    BY DEF CreateComeBack, OnlyCreating
  <1>2. ~LockFree /\ Self \in DOMAIN inst /\ creating.res \in Results
    BY <1>1, BusyPhase DEF IndInv, Phases
  <1>3. PICK r \in Results : Goes("returned", r)
    BY <1>2, MemoryResults DEF CreateComeBack, Results
  <1>4. /\ (creating \in Busy)'
        /\ creating' = [a |-> Self, phase |-> "returned", todo |-> creating.todo, res |-> r,
                        forced |-> creating.forced, made |-> creating.made]
    BY <1>1, <1>2, <1>3, GoesStep DEF IndInv, OnlyCreating, Phases
  <1>5. Self' = Self /\ creating'.phase = "returned"
    BY <1>4 DEF Self
  <1>6. TypeOK' /\ Core'
    BY <1>1, <1>4, <1>5, OnlyCreatingStep
  <1>7. NullTerms'
    BY <1>1, <1>2, <1>5 DEF IndInv, OnlyCreating, NullTerms, At
  <1>8. PhaseInv' /\ LoopInv' /\ OneDriverSuffices'
    BY <1>1, <1>5 DEF IndInv, OnlyCreating, PhaseInv, LoopInv, OneDriverSuffices, At, AtHead
  <1> QED
    BY <1>6, <1>7, <1>8, PartsPrime DEF Control

\* Once no creation is under way nothing is left to say about phases.
LEMMA UnlockedControl ==
    ASSUME creating' = NotCreating, None \notin DOMAIN inst',
           \A a \in DOMAIN inst' : \A d \in DOMAIN inst'[a].icd_terms :
               inst'[a].icd_terms[d] # None
    PROVE  Control'
  <1>1. creating'.phase = "none" /\ Self' = None
    BY DEF NotCreating, Self
  <1>2. NullTerms' /\ PhaseInv' /\ LoopInv' /\ OneDriverSuffices'
    BY <1>1 DEF NullTerms, PhaseInv, LoopInv, OneDriverSuffices, At
  <1> QED
    BY <1>2 DEF Control

LEMMA CreateSucceedsStep == IndInv /\ CreateSucceeds => IndInv'
  <1> SUFFICES ASSUME IndInv, CreateSucceeds PROVE IndInv'
    OBVIOUS
  <1>1. /\ At("returned") /\ creating.res = "success" /\ creating' = NotCreating
        /\ OnlyCreating
    BY DEF CreateSucceeds, Unlock, OnlyCreating
  <1>2. LockFree' /\ Self' = None /\ Self \in DOMAIN inst
    BY <1>1, BusyPhase DEF IndInv, LockFree, Self, NotCreating, Phases
  <1>3. TypeOK'
    BY <1>1, <1>2, TypeSplit, TypeSplitPrime DEF IndInv, OnlyCreating, StateType
  <1>4. LibrariesOwned' /\ TermsScanned'
    BY <1>1 DEF IndInv, OnlyCreating, LibrariesOwned, TermsScanned, Named
  <1>5. \A a \in DOMAIN inst : \A d \in DOMAIN inst[a].icd_terms : inst[a].icd_terms[d] # None
    BY <1>1 DEF IndInv, NullTerms, At
  <1>6. InstancesListed'
    <2>1. AtHead(Self)
      BY <1>1 DEF IndInv, PhaseInv
    <2>2. Listed(Self)
      BY <2>1 DEF IndInv, TypeOK, AtHead, Listed
    <2> QED
      BY <1>1, <2>2 DEF IndInv, OnlyCreating, InstancesListed, Listed
  <1>7. NoInstanceLost'
    BY <1>1, <1>5 DEF IndInv, OnlyCreating, NoInstanceLost, InstancesOwned
  <1>8. Control'
    BY <1>1, <1>5, InstType, NamesDistinct, UnlockedControl DEF IndInv, OnlyCreating
  <1> QED
    BY <1>3, <1>4, <1>6, <1>7, <1>8, PartsPrime DEF Core

-----------------------------------------------------------------------------
(* terminator_CreateInstance                                               *)

\* The creation's icd_terms are replaced.
LEMMA NewTermsStep ==
    ASSUME IndInv, Self \in DOMAIN inst, NEW t \in Terms,
           inst' = [inst EXCEPT ![Self].icd_terms = t]
    PROVE  /\ DOMAIN inst' = DOMAIN inst
           /\ \E A \in SUBSET InstanceAddr : inst' \in [A -> Instance]
           /\ inst'[Self].icd_terms = t
           /\ \A a \in DOMAIN inst : inst'[a].scanned = inst[a].scanned
           /\ \A a \in DOMAIN inst \ {Self} : inst'[a] = inst[a]
  <1>1. inst \in [DOMAIN inst -> Instance] /\ DOMAIN inst \subseteq InstanceAddr
    BY InstType DEF IndInv
  <1>2. inst' \in [DOMAIN inst -> Instance]
    BY <1>1 DEF Instance
  <1> QED
    BY <1>1, <1>2 DEF Instance

\* Nothing but the icd_terms and the drivers' instances changes.
LEMMA TermsCore ==
    ASSUME IndInv, Self \in DOMAIN inst, NEW t \in Terms,
           inst' = [inst EXCEPT ![Self].icd_terms = t], Self' = Self, (creating \in Busy)',
           DOMAIN t \subseteq inst[Self].scanned,
           live' \in [Drivers -> SUBSET DriverInstances],
           UNCHANGED <<instances, preloaded, preload_made, pending, opened, env>>
    PROVE  TypeOK' /\ LibrariesOwned' /\ TermsScanned' /\ InstancesListed'
  <1>1. TypeOK'
    BY NewTermsStep, TypeSplit, TypeSplitPrime DEF IndInv, StateType
  <1>2. LibrariesOwned'
    BY NewTermsStep DEF IndInv, LibrariesOwned, Named
  <1>3. TermsScanned'
    BY NewTermsStep DEF IndInv, TermsScanned
  <1>4. InstancesListed'
    BY NewTermsStep DEF IndInv, InstancesListed
  <1> QED
    BY <1>1, <1>2, <1>3, <1>4

LEMMA VisitCreatesStep ==
    ASSUME IndInv, NEW d \in Drivers, VisitCreates(d)
    PROVE  IndInv'
  <1> DEFINE terms == inst[Self].icd_terms
  <1>1. /\ creating \in Busy /\ Self \in DOMAIN inst /\ At("terminator") /\ AtHead(Self)
        /\ d \in inst[Self].scanned /\ d \notin DOMAIN terms /\ terms \in Terms
        /\ creating.todo \subseteq inst[Self].scanned \ DOMAIN terms
        /\ \A e \in DOMAIN terms : terms[e] # None
    BY VisitingFacts DEF VisitCreates
  <1>2. PICK v \in DriverInstances \ live[d] :
          /\ live' = [live EXCEPT ![d] = @ \cup {v}]
          /\ inst' = [inst EXCEPT ![Self].icd_terms = With(terms, d, v)]
    BY DEF VisitCreates
  <1> DEFINE t == With(terms, d, v)
  <1>3. /\ t \in Terms /\ DOMAIN t = DOMAIN terms \cup {d} /\ t[d] = v
        /\ \A e \in DOMAIN terms : t[e] = terms[e]
    <2>1. v \in DriverInstances \cup {None} /\ terms \in Terms
      BY <1>1
    <2> HIDE DEF terms
    <2>2. /\ t \in Terms /\ DOMAIN t = DOMAIN terms \cup {d} /\ t[d] = v
          /\ \A e \in DOMAIN terms \ {d} : t[e] = terms[e]
      BY <2>1, WithTerms
    <2> QED
      BY <1>1, <2>2 DEF terms
  <1>4. /\ live \in [Drivers -> SUBSET DriverInstances]
        /\ live' \in [Drivers -> SUBSET DriverInstances]
        /\ live'[d] = live[d] \cup {v} /\ \A e \in Drivers \ {d} : live'[e] = live[e]
    BY <1>2 DEF IndInv, TypeOK
  <1>5. UNCHANGED <<instances, preloaded, preload_made, pending, opened, env>>
    BY DEF VisitCreates
  <1>6. v # None
    BY <1>2, NamesDistinct
  <1> HIDE DEF t
  <1>7. inst' = [inst EXCEPT ![Self].icd_terms = t]
    BY <1>2 DEF t
  <1>8. /\ DOMAIN inst' = DOMAIN inst /\ inst'[Self].icd_terms = t
        /\ \A a \in DOMAIN inst : inst'[a].scanned = inst[a].scanned
        /\ \A a \in DOMAIN inst \ {Self} : inst'[a] = inst[a]
    BY <1>1, <1>3, <1>7, NewTermsStep
  <1>9. /\ (creating \in Busy)'
        /\ creating' = [a |-> Self, phase |-> "terminator", todo |-> creating.todo \ {d},
                        res |-> "success", forced |-> creating.forced \/ FALSE,
                        made |-> creating.made \cup {d}]
    <2>1. TypeOK /\ Visiting(d)
      BY DEF IndInv, VisitCreates
    <2>2. Visited(d, "success", FALSE, {d})
      BY DEF VisitCreates
    <2>3. "success" \in Results /\ FALSE \in BOOLEAN /\ {d} \in SUBSET Drivers
      BY DEF Results
    <2> QED
      BY <1>8, <2>1, <2>2, <2>3, VisitedStep
  <1>10. /\ Self' = Self /\ creating'.phase = "terminator" /\ creating'.res = "success"
         /\ creating'.todo = creating.todo \ {d} /\ creating'.made = creating.made \cup {d}
    BY <1>9 DEF Self
  <1>11. TypeOK' /\ LibrariesOwned' /\ TermsScanned' /\ InstancesListed'
    <2>1. DOMAIN t \subseteq inst[Self].scanned
      BY <1>1, <1>3 DEF IndInv, TermsScanned
    <2> QED
      BY <1>1, <1>3, <1>4, <1>5, <1>7, <1>9, <1>10, <2>1, TermsCore
  <1>12. NoInstanceLost'
    <2> SUFFICES ASSUME InstancesOwned PROVE InstancesOwned'
      BY <1>5 DEF IndInv, NoInstanceLost
    <2>1. ASSUME NEW e \in Drivers, NEW w \in live'[e]
          PROVE  \E a \in DOMAIN inst' :
                   e \in DOMAIN inst'[a].icd_terms /\ inst'[a].icd_terms[e] = w
      <3>1. CASE e = d /\ w = v
        BY <1>1, <1>3, <1>8, <3>1
      <3>2. CASE ~(e = d /\ w = v)
        <4>1. w \in live[e]
          BY <1>4, <2>1, <3>2
        <4>2. PICK a \in DOMAIN inst : e \in DOMAIN inst[a].icd_terms /\ inst[a].icd_terms[e] = w
          BY <4>1 DEF InstancesOwned
        <4> QED
          BY <1>3, <1>8, <4>2
      <3> QED
        BY <3>1, <3>2
    <2>2. ASSUME NEW e \in Drivers, NEW a \in DOMAIN inst, e \in DOMAIN inst'[a].icd_terms
          PROVE  inst'[a].icd_terms[e] \in live'[e]
      <3>1. CASE a = Self /\ e = d
        BY <1>3, <1>4, <1>8, <3>1
      <3>2. CASE ~(a = Self /\ e = d)
        <4>1. e \in DOMAIN inst[a].icd_terms /\ inst'[a].icd_terms[e] = inst[a].icd_terms[e]
          BY <1>3, <1>8, <2>2, <3>2
        <4>2. inst[a].icd_terms[e] # None
          BY <1>1, <4>1 DEF IndInv, NullTerms
        <4> QED
          BY <1>4, <4>1, <4>2 DEF InstancesOwned
      <3> QED
        BY <3>1, <3>2
    <2>3. ASSUME NEW e \in Drivers, NEW a \in DOMAIN inst, NEW b \in DOMAIN inst,
                 e \in DOMAIN inst'[a].icd_terms \cap DOMAIN inst'[b].icd_terms,
                 inst'[a].icd_terms[e] = inst'[b].icd_terms[e]
          PROVE  a = b
      <3>1. ASSUME NEW x \in DOMAIN inst \ {Self}, d \in DOMAIN inst[x].icd_terms
            PROVE  inst[x].icd_terms[d] # v
        <4>1. inst[x].icd_terms[d] # None
          BY <3>1 DEF IndInv, NullTerms
        <4> QED
          BY <1>2, <3>1, <4>1 DEF InstancesOwned
      <3>2. CASE e = d
        BY <1>1, <1>3, <1>8, <2>3, <3>1, <3>2 DEF InstancesOwned
      <3>3. CASE e # d
        BY <1>3, <1>8, <2>3, <3>3 DEF InstancesOwned
      <3> QED
        BY <3>2, <3>3
    <2> QED
      BY <1>8, <2>1, <2>2, <2>3 DEF InstancesOwned
  <1>13. NullTerms'
    BY <1>1, <1>3, <1>6, <1>8 DEF IndInv, NullTerms
  <1>14. PhaseInv'
    BY <1>1, <1>3, <1>5, <1>8, <1>10 DEF PhaseInv, At, AtHead
  <1>15. LoopInv' /\ OneDriverSuffices'
    BY <1>1, <1>3, <1>5, <1>8, <1>10 DEF IndInv, LoopInv, OneDriverSuffices, At
  <1> QED
    BY <1>11, <1>12, <1>13, <1>14, <1>15, PartsPrime DEF Core, Control

LEMMA VisitNoEntriesStep ==
    ASSUME IndInv, NEW d \in Drivers, VisitNoEntries(d)
    PROVE  IndInv'
  <1>1. /\ Self \in DOMAIN inst /\ At("terminator") /\ AtHead(Self)
        /\ creating.todo \subseteq inst[Self].scanned \ DOMAIN inst[Self].icd_terms
    BY VisitingFacts DEF VisitNoEntries
  <1>2. /\ inst' = inst /\ "entries" \in env
        /\ UNCHANGED <<instances, preloaded, preload_made, pending, opened, env>>
    BY DEF VisitNoEntries
  <1>3. live' \in [Drivers -> SUBSET DriverInstances]
    BY DEF IndInv, TypeOK, VisitNoEntries
  <1>4. /\ (creating \in Busy)'
        /\ creating' = [a |-> Self, phase |-> "terminator", todo |-> creating.todo \ {d},
                        res |-> "success", forced |-> creating.forced \/ FALSE,
                        made |-> creating.made \cup {}]
    BY <1>2, VisitedStep DEF IndInv, VisitNoEntries, Results
  <1>5. /\ Self' = Self /\ creating'.phase = "terminator" /\ creating'.res = "success"
        /\ creating'.todo = creating.todo \ {d} /\ creating'.made = creating.made
    BY <1>4 DEF Self
  <1>6. TypeOK'
    BY <1>2, <1>3, <1>4, TypeSplit, TypeSplitPrime DEF IndInv, StateType
  <1>7. LibrariesOwned' /\ TermsScanned' /\ InstancesListed'
    BY <1>2, <1>5 DEF IndInv, LibrariesOwned, TermsScanned, InstancesListed, Named
  <1>8. NoInstanceLost'
    BY <1>2 DEF NoInstanceLost
  <1>9. NullTerms'
    BY <1>2, VisitingFacts DEF VisitNoEntries, IndInv, NullTerms
  <1>10. PhaseInv' /\ LoopInv' /\ OneDriverSuffices'
    BY <1>1, <1>2, <1>5 DEF IndInv, PhaseInv, LoopInv, OneDriverSuffices, At, AtHead
  <1> QED
    BY <1>6, <1>7, <1>8, <1>9, <1>10, PartsPrime DEF Core, Control

LEMMA VisitOutOfMemoryStep ==
    ASSUME IndInv, NEW d \in Drivers, VisitOutOfMemory(d)
    PROVE  IndInv'
  <1> DEFINE terms == inst[Self].icd_terms
  <1>1. /\ Self \in DOMAIN inst /\ At("terminator") /\ AtHead(Self) /\ terms \in Terms
        /\ d \in inst[Self].scanned /\ d \notin DOMAIN terms
        /\ \A e \in DOMAIN terms : terms[e] # None
    BY VisitingFacts DEF VisitOutOfMemory
  <1>2. PICK t \in {terms, With(terms, d, None)} : inst' = [inst EXCEPT ![Self].icd_terms = t]
    <2>1. CASE inst' = inst
      <3>1. inst = [inst EXCEPT ![Self].icd_terms = terms]
        BY <1>1, InstType DEF IndInv, Instance
      <3> QED
        BY <2>1, <3>1
    <2> QED
      BY <2>1 DEF VisitOutOfMemory
  <1>3. /\ t \in Terms /\ DOMAIN t \in {DOMAIN terms, DOMAIN terms \cup {d}}
        /\ \A e \in DOMAIN terms : t[e] = terms[e]
        /\ \A e \in DOMAIN t \ DOMAIN terms : e = d /\ t[e] = None
    <2> HIDE DEF terms
    <2>1. CASE t = terms
      BY <1>1, <2>1
    <2>2. CASE t = With(terms, d, None)
      BY <1>1, <2>2, WithTerms
    <2> QED
      BY <1>2, <2>1, <2>2
  <1>4. PICK r \in OutOfMemory : creating' = [creating EXCEPT !.todo = {}, !.res = r]
    BY DEF VisitOutOfMemory
  <1>5. /\ UNCHANGED <<instances, preloaded, preload_made, pending, opened, live, env>>
        /\ "oom" \in env /\ r \in Results /\ r # "success"
    BY MemoryResults DEF VisitOutOfMemory, OutOfMemory
  <1>6. /\ DOMAIN inst' = DOMAIN inst /\ inst'[Self].icd_terms = t
        /\ \A a \in DOMAIN inst : inst'[a].scanned = inst[a].scanned
        /\ \A a \in DOMAIN inst \ {Self} : inst'[a] = inst[a]
    BY <1>1, <1>2, <1>3, NewTermsStep
  <1>7. /\ (creating \in Busy)' /\ Self' = Self /\ creating'.phase = "terminator"
        /\ creating'.todo = {} /\ creating'.res = r
    <2>1. /\ (creating \in Busy)'
          /\ creating' = [a |-> Self, phase |-> "terminator", todo |-> {}, res |-> r,
                          forced |-> creating.forced, made |-> creating.made]
      <3>1. TypeOK /\ Visiting(d)
        BY DEF IndInv, VisitOutOfMemory
      <3> QED
        BY <1>4, <1>5, <1>6, <3>1, LeftStep
    <2> QED
      BY <2>1 DEF Self
  <1>8. TypeOK' /\ LibrariesOwned' /\ TermsScanned' /\ InstancesListed'
    <2>1. DOMAIN t \subseteq inst[Self].scanned
      BY <1>1, <1>3 DEF IndInv, TermsScanned
    <2>2. live' \in [Drivers -> SUBSET DriverInstances]
      BY <1>5 DEF IndInv, TypeOK
    <2> QED
      BY <1>1, <1>2, <1>3, <1>5, <1>7, <2>1, <2>2, TermsCore
  <1>9. NoInstanceLost'
    <2> SUFFICES ASSUME InstancesOwned PROVE InstancesOwned'
      BY <1>5 DEF IndInv, NoInstanceLost
    <2>1. ASSUME NEW e \in Drivers, NEW w \in live[e]
          PROVE  \E a \in DOMAIN inst :
                   e \in DOMAIN inst'[a].icd_terms /\ inst'[a].icd_terms[e] = w
      BY <1>3, <1>6, <2>1 DEF InstancesOwned
    <2>2. ASSUME NEW e \in Drivers, NEW a \in DOMAIN inst, e \in DOMAIN inst'[a].icd_terms
          PROVE  \/ inst'[a].icd_terms[e] \in live[e]
                 \/ inst'[a].icd_terms[e] = None /\ a = Self
      BY <1>3, <1>6, <2>2 DEF InstancesOwned
    <2>3. ASSUME NEW e \in Drivers, NEW a \in DOMAIN inst, NEW b \in DOMAIN inst,
                 e \in DOMAIN inst'[a].icd_terms \cap DOMAIN inst'[b].icd_terms,
                 inst'[a].icd_terms[e] = inst'[b].icd_terms[e]
          PROVE  a = b
      <3>1. \A x \in DOMAIN inst \ {Self} : \A y \in DOMAIN inst[x].icd_terms :
              inst[x].icd_terms[y] # None
        BY DEF IndInv, NullTerms
      <3> QED
        BY <1>3, <1>6, <2>3, <3>1 DEF InstancesOwned
    <2> QED
      BY <1>5, <1>6, <1>7, <2>1, <2>2, <2>3 DEF InstancesOwned
  <1>10. NullTerms'
    BY <1>5, <1>6, <1>7 DEF IndInv, NullTerms, At
  <1>11. PhaseInv' /\ LoopInv' /\ OneDriverSuffices'
    BY <1>1, <1>5, <1>7 DEF PhaseInv, LoopInv, OneDriverSuffices, At, AtHead
  <1> QED
    BY <1>8, <1>9, <1>10, <1>11, PartsPrime DEF Core, Control

LEMMA DestroyedType ==
    ASSUME TypeOK, NEW t, NEW ds
    PROVE  Destroyed(t, ds) \in [Drivers -> SUBSET DriverInstances]
  BY DEF TypeOK, Destroyed

\* The drivers in ds destroy what they have for instance a, and its icd_terms
\* for them go: nobody else's instance is touched and nothing is left behind.
LEMMA DestroyedOwned ==
    ASSUME TypeOK, InstancesOwned, NEW a \in DOMAIN inst, NEW ds \in SUBSET Drivers,
           live' = Destroyed(inst[a].icd_terms, ds),
           DOMAIN inst' \subseteq DOMAIN inst, DOMAIN inst \ {a} \subseteq DOMAIN inst',
           \A b \in DOMAIN inst' \ {a} : inst'[b].icd_terms = inst[b].icd_terms,
           a \in DOMAIN inst' =>
             /\ DOMAIN inst'[a].icd_terms = DOMAIN inst[a].icd_terms \ ds
             /\ \A e \in DOMAIN inst'[a].icd_terms :
                  inst'[a].icd_terms[e] = inst[a].icd_terms[e],
           a \notin DOMAIN inst' => DOMAIN inst[a].icd_terms \subseteq ds,
           \A b \in DOMAIN inst' : \A e \in DOMAIN inst'[b].icd_terms :
             inst'[b].icd_terms[e] # None
    PROVE  InstancesOwned'
  <1> DEFINE terms == inst[a].icd_terms
  <1>1. live \in [Drivers -> SUBSET DriverInstances]
    BY DEF TypeOK
  <1>2. \A e \in Drivers : live'[e] = IF e \in DOMAIN terms \cap ds THEN live[e] \ {terms[e]}
                                                                   ELSE live[e]
    BY DEF Destroyed
  <1>4. \A b \in DOMAIN inst', e \in Drivers : e \in DOMAIN inst'[b].icd_terms =>
          /\ e \in DOMAIN inst[b].icd_terms
          /\ inst'[b].icd_terms[e] = inst[b].icd_terms[e]
          /\ b = a => e \notin ds
    OBVIOUS
  <1>5. ASSUME NEW e \in Drivers, NEW w \in live'[e]
        PROVE  \E b \in DOMAIN inst' :
                 e \in DOMAIN inst'[b].icd_terms /\ inst'[b].icd_terms[e] = w
    <2>1. w \in live[e]
      BY <1>2
    <2>2. PICK b \in DOMAIN inst : e \in DOMAIN inst[b].icd_terms /\ inst[b].icd_terms[e] = w
      BY <2>1 DEF InstancesOwned
    <2>3. CASE b = a
      <3>1. e \notin ds
        BY <1>2, <1>5, <2>2, <2>3
      <3> QED
        BY <2>2, <2>3, <3>1
    <2>4. CASE b # a
      BY <2>2, <2>4
    <2> QED
      BY <2>3, <2>4
  <1>6. ASSUME NEW e \in Drivers, NEW b \in DOMAIN inst', e \in DOMAIN inst'[b].icd_terms
        PROVE  inst'[b].icd_terms[e] \in live'[e]
    <2>1. inst[b].icd_terms[e] \in live[e]
      BY <1>4, <1>6 DEF InstancesOwned
    <2>2. CASE e \in DOMAIN terms \cap ds
      <3>1. b # a
        BY <1>4, <1>6, <2>2
      <3>2. inst[b].icd_terms[e] # terms[e]
        BY <1>4, <1>6, <2>2, <3>1 DEF InstancesOwned
      <3> QED
        <4>1. live'[e] = live[e] \ {terms[e]}
          BY <1>2, <2>2
        <4> HIDE DEF terms
        <4>2. inst'[b].icd_terms[e] = inst[b].icd_terms[e]
          BY <1>4, <1>6
        <4> QED
          BY <2>1, <3>2, <4>1, <4>2
    <2>3. CASE e \notin DOMAIN terms \cap ds
      BY <1>2, <1>4, <1>6, <2>1, <2>3
    <2> QED
      BY <2>2, <2>3
  <1>7. ASSUME NEW e \in Drivers, NEW b \in DOMAIN inst', NEW c \in DOMAIN inst',
               e \in DOMAIN inst'[b].icd_terms \cap DOMAIN inst'[c].icd_terms,
               inst'[b].icd_terms[e] = inst'[c].icd_terms[e]
        PROVE  b = c
    BY <1>4, <1>7 DEF InstancesOwned
  <1> QED
    BY <1>5, <1>6, <1>7 DEF InstancesOwned

LEMMA TerminatorEndsStep == IndInv /\ TerminatorEnds => IndInv'
  <1> SUFFICES ASSUME IndInv, TerminatorEnds PROVE IndInv'
    OBVIOUS
  <1> DEFINE terms == inst[Self].icd_terms
             t == IF FinalRes = "success" THEN terms ELSE NoTerms
  <1>1. At("terminator") /\ Goes("back", FinalRes)
        /\ UNCHANGED <<instances, preloaded, preload_made, pending, opened, env>>
    BY DEF TerminatorEnds
  <1>2. ~LockFree /\ Self \in DOMAIN inst /\ creating.res \in Results
    BY <1>1, BusyPhase DEF IndInv, Phases
  <1>3. terms \in Terms /\ t \in Terms /\ DOMAIN t \subseteq DOMAIN terms
    BY <1>2, InstType, NoTermsType DEF IndInv
  <1>4. AtHead(Self)
    BY <1>1 DEF IndInv, PhaseInv, At
  <1>5. FinalRes \in Results
        /\ (FinalRes = "success" <=> creating.res = "success" /\ DOMAIN terms # {})
    BY <1>2, <1>3, EmptyTerms DEF FinalRes, Results
  <1>6. inst' = [inst EXCEPT ![Self].icd_terms = t]
    <2>1. CASE FinalRes = "success"
      <3>1. inst' = inst
        BY <2>1 DEF TerminatorEnds
      <3>2. inst = [inst EXCEPT ![Self].icd_terms = terms]
        BY <1>2, InstType DEF IndInv, Instance
      <3> QED
        BY <2>1, <3>1, <3>2
    <2>2. CASE FinalRes # "success"
      BY <2>2 DEF TerminatorEnds, DestroyTerms
    <2> QED
      BY <2>1, <2>2
  <1>7. /\ DOMAIN inst' = DOMAIN inst /\ inst'[Self].icd_terms = t
        /\ \A a \in DOMAIN inst : inst'[a].scanned = inst[a].scanned
        /\ \A a \in DOMAIN inst \ {Self} : inst'[a] = inst[a]
    <2> HIDE DEF t
    <2> QED
      BY <1>2, <1>3, <1>6, NewTermsStep
  <1>8. /\ (creating \in Busy)'
        /\ creating' = [a |-> Self, phase |-> "back", todo |-> creating.todo, res |-> FinalRes,
                        forced |-> creating.forced, made |-> creating.made]
    BY <1>1, <1>2, <1>5, <1>7, GoesStep DEF IndInv, Phases
  <1>9. /\ Self' = Self /\ creating'.phase = "back" /\ creating'.res = FinalRes
        /\ creating'.made = creating.made
    BY <1>8 DEF Self
  <1>10. live' = IF FinalRes = "success" THEN live ELSE Destroyed(terms, Drivers)
    BY DEF TerminatorEnds, DestroyTerms
  <1>11. \A a \in DOMAIN inst : \A e \in DOMAIN inst'[a].icd_terms : inst'[a].icd_terms[e] # None
    <2>1. ASSUME NEW a \in DOMAIN inst \ {Self}, NEW e \in DOMAIN inst[a].icd_terms
          PROVE  inst[a].icd_terms[e] # None
      BY <2>1 DEF IndInv, NullTerms
    <2>2. ASSUME NEW e \in DOMAIN t
          PROVE  t[e] # None
      BY <1>2, <1>5, <2>2, NoTermsType DEF IndInv, NullTerms
    <2> HIDE DEF t
    <2> QED
      BY <1>7, <2>1, <2>2
  <1>12. TypeOK' /\ LibrariesOwned' /\ TermsScanned' /\ InstancesListed'
    <2>1. DOMAIN t \subseteq inst[Self].scanned
      BY <1>2, <1>3 DEF IndInv, TermsScanned
    <2>2. live' \in [Drivers -> SUBSET DriverInstances]
      BY <1>10, DestroyedType DEF IndInv, TypeOK
    <2> HIDE DEF t
    <2> QED
      BY <1>1, <1>2, <1>3, <1>6, <1>8, <1>9, <2>1, <2>2, TermsCore
  <1>13. NoInstanceLost'
    <2> SUFFICES ASSUME InstancesOwned PROVE InstancesOwned'
      BY <1>1 DEF IndInv, NoInstanceLost
    <2>1. CASE FinalRes = "success"
      <3>1. inst' = inst /\ live' = live
        BY <2>1 DEF TerminatorEnds
      <3> QED
        BY <1>9, <3>1 DEF InstancesOwned
    <2>2. CASE FinalRes # "success"
      <3>1. DOMAIN inst'[Self].icd_terms = {} /\ DOMAIN terms \subseteq Drivers
        BY <1>3, <1>7, <2>2, NoTermsType, TermsType
      <3> QED
        BY <1>2, <1>7, <1>10, <1>11, <2>2, <3>1, DestroyedOwned DEF IndInv
    <2> QED
      BY <2>1, <2>2
  <1>14. NullTerms'
    BY <1>7, <1>11 DEF NullTerms
  <1>15. PhaseInv' /\ LoopInv'
    BY <1>1, <1>4, <1>9 DEF PhaseInv, LoopInv, At, AtHead
  <1>16. OneDriverSuffices'
    <2>1. ASSUME env \cap {"oom", "extensions"} = {}
          PROVE  /\ FinalRes = "success" <=> creating.made # {}
                 /\ FinalRes = "success" => DOMAIN t = creating.made
      BY <1>1, <1>5, <2>1 DEF IndInv, LoopInv
    <2> HIDE DEF t
    <2> QED
      BY <1>1, <1>7, <1>9, <2>1 DEF OneDriverSuffices
  <1> QED
    BY <1>12, <1>13, <1>14, <1>15, <1>16, PartsPrime DEF Core, Control

-----------------------------------------------------------------------------
(* An instance goes: CreateFails and DestroyInstance                       *)

\* instances without a, if a is somewhere in it.
LEMMA UnlinkedInstances ==
    ASSUME IndInv, NEW a \in DOMAIN inst, NEW i \in DOMAIN instances, instances[i] = a
    PROVE  /\ Unlinked(instances, i) \in Seq(InstanceAddr)
           /\ \A j \in DOMAIN Unlinked(instances, i) :
                Unlinked(instances, i)[j] \in DOMAIN inst \ {a}
           /\ \A j, k \in DOMAIN Unlinked(instances, i) :
                Unlinked(instances, i)[j] = Unlinked(instances, i)[k] => j = k
           /\ \A b \in DOMAIN inst \ {a, Self} : \E j \in DOMAIN Unlinked(instances, i) :
                Unlinked(instances, i)[j] = b
  <1>1. instances \in Seq(InstanceAddr)
    BY DEF IndInv, TypeOK
  <1>2. /\ \A j \in DOMAIN instances : instances[j] \in DOMAIN inst
        /\ \A j, k \in DOMAIN instances : instances[j] = instances[k] => j = k
        /\ \A b \in DOMAIN inst \ {Self} : \E j \in DOMAIN instances : instances[j] = b
    BY DEF IndInv, InstancesListed
  <1> DEFINE u == Unlinked(instances, i)
  <1>3. /\ u \in Seq(InstanceAddr)
        /\ \A j \in DOMAIN instances \ {i} : \E k \in DOMAIN u : u[k] = instances[j]
        /\ \A j \in DOMAIN u : \E k \in DOMAIN instances \ {i} : u[j] = instances[k]
        /\ \A j, k \in DOMAIN u : u[j] = u[k] => j = k
    BY <1>1, <1>2, UnlinkedList
  <1> HIDE DEF u
  <1>4. \A j \in DOMAIN u : u[j] \in DOMAIN inst \ {a}
    BY <1>2, <1>3
  <1>5. \A b \in DOMAIN inst \ {a, Self} : \E j \in DOMAIN u : u[j] = b
    BY <1>2, <1>3
  <1> QED
    BY <1>3, <1>4, <1>5 DEF u

LEMMA InstanceGoes ==
    ASSUME IndInv, NEW a \in DOMAIN inst, LockFree \/ Self = a,
           creating' = NotCreating, inst' = Without(inst, a),
           live' = Destroyed(inst[a].icd_terms, Drivers), CloseLibraries(a),
           UNCHANGED <<preloaded, preload_made, env>>, pending' \in 0..MaxPending,
           instances' \in Seq(InstanceAddr),
           \A j \in DOMAIN instances' : instances'[j] \in DOMAIN inst \ {a},
           \A j, k \in DOMAIN instances' : instances'[j] = instances'[k] => j = k,
           \A b \in DOMAIN inst \ {a} : \E j \in DOMAIN instances' : instances'[j] = b
    PROVE  IndInv'
  <1>1. DOMAIN inst' = DOMAIN inst \ {a} /\ \A b \in DOMAIN inst \ {a} : inst'[b] = inst[b]
    BY DEF Without
  <1>2. inst \in [DOMAIN inst -> Instance] /\ DOMAIN inst \subseteq InstanceAddr
        /\ a \in InstanceAddr /\ inst[a].icd_terms \in Terms
    BY InstType DEF IndInv
  <1>3. inst' \in [DOMAIN inst \ {a} -> Instance]
    BY <1>2 DEF Without
  <1>4. Self # None => Self = a
    BY CreatingType DEF IndInv
  <1>5. opened \in [Drivers -> SUBSET (InstanceAddr \cup {Preload})]
        /\ opened' = [d \in Drivers |-> IF d \in inst[a].scanned THEN opened[d] \ {a} ELSE opened[d]]
    BY DEF IndInv, TypeOK, CloseLibraries, Closed
  <1>6. opened' \in [Drivers -> SUBSET (InstanceAddr \cup {Preload})]
    BY <1>5
  <1>7. TypeOK'
    <2>1. LockFree'
      BY DEF LockFree
    <2>2. live' \in [Drivers -> SUBSET DriverInstances]
      BY DestroyedType DEF IndInv
    <2>3. \E A \in SUBSET InstanceAddr : inst' \in [A -> Instance]
      BY <1>2, <1>3
    <2>4. StateType'
      BY <1>6, <2>2, <2>3 DEF IndInv, TypeOK, StateType
    <2> QED
      BY <2>1, <2>4, TypeSplitPrime
  <1>8. LibrariesOwned'
    <2>1. \A d \in Drivers, b \in InstanceAddr :
            b \in opened'[d] <=> b \in DOMAIN inst' /\ d \in inst'[b].scanned
      BY <1>1, <1>2, <1>5 DEF IndInv, LibrariesOwned
    <2>2. \A d \in Drivers : Preload \in opened'[d] <=> Preload \in opened[d]
      BY <1>2, <1>5, NamesDistinct
    <2> QED
      BY <2>1, <2>2 DEF IndInv, LibrariesOwned, Named
  <1>9. TermsScanned'
    BY <1>1 DEF IndInv, TermsScanned
  <1>10. InstancesListed'
    BY <1>1 DEF InstancesListed
  <1>11. \A b \in DOMAIN inst' : \A e \in DOMAIN inst'[b].icd_terms :
           inst'[b].icd_terms[e] # None
    BY <1>1, <1>2, <1>4, NamesDistinct DEF IndInv, NullTerms
  <1>12. NoInstanceLost'
    <2> SUFFICES ASSUME InstancesOwned PROVE InstancesOwned'
      BY DEF IndInv, NoInstanceLost
    <2>1. DOMAIN inst[a].icd_terms \subseteq Drivers
      BY <1>2, TermsType
    <2> QED
      BY <1>1, <1>11, <2>1, DestroyedOwned DEF IndInv
  <1>13. Control'
    BY <1>1, <1>2, <1>11, NamesDistinct, UnlockedControl
  <1> QED
    BY <1>7, <1>8, <1>9, <1>10, <1>12, <1>13, PartsPrime DEF Core

LEMMA CreateFailsStep == IndInv /\ CreateFails => IndInv'
  <1> SUFFICES ASSUME IndInv, CreateFails PROVE IndInv'
    OBVIOUS
  <1>1. Self \in DOMAIN inst
    BY BusyPhase DEF IndInv, CreateFails, Phases
  <1>2. pending' \in 0..MaxPending
    BY DEF IndInv, TypeOK, CreateFails
  <1>3. AtHead(Self) \/ ~Listed(Self)
    BY DEF IndInv, PhaseInv, CreateFails
  <1>4. instances \in Seq(InstanceAddr)
    BY DEF IndInv, TypeOK
  <1>5. /\ instances' \in Seq(InstanceAddr)
        /\ \A j \in DOMAIN instances' : instances'[j] \in DOMAIN inst \ {Self}
        /\ \A j, k \in DOMAIN instances' : instances'[j] = instances'[k] => j = k
        /\ \A b \in DOMAIN inst \ {Self} : \E j \in DOMAIN instances' : instances'[j] = b
    <2>1. CASE AtHead(Self)
      <3>1. instances' = Unlinked(instances, 1)
        BY <2>1 DEF CreateFails, UnlinkHead, AtHead
      <3>2. 1 \in DOMAIN instances /\ instances[1] = Self
        BY <1>4, <2>1 DEF AtHead
      <3> QED
        BY <1>1, <3>1, <3>2, UnlinkedInstances
    <2>2. CASE ~AtHead(Self) /\ ~Listed(Self)
      <3>1. instances' = instances
        BY <2>2 DEF CreateFails, UnlinkHead, AtHead
      <3> QED
        BY <1>4, <2>2, <3>1 DEF IndInv, InstancesListed, Listed
    <2> QED
      BY <1>3, <2>1, <2>2
  <1> QED
    BY <1>1, <1>2, <1>5, InstanceGoes DEF CreateFails, Unlock

LEMMA DestroyInstanceStep ==
    ASSUME IndInv, NEW a \in DOMAIN inst, DestroyInstance(a)
    PROVE  IndInv'
  <1>1. PICK i \in DOMAIN instances : instances[i] = a /\ instances' = Unlinked(instances, i)
    BY DEF DestroyInstance
  <1>2. LockFree /\ creating' = NotCreating /\ Self \notin DOMAIN inst
    BY CreatingType DEF IndInv, DestroyInstance, LockFree
  <1>3. pending' \in 0..MaxPending
    BY MaxPendingAssumption DEF IndInv, TypeOK, DestroyInstance
  <1>4. /\ instances' \in Seq(InstanceAddr)
        /\ \A j \in DOMAIN instances' : instances'[j] \in DOMAIN inst \ {a}
        /\ \A j, k \in DOMAIN instances' : instances'[j] = instances'[k] => j = k
        /\ \A b \in DOMAIN inst \ {a} : \E j \in DOMAIN instances' : instances'[j] = b
    BY <1>1, <1>2, UnlinkedInstances
  <1> QED
    BY <1>2, <1>3, <1>4, InstanceGoes DEF DestroyInstance

-----------------------------------------------------------------------------
(* vkCreateInstance up to the link                                         *)

LEMMA CreateBeginStep ==
    ASSUME IndInv, NEW a \in InstanceAddr \ DOMAIN inst, CreateBegin(a)
    PROVE  IndInv'
  <1>1. /\ LockFree /\ Self = None /\ inst' = With(inst, a, NewInstance)
        /\ creating' = [NotCreating EXCEPT !.a = a, !.phase = "begin"]
        /\ UNCHANGED <<instances, preloaded, preload_made, pending, opened, live, env>>
    BY CreatingType DEF IndInv, CreateBegin
  <1>2. /\ DOMAIN inst' = DOMAIN inst \cup {a} /\ inst'[a] = NewInstance
        /\ \A b \in DOMAIN inst : inst'[b] = inst[b]
    BY <1>1 DEF With
  <1>3. inst \in [DOMAIN inst -> Instance] /\ DOMAIN inst \subseteq InstanceAddr
    BY InstType DEF IndInv
  <1>4. /\ NewInstance \in Instance /\ NewInstance.scanned = {}
        /\ NewInstance.icd_terms = NoTerms /\ DOMAIN NewInstance.icd_terms = {}
    BY NoTermsType DEF NewInstance, Instance
  <1>5. inst' \in [DOMAIN inst \cup {a} -> Instance]
    BY <1>1, <1>3, <1>4 DEF With
  <1>6. /\ (creating \in Busy)' /\ Self' = a /\ creating'.phase = "begin"
        /\ creating'.made = {} /\ creating'.res = "success"
    BY <1>1, <1>2 DEF NotCreating, Busy, Phases, Results, Self
  <1>7. TypeOK'
    <2>1. \E A \in SUBSET InstanceAddr : inst' \in [A -> Instance]
      BY <1>3, <1>5
    <2> QED
      BY <1>1, <1>6, <2>1, TypeSplit, TypeSplitPrime DEF IndInv, StateType
  <1>8. LibrariesOwned'
    BY <1>1, <1>2, <1>4 DEF IndInv, LibrariesOwned, Named
  <1>9. TermsScanned'
    BY <1>2, <1>4 DEF IndInv, TermsScanned
  <1>10. InstancesListed'
    BY <1>1, <1>2, <1>3, <1>6, NamesDistinct DEF IndInv, InstancesListed
  <1>11. \A b \in DOMAIN inst : \A d \in DOMAIN inst[b].icd_terms : inst[b].icd_terms[d] # None
    BY <1>1, <1>3, NamesDistinct DEF IndInv, NullTerms
  <1>12. NoInstanceLost'
    <2> SUFFICES ASSUME InstancesOwned PROVE InstancesOwned'
      BY <1>1 DEF IndInv, NoInstanceLost
    <2> QED
      BY <1>1, <1>2, <1>4, <1>11 DEF InstancesOwned
  <1>13. NullTerms'
    BY <1>2, <1>4, <1>11 DEF NullTerms
  <1>14. PhaseInv'
    <2>1. ~Listed(a)
      BY DEF IndInv, InstancesListed, Listed
    <2> QED
      BY <1>1, <1>2, <1>4, <1>6, <2>1 DEF PhaseInv, At, Listed
  <1>15. LoopInv' /\ OneDriverSuffices'
    BY <1>6 DEF LoopInv, OneDriverSuffices, At
  <1> QED
    BY <1>7, <1>8, <1>9, <1>10, <1>12, <1>13, <1>14, <1>15, PartsPrime DEF Core, Control

LEMMA CreateScanStep ==
    ASSUME IndInv, NEW S \in SUBSET Drivers, CreateScan(S)
    PROVE  IndInv'
  <1>1. /\ At("begin") /\ inst' = [inst EXCEPT ![Self].scanned = S]
        /\ opened' = [d \in Drivers |-> IF d \in S THEN opened[d] \cup {Self} ELSE opened[d]]
        /\ UNCHANGED <<instances, preloaded, preload_made, pending, live, env>>
    BY DEF CreateScan, Opened
  <1>2. ~LockFree /\ Self \in DOMAIN inst
    BY <1>1, BusyPhase DEF IndInv, Phases
  <1>3. /\ inst[Self].scanned = {} /\ inst[Self].icd_terms = NoTerms /\ creating.made = {}
        /\ DOMAIN inst[Self].icd_terms = {} /\ ~Listed(Self)
    BY <1>1, NoTermsType DEF IndInv, PhaseInv, At
  <1>4. inst \in [DOMAIN inst -> Instance] /\ DOMAIN inst \subseteq InstanceAddr
    BY InstType DEF IndInv
  <1>5. /\ DOMAIN inst' = DOMAIN inst /\ inst' \in [DOMAIN inst -> Instance]
        /\ inst'[Self].scanned = S
        /\ \A a \in DOMAIN inst : inst'[a].icd_terms = inst[a].icd_terms
        /\ \A a \in DOMAIN inst \ {Self} : inst'[a] = inst[a]
    BY <1>1, <1>2, <1>4 DEF Instance
  <1>6. PICK phase \in {"scanned", "returned"}, r \in Results :
          Goes(phase, r) /\ (phase = "scanned" <=> r = "success")
    BY MemoryResults DEF CreateScan, Results
  <1>7. /\ (creating \in Busy)'
        /\ creating' = [a |-> Self, phase |-> phase, todo |-> creating.todo, res |-> r,
                        forced |-> creating.forced, made |-> creating.made]
    BY <1>2, <1>5, <1>6, GoesStep DEF IndInv, Phases
  <1>8. Self' = Self /\ creating'.phase = phase /\ creating'.res = r /\ creating'.made = {}
    BY <1>3, <1>7 DEF Self
  <1>9. opened \in [Drivers -> SUBSET (InstanceAddr \cup {Preload})]
    BY DEF IndInv, TypeOK
  <1>10. opened' \in [Drivers -> SUBSET (InstanceAddr \cup {Preload})]
    BY <1>1, <1>2, <1>4, <1>9
  <1>11. TypeOK'
    <2>1. \E A \in SUBSET InstanceAddr : inst' \in [A -> Instance]
      BY <1>4, <1>5
    <2> QED
      BY <1>1, <1>7, <1>10, <2>1, TypeSplit, TypeSplitPrime DEF IndInv, StateType
  <1>12. LibrariesOwned'
    <2>1. \A d \in Drivers, b \in InstanceAddr :
            b \in opened'[d] <=> b \in DOMAIN inst' /\ d \in inst'[b].scanned
      BY <1>1, <1>2, <1>3, <1>5, <1>9 DEF IndInv, LibrariesOwned
    <2>2. \A d \in Drivers : Preload \in opened'[d] <=> Preload \in opened[d]
      BY <1>1, <1>2, <1>4, <1>9, NamesDistinct
    <2> QED
      BY <1>1, <2>1, <2>2 DEF IndInv, LibrariesOwned, Named
  <1>13. TermsScanned'
    BY <1>3, <1>5 DEF IndInv, TermsScanned
  <1>14. InstancesListed'
    BY <1>1, <1>5, <1>8 DEF IndInv, InstancesListed
  <1>15. NoInstanceLost'
    BY <1>1, <1>5, <1>8 DEF IndInv, NoInstanceLost, InstancesOwned
  <1>16. NullTerms'
    BY <1>1, <1>5 DEF IndInv, NullTerms, At
  <1>17. PhaseInv' /\ LoopInv' /\ OneDriverSuffices'
    BY <1>1, <1>2, <1>3, <1>5, <1>6, <1>8 DEF PhaseInv, LoopInv, OneDriverSuffices, At, Listed
  <1> QED
    BY <1>11, <1>12, <1>13, <1>14, <1>15, <1>16, <1>17, PartsPrime DEF Core, Control

LEMMA CreateLinkStep == IndInv /\ CreateLink => IndInv'
  <1> SUFFICES ASSUME IndInv, CreateLink PROVE IndInv'
    OBVIOUS
  <1>1. /\ At("scanned") /\ instances' = <<Self>> \o instances /\ Goes("linked", "success")
        /\ UNCHANGED <<inst, preloaded, preload_made, pending, opened, live, env>>
    BY DEF CreateLink
  <1>2. ~LockFree /\ Self \in DOMAIN inst /\ Self \in InstanceAddr
    BY <1>1, BusyPhase, InstType DEF IndInv, Phases
  <1>3. /\ inst[Self].icd_terms = NoTerms /\ creating.made = {} /\ ~Listed(Self)
    BY <1>1 DEF IndInv, PhaseInv, At
  <1>4. /\ (creating \in Busy)'
        /\ creating' = [a |-> Self, phase |-> "linked", todo |-> creating.todo,
                        res |-> "success", forced |-> creating.forced, made |-> creating.made]
    BY <1>1, <1>2, GoesStep DEF IndInv, Phases, Results
  <1>5. /\ Self' = Self /\ creating'.phase = "linked" /\ creating'.res = "success"
        /\ creating'.made = {}
    BY <1>3, <1>4 DEF Self
  <1>6. instances \in Seq(InstanceAddr)
    BY DEF IndInv, TypeOK
  <1>7. /\ instances' \in Seq(InstanceAddr) /\ instances' # <<>> /\ instances'[1] = Self
        /\ DOMAIN instances' = 1..(Len(instances) + 1)
        /\ \A i \in 1..Len(instances) : instances'[i + 1] = instances[i]
    BY <1>1, <1>2, <1>6
  <1>8. TypeOK'
    BY <1>1, <1>4, <1>7, TypeSplit, TypeSplitPrime DEF IndInv, StateType
  <1>9. LibrariesOwned' /\ TermsScanned'
    BY <1>1 DEF IndInv, LibrariesOwned, TermsScanned, Named
  <1>10. InstancesListed'
    <2>1. DOMAIN instances = 1..Len(instances) /\ Len(instances) \in Nat
      BY <1>6
    <2>2. \A i \in DOMAIN instances' : i = 1 \/ (i - 1 \in DOMAIN instances
                                                /\ instances'[i] = instances[i - 1])
      <3>1. ASSUME NEW i \in 2..(Len(instances) + 1)
            PROVE  i - 1 \in 1..Len(instances) /\ (i - 1) + 1 = i
        BY <2>1
      <3> QED
        BY <1>7, <2>1, <3>1
    <2>3. \A i \in DOMAIN instances : instances[i] \in DOMAIN inst \ {Self}
      BY <1>3 DEF IndInv, InstancesListed, Listed
    <2>4. \A i, j \in DOMAIN instances' : instances'[i] = instances'[j] => i = j
      BY <1>7, <2>1, <2>2, <2>3 DEF IndInv, InstancesListed
    <2>5. \A i \in DOMAIN instances' : instances'[i] \in DOMAIN inst
      BY <1>2, <1>7, <2>2, <2>3
    <2>6. \A a \in DOMAIN inst \ {Self} : \E i \in DOMAIN instances' : instances'[i] = a
      <3>1. ASSUME NEW a \in DOMAIN inst \ {Self}
            PROVE  \E i \in DOMAIN instances' : instances'[i] = a
        <4>1. PICK i \in DOMAIN instances : instances[i] = a
          BY DEF IndInv, InstancesListed
        <4>2. i + 1 \in DOMAIN instances' /\ instances'[i + 1] = a
          BY <1>7, <2>1, <4>1
        <4> QED
          BY <4>2
      <3> QED
        BY <3>1
    <2> QED
      BY <1>1, <1>5, <2>4, <2>5, <2>6 DEF InstancesListed
  <1>11. NoInstanceLost'
    BY <1>1, <1>5 DEF IndInv, NoInstanceLost, InstancesOwned
  <1>12. NullTerms'
    BY <1>1 DEF IndInv, NullTerms, At
  <1>13. PhaseInv' /\ LoopInv' /\ OneDriverSuffices'
    BY <1>1, <1>3, <1>5, <1>7 DEF PhaseInv, LoopInv, OneDriverSuffices, At, AtHead
  <1> QED
    BY <1>8, <1>9, <1>10, <1>11, <1>12, <1>13, PartsPrime DEF Core, Control

-----------------------------------------------------------------------------
(* Libraries: preload, unload                                              *)

\* preloaded_icds has entries only while its list exists.
PreloadedEmpty == ~preload_made => preloaded = <<>>

LEMMA PreloadedEmptyInvariant == Spec => []PreloadedEmpty
  <1>1. Init => PreloadedEmpty
    BY DEF Init, PreloadedEmpty
  <1>2. PreloadedEmpty /\ [Next]_vars => PreloadedEmpty'
    <2> SUFFICES ASSUME PreloadedEmpty, [Next]_vars PROVE PreloadedEmpty'
      OBVIOUS
    <2>1. CASE UNCHANGED <<preloaded, preload_made>>
      BY <2>1 DEF PreloadedEmpty
    <2>2. CASE UnloadPreloaded
      BY <2>2 DEF PreloadedEmpty, UnloadPreloaded
    <2>3. ASSUME NEW S, PreloadIcds(S)
          PROVE  PreloadedEmpty'
      BY <2>3 DEF PreloadedEmpty, PreloadIcds
    <2>4. ASSUME NEW a, NEW d, UnloadEmptyDriver(a, d)
          PROVE  PreloadedEmpty'
      BY <2>4 DEF PreloadedEmpty, UnloadEmptyDriver
    <2>5. CASE CreateStep
      BY <2>1, <2>5 DEF CreateStep, CreateRefused, CreateInvalid, CreateLink, CreateCallDown,
           CreateScan, VisitOutOfMemory, VisitNoExtensions, VisitFails, VisitNoEntries,
           VisitCreates, TerminatorEnds, CreateComeBack, CreateSucceeds, CreateFails
    <2>6. ASSUME NEW a, CreateBegin(a) \/ DestroyInstance(a)
          PROVE  PreloadedEmpty'
      BY <2>1, <2>6 DEF CreateBegin, DestroyInstance
    <2> QED
      BY <2>1, <2>2, <2>3, <2>4, <2>5, <2>6 DEF Next, vars
  <1> QED
    BY <1>1, <1>2, PTL DEF Spec

\* The entries of preloaded_icds that are not empty differ.
LEMMA PreloadedDistinct ==
    ASSUME IndInv
    PROVE  /\ \A j, k \in DOMAIN preloaded :
                preloaded[j] = preloaded[k] /\ preloaded[j] # None => j = k
           /\ Named(preloaded) \subseteq Drivers
  <1>1. \A j \in DOMAIN preloaded : preloaded[j] \in Drivers \cup {None}
    BY DEF IndInv, TypeOK
  <1> QED
    BY <1>1 DEF IndInv, LibrariesOwned, Named

\* Only the preloaded list and the libraries change.
LEMMA PreloadStep ==
    ASSUME IndInv, UNCHANGED <<inst, instances, creating, live, env>>,
           preload_made' \in BOOLEAN, pending' \in 0..MaxPending,
           preloaded' \in Seq(Drivers \cup {None}),
           opened' \in [Drivers -> SUBSET (InstanceAddr \cup {Preload})],
           \A d \in Drivers : \A a \in InstanceAddr : a \in opened'[d] <=> a \in opened[d],
           \A d \in Drivers : Preload \in opened'[d] <=> d \in Named(preloaded)',
           \A j, k \in DOMAIN preloaded' :
             preloaded'[j] = preloaded'[k] /\ preloaded'[j] # None => j = k
    PROVE  IndInv'
  <1>1. TypeOK'
    BY TypeSplit, TypeSplitPrime DEF IndInv, StateType, LockFree, Busy
  <1>2. LibrariesOwned'
    BY NamesDistinct DEF IndInv, LibrariesOwned
  <1>3. TermsScanned' /\ InstancesListed' /\ NoInstanceLost'
    BY DEF IndInv, TermsScanned, InstancesListed, NoInstanceLost, InstancesOwned, Self
  <1>4. Control'
    BY DEF IndInv, Control, NullTerms, PhaseInv, LoopInv, OneDriverSuffices, At, Self, Listed, AtHead
  <1> QED
    BY <1>1, <1>2, <1>3, <1>4, PartsPrime DEF Core

LEMMA UnloadPreloadedStep == IndInv /\ UnloadPreloaded => IndInv'
  <1> SUFFICES ASSUME IndInv, UnloadPreloaded PROVE IndInv'
    OBVIOUS
  <1>1. opened \in [Drivers -> SUBSET (InstanceAddr \cup {Preload})]
    BY DEF IndInv, TypeOK
  <1>2. opened' = [d \in Drivers |-> IF d \in Named(preloaded) THEN opened[d] \ {Preload}
                                                               ELSE opened[d]]
    BY DEF UnloadPreloaded, Closed
  <1>3. opened' \in [Drivers -> SUBSET (InstanceAddr \cup {Preload})]
    BY <1>1, <1>2
  <1>4. \A d \in Drivers : Preload \notin opened'[d]
    BY <1>2 DEF IndInv, LibrariesOwned
  <1>5. \A d \in Drivers : \A a \in InstanceAddr : a \in opened'[d] <=> a \in opened[d]
    BY <1>2, NamesDistinct
  <1>6. preloaded' = <<>> /\ DOMAIN preloaded' = {} /\ Named(preloaded)' = {}
    BY DEF UnloadPreloaded, Named
  <1>7. pending' \in 0..MaxPending /\ preload_made' \in BOOLEAN
    <2>1. pending \in 0..MaxPending /\ pending > 0 /\ pending' = pending - 1
      BY DEF IndInv, TypeOK, UnloadPreloaded
    <2>2. preload_made' = FALSE
      BY DEF UnloadPreloaded
    <2>3. pending' \in 0..MaxPending
      BY <2>1, MaxPendingAssumption
    <2> QED
      BY <2>2, <2>3
  <1>8. preloaded' \in Seq(Drivers \cup {None})
    BY <1>6
  <1> QED
    BY <1>3, <1>4, <1>5, <1>6, <1>7, <1>8, PreloadStep DEF UnloadPreloaded

LEMMA PreloadIcdsStep ==
    ASSUME IndInv, PreloadedEmpty, NEW S \in SUBSET Drivers, PreloadIcds(S)
    PROVE  IndInv'
  <1>1. opened \in [Drivers -> SUBSET (InstanceAddr \cup {Preload})]
    BY DEF IndInv, TypeOK
  <1>2. opened' = [d \in Drivers |-> IF d \in S THEN opened[d] \cup {Preload} ELSE opened[d]]
    BY DEF PreloadIcds, Opened
  <1>3. opened' \in [Drivers -> SUBSET (InstanceAddr \cup {Preload})]
    BY <1>1, <1>2
  <1>4. /\ preloaded' \in Seq(Drivers \cup {None}) /\ Named(preloaded)' = S
        /\ \A j, k \in DOMAIN preloaded' : preloaded'[j] = preloaded'[k] => j = k
    BY ScanOrderList DEF PreloadIcds, Named
  <1>5. \A d \in Drivers : Preload \notin opened[d]
    <2>1. Named(preloaded) = {}
      BY DEF PreloadedEmpty, PreloadIcds, Named
    <2> QED
      BY <2>1 DEF IndInv, LibrariesOwned
  <1>6. /\ \A d \in Drivers : Preload \in opened'[d] <=> d \in S
        /\ \A d \in Drivers : \A a \in InstanceAddr : a \in opened'[d] <=> a \in opened[d]
    BY <1>1, <1>2, <1>5, NamesDistinct
  <1>7. pending' \in 0..MaxPending /\ preload_made' \in BOOLEAN
    BY DEF IndInv, TypeOK, PreloadIcds
  <1> QED
    BY <1>3, <1>4, <1>6, <1>7, PreloadStep DEF PreloadIcds

LEMMA UnloadEmptyDriverStep ==
    ASSUME IndInv, NEW a \in DOMAIN inst, NEW d \in DOMAIN inst[a].icd_terms,
           UnloadEmptyDriver(a, d)
    PROVE  IndInv'
  <1> DEFINE terms == inst[a].icd_terms
  <1>1. /\ inst \in [DOMAIN inst -> Instance] /\ DOMAIN inst \subseteq InstanceAddr
        /\ a \in InstanceAddr /\ terms \in Terms /\ inst[a].scanned \subseteq Drivers
        /\ d \in Drivers /\ d \in inst[a].scanned
    BY InstType, TermsType DEF IndInv, TermsScanned
  <1>2. LockFree /\ creating' = NotCreating /\ Self = None /\ Self' = None
        /\ UNCHANGED <<instances, preload_made, pending, env>>
    BY CreatingType DEF IndInv, UnloadEmptyDriver, LockFree, Self
  <1>3. /\ Without(terms, d) \in Terms /\ DOMAIN Without(terms, d) = DOMAIN terms \ {d}
        /\ \A e \in DOMAIN terms \ {d} : Without(terms, d)[e] = terms[e]
    <2>1. terms \in Terms
      BY <1>1
    <2> HIDE DEF terms
    <2> QED
      BY <2>1, WithoutTerms
  <1>4. inst' = [inst EXCEPT ![a] = [scanned |-> inst[a].scanned \ {d},
                                     icd_terms |-> Without(terms, d)]]
    BY DEF UnloadEmptyDriver, UnlinkTerm
  <1>5. /\ DOMAIN inst' = DOMAIN inst
        /\ inst'[a] = [scanned |-> inst[a].scanned \ {d}, icd_terms |-> Without(terms, d)]
        /\ \A b \in DOMAIN inst \ {a} : inst'[b] = inst[b]
    BY <1>4
  <1>6. inst' \in [DOMAIN inst -> Instance]
    <2>1. [scanned |-> inst[a].scanned \ {d}, icd_terms |-> Without(terms, d)] \in Instance
      BY <1>1, <1>3 DEF Instance
    <2> QED
      BY <1>1, <1>4, <2>1
  <1>7. inst'[a].scanned = inst[a].scanned \ {d} /\ inst'[a].icd_terms = Without(terms, d)
    BY <1>5
  <1> HIDE DEF terms
  <1>8. opened \in [Drivers -> SUBSET (InstanceAddr \cup {Preload})]
        /\ preloaded \in Seq(Drivers \cup {None}) /\ d # None /\ a # Preload
    BY <1>1, NamesDistinct DEF IndInv, TypeOK
  <1> DEFINE LibraryGoes ==
        /\ opened' \in [Drivers -> SUBSET (InstanceAddr \cup {Preload})]
        /\ \A e \in Drivers \ {d} : opened'[e] = opened[e]
        /\ opened'[d] = opened[d] \ {a, Preload}
        /\ preloaded' \in Seq(Drivers \cup {None})
        /\ Named(preloaded)' = Named(preloaded) \ {d}
        /\ \A j, k \in DOMAIN preloaded' :
             preloaded'[j] = preloaded'[k] /\ preloaded'[j] # None => j = k
  <1>9. LibraryGoes
    <2>1. CASE d \notin Named(preloaded) /\ opened' = [opened EXCEPT ![d] = @ \ {a}]
               /\ preloaded' = preloaded
      <3>1. Preload \notin opened[d]
        BY <1>1, <2>1 DEF IndInv, LibrariesOwned
      <3>2. Named(preloaded)' = Named(preloaded)
        BY <2>1 DEF Named
      <3> QED
        BY <1>1, <1>8, <2>1, <3>1, <3>2, PreloadedDistinct
    <2>2. ASSUME NEW i \in DOMAIN preloaded, preloaded[i] = d,
                 preloaded' = Condensed(preloaded, i),
                 opened' = [opened EXCEPT ![d] = @ \ {a, Preload}]
          PROVE  LibraryGoes
      <3>1. Named(preloaded)' = Named(Condensed(preloaded, i))
        BY <2>2 DEF Named
      <3>2. /\ Condensed(preloaded, i) \in Seq(Drivers \cup {None})
            /\ Named(Condensed(preloaded, i)) = Named(preloaded) \ {preloaded[i]}
            /\ \A j, k \in DOMAIN Condensed(preloaded, i) :
                 /\ Condensed(preloaded, i)[j] = Condensed(preloaded, i)[k]
                 /\ Condensed(preloaded, i)[j] # None
                 => j = k
        BY <1>8, <2>2, PreloadedDistinct, CondensedList
      <3> QED
        BY <1>1, <1>8, <2>2, <3>1, <3>2
    <2> QED
      BY <2>1, <2>2 DEF UnloadEmptyDriver
  <1>10. live' = Destroyed(terms, {d}) /\ live' \in [Drivers -> SUBSET DriverInstances]
    BY DestroyedType DEF IndInv, UnloadEmptyDriver, terms
  <1>11. TypeOK'
    <2>1. \E A \in SUBSET InstanceAddr : inst' \in [A -> Instance]
      BY <1>1, <1>6
    <2>2. LockFree'
      BY <1>2 DEF LockFree
    <2> QED
      BY <1>2, <1>9, <1>10, <2>1, <2>2, TypeSplit, TypeSplitPrime DEF IndInv, StateType
  <1>12. LibrariesOwned'
    <2>1. \A e \in Drivers, b \in InstanceAddr :
            b \in opened'[e] <=> b \in DOMAIN inst' /\ e \in inst'[b].scanned
      BY <1>1, <1>5, <1>7, <1>8, <1>9, NamesDistinct DEF IndInv, LibrariesOwned
    <2>2. \A e \in Drivers : Preload \in opened'[e] <=> e \in Named(preloaded)'
      BY <1>1, <1>9 DEF IndInv, LibrariesOwned
    <2> QED
      BY <1>9, <2>1, <2>2, NamesDistinct DEF LibrariesOwned
  <1>13. TermsScanned'
    BY <1>3, <1>5, <1>7 DEF IndInv, TermsScanned, terms
  <1>14. InstancesListed'
    BY <1>2, <1>5 DEF IndInv, InstancesListed
  <1>15. \A b \in DOMAIN inst' : \A e \in DOMAIN inst'[b].icd_terms :
           inst'[b].icd_terms[e] # None
    <2>1. \A b \in DOMAIN inst : \A e \in DOMAIN inst[b].icd_terms : inst[b].icd_terms[e] # None
      BY <1>1, <1>2, NamesDistinct DEF IndInv, NullTerms
    <2> QED
      BY <1>3, <1>5, <1>7, <2>1 DEF terms
  <1>16. NoInstanceLost'
    <2> SUFFICES ASSUME InstancesOwned PROVE InstancesOwned'
      BY <1>2 DEF IndInv, NoInstanceLost
    <2> QED
      BY <1>1, <1>3, <1>5, <1>7, <1>10, <1>15, DestroyedOwned DEF IndInv, terms
  <1>17. Control'
    BY <1>1, <1>2, <1>5, <1>15, NamesDistinct, UnlockedControl
  <1> QED
    BY <1>11, <1>12, <1>13, <1>14, <1>16, <1>17, PartsPrime DEF Core

-----------------------------------------------------------------------------
(* The theorems                                                            *)

LEMMA IndInit == Init => IndInv
  <1> SUFFICES ASSUME Init PROVE IndInv
    OBVIOUS
  <1>1. LockFree /\ creating.phase = "none" /\ Self = None /\ DOMAIN inst = {}
        /\ DOMAIN preloaded = {} /\ DOMAIN instances = {} /\ Named(preloaded) = {}
    BY DEF Init, LockFree, NotCreating, Self, Named
  <1>2. TypeOK
    <2>1. inst \in [{} -> Instance] /\ {} \in SUBSET InstanceAddr
      BY DEF Init
    <2>2. pending \in 0..MaxPending
      BY MaxPendingAssumption DEF Init
    <2>3. /\ opened \in [Drivers -> SUBSET (InstanceAddr \cup {Preload})]
          /\ live \in [Drivers -> SUBSET DriverInstances]
      BY DEF Init
    <2>4. instances \in Seq(InstanceAddr) /\ preloaded \in Seq(Drivers \cup {None})
      BY DEF Init
    <2>5. preload_made \in BOOLEAN /\ env \in Environments
      BY DEF Init
    <2> QED
      BY <1>1, <2>1, <2>2, <2>3, <2>4, <2>5, TypeSplit DEF StateType
  <1>3. LibrariesOwned /\ TermsScanned /\ InstancesListed /\ NullTerms
    BY <1>1 DEF Init, LibrariesOwned, TermsScanned, InstancesListed, NullTerms
  <1>4. NoInstanceLost
    BY <1>1 DEF Init, NoInstanceLost, InstancesOwned
  <1>5. PhaseInv /\ LoopInv /\ OneDriverSuffices
    BY <1>1 DEF PhaseInv, LoopInv, OneDriverSuffices, At
  <1> QED
    BY <1>2, <1>3, <1>4, <1>5 DEF IndInv

LEMMA IndNext == IndInv /\ PreloadedEmpty /\ [Next]_vars => IndInv'
  <1> SUFFICES ASSUME IndInv, PreloadedEmpty, [Next]_vars PROVE IndInv'
    OBVIOUS
  <1>1. CASE UNCHANGED vars
    BY <1>1 DEF vars, IndInv, TypeOK, LibrariesOwned, TermsScanned, InstancesListed, NullTerms,
         PhaseInv, LoopInv, OneDriverSuffices, NoInstanceLost, InstancesOwned, At, Self, Named,
         Listed, AtHead
  <1>2. CASE CreateStep
    BY <1>2, CreateRefusedStep, CreateInvalidStep, CreateLinkStep, CreateCallDownStep,
       CreateScanStep, VisitOutOfMemoryStep, VisitNoExtensionsStep, VisitFailsStep,
       VisitNoEntriesStep, VisitCreatesStep, TerminatorEndsStep, CreateComeBackStep,
       CreateSucceedsStep, CreateFailsStep
       DEF CreateStep
  <1> QED
    BY <1>1, <1>2, CreateBeginStep, DestroyInstanceStep, UnloadEmptyDriverStep,
       UnloadPreloadedStep, PreloadIcdsStep
       DEF Next

\* IndInv is an invariant of the instances' life cycle.
THEOREM Invariance == Spec => []IndInv
  BY IndInit, IndNext, PreloadedEmptyInvariant, PTL DEF Spec

\* Every variable keeps its type.
THEOREM TypeCorrect == Spec => []TypeOK
  <1>1. IndInv => TypeOK
    BY DEF IndInv
  <1> QED
    BY <1>1, Invariance, PTL

\* loader_icd_scan, the error path of vkCreateInstance, vkDestroyInstance,
\* loader_preload_icds and unload_drivers_without_physical_devices together open
\* and close every library exactly once.
THEOREM LibraryOwnership == Spec => []LibrariesOwned
  <1>1. IndInv => LibrariesOwned
    BY DEF IndInv
  <1> QED
    BY <1>1, Invariance, PTL

\* No instance has an icd_term whose driver's library it does not keep open.
THEOREM DriversOfInstancesLoaded == Spec => []TermsLoaded
  <1>1. IndInv => TermsLoaded
    <2> SUFFICES ASSUME IndInv, NEW a \in DOMAIN inst, NEW d \in DOMAIN inst[a].icd_terms
                 PROVE  a \in opened[d]
      BY DEF TermsLoaded
    <2>1. d \in inst[a].scanned /\ a \in InstanceAddr /\ d \in Drivers
      BY InstType DEF IndInv, TermsScanned
    <2> QED
      BY <2>1 DEF IndInv, LibrariesOwned
  <1> QED
    BY <1>1, Invariance, PTL

\* loader.instances lists what exists, whatever creation failed where.
THEOREM ListOfInstances == Spec => []InstancesListed
  <1>1. IndInv => InstancesListed
    BY DEF IndInv
  <1> QED
    BY <1>1, Invariance, PTL

\* If the drivers have the entry points that the loader requires, each instance
\* inside a driver belongs to one icd_term, whatever else fails.
THEOREM DriverInstancesOwned == Spec => []NoInstanceLost
  <1>1. IndInv => NoInstanceLost
    BY DEF IndInv
  <1> QED
    BY <1>1, Invariance, PTL

\* terminator_CreateInstance succeeds exactly when a driver created an instance.
THEOREM WorkingDriverSuffices == Spec => []OneDriverSuffices
  <1>1. IndInv => OneDriverSuffices
    BY DEF IndInv
  <1> QED
    BY <1>1, Invariance, PTL

-----------------------------------------------------------------------------
(* The abstract specification.  What it adds to IndInv: whatever the       *)
(* drivers lack, no two instances share an instance inside a driver, and a *)
(* creation that succeeds has a driver.                                    *)

TermsLive == \A a \in DOMAIN inst : \A d \in DOMAIN inst[a].icd_terms :
    inst[a].icd_terms[d] = None \/ inst[a].icd_terms[d] \in live[d]

TermsApart == \A a, b \in DOMAIN inst : a # b =>
    \A d \in DOMAIN inst[a].icd_terms \cap DOMAIN inst[b].icd_terms :
        inst[a].icd_terms[d] # inst[b].icd_terms[d]

HandedOut == creating.phase \in {"back", "returned"} /\ creating.res = "success" =>
    DOMAIN inst[Self].icd_terms # {}

ViewInv == TermsLive /\ TermsApart /\ HandedOut

\* What a term of an instance can be, but None in the creation under way.
LEMMA OthersNotNull ==
    ASSUME IndInv, NEW a \in DOMAIN inst \ {Self}, NEW d \in DOMAIN inst[a].icd_terms
    PROVE  inst[a].icd_terms[d] # None
  BY DEF IndInv, NullTerms

\* No icd_term changes or appears, and the drivers keep their instances.
LEMMA TermsKept ==
    ASSUME TermsLive, TermsApart, TypeOK, TypeOK',
           \A a \in DOMAIN inst' : \A d \in DOMAIN inst'[a].icd_terms :
             /\ a \in DOMAIN inst /\ d \in DOMAIN inst[a].icd_terms
             /\ inst'[a].icd_terms[d] = inst[a].icd_terms[d]
             /\ live[d] \subseteq live'[d]
    PROVE  TermsLive' /\ TermsApart'
  <1>1. TermsLive'
    BY DEF TermsLive
  <1>2. TermsApart'
    BY DEF TermsApart
  <1> QED
    BY <1>1, <1>2

\* The drivers in ds destroy what they have for instance a: nobody else's
\* instance is touched.
LEMMA TermsGo ==
    ASSUME IndInv, TermsLive, TermsApart, NEW a \in DOMAIN inst, NEW ds \in SUBSET Drivers,
           live' = Destroyed(inst[a].icd_terms, ds),
           \A b \in DOMAIN inst' : \A d \in DOMAIN inst'[b].icd_terms :
             /\ b \in DOMAIN inst /\ d \in DOMAIN inst[b].icd_terms
             /\ inst'[b].icd_terms[d] = inst[b].icd_terms[d]
             /\ b = a => d \notin ds
    PROVE  TermsLive' /\ TermsApart'
  <1>1. TermsApart'
    BY DEF TermsApart
  <1>2. ASSUME NEW b \in DOMAIN inst', NEW d \in DOMAIN inst'[b].icd_terms,
               inst'[b].icd_terms[d] # None
        PROVE  inst'[b].icd_terms[d] \in live'[d]
    <2>1. /\ b \in DOMAIN inst /\ d \in DOMAIN inst[b].icd_terms
          /\ inst'[b].icd_terms[d] = inst[b].icd_terms[d]
          /\ b = a => d \notin ds
      BY <1>2
    <2>2. d \in Drivers
      BY <2>1, InstType, TermsType DEF IndInv
    <2>3. inst[b].icd_terms[d] \in live[d]
      BY <1>2, <2>1 DEF TermsLive
    <2>4. live'[d] = IF d \in DOMAIN inst[a].icd_terms \cap ds
                     THEN live[d] \ {inst[a].icd_terms[d]} ELSE live[d]
      BY <2>2 DEF Destroyed
    <2>5. d \in DOMAIN inst[a].icd_terms \cap ds => inst[b].icd_terms[d] # inst[a].icd_terms[d]
      BY <2>1 DEF TermsApart
    <2> QED
      BY <2>1, <2>3, <2>4, <2>5
  <1> QED
    BY <1>1, <1>2 DEF TermsLive

\* The icd_terms of the creation grow by one, which stands for nothing or for
\* an instance that the driver has just created.
LEMMA TermsGrow ==
    ASSUME IndInv, TermsLive, TermsApart, Self \in DOMAIN inst, DOMAIN inst' = DOMAIN inst,
           \A a \in DOMAIN inst \ {Self} : inst'[a].icd_terms = inst[a].icd_terms,
           \A d \in Drivers : live[d] \subseteq live'[d],
           NEW e \in Drivers,
           \A d \in DOMAIN inst'[Self].icd_terms \ {e} :
             /\ d \in DOMAIN inst[Self].icd_terms
             /\ inst'[Self].icd_terms[d] = inst[Self].icd_terms[d],
           e \in DOMAIN inst'[Self].icd_terms =>
             \/ inst'[Self].icd_terms[e] = None
             \/ inst'[Self].icd_terms[e] \in live'[e] \ live[e]
    PROVE  TermsLive' /\ TermsApart'
  <1>1. \A a \in DOMAIN inst : DOMAIN inst[a].icd_terms \subseteq Drivers
    BY InstType, TermsType DEF IndInv
  <1>2. ASSUME NEW a \in DOMAIN inst \ {Self}, NEW d \in DOMAIN inst[a].icd_terms
        PROVE  inst[a].icd_terms[d] \in live[d] /\ inst[a].icd_terms[d] # None
    BY <1>2, OthersNotNull DEF TermsLive
  <1>3. TermsLive'
    BY <1>1, <1>2 DEF TermsLive
  <1>4. ASSUME NEW a \in DOMAIN inst \ {Self},
               NEW d \in DOMAIN inst'[a].icd_terms \cap DOMAIN inst'[Self].icd_terms
        PROVE  inst'[a].icd_terms[d] # inst'[Self].icd_terms[d]
    <2>1. inst'[a].icd_terms = inst[a].icd_terms /\ inst[a].icd_terms[d] \in live[d]
          /\ inst[a].icd_terms[d] # None
      BY <1>2, <1>4
    <2>2. CASE d = e
      BY <1>4, <2>1, <2>2
    <2>3. CASE d # e
      BY <1>4, <2>1, <2>3 DEF TermsApart
    <2> QED
      BY <2>2, <2>3
  <1>5. TermsApart'
    BY <1>4 DEF TermsApart
  <1> QED
    BY <1>3, <1>5


\* A step of the creation that touches no icd_term, and after which there is no
\* success that was not there before.
LEMMA ViewQuiet ==
    ASSUME ViewInv, TypeOK, TypeOK', inst' = inst, Self' = Self,
           \A d \in Drivers : live[d] \subseteq live'[d],
           creating'.phase \in {"back", "returned"} /\ creating'.res = "success" =>
             creating.phase \in {"back", "returned"} /\ creating.res = "success"
    PROVE  ViewInv'
  <1>1. \A a \in DOMAIN inst : DOMAIN inst[a].icd_terms \subseteq Drivers
    BY InstType, TermsType
  <1>2. TermsLive' /\ TermsApart'
    BY <1>1, TermsKept DEF ViewInv
  <1>3. HandedOut'
    BY DEF ViewInv, HandedOut
  <1> QED
    BY <1>2, <1>3 DEF ViewInv

\* No creation is under way after the step.
LEMMA ViewUnlocked ==
    ASSUME creating' = NotCreating
    PROVE  HandedOut'
  BY DEF HandedOut, NotCreating

LEMMA WithNull ==
    ASSUME NEW t \in Terms, NEW d \in Drivers
    PROVE  /\ With(t, d, None) \in Terms
           /\ DOMAIN With(t, d, None) = DOMAIN t \cup {d}
           /\ With(t, d, None)[d] = None
           /\ \A e \in DOMAIN t \ {d} : With(t, d, None)[e] = t[e]
  <1>1. DOMAIN With(t, d, None) = DOMAIN t \cup {d}
    BY DEF With
  <1>2. With(t, d, None) \in [DOMAIN t \cup {d} -> DriverInstances \cup {None}]
    BY TermsType DEF With
  <1> QED
    BY <1>1, <1>2, TermsType DEF With

LEMMA ViewStep == IndInv /\ IndInv' /\ ViewInv /\ [Next]_vars => ViewInv'
  <1> SUFFICES ASSUME IndInv, IndInv', ViewInv, [Next]_vars PROVE ViewInv'
    OBVIOUS
  <1>t. TypeOK /\ TypeOK'
    BY DEF IndInv
  <1>d. \A a \in DOMAIN inst : DOMAIN inst[a].icd_terms \subseteq Drivers
    BY <1>t, InstType, TermsType
  <1>1. CASE UNCHANGED <<inst, creating, live>>
    BY <1>1, <1>t, ViewQuiet DEF Self
  <1>2. ASSUME NEW a \in InstanceAddr \ DOMAIN inst, CreateBegin(a)
        PROVE  ViewInv'
    <2>1. /\ inst' = With(inst, a, NewInstance) /\ live' = live
          /\ creating' = [NotCreating EXCEPT !.a = a, !.phase = "begin"]
      BY <1>2 DEF CreateBegin
    <2>2. /\ DOMAIN inst' = DOMAIN inst \cup {a} /\ inst'[a] = NewInstance
          /\ \A b \in DOMAIN inst : inst'[b] = inst[b]
      BY <1>2, <2>1 DEF With
    <2>3. DOMAIN inst'[a].icd_terms = {}
      BY <2>2, NoTermsType DEF NewInstance
    <2>4. TermsLive' /\ TermsApart'
      BY <1>t, <1>d, <2>1, <2>2, <2>3, TermsKept DEF ViewInv
    <2>5. HandedOut'
      BY <2>1 DEF HandedOut, NotCreating
    <2> QED
      BY <2>4, <2>5 DEF ViewInv
  <1>3. ASSUME NEW phase \in Phases, NEW res \in Results, ~LockFree, Goes(phase, res),
               inst' = inst, live' = live,
               phase = "returned" => creating.phase = "back" \/ res # "success",
               phase = "back" => FALSE,
               creating.phase = "back" => res = creating.res \/ res # "success"
        PROVE  ViewInv'
    <2>1. creating' = [a |-> Self, phase |-> phase, todo |-> creating.todo, res |-> res,
                       forced |-> creating.forced, made |-> creating.made]
      BY <1>t, <1>3, GoesStep
    <2>2. Self' = Self /\ creating'.phase = phase /\ creating'.res = res
      BY <2>1 DEF Self
    <2> QED
      BY <1>t, <1>3, <2>2, ViewQuiet
  <1>4. CASE CreateRefused \/ CreateInvalid
    <2>1. PICK r \in OutOfMemory \cup {"not_present"} : Goes("returned", r)
      BY <1>4 DEF CreateRefused, CreateInvalid
    <2>2. r \in Results /\ r # "success" /\ "returned" \in Phases
      BY MemoryResults DEF Results, Phases
    <2>3. At("begin") \/ At("scanned")
      BY <1>4 DEF CreateRefused, CreateInvalid
    <2>4. ~LockFree /\ creating.phase # "back"
      BY <1>t, <2>3, BusyPhase DEF Phases, At
    <2>5. inst' = inst /\ live' = live
      BY <1>4 DEF CreateRefused, CreateInvalid
    <2> QED
      BY <1>3, <2>1, <2>2, <2>4, <2>5
  <1>5. CASE CreateLink
    <2>1. ~LockFree /\ creating.phase # "back"
      BY <1>t, <1>5, BusyPhase DEF Phases, At, CreateLink
    <2> QED
      BY <1>3, <1>5, <2>1 DEF CreateLink, Phases, Results
  <1>6. CASE CreateCallDown
    <2>1. ~LockFree /\ creating.phase # "back" /\ creating \in Busy
      BY <1>t, <1>6, BusyPhase DEF Phases, At, CreateCallDown
    <2>2. inst' = inst /\ live' = live
      BY <1>6 DEF CreateCallDown
    <2>3. CASE creating' = [creating EXCEPT !.phase = "terminator", !.todo = inst[Self].scanned]
      <3>1. Self' = Self /\ creating'.phase = "terminator"
        BY <2>1, <2>3 DEF Busy, Self
      <3> QED
        BY <1>t, <2>2, <3>1, ViewQuiet
    <2>4. ASSUME NEW r \in OutOfMemory \cup {"initialization_failed"}, Goes("returned", r)
          PROVE  ViewInv'
      <3>1. r \in Results /\ r # "success"
        BY MemoryResults DEF Results
      <3> QED
        BY <1>3, <2>1, <2>2, <2>4, <3>1 DEF Phases
    <2> QED
      BY <1>6, <2>3, <2>4 DEF CreateCallDown
  <1>7. ASSUME NEW S \in SUBSET Drivers, CreateScan(S)
        PROVE  ViewInv'
    <2>1. At("begin") /\ inst' = [inst EXCEPT ![Self].scanned = S] /\ live' = live
      BY <1>7 DEF CreateScan
    <2>2. ~LockFree /\ Self \in DOMAIN inst
      BY <1>t, <2>1, BusyPhase DEF Phases
    <2>3. inst \in [DOMAIN inst -> Instance]
      BY <1>t, InstType
    <2>4. DOMAIN inst' = DOMAIN inst /\ \A a \in DOMAIN inst : inst'[a].icd_terms = inst[a].icd_terms
      BY <2>1, <2>2, <2>3 DEF Instance
    <2>5. TermsLive' /\ TermsApart'
      BY <1>t, <2>1, <2>4, TermsKept DEF ViewInv
    <2>6. PICK phase \in Phases, res \in Results :
            Goes(phase, res) /\ ~(phase \in {"back", "returned"} /\ res = "success")
      BY <1>7, MemoryResults DEF CreateScan, Phases, Results
    <2>7. creating'.phase = phase /\ creating'.res = res
      BY <1>t, <2>2, <2>4, <2>6, GoesStep
    <2> QED
      BY <2>5, <2>6, <2>7 DEF ViewInv, HandedOut
  <1>8. ASSUME NEW d \in Drivers, VisitNoExtensions(d) \/ VisitFails(d) \/ VisitNoEntries(d)
        PROVE  ViewInv'
    <2>1. Visiting(d) /\ inst' = inst /\ \A e \in Drivers : live[e] \subseteq live'[e]
      BY <1>t, <1>8 DEF VisitNoExtensions, VisitFails, VisitNoEntries, TypeOK
    <2>2. PICK res \in Results, forced \in BOOLEAN : Visited(d, res, forced, {})
      BY <1>8 DEF VisitNoExtensions, VisitFails, VisitNoEntries, Results
    <2>3. Self' = Self /\ creating'.phase = "terminator"
      BY <1>t, <2>1, <2>2, VisitedStep DEF Self
    <2> QED
      BY <1>t, <2>1, <2>3, ViewQuiet
  <1>9. ASSUME NEW d \in Drivers, VisitOutOfMemory(d)
        PROVE  ViewInv'
    <2> DEFINE terms == inst[Self].icd_terms
    <2>1. Visiting(d) /\ live' = live
      BY <1>9 DEF VisitOutOfMemory
    <2>2. Self \in DOMAIN inst /\ terms \in Terms /\ creating \in Busy /\ At("terminator")
      BY <2>1, VisitingFacts
    <2>3. Self' = Self /\ creating'.phase = "terminator"
      BY <1>9, <2>2 DEF VisitOutOfMemory, Busy, Self, At
    <2>4. CASE inst' = inst
      BY <1>t, <2>1, <2>3, <2>4, ViewQuiet
    <2>5. CASE inst' = [inst EXCEPT ![Self].icd_terms = With(terms, d, None)]
      <3>2. PICK t : t = With(terms, d, None) /\ inst' = [inst EXCEPT ![Self].icd_terms = t]
        BY <2>5
      <3>1. t \in Terms /\ DOMAIN t = DOMAIN terms \cup {d} /\ t[d] = None
            /\ \A e \in DOMAIN terms \ {d} : t[e] = terms[e]
        BY <2>2, <3>2, WithNull
      <3>3. /\ DOMAIN inst' = DOMAIN inst /\ inst'[Self].icd_terms = t
            /\ \A a \in DOMAIN inst \ {Self} : inst'[a].icd_terms = inst[a].icd_terms
        BY <2>2, <3>1, <3>2, NewTermsStep
      <3>4. TermsLive' /\ TermsApart'
        BY <2>1, <2>2, <3>1, <3>3, TermsGrow DEF ViewInv
      <3> QED
        BY <2>3, <3>4 DEF ViewInv, HandedOut
    <2> QED
      BY <1>9, <2>4, <2>5 DEF VisitOutOfMemory
  <1>10. ASSUME NEW d \in Drivers, VisitCreates(d)
         PROVE  ViewInv'
    <2> DEFINE terms == inst[Self].icd_terms
    <2>1. Visiting(d) /\ Visited(d, "success", FALSE, {d})
      BY <1>10 DEF VisitCreates
    <2>2. Self \in DOMAIN inst /\ terms \in Terms
      BY <2>1, VisitingFacts
    <2>3. PICK v \in DriverInstances \ live[d] :
            /\ live' = [live EXCEPT ![d] = @ \cup {v}]
            /\ inst' = [inst EXCEPT ![Self].icd_terms = With(terms, d, v)]
      BY <1>10 DEF VisitCreates
    <2> DEFINE t == With(terms, d, v)
    <2>4. t \in Terms /\ DOMAIN t = DOMAIN terms \cup {d} /\ t[d] = v
          /\ \A e \in DOMAIN terms \ {d} : t[e] = terms[e]
      <3>1. terms \in Terms /\ v \in DriverInstances \cup {None}
        BY <2>2
      <3> HIDE DEF terms
      <3> QED
        BY <3>1, WithTerms
    <2> HIDE DEF t
    <2>5. inst' = [inst EXCEPT ![Self].icd_terms = t]
      BY <2>3 DEF t
    <2>6. /\ DOMAIN inst' = DOMAIN inst /\ inst'[Self].icd_terms = t
          /\ \A a \in DOMAIN inst \ {Self} : inst'[a].icd_terms = inst[a].icd_terms
      BY <2>2, <2>4, <2>5, NewTermsStep
    <2>7. v \in live'[d] \ live[d] /\ \A e \in Drivers : live[e] \subseteq live'[e]
      BY <1>t, <2>3 DEF TypeOK
    <2>8. TermsLive' /\ TermsApart'
      BY <2>2, <2>4, <2>6, <2>7, TermsGrow DEF ViewInv
    <2>9. creating'.phase = "terminator"
      <3>1. "success" \in Results /\ FALSE \in BOOLEAN /\ {d} \in SUBSET Drivers
        BY DEF Results
      <3>2. creating' = [a |-> Self, phase |-> "terminator", todo |-> creating.todo \ {d},
                         res |-> "success", forced |-> creating.forced \/ FALSE,
                         made |-> creating.made \cup {d}]
        BY <1>t, <2>1, <2>6, <3>1, VisitedStep
      <3> QED
        BY <3>2
    <2> QED
      BY <2>8, <2>9 DEF ViewInv, HandedOut
  <1>11. CASE TerminatorEnds
    <2>1. At("terminator") /\ Goes("back", FinalRes)
      BY <1>11 DEF TerminatorEnds
    <2>2. ~LockFree /\ Self \in DOMAIN inst /\ creating.res \in Results
      BY <1>t, <2>1, BusyPhase DEF Phases
    <2>3. inst[Self].icd_terms \in Terms
      BY <1>t, <2>2, InstType
    <2>4. /\ FinalRes \in Results
          /\ FinalRes = "success" => DOMAIN inst[Self].icd_terms # {}
      BY <2>2, <2>3, EmptyTerms DEF FinalRes, Results
    <2>5. CASE FinalRes = "success"
      <3>1. inst' = inst /\ live' = live
        BY <1>11, <2>5 DEF TerminatorEnds
      <3>2. TermsLive' /\ TermsApart'
        BY <1>t, <3>1, TermsKept DEF ViewInv
      <3>3. Self' = Self
        BY <1>t, <2>1, <2>2, <2>4, <3>1, GoesStep DEF Self, Phases
      <3> QED
        BY <2>4, <2>5, <3>1, <3>2, <3>3 DEF ViewInv, HandedOut
    <2>6. CASE FinalRes # "success"
      <3>1. inst' = [inst EXCEPT ![Self].icd_terms = NoTerms]
            /\ live' = Destroyed(inst[Self].icd_terms, Drivers)
        BY <1>11, <2>6 DEF TerminatorEnds, DestroyTerms
      <3>2. /\ DOMAIN inst' = DOMAIN inst /\ inst'[Self].icd_terms = NoTerms
            /\ \A a \in DOMAIN inst \ {Self} : inst'[a] = inst[a]
        BY <2>2, <3>1, NoTermsType, NewTermsStep
      <3>3. TermsLive' /\ TermsApart'
        BY <2>2, <3>1, <3>2, NoTermsType, TermsGo DEF ViewInv
      <3>4. creating'.res # "success"
        BY <1>t, <2>1, <2>2, <2>4, <2>6, <3>2, GoesStep DEF Phases
      <3> QED
        BY <3>3, <3>4 DEF ViewInv, HandedOut
    <2> QED
      BY <2>5, <2>6
  <1>12. CASE CreateComeBack
    <2>1. At("back") /\ inst' = inst /\ live' = live
      BY <1>12 DEF CreateComeBack
    <2>2. ~LockFree /\ creating.res \in Results
      BY <1>t, <2>1, BusyPhase DEF Phases
    <2>3. PICK r \in Results : Goes("returned", r) /\ (r = creating.res \/ r # "success")
      BY <1>12, <2>2, MemoryResults DEF CreateComeBack, Results
    <2> QED
      BY <1>3, <2>1, <2>2, <2>3 DEF At, Phases
  <1>13. CASE CreateSucceeds
    <2>1. inst' = inst /\ live' = live /\ creating' = NotCreating
      BY <1>13 DEF CreateSucceeds, Unlock
    <2> QED
      BY <1>t, <2>1, TermsKept, ViewUnlocked DEF ViewInv
  <1>14. ASSUME NEW a \in DOMAIN inst, creating' = NotCreating, inst' = Without(inst, a),
                live' = Destroyed(inst[a].icd_terms, Drivers)
         PROVE  ViewInv'
    <2>1. DOMAIN inst' = DOMAIN inst \ {a} /\ \A b \in DOMAIN inst \ {a} : inst'[b] = inst[b]
      BY <1>14 DEF Without
    <2>2. TermsLive' /\ TermsApart'
      BY <1>14, <2>1, TermsGo DEF ViewInv
    <2> QED
      BY <1>14, <2>2, ViewUnlocked DEF ViewInv
  <1>15. CASE CreateFails
    <2>1. Self \in DOMAIN inst
      BY <1>t, <1>15, BusyPhase DEF CreateFails, Phases
    <2> QED
      BY <1>14, <1>15, <2>1 DEF CreateFails, Unlock
  <1>16. ASSUME NEW a \in DOMAIN inst, DestroyInstance(a)
         PROVE  ViewInv'
    BY <1>14, <1>16 DEF DestroyInstance, LockFree
  <1>17. ASSUME NEW a \in DOMAIN inst, NEW d \in DOMAIN inst[a].icd_terms,
                UnloadEmptyDriver(a, d)
         PROVE  ViewInv'
    <2> DEFINE t == Without(inst[a].icd_terms, d)
    <2>1. /\ creating' = NotCreating /\ live' = Destroyed(inst[a].icd_terms, {d})
          /\ inst' = [inst EXCEPT ![a] = [scanned |-> inst[a].scanned \ {d}, icd_terms |-> t]]
      BY <1>17 DEF UnloadEmptyDriver, UnlinkTerm, LockFree
    <2>2. inst[a].icd_terms \in Terms /\ d \in Drivers
      BY <1>t, <1>d, InstType
    <2>3. DOMAIN t = DOMAIN inst[a].icd_terms \ {d}
          /\ \A e \in DOMAIN inst[a].icd_terms \ {d} : t[e] = inst[a].icd_terms[e]
      BY <2>2, WithoutTerms
    <2> HIDE DEF t
    <2>4. /\ DOMAIN inst' = DOMAIN inst /\ inst'[a].icd_terms = t
          /\ \A b \in DOMAIN inst \ {a} : inst'[b] = inst[b]
      BY <1>17, <2>1
    <2>5. TermsLive' /\ TermsApart'
      BY <2>1, <2>2, <2>3, <2>4, TermsGo DEF ViewInv
    <2> QED
      BY <2>1, <2>5, ViewUnlocked DEF ViewInv
  <1>18. CASE CreateStep
    BY <1>4, <1>5, <1>6, <1>7, <1>8, <1>9, <1>10, <1>11, <1>12, <1>13, <1>15, <1>18
       DEF CreateStep
  <1>19. CASE UnloadPreloaded \/ \E S \in SUBSET Drivers : PreloadIcds(S)
    BY <1>1, <1>19 DEF UnloadPreloaded, PreloadIcds
  <1>20. CASE UNCHANGED vars
    BY <1>1, <1>20 DEF vars
  <1> QED
    BY <1>2, <1>16, <1>17, <1>18, <1>19, <1>20 DEF Next


LEMMA ViewInvariance == Spec => []ViewInv
  <1>1. Init => ViewInv
    BY DEF Init, NotCreating, ViewInv, TermsLive, TermsApart, HandedOut
  <1> QED
    BY <1>1, ViewStep, Invariance, PTL DEF Spec

\* The view depends on the instances handed out and their icd_terms only.
LEMMA SameView ==
    ASSUME DOMAIN inst' \ {Self'} = DOMAIN inst \ {Self},
           \A a \in DOMAIN inst \ {Self} : inst'[a].icd_terms = inst[a].icd_terms
    PROVE  AppView' = AppView
  BY DEF AppView

LEMMA ViewOf ==
    /\ DOMAIN AppView = DOMAIN inst \ {Self}
    /\ \A a \in DOMAIN inst \ {Self} : AppView[a] = inst[a].icd_terms
  BY DEF AppView

\* What a creation does before it succeeds or fails does not show.
LEMMA CreationHidden ==
    ASSUME IndInv, CreateStep
    PROVE  AppView' = AppView \/ CreateSucceeds
  <1>t. TypeOK
    BY DEF IndInv
  <1>b. inst \in [DOMAIN inst -> Instance]
    BY <1>t, InstType
  <1>1. CASE CreateFails
    <2>1. inst' = Without(inst, Self) /\ Self' = None
      BY <1>1 DEF CreateFails, Unlock, NotCreating, Self
    <2>2. None \notin DOMAIN inst
      BY <1>t, InstType, NamesDistinct
    <2>3. DOMAIN inst' = DOMAIN inst \ {Self} /\ \A a \in DOMAIN inst' : inst'[a] = inst[a]
      BY <2>1 DEF Without
    <2> QED
      BY <2>1, <2>2, <2>3, SameView
  <1>2. ASSUME Self' = Self, Self \in DOMAIN inst,
               \/ inst' = inst
               \/ \E S : inst' = [inst EXCEPT ![Self].scanned = S]
               \/ \E t : inst' = [inst EXCEPT ![Self].icd_terms = t]
        PROVE  AppView' = AppView
    <2>1. DOMAIN inst' = DOMAIN inst
          /\ \A a \in DOMAIN inst \ {Self} : inst'[a].icd_terms = inst[a].icd_terms
      BY <1>2, <1>b
    <2> QED
      BY <1>2, <2>1, SameView
  <1>4. ASSUME NEW phase, NEW res, Goes(phase, res), ~LockFree
        PROVE  Self' = Self
    <2>1. creating \in Busy
      BY <1>t, <1>4, CreatingType
    <2> QED
      BY <1>4, <2>1 DEF Goes, Busy, Self
  <1>5. ASSUME NEW d \in Drivers, Visiting(d), NEW res, NEW forced, NEW made,
               Visited(d, res, forced, made)
        PROVE  Self' = Self
    <2>1. creating \in Busy
      BY <1>5, VisitingFacts
    <2> QED
      BY <1>5, <2>1 DEF Visited, Busy, Self
  <1>6. CASE CreateRefused \/ CreateInvalid \/ CreateLink \/ CreateComeBack \/ CreateCallDown
    <2>1. At("begin") \/ At("scanned") \/ At("back") \/ At("linked")
      BY <1>6 DEF CreateRefused, CreateInvalid, CreateLink, CreateComeBack, CreateCallDown
    <2>2. ~LockFree /\ Self \in DOMAIN inst /\ creating \in Busy
      BY <1>t, <2>1, BusyPhase DEF Phases
    <2>3. Self' = Self
      <3>1. CASE CreateCallDown
        BY <1>4, <2>2, <3>1 DEF CreateCallDown, Busy, Self
      <3> QED
        BY <1>4, <1>6, <2>2, <3>1 DEF CreateRefused, CreateInvalid, CreateLink, CreateComeBack
    <2>4. inst' = inst
      BY <1>6 DEF CreateRefused, CreateInvalid, CreateLink, CreateComeBack, CreateCallDown
    <2> QED
      BY <1>2, <2>2, <2>3, <2>4
  <1>7. ASSUME NEW S \in SUBSET Drivers, CreateScan(S)
        PROVE  AppView' = AppView
    <2>1. ~LockFree /\ Self \in DOMAIN inst
      BY <1>t, <1>7, BusyPhase DEF Phases, CreateScan
    <2>2. Self' = Self
      BY <1>4, <1>7, <2>1 DEF CreateScan
    <2> QED
      BY <1>2, <1>7, <2>1, <2>2 DEF CreateScan
  <1>8. ASSUME NEW d \in Drivers, VisitNoExtensions(d) \/ VisitFails(d) \/ VisitNoEntries(d)
        PROVE  AppView' = AppView
    <2>1. Visiting(d) /\ inst' = inst
      BY <1>8 DEF VisitNoExtensions, VisitFails, VisitNoEntries
    <2>2. \E res, forced : Visited(d, res, forced, {})
      BY <1>8 DEF VisitNoExtensions, VisitFails, VisitNoEntries
    <2>3. Self \in DOMAIN inst
      BY <2>1, VisitingFacts
    <2> QED
      BY <1>2, <1>5, <2>1, <2>2, <2>3
  <1>9. ASSUME NEW d \in Drivers, VisitOutOfMemory(d)
        PROVE  AppView' = AppView
    <2>1. Visiting(d)
      BY <1>9 DEF VisitOutOfMemory
    <2>2. Self \in DOMAIN inst /\ creating \in Busy
      BY <2>1, VisitingFacts
    <2>3. Self' = Self
      BY <1>9, <2>2 DEF VisitOutOfMemory, Busy, Self
    <2>4. inst' = inst \/ inst' = [inst EXCEPT ![Self].icd_terms = With(@, d, None)]
      BY <1>9 DEF VisitOutOfMemory
    <2> QED
      BY <1>2, <2>2, <2>3, <2>4
  <1>10. ASSUME NEW d \in Drivers, VisitCreates(d)
         PROVE  AppView' = AppView
    <2>1. Visiting(d) /\ Visited(d, "success", FALSE, {d})
      BY <1>10 DEF VisitCreates
    <2>2. Self \in DOMAIN inst /\ Self' = Self
      BY <1>5, <2>1, VisitingFacts
    <2>3. PICK v : inst' = [inst EXCEPT ![Self].icd_terms = With(@, d, v)]
      BY <1>10 DEF VisitCreates
    <2> QED
      BY <1>2, <2>2, <2>3
  <1>11. CASE TerminatorEnds
    <2>1. ~LockFree /\ Self \in DOMAIN inst
      BY <1>t, <1>11, BusyPhase DEF Phases, TerminatorEnds
    <2>2. Self' = Self
      BY <1>4, <1>11, <2>1 DEF TerminatorEnds
    <2>3. inst' = inst \/ \E t : inst' = [inst EXCEPT ![Self].icd_terms = t]
      BY <1>11 DEF TerminatorEnds, DestroyTerms
    <2> QED
      BY <1>2, <2>1, <2>2, <2>3
  <1> QED
    BY <1>1, <1>6, <1>7, <1>8, <1>9, <1>10, <1>11 DEF CreateStep

\* A creation that succeeds is a Create of InstanceTable.
LEMMA SuccessShows ==
    ASSUME IndInv, ViewInv, CreateSucceeds
    PROVE  \E h \in InstanceAddr \ DOMAIN AppView : Table!Create(h)
  <1> DEFINE h == Self
             t == inst[Self].icd_terms
  <1>1. At("returned") /\ creating.res = "success" /\ inst' = inst /\ Self' = None
    BY DEF CreateSucceeds, Unlock, NotCreating, Self
  <1>2. Self \in DOMAIN inst /\ Self \in InstanceAddr /\ None \notin DOMAIN inst /\ t \in Terms
    BY <1>1, BusyPhase, InstType, NamesDistinct DEF IndInv, Phases
  <1>3. DOMAIN t # {} /\ DOMAIN t \subseteq Drivers /\ \A d \in DOMAIN t : t[d] # None
    BY <1>1, <1>2, TermsType DEF ViewInv, HandedOut, At, IndInv, NullTerms
  <1>4. t \in [DOMAIN t -> DriverInstances]
    BY <1>2, <1>3, TermsType
  <1>5. \A g \in DOMAIN AppView : Table!Apart(t, AppView[g])
    BY <1>2, ViewOf DEF ViewInv, TermsApart, Table!Apart
  <1>6. /\ DOMAIN AppView' = DOMAIN inst
        /\ \A g \in DOMAIN inst : AppView'[g] = inst[g].icd_terms
        /\ AppView' = [g \in DOMAIN AppView' |-> AppView'[g]]
    BY <1>1, <1>2 DEF AppView
  <1>7. AppView' = [g \in DOMAIN AppView \cup {h} |-> IF g = h THEN t ELSE AppView[g]]
    <2>1. DOMAIN AppView \cup {h} = DOMAIN inst
      BY <1>2, ViewOf
    <2>2. \A g \in DOMAIN inst : AppView'[g] = IF g = h THEN t ELSE AppView[g]
      BY <1>6, ViewOf
    <2> HIDE DEF h, t
    <2> QED
      BY <1>6, <2>1, <2>2
  <1>8. h \in InstanceAddr \ DOMAIN AppView
    BY <1>2, ViewOf
  <1>9. DOMAIN t \in (SUBSET Drivers) \ {{}}
    BY <1>3
  <1> HIDE DEF h, t
  <1>10. Table!Create(h)
    BY <1>4, <1>5, <1>7, <1>9 DEF Table!Create
  <1> QED
    BY <1>8, <1>10

LEMMA DestroyShows ==
    ASSUME IndInv, NEW a \in DOMAIN inst, DestroyInstance(a)
    PROVE  a \in DOMAIN AppView /\ Table!Destroy(a)
  <1>1. LockFree /\ creating' = creating /\ inst' = Without(inst, a)
    BY DEF DestroyInstance
  <1>2. Self \notin DOMAIN inst /\ Self' = Self
    BY <1>1, CreatingType DEF IndInv, Self
  <1>3. DOMAIN AppView = DOMAIN inst /\ \A b \in DOMAIN inst : AppView[b] = inst[b].icd_terms
    BY <1>2, ViewOf
  <1>4. AppView' = [b \in DOMAIN AppView \ {a} |-> AppView[b]]
    <2>1. DOMAIN inst' = DOMAIN inst \ {a} /\ \A b \in DOMAIN inst \ {a} : inst'[b] = inst[b]
      BY <1>1 DEF Without
    <2>2. DOMAIN inst' \ {Self'} = DOMAIN AppView \ {a}
      BY <1>2, <1>3, <2>1
    <2>3. AppView' = [b \in DOMAIN inst' \ {Self'} |-> inst'[b].icd_terms]
      BY DEF AppView
    <2> QED
      BY <1>3, <2>1, <2>2, <2>3
  <1> QED
    BY <1>3, <1>4 DEF Table!Destroy

LEMMA UnloadShows ==
    ASSUME IndInv, NEW a \in DOMAIN inst, NEW d \in DOMAIN inst[a].icd_terms,
           UnloadEmptyDriver(a, d)
    PROVE  a \in DOMAIN AppView /\ d \in DOMAIN AppView[a] /\ Table!Unload(a, d)
  <1>1. /\ LockFree /\ creating' = creating
        /\ inst' = [inst EXCEPT ![a] = [scanned |-> inst[a].scanned \ {d},
                                        icd_terms |-> Without(inst[a].icd_terms, d)]]
    BY DEF UnloadEmptyDriver, UnlinkTerm
  <1>2. Self \notin DOMAIN inst /\ Self' = Self
    BY <1>1, CreatingType DEF IndInv, Self
  <1>3. DOMAIN AppView = DOMAIN inst /\ \A b \in DOMAIN inst : AppView[b] = inst[b].icd_terms
    BY <1>2, ViewOf
  <1> DEFINE t == Without(inst[a].icd_terms, d)
  <1>4. t = [e \in DOMAIN AppView[a] \ {d} |-> AppView[a][e]]
    BY <1>3 DEF Without
  <1> HIDE DEF t
  <1>5. /\ DOMAIN inst' = DOMAIN inst /\ inst'[a].icd_terms = t
        /\ \A b \in DOMAIN inst \ {a} : inst'[b] = inst[b]
    BY <1>1 DEF t
  <1>6. AppView' = [AppView EXCEPT ![a] = t]
    <2>1. DOMAIN inst' \ {Self'} = DOMAIN AppView
      BY <1>2, <1>3, <1>5
    <2>2. AppView' = [b \in DOMAIN inst' \ {Self'} |-> inst'[b].icd_terms]
      BY DEF AppView
    <2> QED
      BY <1>3, <1>5, <2>1, <2>2
  <1>7. a \in DOMAIN AppView /\ d \in DOMAIN AppView[a]
    BY <1>3
  <1> QED
    BY <1>4, <1>6, <1>7 DEF Table!Unload

\* Begin hides the instance it allocates.
LEMMA BeginHidden ==
    ASSUME IndInv, NEW a \in InstanceAddr \ DOMAIN inst, CreateBegin(a)
    PROVE  AppView' = AppView
  <1>1. LockFree /\ inst' = With(inst, a, NewInstance) /\ Self' = a
    BY DEF CreateBegin, NotCreating, Self
  <1>2. Self \notin DOMAIN inst
    BY <1>1, CreatingType DEF IndInv
  <1>3. DOMAIN inst' = DOMAIN inst \cup {a} /\ \A b \in DOMAIN inst : inst'[b] = inst[b]
    BY <1>1 DEF With
  <1> QED
    BY <1>1, <1>2, <1>3, SameView

\* vkCreateInstance with everything it does to lists, libraries and drivers on
\* the way, and with everything that can fail, is to the application one step in
\* which an instance appears with a driver or nothing happens; vkDestroyInstance
\* and the unloading of drivers touch the instance they are about and no other.
THEOREM InstancesRefine == Spec => IsInstanceTable
  <1>1. Init => Table!Init
    <2> SUFFICES ASSUME Init PROVE AppView = [h \in {} |-> {}]
      BY DEF Table!Init
    <2>1. DOMAIN inst \ {Self} = {}
      BY DEF Init
    <2> QED
      BY <2>1 DEF AppView
  <1>2. IndInv /\ ViewInv /\ [Next]_vars => [Table!Next]_AppView
    <2> SUFFICES ASSUME IndInv, ViewInv, [Next]_vars
                 PROVE  Table!Next \/ AppView' = AppView
      OBVIOUS
    <2>1. CASE UNCHANGED <<inst, creating>>
      BY <2>1 DEF AppView, Self
    <2>2. CASE CreateStep
      BY <2>2, CreationHidden, SuccessShows DEF Table!Next
    <2>3. CASE UnloadPreloaded \/ \E S \in SUBSET Drivers : PreloadIcds(S)
      BY <2>1, <2>3 DEF UnloadPreloaded, PreloadIcds
    <2>4. CASE \E a \in InstanceAddr \ DOMAIN inst : CreateBegin(a)
      BY <2>4, BeginHidden
    <2>5. ASSUME NEW a \in DOMAIN inst, DestroyInstance(a)
          PROVE  Table!Next
      BY <2>5, DestroyShows DEF Table!Next
    <2>6. ASSUME NEW a \in DOMAIN inst, NEW d \in DOMAIN inst[a].icd_terms,
                 UnloadEmptyDriver(a, d)
          PROVE  Table!Next
      BY <2>6, UnloadShows DEF Table!Next
    <2>7. CASE UNCHANGED vars
      BY <2>1, <2>7 DEF vars
    <2> QED
      BY <2>2, <2>3, <2>4, <2>5, <2>6, <2>7 DEF Next
  <1> QED
    BY <1>1, <1>2, Invariance, ViewInvariance, PTL DEF Spec, IsInstanceTable, Table!Spec
=============================================================================
