----------------------- MODULE PhysicalDevicesProofs -----------------------
(***************************************************************************)
(* For any number of drivers and devices and heaps of any size: the two    *)
(* physical-device arrays own exactly what is on the heap, and (when the   *)
(* application never passes an array that is too small) a handle stays     *)
(* good for as long as its device is reported.  The second part adds the   *)
(* groups: whatever the drivers do between the two loops of                *)
(* vkEnumeratePhysicalDeviceGroups, the array of groups owns exactly what  *)
(* is on the heap, the lists the call shares with                          *)
(* vkEnumeratePhysicalDevices stay sound, a call without an error returns  *)
(* disjoint groups of good handles, and an entry of the array stays empty  *)
(* only when groups went away while a call was under way.                  *)
(***************************************************************************)
EXTENDS PhysicalDeviceGroups, FiniteSetTheorems, TLAPS

-----------------------------------------------------------------------------
(* Facts about heaps                                                       *)

\* Replacing an array: new objects are allocated, and what only the old array
\* owned is freed.  Afterwards the heap holds what the new array owns.
LEMMA SwapArray ==
    ASSUME NEW heap, NEW objs, NEW old, NEW new,
           DOMAIN heap = old,
           DOMAIN objs \cap old = {},
           DOMAIN objs \subseteq new,
           new \subseteq old \cup DOMAIN objs
    PROVE  LET h == Free(Alloc(heap, objs), old \ new) IN
             /\ h = [a \in new |-> IF a \in DOMAIN objs THEN objs[a] ELSE heap[a]]
             /\ DOMAIN h = new
  <1>1. (DOMAIN heap \cup DOMAIN objs) \ (old \ new) = new
    OBVIOUS
  <1>2. DOMAIN Alloc(heap, objs) = DOMAIN heap \cup DOMAIN objs
    BY DEF Alloc
  <1> QED
    BY <1>1, <1>2 DEF Free, Alloc

\* Giving up half-way: freeing what is in the new array but not in the old one
\* restores the heap.
LEMMA RollBack ==
    ASSUME NEW heap, NEW objs, NEW copied, NEW A, NEW B, heap \in [A -> B],
           DOMAIN objs \cap A = {}, copied \subseteq A
    PROVE  Free(Alloc(heap, objs), (copied \cup DOMAIN objs) \ A) = heap
  <1>1. (DOMAIN heap \cup DOMAIN objs) \ ((copied \cup DOMAIN objs) \ A) = A
    OBVIOUS
  <1>2. Free(Alloc(heap, objs), (copied \cup DOMAIN objs) \ A) = [a \in A |-> heap[a]]
    BY <1>1 DEF Free, Alloc
  <1> QED
    BY <1>2

\* The inverse of a one-to-one function.
LEMMA AntiFunctionFacts ==
    ASSUME NEW S, NEW T, NEW f \in Injection(S, T)
    PROVE  /\ DOMAIN AntiFunction(f) = Range(f)
           /\ Range(f) \subseteq T
           /\ \A a \in Range(f) : AntiFunction(f)[a] \in S /\ f[AntiFunction(f)[a]] = a
           /\ \A s \in S : f[s] \in Range(f) /\ AntiFunction(f)[f[s]] = s
  <1>1. f \in [S -> T] /\ \A a, b \in S : f[a] = f[b] => a = b
    BY DEF Injection, IsInjective
  <1>2. \A a \in Range(f) : \E s \in S : f[s] = a
    BY <1>1 DEF Range
  <1>3. AntiFunction(f) = [t \in Range(f) |-> CHOOSE s \in S : t \in Range(f) => f[s] = t]
    BY <1>1 DEF AntiFunction, Inverse
  <1>4. \A a \in Range(f) : AntiFunction(f)[a] \in S /\ f[AntiFunction(f)[a]] = a
    BY <1>2, <1>3
  <1>5. \A s \in S : f[s] \in Range(f)
    BY <1>1 DEF Range
  <1> QED
    BY <1>1, <1>3, <1>4, <1>5 DEF Range

-----------------------------------------------------------------------------
(* The inductive invariant                                                 *)

TermInv ==
    /\ IsArrayOf(phys_devs_term, TermAddr) /\ IsInjective(phys_devs_term)
    /\ term \in [Range(phys_devs_term) -> Devices] /\ IsInjective(term)
    /\ \A a \in DOMAIN term : DriverOf[term[a]] \in icd_terms

TrampInv ==
    /\ IsArrayOf(phys_devs_tramp, TrampAddr) /\ IsInjective(phys_devs_tramp)
    /\ tramp \in [Range(phys_devs_tramp) -> TermAddr] /\ IsInjective(tramp)

LEMMA ReportedFacts ==
    ASSUME TypeOK, NEW failed
    PROVE  /\ Reported(failed) \subseteq Devices /\ IsFiniteSet(Reported(failed))
           /\ Cardinality(Reported(failed)) \in 0..Cardinality(Devices)
           /\ \A i \in Drivers : ReportedCount(failed, i) \in Nat
           /\ \A d \in Reported(failed) :
                DriverOf[d] \in icd_terms /\ ReportedCount(failed, DriverOf[d]) # 0
  <1>1. Reported(failed) \subseteq Devices
    BY DEF TypeOK, Reported
  <1>2. IsFiniteSet(Reported(failed)) /\ Cardinality(Reported(failed)) \in 0..Cardinality(Devices)
    BY <1>1, DevicesFinite, FS_Subset, FS_CardinalityType
  <1>3. \A i : IsFiniteSet({d \in Reported(failed) : DriverOf[d] = i})
    BY <1>2, FS_Subset
  <1>4. \A i \in Drivers : ReportedCount(failed, i) \in Nat
    BY <1>3, FS_CardinalityType DEF ReportedCount
  <1>5. ASSUME NEW d \in Reported(failed)
        PROVE  DriverOf[d] \in icd_terms /\ ReportedCount(failed, DriverOf[d]) # 0
    <2> DEFINE S == {e \in Reported(failed) : DriverOf[e] = DriverOf[d]}
    <2>1. d \in S /\ IsFiniteSet(S)
      BY <1>3
    <2>2. Cardinality(S) # 0
      BY <2>1, FS_EmptySet
    <2> QED
      BY <2>2 DEF Reported, ReportedCount
  <1> QED
    BY <1>1, <1>2, <1>4, <1>5

\* A successful setup_loader_term_phys_devs: afterwards the terminator list
\* has one object for each reported device, and the objects of devices that
\* were there before are the same ones.
LEMMA SetupTermStep ==
    ASSUME TypeOK, TermInv, NEW failed, SetupTermPhysDevs(failed)
    PROVE  /\ physical_device_count' \in [Drivers -> Nat]
           /\ \A i \in Drivers : physical_device_count'[i] = ReportedCount(failed, i)
           /\ phys_devs_term' \in [1..Cardinality(Reported(failed)) -> TermAddr]
           /\ IsInjective(phys_devs_term')
           /\ term' \in [Range(phys_devs_term') -> Reported(failed)]
           /\ IsInjective(term')
           /\ \A a \in DOMAIN term : term[a] \in Reported(failed) =>
                a \in DOMAIN term' /\ term'[a] = term[a]
  <1> DEFINE reported == Reported(failed)
             new == {d \in reported : ~Known(d)}
             N == Cardinality(reported)
  <1>1. reported \subseteq Devices /\ N \in Nat
    BY ReportedFacts
  <1>2. /\ physical_device_count' \in [Drivers -> Nat]
        /\ \A i \in Drivers : physical_device_count'[i] = ReportedCount(failed, i)
    BY ReportedFacts DEF SetupTermPhysDevs
  <1>3. PICK order \in Orderings(reported),
             addr \in Injection(new, TermAddr \ DOMAIN term) :
           /\ phys_devs_term' = [i \in DOMAIN order |->
                 IF order[i] \in new THEN addr[order[i]] ELSE TermOf(order[i])]
           /\ term' = Free(Alloc(term, AntiFunction(addr)),
                           Range(phys_devs_term) \ Range(phys_devs_term'))
    BY DEF SetupTermPhysDevs
  <1> HIDE DEF reported, new, N
  <1>4. /\ order \in [1..N -> reported]
        /\ \A i, j \in 1..N : order[i] = order[j] => i = j
        /\ \A d \in reported : \E i \in 1..N : order[i] = d
    BY <1>3 DEF Orderings, Bijection, Injection, Surjection, IsInjective, N
  <1>5. /\ addr \in [new -> TermAddr \ DOMAIN term]
        /\ \A d, e \in new : addr[d] = addr[e] => d = e
    BY <1>3 DEF Injection, IsInjective
  <1>6. \A d \in reported \ new :
           TermOf(d) \in Range(phys_devs_term) /\ term[TermOf(d)] = d
    BY DEF Known, TermOf, Range, new
  <1>7. Range(phys_devs_term) \subseteq TermAddr /\ DOMAIN term = Range(phys_devs_term)
    BY DEF TermInv, IsArrayOf, Range
  <1>a. new \subseteq reported
    BY DEF new
  <1> DEFINE loc(d) == IF d \in new THEN addr[d] ELSE TermOf(d)
  <1>8. phys_devs_term' = [i \in 1..N |-> loc(order[i])]
    BY <1>3, <1>4
  <1>9. \A d \in reported : loc(d) \in TermAddr
    BY <1>5, <1>6, <1>7
  <1>10. \A d, e \in reported : loc(d) = loc(e) => d = e
    BY <1>5, <1>6, <1>7
  <1> HIDE DEF loc
  <1>11. phys_devs_term' \in [1..N -> TermAddr] /\ IsInjective(phys_devs_term')
    BY <1>4, <1>8, <1>9, <1>10 DEF IsInjective
  <1>12. Range(phys_devs_term') = {loc(d) : d \in reported}
    BY <1>4, <1>8 DEF Range
  <1>13. /\ DOMAIN AntiFunction(addr) = Range(addr)
         /\ \A d \in new : AntiFunction(addr)[addr[d]] = d
         /\ Range(addr) = {addr[d] : d \in new}
    <2>1. Range(addr) = {addr[d] : d \in new}
      BY <1>5 DEF Range
    <2>2. addr \in Injection(new, TermAddr \ DOMAIN term)
      BY <1>3
    <2> QED
      BY <2>1, <2>2, AntiFunctionFacts
  <1>14. /\ Range(addr) \cap Range(phys_devs_term) = {}
         /\ Range(addr) \subseteq Range(phys_devs_term')
         /\ Range(phys_devs_term') \subseteq Range(phys_devs_term) \cup Range(addr)
    BY <1>a, <1>5, <1>6, <1>7, <1>12, <1>13 DEF loc
  <1>15. term' = [a \in Range(phys_devs_term') |->
                    IF a \in Range(addr) THEN AntiFunction(addr)[a] ELSE term[a]]
    BY <1>3, <1>7, <1>13, <1>14, SwapArray
  <1>16. \A d \in reported : term'[loc(d)] = d
    BY <1>5, <1>6, <1>7, <1>12, <1>13, <1>15, <1>a DEF loc
  <1>17. term' \in [Range(phys_devs_term') -> reported] /\ IsInjective(term')
    <2>1. \A a \in Range(phys_devs_term') : \E d \in reported : a = loc(d) /\ term'[a] = d
      BY <1>12, <1>16
    <2>2. DOMAIN term' = Range(phys_devs_term')
      BY <1>15
    <2>3. \A a \in Range(phys_devs_term') : term'[a] \in reported
      BY <2>1
    <2>4. term' \in [Range(phys_devs_term') -> reported]
      BY <1>15, <2>3
    <2>5. IsInjective(term')
      BY <2>1, <2>2 DEF IsInjective
    <2> QED
      BY <2>4, <2>5
  <1>18. ASSUME NEW a \in DOMAIN term, term[a] \in reported
         PROVE  a \in DOMAIN term' /\ term'[a] = term[a]
    <2>1. Known(term[a])
      BY <1>7 DEF Known, Range
    <2>2. TermOf(term[a]) = a
      BY <1>6, <1>7, <1>18, <2>1 DEF TermInv, IsInjective, new
    <2>3. loc(term[a]) = a
      BY <2>1, <2>2 DEF loc, new
    <2> QED
      BY <1>12, <1>15, <1>16, <1>18, <2>3
  <1> QED
    BY <1>2, <1>11, <1>17, <1>18 DEF reported, N

\* A failing setup_loader_term_phys_devs leaves the terminator objects alone.
LEMMA SetupTermFailsStep ==
    ASSUME TypeOK, TermInv, NEW res, SetupTermPhysDevsFails(res)
    PROVE  /\ physical_device_count' \in [Drivers -> Nat]
           /\ UNCHANGED <<term, phys_devs_term>> /\ total_gpu_count' = 0
  <1>1. PICK asked \in SUBSET icd_terms, failed \in FailedDrivers :
           /\ physical_device_count' =
                [i \in Drivers |-> IF i \in asked THEN ReportedCount(failed, i)
                                                  ELSE physical_device_count[i]]
           /\ \/ UNCHANGED term
              \/ \E copied \in SUBSET Range(phys_devs_term),
                    addr \in UNION {Injection({d}, TermAddr \ DOMAIN term) :
                                       d \in Reported(failed)} :
                   term' = Free(Alloc(term, AntiFunction(addr)),
                                TermCleanup(copied, Range(addr)))
    BY DEF SetupTermPhysDevsFails
  <1>2. physical_device_count' \in [Drivers -> Nat]
    BY <1>1, ReportedFacts DEF TypeOK
  <1>3. ASSUME NEW copied \in SUBSET Range(phys_devs_term), NEW d,
               NEW addr \in Injection({d}, TermAddr \ DOMAIN term),
               term' = Free(Alloc(term, AntiFunction(addr)), TermCleanup(copied, Range(addr)))
        PROVE  term' = term
    <2>1. DOMAIN AntiFunction(addr) = Range(addr) /\ Range(addr) \cap DOMAIN term = {}
      BY AntiFunctionFacts
    <2>2. term \in [Range(phys_devs_term) -> Devices]
      BY DEF TermInv
    <2>3. DOMAIN term = Range(phys_devs_term)
      BY <2>2
    <2> QED
      BY <1>3, <2>1, <2>2, <2>3, RollBack DEF TermCleanup
  <1>4. term' = term
    BY <1>1, <1>3
  <1> QED
    BY <1>2, <1>4 DEF SetupTermPhysDevsFails

-----------------------------------------------------------------------------
(* setup_loader_tramp_phys_devs                                            *)

LEMMA MatchFacts ==
    ASSUME TrampInv, NEW pd, IsInjective(pd)
    PROVE  /\ \A n \in DOMAIN pd : Matches(pd, n) # {} =>
                /\ OldFor(pd, n) \in Range(phys_devs_tramp)
                /\ tramp[OldFor(pd, n)] = pd[n]
           /\ \A w \in DOMAIN tramp : \A n \in DOMAIN pd : tramp[w] = pd[n] =>
                Matches(pd, n) # {} /\ OldFor(pd, n) = w
           /\ \A c \in Unmatched(pd) : \A n \in DOMAIN pd : tramp[phys_devs_tramp[c]] # pd[n]
           /\ Unmatched(pd) \subseteq DOMAIN phys_devs_tramp
  <1>1. DOMAIN tramp = Range(phys_devs_tramp)
    BY DEF TrampInv
  <1>2. \A n \in DOMAIN pd : Matches(pd, n) # {} =>
           OldFor(pd, n) \in Range(phys_devs_tramp) /\ tramp[OldFor(pd, n)] = pd[n]
    BY DEF Matches, OldFor, OldToNew, Range
  <1>3. ASSUME NEW w \in DOMAIN tramp, NEW n \in DOMAIN pd, tramp[w] = pd[n]
        PROVE  Matches(pd, n) # {} /\ OldFor(pd, n) = w
    <2>1. Matches(pd, n) # {}
      BY <1>1, <1>3 DEF Matches, OldToNew, Range
    <2> QED
      BY <1>1, <1>2, <1>3, <2>1 DEF TrampInv, IsInjective
  <1> QED
    BY <1>2, <1>3 DEF Unmatched, OldToNew

LEMMA TrampFailsStep ==
    ASSUME TrampInv, NEW pd, IsInjective(pd), SetupTrampFails(pd)
    PROVE  UNCHANGED trampVars
  <1>1. PICK copied \in SUBSET {OldFor(pd, n) : n \in {n \in DOMAIN pd : Matches(pd, n) # {}}},
             addr \in UNION {Injection({n}, TrampAddr \ DOMAIN tramp) : n \in DOMAIN pd} :
           tramp' = Free(Alloc(tramp, [a \in Range(addr) |-> pd[AntiFunction(addr)[a]]]),
                         TrampCleanup(copied, Range(addr)))
    BY DEF SetupTrampFails
  <1>2. tramp \in [Range(phys_devs_tramp) -> TermAddr] /\ DOMAIN tramp = Range(phys_devs_tramp)
    BY DEF TrampInv
  <1>3. copied \subseteq Range(phys_devs_tramp)
    BY <1>1, MatchFacts
  <1>4. Range(addr) \cap DOMAIN tramp = {}
    <2>1. PICK n \in DOMAIN pd : addr \in Injection({n}, TrampAddr \ DOMAIN tramp)
      OBVIOUS
    <2> QED
      BY <2>1, AntiFunctionFacts
  <1>5. tramp' = tramp
    <2> DEFINE objs == [a \in Range(addr) |-> pd[AntiFunction(addr)[a]]]
    <2>1. DOMAIN objs = Range(addr)
      OBVIOUS
    <2>2. tramp' = Free(Alloc(tramp, objs), (copied \cup DOMAIN objs) \ Range(phys_devs_tramp))
      BY <1>1 DEF TrampCleanup
    <2> HIDE DEF objs
    <2> QED
      BY <1>2, <1>3, <1>4, <2>1, <2>2, RollBack
  <1> QED
    BY <1>5 DEF trampVars, SetupTrampFails

\* The slow path: the first entries of the new array wrap the devices asked
\* for, every wrapper of one of these devices is kept, and the heap holds
\* exactly the new array's wrappers, each for another terminator address.
LEMMA TrampSlowStep ==
    ASSUME TrampInv, NEW n \in Nat, NEW total \in Nat, NEW pd \in [1..n -> TermAddr],
           IsInjective(pd), SetupTrampSlow(pd, total)
    PROVE  /\ \E m \in n..MaxOf(total, n) : phys_devs_tramp' \in [1..m -> TrampAddr]
           /\ IsInjective(phys_devs_tramp')
           /\ tramp' \in [Range(phys_devs_tramp') -> TermAddr]
           /\ IsInjective(tramp')
           /\ \A i \in 1..n : tramp'[phys_devs_tramp'[i]] = pd[i]
           /\ \A w \in DOMAIN tramp : tramp[w] \in Range(pd) =>
                w \in DOMAIN tramp' /\ tramp'[w] = tramp[w]
  <1> DEFINE new == {i \in DOMAIN pd : Matches(pd, i) = {}}
             U == Unmatched(pd)
             k == MinOf(NewCount(pd, total) - n, Cardinality(U))
  <1>1. Cardinality(DOMAIN pd) = n
    BY FS_Interval
  <1>2. U \subseteq DOMAIN phys_devs_tramp /\ IsFiniteSet(U) /\ Cardinality(U) \in Nat
    <2>1. PICK m \in 0..Cardinality(Devices) : phys_devs_tramp \in [1..m -> TrampAddr]
      BY DEF TrampInv, IsArrayOf
    <2>2. Cardinality(Devices) \in Nat
      BY DevicesFinite, FS_CardinalityType
    <2>3. IsFiniteSet(1..m)
      BY <2>2, FS_Interval
    <2> QED
      BY <2>1, <2>3, FS_Subset, FS_CardinalityType DEF Unmatched
  <1>3. k \in Nat /\ n + k \in n..MaxOf(total, n)
    BY <1>1, <1>2 DEF MinOf, MaxOf, NewCount
  <1>4. PICK addr \in Injection(new, TrampAddr \ DOMAIN tramp), left \in Leftovers(pd, k) :
           /\ phys_devs_tramp' = [i \in 1..(n + k) |->
                  IF i > n THEN phys_devs_tramp[left[i - n]]
                  ELSE IF i \in new THEN addr[i] ELSE OldFor(pd, i)]
           /\ tramp' = Free(Alloc(tramp, [a \in Range(addr) |-> pd[AntiFunction(addr)[a]]]),
                            Range(phys_devs_tramp) \ Range(phys_devs_tramp'))
    BY <1>1 DEF SetupTrampSlow
  <1> HIDE DEF U, k
  <1>5. /\ left \in [1..k -> U]
        /\ \A i, j \in 1..k : left[i] = left[j] => i = j
    BY <1>4 DEF Leftovers, Injection, IsInjective, U
  <1>6. /\ addr \in [new -> TrampAddr \ DOMAIN tramp]
        /\ \A i, j \in new : addr[i] = addr[j] => i = j
    BY <1>4 DEF Injection, IsInjective
  <1>7. /\ DOMAIN tramp = Range(phys_devs_tramp)
        /\ \A c \in DOMAIN phys_devs_tramp : phys_devs_tramp[c] \in DOMAIN tramp
        /\ \A c, e \in DOMAIN phys_devs_tramp :
              phys_devs_tramp[c] = phys_devs_tramp[e] => c = e
        /\ Range(phys_devs_tramp) \subseteq TrampAddr
        /\ \A w \in DOMAIN tramp : tramp[w] \in TermAddr
        /\ \A v, w \in DOMAIN tramp : tramp[v] = tramp[w] => v = w
    BY DEF TrampInv, IsArrayOf, IsInjective, Range
  <1>8. /\ \A i \in (1..n) \ new : OldFor(pd, i) \in DOMAIN tramp /\ tramp[OldFor(pd, i)] = pd[i]
        /\ \A w \in DOMAIN tramp : \A i \in 1..n : tramp[w] = pd[i] =>
              i \notin new /\ OldFor(pd, i) = w
        /\ \A c \in U : c \in DOMAIN phys_devs_tramp
        /\ \A c \in U : \A i \in 1..n : tramp[phys_devs_tramp[c]] # pd[i]
    BY <1>7, MatchFacts DEF U
  <1>9. new \subseteq 1..n
    OBVIOUS
  <1> HIDE DEF new
  \* The object the i-th entry of the new array points to, and what it wraps.
  <1> DEFINE arr(i) == IF i > n THEN phys_devs_tramp[left[i - n]]
                       ELSE IF i \in new THEN addr[i] ELSE OldFor(pd, i)
             val(i) == IF i > n THEN tramp[phys_devs_tramp[left[i - n]]] ELSE pd[i]
  <1>10. \A i \in 1..(n + k) : i > n => i - n \in 1..k /\ left[i - n] \in U
    BY <1>3, <1>5
  <1>11. \A i \in 1..(n + k) : arr(i) \in TrampAddr /\ val(i) \in TermAddr
    BY <1>6, <1>7, <1>8, <1>10
  <1>12. \A i, j \in 1..(n + k) : val(i) = val(j) => i = j
    <2> SUFFICES ASSUME NEW i \in 1..(n + k), NEW j \in 1..(n + k), val(i) = val(j)
                 PROVE  i = j
      OBVIOUS
    <2>1. CASE i > n /\ j > n
      <3>1. i - n \in 1..k /\ j - n \in 1..k /\ left[i - n] \in U /\ left[j - n] \in U
        BY <1>10, <2>1
      <3>2. left[i - n] = left[j - n]
        BY <1>7, <1>8, <2>1, <3>1
      <3> QED
        BY <1>3, <1>5, <3>1, <3>2
    <2>2. CASE i <= n /\ j <= n
      BY <2>2 DEF IsInjective
    <2>3. CASE i > n /\ j <= n
      BY <1>8, <1>10, <2>3
    <2>4. CASE i <= n /\ j > n
      BY <1>8, <1>10, <2>4
    <2> QED
      BY <1>3, <2>1, <2>2, <2>3, <2>4
  <1>13. \A i \in 1..(n + k) : i \notin new => arr(i) \in DOMAIN tramp /\ tramp[arr(i)] = val(i)
    BY <1>7, <1>8, <1>9, <1>10
  <1>14. \A i \in new : arr(i) = addr[i] /\ val(i) = pd[i] /\ arr(i) \notin DOMAIN tramp
    BY <1>6, <1>9
  <1>15. \A i, j \in 1..(n + k) : arr(i) = arr(j) => i = j
    BY <1>6, <1>12, <1>13, <1>14
  <1>16. phys_devs_tramp' = [i \in 1..(n + k) |-> arr(i)]
    BY <1>4
  <1> HIDE DEF arr, val
  <1>17. /\ phys_devs_tramp' \in [1..(n + k) -> TrampAddr]
         /\ IsInjective(phys_devs_tramp')
         /\ Range(phys_devs_tramp') = {arr(i) : i \in 1..(n + k)}
    BY <1>11, <1>15, <1>16 DEF IsInjective, Range
  <1> DEFINE objs == [a \in Range(addr) |-> pd[AntiFunction(addr)[a]]]
  <1>18. /\ Range(addr) = {addr[i] : i \in new}
         /\ \A i \in new : objs[addr[i]] = pd[i]
    <2>1. /\ \A a \in Range(addr) : addr[AntiFunction(addr)[a]] = a
          /\ \A i \in new : addr[i] \in Range(addr) /\ AntiFunction(addr)[addr[i]] = i
      BY <1>4, AntiFunctionFacts
    <2>2. Range(addr) = {addr[i] : i \in new}
      BY <1>6 DEF Range
    <2> QED
      BY <2>1, <2>2
  <1>19. /\ Range(addr) \cap Range(phys_devs_tramp) = {}
         /\ Range(addr) \subseteq Range(phys_devs_tramp')
         /\ Range(phys_devs_tramp') \subseteq Range(phys_devs_tramp) \cup Range(addr)
    BY <1>3, <1>6, <1>7, <1>9, <1>13, <1>14, <1>17, <1>18
  <1>20. tramp' = [a \in Range(phys_devs_tramp') |->
                     IF a \in Range(addr) THEN objs[a] ELSE tramp[a]]
    <2>1. DOMAIN objs = Range(addr)
      OBVIOUS
    <2>2. tramp' = Free(Alloc(tramp, objs), Range(phys_devs_tramp) \ Range(phys_devs_tramp'))
      BY <1>4
    <2> HIDE DEF objs
    <2> QED
      BY <1>7, <1>19, <2>1, <2>2, SwapArray
  <1> HIDE DEF objs
  <1>21. \A i \in 1..(n + k) : arr(i) \in Range(phys_devs_tramp') /\ tramp'[arr(i)] = val(i)
    <2> SUFFICES ASSUME NEW i \in 1..(n + k)
                 PROVE  arr(i) \in Range(phys_devs_tramp') /\ tramp'[arr(i)] = val(i)
      OBVIOUS
    <2>1. arr(i) \in Range(phys_devs_tramp')
      BY <1>17
    <2>2. CASE arr(i) \in Range(addr)
      BY <1>7, <1>13, <1>14, <1>18, <1>19, <1>20, <2>1, <2>2
    <2>3. CASE arr(i) \notin Range(addr)
      BY <1>7, <1>13, <1>14, <1>18, <1>19, <1>20, <2>1, <2>3
    <2> QED
      BY <2>1, <2>2, <2>3
  <1>22. /\ tramp' \in [Range(phys_devs_tramp') -> TermAddr]
         /\ IsInjective(tramp')
    <2>1. \A a \in Range(phys_devs_tramp') : \E i \in 1..(n + k) : a = arr(i) /\ tramp'[a] = val(i)
      BY <1>17, <1>21
    <2>2. DOMAIN tramp' = Range(phys_devs_tramp')
      BY <1>20
    <2>3. \A a \in Range(phys_devs_tramp') : tramp'[a] \in TermAddr
      BY <1>11, <2>1
    <2>4. IsInjective(tramp')
      BY <1>12, <2>1, <2>2 DEF IsInjective
    <2> QED
      BY <1>20, <2>3, <2>4
  <1>23. \A i \in 1..n : tramp'[phys_devs_tramp'[i]] = pd[i]
    <2> TAKE i \in 1..n
    <2>1. i \in 1..(n + k) /\ ~(i > n)
      BY <1>3
    <2> QED
      BY <1>16, <1>21, <2>1 DEF val
  <1>24. ASSUME NEW w \in DOMAIN tramp, tramp[w] \in Range(pd)
         PROVE  w \in DOMAIN tramp' /\ tramp'[w] = tramp[w]
    <2>1. PICK i \in 1..n : tramp[w] = pd[i]
      BY <1>24 DEF Range
    <2>2. arr(i) = w /\ val(i) = pd[i]
      BY <1>8, <2>1 DEF arr, val
    <2> QED
      <3>1. i \in 1..(n + k)
        BY <1>3
      <3>2. DOMAIN tramp' = Range(phys_devs_tramp')
        BY <1>20
      <3> QED
        BY <1>21, <2>1, <2>2, <3>1, <3>2
  <1> QED
    BY <1>3, <1>17, <1>22, <1>23, <1>24

-----------------------------------------------------------------------------
(* vkEnumeratePhysicalDevices                                              *)

LEMMA TermInvNext ==
    ASSUME TypeOK, TermInv, NEW failed, SetupTermPhysDevs(failed),
           UnloadEmptyDrivers \/ UNCHANGED icd_terms
    PROVE  TermInv' /\ icd_terms' \subseteq Drivers
  <1>1. /\ phys_devs_term' \in [1..Cardinality(Reported(failed)) -> TermAddr]
        /\ IsInjective(phys_devs_term')
        /\ term' \in [Range(phys_devs_term') -> Reported(failed)] /\ IsInjective(term')
        /\ \A i \in Drivers : physical_device_count'[i] = ReportedCount(failed, i)
    BY SetupTermStep
  <1>2. /\ Reported(failed) \subseteq Devices
        /\ Cardinality(Reported(failed)) \in 0..Cardinality(Devices)
        /\ \A d \in Reported(failed) :
             DriverOf[d] \in icd_terms /\ ReportedCount(failed, DriverOf[d]) # 0
    BY ReportedFacts
  <1>3. \A d \in Reported(failed) : DriverOf[d] \in icd_terms'
    BY <1>1, <1>2 DEF UnloadEmptyDrivers, TypeOK
  <1>4. \A a \in DOMAIN term' : DriverOf[term'[a]] \in icd_terms'
    BY <1>1, <1>3
  <1>5. term' \in [Range(phys_devs_term') -> Devices]
    BY <1>1, <1>2
  <1>6. icd_terms' \subseteq Drivers
    BY DEF UnloadEmptyDrivers, TypeOK
  <1> QED
    BY <1>1, <1>2, <1>4, <1>5, <1>6 DEF TermInv, IsArrayOf

\* What wrapping the first c devices of the terminator list results in.
LEMMA WrapStep ==
    ASSUME TypeOK, TermInv, TrampInv, NEW failed, NEW c \in 0..Cardinality(Reported(failed)),
           SetupTermPhysDevs(failed), WrapAndUnload(failed, c)
    PROVE  /\ TrampInv'
           /\ total_gpu_count' \in 0..Cardinality(Devices)
           /\ \/ /\ out' = [res |-> OutOfMemory, arr |-> Empty]
                 /\ held' = StillHeld(Reported(failed))
              \/ /\ out'.arr \in [1..c -> TrampAddr]
                 /\ out'.res = IF c < Cardinality(Reported(failed)) THEN Incomplete ELSE Success
                 /\ \A i \in 1..c : out'.arr[i] \in DOMAIN tramp'
                                      /\ tramp'[out'.arr[i]] = phys_devs_term'[i]
                 /\ held' = StillHeld(Reported(failed))
                       \cup {<<term'[phys_devs_term'[i]], out'.arr[i]>> : i \in 1..c}
           /\ c = Cardinality(Reported(failed)) =>
                \A w \in DOMAIN tramp : tramp[w] \in Range(phys_devs_term') =>
                  w \in DOMAIN tramp' /\ tramp'[w] = tramp[w]
  <1> DEFINE N == Cardinality(Reported(failed))
             pd == [i \in 1..c |-> phys_devs_term'[i]]
             Keeps == \A w \in DOMAIN tramp : tramp[w] \in Range(pd) =>
                        w \in DOMAIN tramp' /\ tramp'[w] = tramp[w]
             Gives(arr) == /\ total_gpu_count' = N
                           /\ out' = [res |-> IF c < N THEN Incomplete ELSE Success, arr |-> arr]
                           /\ held' = StillHeld(Reported(failed))
                                 \cup {<<term'[pd[i]], arr[i]>> : i \in 1..c}
             Wraps(arr) == /\ arr \in [1..c -> TrampAddr]
                           /\ \A i \in 1..c : arr[i] \in DOMAIN tramp' /\ tramp'[arr[i]] = pd[i]
             Fails == /\ total_gpu_count' = 0
                      /\ out' = [res |-> OutOfMemory, arr |-> Empty]
                      /\ held' = StillHeld(Reported(failed))
             fast == [i \in 1..c |-> OldFor(pd, i)]
             slow == [i \in 1..c |-> phys_devs_tramp'[i]]
  <1>1. /\ N \in Nat /\ c \in Nat /\ c <= N
        /\ Cardinality(Devices) \in Nat /\ N <= Cardinality(Devices)
        /\ phys_devs_term' \in [1..N -> TermAddr] /\ IsInjective(phys_devs_term')
    BY SetupTermStep, ReportedFacts, DevicesFinite, FS_CardinalityType
  <1>2. Cardinality(DOMAIN phys_devs_term') = N
    BY <1>1, FS_Interval
  <1>3. /\ pd \in [1..c -> TermAddr] /\ IsInjective(pd) /\ DOMAIN pd = 1..c
        /\ \A i \in 1..c : pd[i] = phys_devs_term'[i]
        /\ c = N => pd = phys_devs_term'
    BY <1>1 DEF IsInjective
  <1>4. /\ DOMAIN tramp = Range(phys_devs_tramp)
        /\ Range(phys_devs_tramp) \subseteq TrampAddr
    BY DEF TrampInv, IsArrayOf, Range
  <1>5. \/ c = 0 /\ Gives(Empty) /\ UNCHANGED trampVars
        \/ SetupTrampFast(pd, N) /\ Gives(fast) /\ UNCHANGED trampVars
        \/ SetupTrampSlow(pd, N) /\ Gives(slow)
        \/ SetupTrampFails(pd) /\ Fails
    BY <1>2 DEF WrapAndUnload
  <1>6. UNCHANGED trampVars => TrampInv' /\ Keeps
    BY DEF TrampInv, trampVars, IsArrayOf, IsInjective, Range
  <1> HIDE DEF N, pd
  <1>7. ASSUME NEW arr, Gives(arr), Wraps(arr)
        PROVE  /\ total_gpu_count' \in 0..Cardinality(Devices)
               /\ out'.arr = arr /\ arr \in [1..c -> TrampAddr]
               /\ out'.res = IF c < N THEN Incomplete ELSE Success
               /\ \A i \in 1..c : arr[i] \in DOMAIN tramp' /\ tramp'[arr[i]] = phys_devs_term'[i]
               /\ held' = StillHeld(Reported(failed))
                     \cup {<<term'[phys_devs_term'[i]], arr[i]>> : i \in 1..c}
    <2>1. {<<term'[pd[i]], arr[i]>> : i \in 1..c}
            = {<<term'[phys_devs_term'[i]], arr[i]>> : i \in 1..c}
      BY <1>3
    <2> QED
      BY <1>1, <1>3, <1>7, <2>1
  <1>8. CASE c = 0 /\ Gives(Empty) /\ UNCHANGED trampVars
    <2>1. Wraps(Empty)
      BY <1>8 DEF Empty
    <2> HIDE DEF Gives, Wraps, Keeps
    <2>2. TrampInv' /\ Keeps /\ \E arr : Gives(arr) /\ Wraps(arr)
      BY <1>6, <1>8, <2>1
    <2> QED
      BY <1>3, <1>7, <2>2 DEF N, Keeps
  <1>9. CASE SetupTrampFast(pd, N) /\ Gives(fast) /\ UNCHANGED trampVars
    <2>1. \A i \in 1..c : OldFor(pd, i) \in Range(phys_devs_tramp) /\ tramp[OldFor(pd, i)] = pd[i]
      BY <1>3, <1>9, MatchFacts DEF SetupTrampFast
    <2>2. Wraps(fast)
      BY <1>4, <1>9, <2>1 DEF trampVars
    <2> HIDE DEF Gives, Wraps, Keeps, fast
    <2>3. TrampInv' /\ Keeps /\ \E arr : Gives(arr) /\ Wraps(arr)
      BY <1>6, <1>9, <2>2
    <2> QED
      BY <1>3, <1>7, <2>3 DEF N, Keeps
  <1>10. CASE SetupTrampSlow(pd, N) /\ Gives(slow)
    <2>1. /\ \E m \in c..MaxOf(N, c) : phys_devs_tramp' \in [1..m -> TrampAddr]
          /\ IsInjective(phys_devs_tramp')
          /\ tramp' \in [Range(phys_devs_tramp') -> TermAddr]
          /\ IsInjective(tramp')
          /\ \A i \in 1..c : tramp'[phys_devs_tramp'[i]] = pd[i]
          /\ Keeps
      BY <1>1, <1>3, <1>10, TrampSlowStep
    <2>2. PICK m \in c..N : phys_devs_tramp' \in [1..m -> TrampAddr]
      BY <1>1, <2>1 DEF MaxOf
    <2>3. TrampInv'
      <3>1. m \in 0..Cardinality(Devices)
        BY <1>1, <2>2
      <3> QED
        BY <2>1, <2>2, <3>1 DEF TrampInv, IsArrayOf
    <2>4. \A i \in 1..c : phys_devs_tramp'[i] \in TrampAddr /\ phys_devs_tramp'[i] \in DOMAIN tramp'
      BY <1>1, <2>1, <2>2 DEF Range
    <2>5. Wraps(slow)
      BY <2>1, <2>4
    <2> HIDE DEF Gives, Wraps, Keeps, slow
    <2>6. \E arr : Gives(arr) /\ Wraps(arr)
      BY <1>10, <2>5
    <2> QED
      BY <1>3, <1>7, <2>1, <2>3, <2>6 DEF N, Keeps
  <1>11. CASE SetupTrampFails(pd) /\ Fails
    <2>1. UNCHANGED trampVars
      BY <1>3, <1>11, TrampFailsStep
    <2>2. TrampInv' /\ Keeps /\ total_gpu_count' \in 0..Cardinality(Devices)
      BY <1>1, <1>6, <1>11, <2>1
    <2> QED
      BY <1>3, <1>11, <2>2 DEF N
  <1> QED
    BY <1>5, <1>8, <1>9, <1>10, <1>11

\* The types of the variables the two invariants do not constrain.
RestType ==
    /\ present \subseteq Devices /\ icd_terms \subseteq Drivers
    /\ physical_device_count \in [Drivers -> Nat]
    /\ total_gpu_count \in 0..Cardinality(Devices)
    /\ out.res \in Results /\ IsArrayOf(out.arr, TrampAddr)
    /\ held \subseteq Devices \X TrampAddr

IndInv == RestType /\ TermInv /\ TrampInv /\ ReturnedHandlesResolve

LEMMA TypesSplit ==
    ASSUME TermInv, TrampInv, RestType
    PROVE  TypeOK
  <1>1. Range(phys_devs_term) \in SUBSET TermAddr /\ Range(phys_devs_tramp) \in SUBSET TrampAddr
    BY DEF TermInv, TrampInv, IsArrayOf, Range
  <1> QED
    BY <1>1 DEF TermInv, TrampInv, RestType, TypeOK

LEMMA EmptyFacts ==
    ASSUME NEW S
    PROVE  /\ IsArrayOf(Empty, S) /\ IsInjective(Empty)
           /\ DOMAIN Empty = {} /\ Range(Empty) = {}
           /\ Empty \in [Range(Empty) -> S]
  <1>1. Cardinality(Devices) \in Nat
    BY DevicesFinite, FS_CardinalityType
  <1>2. DOMAIN Empty = {} /\ Empty \in [{} -> S]
    BY DEF Empty
  <1>3. 1..0 = {}
    OBVIOUS
  <1>4. Empty \in [1..0 -> S] /\ 0 \in 0..Cardinality(Devices)
    BY <1>1, <1>2, <1>3
  <1>5. IsArrayOf(Empty, S)
    BY <1>4 DEF IsArrayOf
  <1>6. Range(Empty) = {}
    BY <1>2 DEF Range
  <1> QED
    BY <1>2, <1>5, <1>6 DEF IsInjective

LEMMA IndInit == Init => IndInv
  <1> SUFFICES ASSUME Init PROVE IndInv
    OBVIOUS
  <1>1. TermInv /\ TrampInv
    BY EmptyFacts DEF Init, TermInv, TrampInv
  <1>2. Cardinality(Devices) \in Nat
    BY DevicesFinite, FS_CardinalityType
  <1>3. RestType
    BY <1>2, EmptyFacts DEF Init, RestType, Results
  <1>4. ReturnedHandlesResolve
    BY EmptyFacts DEF Init, ReturnedHandlesResolve
  <1> QED
    BY <1>1, <1>3, <1>4 DEF IndInv

\* A call that failed or only counted returned no handle.
LEMMA NothingReturned ==
    ASSUME NEW r \in Results, out' = [res |-> r, arr |-> Empty]
    PROVE  ReturnedHandlesResolve' /\ out'.res \in Results /\ IsArrayOf(out'.arr, TrampAddr)
  BY EmptyFacts DEF ReturnedHandlesResolve

LEMMA FillReturns ==
    ASSUME IndInv, NEW failed, NEW c \in 0..Cardinality(Reported(failed)),
           SetupTermPhysDevs(failed), WrapAndUnload(failed, c)
    PROVE  /\ ReturnedHandlesResolve' /\ out'.res \in Results /\ IsArrayOf(out'.arr, TrampAddr)
           /\ held' \subseteq Devices \X TrampAddr
  <1> USE DEF IndInv
  <1> DEFINE N == Cardinality(Reported(failed))
  <1>1. TypeOK
    BY TypesSplit
  <1>2. /\ Reported(failed) \subseteq Devices /\ N \in Nat
        /\ Cardinality(Devices) \in Nat /\ N <= Cardinality(Devices)
        /\ phys_devs_term' \in [1..N -> TermAddr] /\ IsInjective(phys_devs_term')
        /\ term' \in [Range(phys_devs_term') -> Reported(failed)]
    BY <1>1, SetupTermStep, ReportedFacts, DevicesFinite, FS_CardinalityType
  <1>3. StillHeld(Reported(failed)) \subseteq Devices \X TrampAddr
    BY DEF StillHeld, RestType
  <1>4. CASE out' = [res |-> OutOfMemory, arr |-> Empty] /\ held' = StillHeld(Reported(failed))
    BY <1>3, <1>4, NothingReturned DEF Results
  <1>5. CASE /\ out'.arr \in [1..c -> TrampAddr]
             /\ out'.res = IF c < N THEN Incomplete ELSE Success
             /\ \A i \in 1..c : out'.arr[i] \in DOMAIN tramp'
                                  /\ tramp'[out'.arr[i]] = phys_devs_term'[i]
             /\ held' = StillHeld(Reported(failed))
                   \cup {<<term'[phys_devs_term'[i]], out'.arr[i]>> : i \in 1..c}
    <2>1. \A i \in 1..c : /\ phys_devs_term'[i] \in DOMAIN term'
                          /\ term'[phys_devs_term'[i]] \in Devices
      BY <1>2 DEF Range
    <2>2. held' \subseteq Devices \X TrampAddr
      BY <1>3, <1>5, <2>1
    <2>3. c \in 0..Cardinality(Devices)
      BY <1>2
    <2>4. out'.res \in Results /\ IsArrayOf(out'.arr, TrampAddr)
      BY <1>5, <2>3 DEF Results, IsArrayOf
    <2>5. \A i \in DOMAIN out'.arr : \E d \in Devices : Resolves(d, out.arr[i])'
      BY <1>5, <2>1 DEF Resolves
    <2>6. IsInjective(out'.arr)
      <3> SUFFICES ASSUME NEW i \in 1..c, NEW j \in 1..c, out'.arr[i] = out'.arr[j]
                   PROVE  i = j
        BY <1>5 DEF IsInjective
      <3>1. phys_devs_term'[i] = phys_devs_term'[j]
        BY <1>5
      <3> QED
        BY <1>2, <3>1 DEF IsInjective
    <2>7. ASSUME out'.res = Success, NEW a \in DOMAIN term'
          PROVE  \E i \in DOMAIN out'.arr : tramp'[out'.arr[i]] = a
      <3>1. c = N
        BY <1>2, <1>5, <2>7 DEF Success, Incomplete
      <3>2. PICK i \in 1..N : a = phys_devs_term'[i]
        BY <1>2 DEF Range
      <3> QED
        BY <1>5, <3>1, <3>2
    <2> QED
      BY <2>2, <2>4, <2>5, <2>6, <2>7 DEF ReturnedHandlesResolve
  <1> QED
    BY <1>1, <1>4, <1>5, WrapStep

LEMMA IndNext == IndInv /\ [Next]_vars => IndInv'
  <1> SUFFICES ASSUME IndInv, [Next]_vars PROVE IndInv'
    OBVIOUS
  <1> USE DEF IndInv
  <1>1. TypeOK
    BY TypesSplit
  <1>2. Cardinality(Devices) \in Nat
    BY DevicesFinite, FS_CardinalityType
  <1>3. UNCHANGED trampVars => TrampInv'
    BY DEF TrampInv, trampVars, IsArrayOf, IsInjective, Range
  <1>4. UNCHANGED <<term, phys_devs_term, icd_terms>> => TermInv'
    BY DEF TermInv, IsArrayOf, IsInjective, Range
  <1>5. ASSUME NEW res \in {OutOfMemory, InitFailed}, SetupTermPhysDevsFails(res),
               out' = [res |-> res, arr |-> Empty],
               UNCHANGED <<present, icd_terms, trampVars, held>>
        PROVE  IndInv'
    <2>1. /\ physical_device_count' \in [Drivers -> Nat]
          /\ UNCHANGED <<term, phys_devs_term>> /\ total_gpu_count' = 0
      BY <1>1, <1>5, SetupTermFailsStep
    <2>2. TermInv' /\ TrampInv'
      BY <1>3, <1>4, <1>5, <2>1
    <2>3. ReturnedHandlesResolve' /\ out'.res \in Results /\ IsArrayOf(out'.arr, TrampAddr)
      BY <1>5, NothingReturned DEF Results
    <2> QED
      BY <1>2, <1>5, <2>1, <2>2, <2>3 DEF RestType
  <1>6. CASE EnumerateCount
    <2>1. ASSUME NEW failed \in FailedDrivers, SetupTermPhysDevs(failed),
                 total_gpu_count' = Cardinality(DOMAIN phys_devs_term'),
                 held' = StillHeld(Reported(failed)),
                 out' = [res |-> Success, arr |-> Empty],
                 UNCHANGED <<present, icd_terms, trampVars>>
          PROVE  IndInv'
      <3>1. /\ physical_device_count' \in [Drivers -> Nat]
            /\ phys_devs_term' \in [1..Cardinality(Reported(failed)) -> TermAddr]
        BY <1>1, <2>1, SetupTermStep
      <3>2. Cardinality(Reported(failed)) \in 0..Cardinality(Devices)
        BY <1>1, ReportedFacts
      <3>3. total_gpu_count' \in 0..Cardinality(Devices)
        <4>1. Cardinality(Reported(failed)) \in Nat
          BY <1>2, <3>2
        <4>2. Cardinality(1..Cardinality(Reported(failed))) = Cardinality(Reported(failed))
          BY <4>1, FS_Interval
        <4> QED
          BY <2>1, <3>1, <3>2, <4>2
      <3>4. TermInv' /\ TrampInv'
        BY <1>1, <1>3, <2>1, TermInvNext
      <3>5. ReturnedHandlesResolve' /\ out'.res \in Results /\ IsArrayOf(out'.arr, TrampAddr)
        BY <2>1, NothingReturned DEF Results
      <3>6. held' \subseteq Devices \X TrampAddr
        BY <2>1 DEF StillHeld, RestType
      <3> QED
        BY <2>1, <3>1, <3>3, <3>4, <3>5, <3>6 DEF RestType
    <2> QED
      BY <1>5, <1>6, <2>1 DEF EnumerateCount
  <1>7. CASE EnumerateFill
    <2>1. ASSUME NEW failed \in FailedDrivers,
                 NEW c \in 0..Cardinality(Reported(failed)),
                 SetupTermPhysDevs(failed), WrapAndUnload(failed, c), UNCHANGED present
          PROVE  IndInv'
      <3>1. UnloadEmptyDrivers
        BY <2>1 DEF WrapAndUnload
      <3>2. TermInv' /\ icd_terms' \subseteq Drivers
        BY <1>1, <2>1, <3>1, TermInvNext
      <3>3. TrampInv' /\ total_gpu_count' \in 0..Cardinality(Devices)
        BY <1>1, <2>1, WrapStep
      <3>4. /\ ReturnedHandlesResolve' /\ out'.res \in Results /\ IsArrayOf(out'.arr, TrampAddr)
            /\ held' \subseteq Devices \X TrampAddr
        BY <2>1, FillReturns
      <3>5. physical_device_count' \in [Drivers -> Nat]
        BY <1>1, <2>1, SetupTermStep
      <3> QED
        BY <2>1, <3>2, <3>3, <3>4, <3>5 DEF RestType
    <2> QED
      BY <1>5, <1>7, <2>1 DEF EnumerateFill
  <1>8. ASSUME present' \subseteq Devices,
               UNCHANGED <<icd_terms, termVars, trampVars, total_gpu_count, out, held>>
        PROVE  IndInv'
    <2>1. TermInv' /\ TrampInv'
      BY <1>3, <1>4, <1>8 DEF termVars
    <2>2. RestType'
      BY <1>8 DEF RestType, termVars, IsArrayOf
    <2>3. ReturnedHandlesResolve'
      BY <1>8 DEF ReturnedHandlesResolve, Resolves, termVars, trampVars, IsInjective
    <2> QED
      BY <2>1, <2>2, <2>3
  <1>9. CASE PlugIn \/ Unplug
    BY <1>8, <1>9 DEF PlugIn, Unplug, RestType
  <1>10. CASE UNCHANGED vars
    BY <1>8, <1>10 DEF vars, RestType
  <1> QED
    BY <1>6, <1>7, <1>9, <1>10 DEF Next

\* The step that needs the application to pass an array that is large enough:
\* every device is then asked for, so no wrapper of a reported device is among
\* the left-over ones that may be dropped.
LEMMA HeldNext ==
    ASSUME ~PartialQueries, IndInv, HeldHandlesResolve, [Next]_vars
    PROVE  HeldHandlesResolve'
  <1> USE DEF IndInv
  <1>1. TypeOK
    BY TypesSplit
  <1>2. UNCHANGED <<term, tramp, held>> => HeldHandlesResolve'
    BY DEF HeldHandlesResolve, Resolves
  <1>3. ASSUME NEW failed, SetupTermPhysDevs(failed), NEW h \in StillHeld(Reported(failed))
        PROVE  /\ h[2] \in DOMAIN tramp
               /\ tramp[h[2]] \in DOMAIN term' /\ term'[tramp[h[2]]] = h[1]
    <2>1. h \in held /\ h[1] \in Reported(failed)
      BY DEF StillHeld
    <2>2. h[2] \in DOMAIN tramp /\ tramp[h[2]] \in DOMAIN term /\ term[tramp[h[2]]] = h[1]
      BY <2>1 DEF HeldHandlesResolve, Resolves
    <2> QED
      BY <1>1, <1>3, <2>1, <2>2, SetupTermStep
  <1>4. CASE EnumerateCount
    <2>1. ASSUME NEW failed, SetupTermPhysDevs(failed), held' = StillHeld(Reported(failed)),
                 UNCHANGED tramp
          PROVE  HeldHandlesResolve'
      BY <1>3, <2>1 DEF HeldHandlesResolve, Resolves
    <2>2. ASSUME NEW res, SetupTermPhysDevsFails(res), UNCHANGED <<tramp, held>>
          PROVE  HeldHandlesResolve'
      BY <1>1, <1>2, <2>2, SetupTermFailsStep
    <2> QED
      BY <1>4, <2>1, <2>2 DEF EnumerateCount, trampVars
  <1>5. CASE EnumerateFill
    <2>1. ASSUME NEW failed, NEW c \in 0..Cardinality(Reported(failed)),
                 c = Cardinality(Reported(failed)),
                 SetupTermPhysDevs(failed), WrapAndUnload(failed, c)
          PROVE  HeldHandlesResolve'
      <3>1. /\ phys_devs_term' \in [1..c -> TermAddr]
            /\ term' \in [Range(phys_devs_term') -> Reported(failed)]
        BY <1>1, <2>1, SetupTermStep
      <3>2. ASSUME NEW h \in StillHeld(Reported(failed)) PROVE Resolves(h[1], h[2])'
        <4>1. /\ h[2] \in DOMAIN tramp
              /\ tramp[h[2]] \in DOMAIN term' /\ term'[tramp[h[2]]] = h[1]
          BY <1>3, <2>1
        <4>2. tramp[h[2]] \in Range(phys_devs_term')
          BY <3>1, <4>1
        <4>3. h[2] \in DOMAIN tramp' /\ tramp'[h[2]] = tramp[h[2]]
          BY <1>1, <2>1, <4>1, <4>2, WrapStep
        <4> QED
          BY <4>1, <4>3 DEF Resolves
      <3>3. CASE held' = StillHeld(Reported(failed))
        BY <3>2, <3>3 DEF HeldHandlesResolve
      <3>4. CASE /\ \A i \in 1..c : out'.arr[i] \in DOMAIN tramp'
                                      /\ tramp'[out'.arr[i]] = phys_devs_term'[i]
                 /\ held' = StillHeld(Reported(failed))
                       \cup {<<term'[phys_devs_term'[i]], out'.arr[i]>> : i \in 1..c}
        <4>1. \A i \in 1..c : phys_devs_term'[i] \in DOMAIN term'
          BY <3>1 DEF Range
        <4>2. \A i \in 1..c : Resolves(term[phys_devs_term[i]], out.arr[i])'
          BY <3>4, <4>1 DEF Resolves
        <4> QED
          BY <3>2, <3>4, <4>2 DEF HeldHandlesResolve
      <3> QED
        BY <1>1, <2>1, <3>3, <3>4, WrapStep
    <2>2. ASSUME NEW res, SetupTermPhysDevsFails(res), UNCHANGED <<tramp, held>>
          PROVE  HeldHandlesResolve'
      BY <1>1, <1>2, <2>2, SetupTermFailsStep
    <2> QED
      BY <1>5, <2>1, <2>2 DEF EnumerateFill, trampVars
  <1>6. CASE PlugIn \/ Unplug \/ UNCHANGED vars
    BY <1>2, <1>6 DEF PlugIn, Unplug, vars, termVars, trampVars
  <1> QED
    BY <1>4, <1>5, <1>6 DEF Next

-----------------------------------------------------------------------------
(* The handle table                                                        *)

\* A handle of a device that is still known after a step leads to it still.
LEMMA HandleKept ==
    ASSUME ~PartialQueries, IndInv, [Next]_vars,
           NEW d \in Devices, NEW w \in TrampAddr, Resolves(d, w), d \in Range(term')
    PROVE  Resolves(d, w)'
  <1> USE DEF IndInv
  <1>1. TypeOK
    BY TypesSplit
  <1>2. w \in DOMAIN tramp /\ tramp[w] \in DOMAIN term /\ term[tramp[w]] = d
    BY DEF Resolves
  <1>3. UNCHANGED <<term, tramp>> => Resolves(d, w)'
    BY <1>2 DEF Resolves
  <1>4. ASSUME NEW failed, SetupTermPhysDevs(failed)
        PROVE  tramp[w] \in DOMAIN term' /\ term'[tramp[w]] = d
    <2>1. /\ term' \in [Range(phys_devs_term') -> Reported(failed)]
          /\ \A a \in DOMAIN term : term[a] \in Reported(failed) =>
                a \in DOMAIN term' /\ term'[a] = term[a]
      BY <1>1, <1>4, SetupTermStep
    <2>2. d \in Reported(failed)
      BY <2>1 DEF Range
    <2> QED
      BY <1>2, <2>1, <2>2
  <1>5. CASE EnumerateCount
    <2>1. ASSUME NEW failed, SetupTermPhysDevs(failed), UNCHANGED tramp
          PROVE  Resolves(d, w)'
      BY <1>2, <1>4, <2>1 DEF Resolves
    <2>2. ASSUME NEW res, SetupTermPhysDevsFails(res), UNCHANGED tramp
          PROVE  Resolves(d, w)'
      BY <1>1, <1>3, <2>2, SetupTermFailsStep
    <2> QED
      BY <1>5, <2>1, <2>2 DEF EnumerateCount, trampVars
  <1>6. CASE EnumerateFill
    <2>1. ASSUME NEW failed, NEW c \in 0..Cardinality(Reported(failed)),
                 c = Cardinality(Reported(failed)),
                 SetupTermPhysDevs(failed), WrapAndUnload(failed, c)
          PROVE  Resolves(d, w)'
      <3>1. tramp[w] \in DOMAIN term' /\ term'[tramp[w]] = d
        BY <1>4, <2>1
      <3>2. tramp[w] \in Range(phys_devs_term')
        BY <1>1, <2>1, <3>1, SetupTermStep
      <3>3. w \in DOMAIN tramp' /\ tramp'[w] = tramp[w]
        BY <1>1, <1>2, <2>1, <3>2, WrapStep
      <3> QED
        BY <3>1, <3>3 DEF Resolves
    <2>2. ASSUME NEW res, SetupTermPhysDevsFails(res), UNCHANGED tramp
          PROVE  Resolves(d, w)'
      BY <1>1, <1>3, <2>2, SetupTermFailsStep
    <2> QED
      BY <1>6, <2>1, <2>2 DEF EnumerateFill, trampVars
  <1>7. CASE PlugIn \/ Unplug \/ UNCHANGED vars
    BY <1>3, <1>7 DEF PlugIn, Unplug, vars, termVars, trampVars
  <1> QED
    BY <1>5, <1>6, <1>7 DEF Next

HandlePairs == {e \in Devices \X TrampAddr : Resolves(e[1], e[2])}

\* What is true of the table in every state: its devices are known, and device and handle
\* determine each other.
TableInv ==
    /\ Range(term) \in SUBSET Devices
    /\ HandlePairs \in SUBSET (Range(term) \X TrampAddr)
    /\ Table!OneToOne(HandlePairs)

LEMMA TableSound == IndInv => TableInv
  <1> SUFFICES ASSUME IndInv PROVE TableInv
    OBVIOUS
  <1>1. TypeOK
    BY TypesSplit DEF IndInv
  <1>2. Range(term) \in SUBSET Devices
    BY <1>1 DEF TypeOK, Range
  <1>3. IsInjective(term) /\ IsInjective(tramp)
    BY DEF IndInv, TermInv, TrampInv
  <1>4. HandlePairs \in SUBSET (Range(term) \X TrampAddr)
    BY DEF HandlePairs, Resolves, Range
  <1>5. ASSUME NEW e \in HandlePairs, NEW f \in HandlePairs
        PROVE  e[1] = f[1] <=> e[2] = f[2]
    <2>1. /\ e[2] \in DOMAIN tramp /\ tramp[e[2]] \in DOMAIN term /\ term[tramp[e[2]]] = e[1]
          /\ f[2] \in DOMAIN tramp /\ tramp[f[2]] \in DOMAIN term /\ term[tramp[f[2]]] = f[1]
      BY DEF HandlePairs, Resolves
    <2> QED
      BY <1>3, <2>1 DEF IsInjective
  <1> QED
    BY <1>2, <1>4, <1>5 DEF Table!OneToOne, TableInv

\* Every step of the two lists is a step of the table, or changes nothing in it.
LEMMA TableStep ==
    ASSUME ~PartialQueries, IndInv, IndInv', [Next]_vars
    PROVE  [Table!Enumerate]_<<Range(term), HandlePairs>>
  <1>1. /\ Range(term') \in SUBSET Devices
        /\ HandlePairs' \in SUBSET (Range(term') \X TrampAddr)
        /\ Table!OneToOne(HandlePairs')
    <2>1. TableInv'
      BY TableSound, PTL
    <2> QED
      BY <2>1 DEF TableInv, Table!OneToOne, Range
  <1>2. ASSUME NEW e \in HandlePairs, e[1] \in Range(term')
        PROVE  e \in HandlePairs'
    <2>1. e \in Devices \X TrampAddr /\ e[1] \in Devices /\ e[2] \in TrampAddr /\ Resolves(e[1], e[2])
      BY DEF HandlePairs
    <2>2. Resolves(e[1], e[2])'
      BY <1>2, <2>1, HandleKept
    <2> QED
      BY <2>1, <2>2 DEF HandlePairs
  <1> QED
    BY <1>1, <1>2 DEF Table!Enumerate, HandlePairs

-----------------------------------------------------------------------------
(* The theorems                                                            *)

\* IndInv is an inductive invariant of vkEnumeratePhysicalDevices.
THEOREM Invariance == Spec => []IndInv
  BY IndInit, IndNext, PTL DEF Spec

\* Every variable keeps its type.
THEOREM TypeCorrect == Spec => []TypeOK
  <1>1. IndInv => TypeOK
    BY TypesSplit DEF IndInv
  <1> QED
    BY <1>1, Invariance, PTL

\* setup_loader_term_phys_devs and setup_loader_tramp_phys_devs neither leak
\* an object nor free one that is still in use, whatever fails.
THEOREM HeapOwnership == Spec => []HeapOwned
  <1>1. IndInv => HeapOwned
    BY DEF IndInv, HeapOwned, TermInv, TrampInv
  <1> QED
    BY <1>1, Invariance, PTL

\* One terminator object per device, one wrapper per terminator address.
THEOREM UniqueObjects == Spec => []OneObjectPerDevice
  <1>1. IndInv => OneObjectPerDevice
    BY DEF IndInv, OneObjectPerDevice, TermInv, TrampInv
  <1> QED
    BY <1>1, Invariance, PTL

\* unload_drivers_without_physical_devices leaves no terminator object whose
\* driver is gone.
THEOREM DriversLoaded == Spec => []TermDriversLoaded
  <1>1. IndInv => TermDriversLoaded
    BY DEF IndInv, TermDriversLoaded, TermInv
  <1> QED
    BY <1>1, Invariance, PTL

\* The handles a call returns lead to distinct devices, to all of them when
\* the result is VK_SUCCESS.
THEOREM ReturnedHandles == Spec => []ReturnedHandlesResolve
  <1>1. IndInv => ReturnedHandlesResolve
    BY DEF IndInv
  <1> QED
    BY <1>1, Invariance, PTL

\* When the application's array is never too small, a handle it was given
\* stays good for as long as the device is reported.
THEOREM HandleStability ==
    ASSUME ~PartialQueries
    PROVE  Spec => []HeldHandlesResolve
  <1>1. Init => HeldHandlesResolve
    BY DEF Init, HeldHandlesResolve
  <1>2. IndInv /\ HeldHandlesResolve /\ [Next]_vars => HeldHandlesResolve'
    BY HeldNext
  <1> QED
    BY <1>1, <1>2, Invariance, PTL DEF Spec

\* The two lists and every path through setup_loader_term_phys_devs and
\* setup_loader_tramp_phys_devs implement the abstract table of handles.
THEOREM Refinement ==
    ASSUME ~PartialQueries
    PROVE  Spec => IsHandleTable
  <1>1. Init => Table!Init
    BY EmptyFacts DEF Init, Table!Init, Resolves
  <1>2. IndInv /\ IndInv' /\ [Next]_vars => [Table!Enumerate]_<<Range(term), HandlePairs>>
    BY TableStep
  <1> QED
    BY <1>1, <1>2, Invariance, PTL DEF Spec, IsHandleTable, Table!Spec, HandlePairs

-----------------------------------------------------------------------------
(* Physical device groups                                                  *)
(* The inductive invariant                                                 *)

CallTypes ==
    [at : {"idle", "count", "ready", "fill", "crashed"}, todo : SUBSET Drivers, total : Nat,
     local : SUBSET SUBSET Devices, room : Rooms \cup {NoArray},
     cause : Results, lost : BOOLEAN]
FoundTypes == [res : Results, cause : Results, groups : SUBSET SUBSET TrampAddr]

\* The stage of a call: which drivers are still to be asked, and what it has found.
CallInv ==
    /\ linked \subseteq GroupDrivers /\ failing \subseteq Drivers
    /\ call \in CallTypes
    /\ call.todo \subseteq icd_terms
    /\ call.at \in {"idle", "ready"} => call.todo = {}
    /\ call.at = "fill" => call.room # NoArray
    /\ call.at \in {"idle", "count", "ready"} => call.local = {}
    /\ Cardinality(call.local) <= call.total

\* The terminator addresses in some group of the array.  They may be stale, but there are
\* never more than devices.
InGroups == UNION {group[a] : a \in OldGroups}
ArrayInv ==
    /\ \E n \in Nat : phys_dev_groups_term \in [1..n -> GroupAddr \cup {Null}]
    /\ \A i, j \in DOMAIN phys_dev_groups_term :
         phys_dev_groups_term[i] = phys_dev_groups_term[j] /\ i # j =>
             phys_dev_groups_term[i] = Null
    /\ group \in [OldGroups -> SUBSET TermAddr]
    /\ IsFiniteSet(InGroups) /\ Cardinality(InGroups) <= Cardinality(Devices)

\* The groups found so far are disjoint, each of devices of one driver that has answered.
LocalInv ==
    /\ {} \notin call.local
    /\ \A g \in call.local : \E i \in icd_terms \ call.todo : \A d \in g : DriverOf[d] = i
    /\ \A g, h \in call.local : g # h => g \cap h = {}

\* As long as no groups went away, what was counted is still there to be found.
GroupsOfAll(S) == UNION {GroupsOf(i) : i \in S}
CountInv ==
    ~call.lost =>
        /\ call.at \in {"count", "ready"} =>
             call.total <= Cardinality(GroupsOfAll(icd_terms \ call.todo))
        /\ call.at = "fill" =>
             call.total <= Cardinality(call.local \cup GroupsOfAll(call.todo))

\* The groups of the last call are only there until the next one begins.
FoundInv ==
    /\ found \in FoundTypes
    /\ call.at # "idle" => found.groups = {}
    /\ GroupsResolve

ListsInv == RestType /\ TermInv /\ TrampInv
GroupsInv == /\ ListsInv /\ CallInv /\ ArrayInv /\ LocalInv
             /\ CountInv /\ FoundInv /\ NoEmptyEntry

-----------------------------------------------------------------------------
(* The end of a call                                                       *)

LEMMA OrderingFacts ==
    ASSUME NEW S, NEW f \in Orderings(S)
    PROVE  /\ f \in [1..Cardinality(S) -> S]
           /\ \A i, j \in 1..Cardinality(S) : f[i] = f[j] => i = j
           /\ \A d \in S : \E i \in 1..Cardinality(S) : f[i] = d
  BY DEF Orderings, Bijection, Injection, Surjection, IsInjective

\* setup_loader_tramp_phys_dev_groups: the list of wrappers stays sound, and each group it
\* returns has the wrappers of one group of the copied array.
LEMMA WrapGroupsStep ==
    ASSUME TrampInv, total_gpu_count \in 0..Cardinality(Devices),
           NEW cause \in Results, NEW res \in {Success, Incomplete}, NEW arr, NEW heap,
           NEW count \in Nat, NEW T \in SUBSET TermAddr,
           IsFiniteSet(T), Cardinality(T) <= Cardinality(Devices),
           \A i \in 1..count : heap[arr[i]] \subseteq T,
           WrapGroups(cause, res, arr, heap, count)
    PROVE  /\ TrampInv' /\ total_gpu_count' \in 0..Cardinality(Devices)
           /\ found' \in FoundTypes
           /\ \/ found' = NoGroups(OutOfMemory)
              \/ /\ found'.cause = cause
                 /\ \A G \in found'.groups : \E i \in 1..count :
                      G = {w \in DOMAIN tramp' : tramp'[w] \in heap[arr[i]]}
  <1> DEFINE D == UNION {heap[arr[i]] : i \in 1..count}
             m == Cardinality(D)
             wrapped(pd, W) == {{W[n] : n \in {n \in DOMAIN pd : pd[n] \in heap[arr[i]]}} :
                                  i \in 1..count}
             Gives(groups) == found' = [res |-> res, cause |-> cause, groups |-> groups]
  <1>1. /\ D \subseteq T /\ IsFiniteSet(D) /\ m \in Nat /\ m <= Cardinality(Devices)
        /\ Cardinality(Devices) \in Nat
    <2>1. D \subseteq T
      OBVIOUS
    <2>2. IsFiniteSet(D) /\ m <= Cardinality(T)
      BY <2>1, FS_Subset
    <2>3. m \in Nat /\ Cardinality(T) \in Nat /\ Cardinality(Devices) \in Nat
      BY <2>2, DevicesFinite, FS_CardinalityType
    <2> HIDE DEF D
    <2> QED
      BY <2>1, <2>2, <2>3
  <1>2. PICK pd \in Orderings(D) :
           \/ Gives({}) /\ UNCHANGED <<trampVars, total_gpu_count>>
           \/ /\ SetupTrampFast(pd, total_gpu_count)
              /\ Gives(wrapped(pd, [n \in DOMAIN pd |-> OldFor(pd, n)]))
              /\ UNCHANGED <<trampVars, total_gpu_count>>
           \/ /\ SetupTrampSlow(pd, total_gpu_count)
              /\ total_gpu_count' = NewCount(pd, total_gpu_count)
              /\ Gives(wrapped(pd, phys_devs_tramp'))
           \/ /\ SetupTrampFails(pd)
              /\ total_gpu_count' = 0
              /\ found' = NoGroups(OutOfMemory)
    BY DEF WrapGroups, Flattened
  <1>4. \A i \in 1..count : heap[arr[i]] \in SUBSET D
    OBVIOUS
  <1> HIDE DEF D
  <1>3. /\ pd \in [1..m -> D]
        /\ \A i, j \in 1..m : pd[i] = pd[j] => i = j
        /\ \A d \in D : \E i \in 1..m : pd[i] = d
    <2> HIDE DEF Gives, wrapped
    <2> QED
      BY <1>2, OrderingFacts
  <1> HIDE DEF m
  <1>5. pd \in [1..m -> TermAddr] /\ IsInjective(pd) /\ DOMAIN pd = 1..m
    BY <1>1, <1>3 DEF IsInjective
  <1>6. UNCHANGED <<trampVars, total_gpu_count>> =>
           TrampInv' /\ total_gpu_count' \in 0..Cardinality(Devices)
    BY DEF TrampInv, trampVars, IsArrayOf, IsInjective, Range
  \* What is returned when the wrappers W are those of the devices pd.
  <1>7. ASSUME TrampInv', NEW W, Gives(wrapped(pd, W)),
               \A k \in 1..m : W[k] \in DOMAIN tramp' /\ tramp'[W[k]] = pd[k]
        PROVE  /\ found' \in FoundTypes /\ found'.cause = cause
               /\ \A G \in found'.groups : \E i \in 1..count :
                    G = {w \in DOMAIN tramp' : tramp'[w] \in heap[arr[i]]}
    <2>1. /\ \A v, w \in DOMAIN tramp' : tramp'[v] = tramp'[w] => v = w
          /\ DOMAIN tramp' \subseteq TrampAddr
      BY <1>7 DEF TrampInv, IsInjective, IsArrayOf, Range
    <2>2. ASSUME NEW i \in 1..count
          PROVE  {W[n] : n \in {n \in DOMAIN pd : pd[n] \in heap[arr[i]]}}
                    = {w \in DOMAIN tramp' : tramp'[w] \in heap[arr[i]]}
      <3> HIDE DEF Gives, wrapped
      <3>1. ASSUME NEW k \in 1..m, pd[k] \in heap[arr[i]]
            PROVE  W[k] \in DOMAIN tramp' /\ tramp'[W[k]] \in heap[arr[i]]
        BY <1>7, <3>1
      <3>2. ASSUME NEW w \in DOMAIN tramp', tramp'[w] \in heap[arr[i]]
            PROVE  \E k \in {n \in DOMAIN pd : pd[n] \in heap[arr[i]]} : W[k] = w
        <4>1. PICK k \in 1..m : pd[k] = tramp'[w]
          BY <1>3, <1>4, <3>2
        <4>2. W[k] = w
          BY <1>7, <2>1, <4>1
        <4> QED
          BY <1>5, <3>2, <4>1, <4>2
      <3> QED
        BY <1>5, <3>1, <3>2
    <2>3. \A G \in wrapped(pd, W) : \E i \in 1..count :
             G = {w \in DOMAIN tramp' : tramp'[w] \in heap[arr[i]]}
      BY <2>2
    <2>4. wrapped(pd, W) \in SUBSET SUBSET TrampAddr
      BY <2>1, <2>3
    <2> HIDE DEF wrapped
    <2>5. /\ found'.groups = wrapped(pd, W) /\ found'.cause = cause
          /\ found' \in FoundTypes
      BY <1>7, <2>4 DEF FoundTypes, Results
    <2> QED
      BY <2>3, <2>5
  <1>8. CASE Gives({}) /\ UNCHANGED <<trampVars, total_gpu_count>>
    BY <1>6, <1>8 DEF FoundTypes, Results
  <1>9. CASE /\ SetupTrampFast(pd, total_gpu_count)
             /\ Gives(wrapped(pd, [n \in DOMAIN pd |-> OldFor(pd, n)]))
             /\ UNCHANGED <<trampVars, total_gpu_count>>
    <2> DEFINE W == [n \in DOMAIN pd |-> OldFor(pd, n)]
    <2>1. \A k \in 1..m : OldFor(pd, k) \in Range(phys_devs_tramp) /\ tramp[OldFor(pd, k)] = pd[k]
      BY <1>5, <1>9, MatchFacts DEF SetupTrampFast
    <2>2. DOMAIN tramp = Range(phys_devs_tramp) /\ tramp' = tramp
      BY <1>9 DEF TrampInv, trampVars
    <2>3. \A k \in 1..m : W[k] \in DOMAIN tramp' /\ tramp'[W[k]] = pd[k]
      BY <1>5, <2>1, <2>2
    <2>4. Gives(wrapped(pd, W))
      BY <1>9
    <2> HIDE DEF W, Gives, wrapped
    <2> QED
      BY <1>6, <1>7, <1>9, <2>3, <2>4
  <1>10. CASE /\ SetupTrampSlow(pd, total_gpu_count)
              /\ total_gpu_count' = NewCount(pd, total_gpu_count)
              /\ Gives(wrapped(pd, phys_devs_tramp'))
    <2>1. total_gpu_count \in Nat
      BY <1>1
    <2>2. /\ \E p \in m..MaxOf(total_gpu_count, m) : phys_devs_tramp' \in [1..p -> TrampAddr]
          /\ IsInjective(phys_devs_tramp')
          /\ tramp' \in [Range(phys_devs_tramp') -> TermAddr]
          /\ IsInjective(tramp')
          /\ \A i \in 1..m : tramp'[phys_devs_tramp'[i]] = pd[i]
      BY <1>1, <1>5, <1>10, <2>1, TrampSlowStep
    <2>3. PICK p \in m..Cardinality(Devices) : phys_devs_tramp' \in [1..p -> TrampAddr]
      BY <1>1, <2>2 DEF MaxOf
    <2>4. p \in 0..Cardinality(Devices) /\ 1..m \subseteq 1..p
      BY <1>1, <2>3
    <2>5. TrampInv'
      BY <2>2, <2>3, <2>4 DEF TrampInv, IsArrayOf
    <2>6. \A k \in 1..m : phys_devs_tramp'[k] \in DOMAIN tramp'
      BY <2>2, <2>3, <2>4 DEF Range
    <2>7. total_gpu_count' \in 0..Cardinality(Devices)
      <3>1. Cardinality(DOMAIN pd) = m
        BY <1>1, <1>5, FS_Interval
      <3> QED
        BY <1>1, <1>10, <3>1 DEF NewCount, MaxOf
    <2> HIDE DEF Gives, wrapped
    <2> QED
      BY <1>7, <1>10, <2>2, <2>5, <2>6, <2>7
  <1>11. CASE SetupTrampFails(pd) /\ total_gpu_count' = 0 /\ found' = NoGroups(OutOfMemory)
    <2>1. UNCHANGED trampVars
      BY <1>5, <1>11, TrampFailsStep
    <2>2. TrampInv'
      BY <2>1 DEF TrampInv, trampVars, IsArrayOf, IsInjective, Range
    <2>3. found' \in FoundTypes
      BY <1>11 DEF FoundTypes, NoGroups, Results
    <2> QED
      BY <1>1, <1>11, <2>2, <2>3
  <1> QED
    BY <1>2, <1>8, <1>9, <1>10, <1>11

\* An array of groups and its heap: the groups are of terminator addresses in T, of which
\* there are not more than devices.
Fits(n, arr, heap, T) ==
    /\ n \in Nat /\ arr \in [1..n -> GroupAddr \cup {Null}]
    /\ T \in SUBSET TermAddr /\ IsFiniteSet(T) /\ Cardinality(T) <= Cardinality(Devices)
    /\ \A i \in 1..n : arr[i] # Null => heap[arr[i]] \subseteq T

\* What a call that ends with this array does: it follows an empty entry, or returns groups
\* of which each has the wrappers of one group of the array.
Crashes(n, arr) ==
    /\ call' = [call EXCEPT !.at = "crashed"] /\ found' = found
    /\ \E i \in 1..n : arr[i] = Null
Returns(cause, n, arr, heap) ==
    /\ call' = Idle /\ found' \in FoundTypes
    /\ \/ found'.groups = {}
       \/ /\ found'.cause = cause
          /\ \A G \in found'.groups : \E i \in 1..n :
               /\ arr[i] # Null
               /\ G = {w \in DOMAIN tramp' : tramp'[w] \in heap[arr[i]]}

\* From the label out.
LEMMA CopyOutStep ==
    ASSUME TrampInv, total_gpu_count \in 0..Cardinality(Devices),
           call \in CallTypes, call.room # NoArray,
           NEW cause \in Results, NEW n, NEW arr, NEW heap, NEW T, Fits(n, arr, heap, T),
           CopyOut(cause, arr, heap)
    PROVE  /\ TrampInv' /\ total_gpu_count' \in 0..Cardinality(Devices)
           /\ Crashes(n, arr) \/ Returns(cause, n, arr, heap)
  <1> USE DEF Fits, Crashes, Returns
  <1> DEFINE count == MinOf(NumGroups(arr), call.room)
             res == IF count < NumGroups(arr) THEN Incomplete ELSE cause
  <1>1. NumGroups(arr) = n
    <2>1. n \in Nat /\ DOMAIN arr = 1..n
      OBVIOUS
    <2> HIDE DEF Fits, Crashes, Returns, count, res
    <2>2. Cardinality(1..n) = n
      BY <2>1, FS_Interval
    <2> QED
      BY <2>1, <2>2 DEF NumGroups
  <1>2. call.room \in Nat
    <2>1. Cardinality(Devices) \in Nat
      BY DevicesFinite, FS_CardinalityType
    <2> QED
      BY <2>1 DEF CallTypes, Rooms
  <1>3. count \in Nat /\ count <= n /\ 1..count \subseteq 1..n
    BY <1>1, <1>2 DEF MinOf
  <1>4. res \in Results
    BY DEF Results
  <1>5. UNCHANGED <<trampVars, total_gpu_count>> =>
           TrampInv' /\ total_gpu_count' \in 0..Cardinality(Devices)
    BY DEF TrampInv, trampVars, IsArrayOf, IsInjective, Range
  <1>6. \/ /\ \E i \in 1..count : arr[i] = Null
           /\ call' = [call EXCEPT !.at = "crashed"]
           /\ UNCHANGED <<trampVars, total_gpu_count, found>>
        \/ /\ \A i \in 1..count : arr[i] # Null
           /\ res \in {Success, Incomplete}
           /\ WrapGroups(cause, res, arr, heap, count)
           /\ call' = Idle
        \/ /\ found' = NoGroups(res)
           /\ call' = Idle
           /\ UNCHANGED <<trampVars, total_gpu_count>>
    BY DEF CopyOut
  <1> HIDE DEF count, res
  <1>7. CASE /\ \E i \in 1..count : arr[i] = Null
             /\ call' = [call EXCEPT !.at = "crashed"]
             /\ UNCHANGED <<trampVars, total_gpu_count, found>>
    BY <1>3, <1>5, <1>7
  <1>8. CASE /\ \A i \in 1..count : arr[i] # Null
             /\ res \in {Success, Incomplete}
             /\ WrapGroups(cause, res, arr, heap, count)
             /\ call' = Idle
    <2>1. \A i \in 1..count : heap[arr[i]] \subseteq T
      BY <1>3, <1>8
    <2>2. /\ TrampInv' /\ total_gpu_count' \in 0..Cardinality(Devices)
          /\ found' \in FoundTypes
          /\ \/ found' = NoGroups(OutOfMemory)
             \/ /\ found'.cause = cause
                /\ \A G \in found'.groups : \E i \in 1..count :
                     G = {w \in DOMAIN tramp' : tramp'[w] \in heap[arr[i]]}
      BY <1>3, <1>8, <2>1, WrapGroupsStep
    <2>3. CASE found' = NoGroups(OutOfMemory)
      BY <1>8, <2>2, <2>3 DEF NoGroups
    <2>4. CASE /\ found'.cause = cause
               /\ \A G \in found'.groups : \E i \in 1..count :
                    G = {w \in DOMAIN tramp' : tramp'[w] \in heap[arr[i]]}
      <3>1. \A G \in found'.groups : \E i \in 1..n :
               /\ arr[i] # Null
               /\ G = {w \in DOMAIN tramp' : tramp'[w] \in heap[arr[i]]}
        BY <1>3, <1>8, <2>4
      <3> QED
        BY <1>8, <2>2, <2>4, <3>1
    <2> QED
      BY <2>2, <2>3, <2>4
  <1>9. CASE found' = NoGroups(res) /\ call' = Idle /\ UNCHANGED <<trampVars, total_gpu_count>>
    <2>1. found' \in FoundTypes /\ found'.groups = {}
      BY <1>4, <1>9 DEF FoundTypes, NoGroups
    <2> QED
      BY <1>5, <1>9, <2>1
  <1> QED
    BY <1>6, <1>7, <1>8, <1>9

LEMMA IdleFacts ==
    ASSUME call \in CallTypes
    PROVE  /\ Idle \in CallTypes /\ Idle.at = "idle" /\ Idle.todo = {} /\ Idle.local = {}
           /\ Idle.total = 0 /\ Idle.lost = call.lost
  BY DEF CallTypes, Idle, Stage, Results, Success

\* What is true of the call's own state once it has ended or the program has crashed.
LEMMA EndOfCall ==
    ASSUME CallInv, LocalInv, UNCHANGED <<icd_terms, environment>>,
           call' = Idle \/ call' = [call EXCEPT !.at = "crashed"]
    PROVE  CallInv' /\ LocalInv' /\ CountInv' /\ call'.lost = call.lost
  <1>1. call \in CallTypes
    BY DEF CallInv
  <1>2. CASE call' = Idle
    <2>1. /\ call' \in CallTypes /\ call'.at = "idle" /\ call'.todo = {} /\ call'.local = {}
          /\ call'.total = 0 /\ call'.lost = call.lost
      BY <1>1, <1>2, IdleFacts
    <2>2. CallInv'
      BY <2>1, FS_EmptySet DEF CallInv, environment
    <2>3. LocalInv' /\ CountInv'
      BY <2>1 DEF LocalInv, CountInv
    <2> QED
      BY <2>1, <2>2, <2>3
  <1>3. CASE call' = [call EXCEPT !.at = "crashed"]
    <2>1. /\ call' \in CallTypes /\ call'.at = "crashed" /\ call'.todo = call.todo
          /\ call'.local = call.local /\ call'.total = call.total /\ call'.lost = call.lost
      BY <1>1, <1>3 DEF CallTypes
    <2>2. CallInv'
      BY <2>1 DEF CallInv, environment
    <2>3. LocalInv' /\ CountInv'
      BY <2>1 DEF LocalInv, CountInv
    <2> QED
      BY <2>1, <2>2, <2>3
  <1> QED
    BY <1>2, <1>3

\* A step that leaves the terminator list alone.
LEMMA ListsKept ==
    ASSUME ListsInv, TrampInv', total_gpu_count' \in 0..Cardinality(Devices),
           present' \subseteq Devices, UNCHANGED <<icd_terms, termVars, out, held>>
    PROVE  ListsInv'
  <1>1. TermInv'
    BY DEF ListsInv, TermInv, termVars, IsArrayOf, IsInjective, Range
  <1>2. RestType'
    BY DEF ListsInv, RestType, termVars, IsArrayOf
  <1> QED
    BY <1>1, <1>2 DEF ListsInv

\* A step that leaves both lists of objects alone.
LEMMA ListsSame ==
    ASSUME ListsInv, present' \subseteq Devices,
           UNCHANGED <<icd_terms, termVars, trampVars, total_gpu_count, out, held>>
    PROVE  ListsInv'
  <1>1. TrampInv'
    BY DEF ListsInv, TrampInv, trampVars, IsArrayOf, IsInjective, Range
  <1>2. total_gpu_count' \in 0..Cardinality(Devices)
    BY DEF ListsInv, RestType
  <1> QED
    BY <1>1, <1>2, ListsKept

LEMMA ArrayKept ==
    ASSUME ArrayInv, UNCHANGED <<group, phys_dev_groups_term>>
    PROVE  ArrayInv'
  BY DEF ArrayInv, InGroups, OldGroups, Range

\* The old array, as CopyOut needs it.
LEMMA OldArray ==
    ASSUME ArrayInv
    PROVE  /\ \E n \in Nat : phys_dev_groups_term \in [1..n -> GroupAddr \cup {Null}]
           /\ InGroups \in SUBSET TermAddr /\ IsFiniteSet(InGroups)
           /\ Cardinality(InGroups) <= Cardinality(Devices)
           /\ DOMAIN group = OldGroups
           /\ \A i \in DOMAIN phys_dev_groups_term : phys_dev_groups_term[i] # Null =>
                /\ phys_dev_groups_term[i] \in OldGroups
                /\ group[phys_dev_groups_term[i]] \subseteq InGroups
  <1>1. \A i \in DOMAIN phys_dev_groups_term : phys_dev_groups_term[i] # Null =>
           phys_dev_groups_term[i] \in OldGroups
    BY DEF OldGroups, Range
  <1>2. \A a \in OldGroups : group[a] \subseteq InGroups /\ group[a] \subseteq TermAddr
    BY DEF InGroups, ArrayInv
  <1>3. InGroups \in SUBSET TermAddr
    BY <1>2 DEF InGroups
  <1> QED
    BY <1>1, <1>2, <1>3 DEF ArrayInv

\* goto out after an error, with the old array still in place and the old groups on the heap.
LEMMA ErrorEnds ==
    ASSUME GroupsInv, NEW cause \in Results \ {Success},
           call.at # "idle", call.room # NoArray, group' = group,
           CopyOut(cause, phys_dev_groups_term, group'),
           UNCHANGED <<present, icd_terms, termVars, out, held, environment, phys_dev_groups_term>>
    PROVE  GroupsInv'
  <1> USE DEF GroupsInv
  <1>1. PICK n \in Nat : phys_dev_groups_term \in [1..n -> GroupAddr \cup {Null}]
    BY OldArray
  <1>2. PICK arr, heap, T : arr = phys_dev_groups_term /\ heap = group /\ T = InGroups
    OBVIOUS
  <1>3. Fits(n, arr, heap, T)
    BY <1>1, <1>2, OldArray DEF Fits
  <1>4. /\ TrampInv /\ total_gpu_count \in 0..Cardinality(Devices) /\ call \in CallTypes
        /\ CopyOut(cause, arr, heap) /\ cause \in Results
    BY <1>2 DEF ListsInv, RestType, CallInv
  <1>5. /\ TrampInv' /\ total_gpu_count' \in 0..Cardinality(Devices)
        /\ Crashes(n, arr) \/ Returns(cause, n, arr, heap)
    BY <1>3, <1>4, CopyOutStep
  <1>6. CallInv' /\ LocalInv' /\ CountInv' /\ call'.lost = call.lost
    BY <1>5, EndOfCall DEF Crashes, Returns
  <1>7. ListsInv'
    BY <1>5, ListsKept DEF ListsInv, RestType
  <1>8. ArrayInv'
    BY ArrayKept
  <1>9. CASE Crashes(n, arr)
    <2>1. Null \in Range(phys_dev_groups_term)
      BY <1>1, <1>2, <1>9 DEF Range, Crashes
    <2>2. NoEmptyEntry'
      BY <1>6, <2>1 DEF NoEmptyEntry
    <2>3. FoundInv'
      BY <1>9 DEF FoundInv, GroupsResolve, Crashes
    <2> QED
      BY <1>6, <1>7, <1>8, <2>2, <2>3
  <1>10. CASE Returns(cause, n, arr, heap)
    <2>1. call'.at = "idle"
      BY <1>4, <1>10, IdleFacts DEF Returns
    <2>2. NoEmptyEntry'
      BY <1>6, <2>1 DEF NoEmptyEntry, Range
    <2>3. FoundInv'
      BY <1>10, <2>1 DEF FoundInv, GroupsResolve, Returns
    <2> QED
      BY <1>6, <1>7, <1>8, <2>2, <2>3
  <1> QED
    BY <1>5, <1>9, <1>10


-----------------------------------------------------------------------------
(* The two loops                                                           *)

\* Sets of groups are finite.
LEMMA GroupSetsFinite ==
    ASSUME NEW X \in SUBSET SUBSET Devices
    PROVE  IsFiniteSet(X) /\ Cardinality(X) \in Nat
  BY DevicesFinite, FS_SUBSET, FS_Subset, FS_CardinalityType

\* A driver's groups: disjoint, not empty, and of its own devices.
LEMMA GroupsOfFacts ==
    ASSUME present \subseteq Devices, NEW i
    PROVE  /\ GroupsOf(i) \in SUBSET SUBSET Devices /\ {} \notin GroupsOf(i)
           /\ \A g \in GroupsOf(i) : \A d \in g : DriverOf[d] = i /\ d \in present
           /\ \A g, h \in GroupsOf(i) : g # h => g \cap h = {}
  <1> DEFINE own == {d \in present : DriverOf[d] = i}
  <1>1. own \subseteq Devices /\ \A d \in own : DriverOf[d] = i /\ d \in present
    OBVIOUS
  <1>2. CASE i \in linked
    <2>1. GroupsOf(i) = {own} \ {{}}
      BY <1>2 DEF GroupsOf
    <2> HIDE DEF own
    <2> QED
      BY <1>1, <2>1
  <1>3. CASE i \notin linked
    <2>1. GroupsOf(i) = {{d} : d \in own}
      BY <1>3 DEF GroupsOf
    <2> HIDE DEF own
    <2>2. \A g \in GroupsOf(i) : \E d \in own : g = {d}
      BY <2>1
    <2>3. GroupsOf(i) \in SUBSET SUBSET Devices /\ {} \notin GroupsOf(i)
      BY <1>1, <2>2
    <2>4. \A g \in GroupsOf(i) : \A d \in g : DriverOf[d] = i /\ d \in present
      BY <1>1, <2>2
    <2>5. \A g, h \in GroupsOf(i) : g # h => g \cap h = {}
      BY <2>2
    <2> QED
      BY <2>3, <2>4, <2>5
  <1> QED
    BY <1>2, <1>3

LEMMA GroupsOfAllFacts ==
    ASSUME present \subseteq Devices, NEW S
    PROVE  /\ GroupsOfAll(S) \in SUBSET SUBSET Devices /\ {} \notin GroupsOfAll(S)
           /\ \A g \in GroupsOfAll(S) : \A d \in g : DriverOf[d] \in S /\ d \in present
           /\ \A g : g \in GroupsOfAll(S) <=> \E i \in S : g \in GroupsOf(i)
  <1>1. \A g : g \in GroupsOfAll(S) <=> \E i \in S : g \in GroupsOf(i)
    BY DEF GroupsOfAll
  <1> QED
    BY <1>1, GroupsOfFacts

\* The groups of one more driver are other groups.
LEMMA OneMoreDriver ==
    ASSUME present \subseteq Devices, NEW S, NEW i, i \notin S
    PROVE  Cardinality(GroupsOfAll(S \cup {i})) =
             Cardinality(GroupsOfAll(S)) + Cardinality(GroupsOf(i))
  <1>1. GroupsOfAll(S \cup {i}) = GroupsOfAll(S) \cup GroupsOf(i)
    BY DEF GroupsOfAll
  <1>2. GroupsOfAll(S) \cap GroupsOf(i) = {}
    <2> SUFFICES ASSUME NEW g \in GroupsOfAll(S), g \in GroupsOf(i) PROVE FALSE
      OBVIOUS
    <2>1. PICK d : d \in g
      BY GroupsOfFacts
    <2> QED
      BY <2>1, GroupsOfFacts, GroupsOfAllFacts
  <1>3. PICK A, B : A = GroupsOfAll(S) /\ B = GroupsOf(i)
    OBVIOUS
  <1>4. A \in SUBSET SUBSET Devices /\ B \in SUBSET SUBSET Devices /\ A \cap B = {}
    BY <1>2, <1>3, GroupsOfFacts, GroupsOfAllFacts
  <1>5. /\ IsFiniteSet(A) /\ Cardinality(A) \in Nat /\ IsFiniteSet(B) /\ Cardinality(B) \in Nat
    BY <1>4, GroupSetsFinite
  <1>6. Cardinality(A \cup B) = Cardinality(A) + Cardinality(B) - Cardinality(A \cap B)
    BY <1>5, FS_Union
  <1>7. Cardinality(A \cap B) = 0
    BY <1>4, FS_EmptySet
  <1>8. Cardinality(A \cup B) = Cardinality(A) + Cardinality(B)
    BY <1>5, <1>6, <1>7
  <1> QED
    BY <1>1, <1>3, <1>8

\* A device that appears joins its driver's group or is a new one: there are not fewer
\* groups than before.
LEMMA PlugInGrows ==
    ASSUME present \subseteq Devices, NEW L \in SUBSET SUBSET Devices, NEW S,
           \A g \in L : \A e \in g : DriverOf[e] \notin S,
           PlugIn, UNCHANGED linked
    PROVE  Cardinality(L \cup GroupsOfAll(S)) <= Cardinality(L \cup GroupsOfAll(S)')
  <1>1. PICK d \in Devices \ present : present' = present \cup {d}
    BY DEF PlugIn
  <1>2. PICK A, B : A = L \cup GroupsOfAll(S) /\ B = L \cup GroupsOfAll(S)'
    OBVIOUS
  <1> DEFINE k == DriverOf[d]
             grows(x) == k \in linked /\ k \in S /\ x \in GroupsOf(k)
             f == [x \in A |-> IF grows(x) THEN x \cup {d} ELSE x]
  <1>3. \A i \in S : \A x \in GroupsOf(i) : i # k => x \in GroupsOf(i)'
    BY <1>1 DEF GroupsOf
  <1>4. k \notin linked => \A x \in GroupsOf(k) : x \in GroupsOf(k)'
    BY <1>1 DEF GroupsOf
  <1>5. k \in linked => \A x \in GroupsOf(k) : x \cup {d} \in GroupsOf(k)' /\
                          \A y \in GroupsOf(k) : x = y
    BY <1>1 DEF GroupsOf
  <1>6. \A x : x \in GroupsOfAll(S)' <=> \E i \in S : x \in GroupsOf(i)'
    BY DEF GroupsOfAll
  <1>7. \A x : x \in GroupsOfAll(S) <=> \E i \in S : x \in GroupsOf(i)
    BY DEF GroupsOfAll
  <1>8. ASSUME NEW x \in A PROVE f[x] \in B
    <2>1. CASE grows(x)
      BY <1>2, <1>5, <1>6, <2>1
    <2>2. CASE ~grows(x) /\ x \in L
      BY <1>2, <2>2
    <2>3. CASE ~grows(x) /\ x \in GroupsOfAll(S)
      <3>1. PICK i \in S : x \in GroupsOf(i)
        BY <1>7, <2>3
      <3>2. x \in GroupsOf(i)'
        BY <1>3, <1>4, <2>3, <3>1
      <3> QED
        BY <1>2, <1>6, <2>3, <3>1, <3>2
    <2> QED
      BY <1>2, <2>1, <2>2, <2>3
  <1>9. ASSUME NEW x \in A, NEW y \in A, grows(x), ~grows(y), x \cup {d} = y
        PROVE  FALSE
    <2>1. d \in y /\ k \in S
      BY <1>9
    <2>2. y \notin L
      BY <2>1
    <2>3. y \in GroupsOfAll(S)
      BY <1>2, <2>2
    <2>4. d \in present
      BY <2>1, <2>3, GroupsOfAllFacts
    <2> QED
      BY <2>4
  <1>10. ASSUME NEW x \in A, NEW y \in A, f[x] = f[y] PROVE x = y
    BY <1>5, <1>9, <1>10
  <1>11. f \in Injection(A, B)
    <2>1. f \in [A -> B]
      BY <1>8
    <2> QED
      BY <1>10, <2>1 DEF Injection, IsInjective
  <1>12. IsFiniteSet(B)
    <2>1. present' \subseteq Devices
      BY <1>1
    <2>2. GroupsOfAll(S)' \in SUBSET SUBSET Devices
      BY <2>1 DEF GroupsOfAll, GroupsOf
    <2>3. B \in SUBSET SUBSET Devices
      BY <1>2, <2>2
    <2> QED
      BY <2>3, GroupSetsFinite
  <1> HIDE DEF f
  <1>13. Cardinality(A) <= Cardinality(B)
    BY <1>11, <1>12, FS_Injection
  <1> QED
    BY <1>2, <1>13


\* A step that leaves the lists, the array of groups and what was returned alone: what is
\* left to show is about the call only.
LEMMA QuietStep ==
    ASSUME GroupsInv, present' \subseteq Devices,
           UNCHANGED <<icd_terms, termVars, trampVars, total_gpu_count, out, held>>,
           UNCHANGED <<group, phys_dev_groups_term, found>>,
           call.at = "idle" => call'.at = "idle",
           call'.at = "crashed" => call.at = "crashed",
           call.lost => call'.lost,
           CallInv', LocalInv', CountInv'
    PROVE  GroupsInv'
  <1> USE DEF GroupsInv
  <1>1. ListsInv'
    BY ListsSame
  <1>2. ArrayInv'
    BY ArrayKept
  <1>3. GroupsResolve'
    BY DEF FoundInv, GroupsResolve, Resolves, termVars, trampVars
  <1>4. FoundInv'
    BY <1>3 DEF FoundInv
  <1>5. NoEmptyEntry'
    BY DEF NoEmptyEntry, Range
  <1> QED
    BY <1>1, <1>2, <1>4, <1>5

LEMMA PresentKnown == GroupsInv => present \subseteq Devices
  BY DEF GroupsInv, ListsInv, RestType

\* The counting loop.
LEMMA CountStep ==
    ASSUME GroupsInv, NEW i \in Drivers, CountGroups(i)
    PROVE  GroupsInv'
  <1> USE DEF GroupsInv
  <1>1. present \subseteq Devices
    BY PresentKnown
  <1>2. /\ call.at = "count" /\ i \in call.todo
        /\ call' = [call EXCEPT !.todo = @ \ {i}, !.total = @ + Cardinality(GroupsOf(i))]
        /\ UNCHANGED <<vars, environment, group, phys_dev_groups_term, found>>
    BY DEF CountGroups
  <1>3. /\ call \in CallTypes /\ call.todo \subseteq icd_terms /\ call.local = {}
        /\ linked \subseteq GroupDrivers /\ failing \subseteq Drivers
        /\ Cardinality(call.local) <= call.total
    BY <1>2 DEF CallInv
  <1>4. Cardinality(GroupsOf(i)) \in Nat /\ Cardinality(call.local) = 0
    BY <1>1, <1>3, GroupsOfFacts, GroupSetsFinite, FS_EmptySet
  <1>5. /\ call' \in CallTypes /\ call'.at = "count" /\ call'.todo = call.todo \ {i}
        /\ call'.total = call.total + Cardinality(GroupsOf(i)) /\ call'.local = call.local
        /\ call'.lost = call.lost /\ call'.total \in Nat /\ call.total \in Nat
    <2>1. PICK c \in Nat : c = Cardinality(GroupsOf(i))
      BY <1>4
    <2>2. call \in CallTypes /\ call.at = "count"
      BY <1>2, <1>3
    <2>3. call' = [call EXCEPT !.todo = call.todo \ {i}, !.total = call.total + c]
      BY <1>2, <2>1
    <2>4. call.total + c \in Nat /\ call.total \in Nat
      BY <2>2 DEF CallTypes
    <2>5. /\ call' \in CallTypes /\ call'.at = "count" /\ call'.todo = call.todo \ {i}
          /\ call'.total = call.total + c /\ call'.local = call.local /\ call'.lost = call.lost
      BY <2>2, <2>3, <2>4 DEF CallTypes
    <2> QED
      BY <2>1, <2>4, <2>5
  <1>6. UNCHANGED <<icd_terms, present, linked, failing>>
    BY <1>2 DEF vars, environment
  <1>7. CallInv'
    BY <1>3, <1>4, <1>5, <1>6 DEF CallInv
  <1>8. LocalInv'
    BY <1>3, <1>5 DEF LocalInv
  <1>9. CountInv'
    <2> SUFFICES ASSUME ~call.lost
                 PROVE  call'.total <= Cardinality(GroupsOfAll(icd_terms \ call.todo)')
      BY <1>5 DEF CountInv
    <2>1. call.total <= Cardinality(GroupsOfAll(icd_terms \ call.todo))
      BY <1>2 DEF CountInv
    <2>2. PICK S : S = icd_terms \ call.todo
      OBVIOUS
    <2>3. icd_terms' \ call'.todo = S \cup {i} /\ i \notin S
      BY <1>2, <1>3, <1>5, <1>6, <2>2
    <2>4. GroupsOfAll(icd_terms \ call.todo)' = GroupsOfAll(S \cup {i})
      BY <1>6, <2>3 DEF GroupsOfAll, GroupsOf
    <2>5. Cardinality(GroupsOfAll(S \cup {i})) = Cardinality(GroupsOfAll(S)) + Cardinality(GroupsOf(i))
      BY <1>1, <2>3, OneMoreDriver
    <2>6. Cardinality(GroupsOfAll(S)) \in Nat
      BY <1>1, GroupsOfAllFacts, GroupSetsFinite
    <2> QED
      BY <1>4, <1>5, <2>1, <2>2, <2>4, <2>5, <2>6
  <1> QED
    BY <1>1, <1>2, <1>5, <1>7, <1>8, <1>9, QuietStep DEF vars

\* A driver's second answer that fits.
AnswerFits(i) ==
    /\ call.at = "fill" /\ i \in call.todo
    /\ Cardinality(GroupsOf(i)) <= call.total - Cardinality(call.local)
    /\ call' = [call EXCEPT !.todo = @ \ {i}, !.local = @ \cup GroupsOf(i)]
    /\ UNCHANGED <<vars, environment, group, phys_dev_groups_term, found>>
LEMMA FillStep ==
    ASSUME GroupsInv, NEW i \in Drivers, AnswerFits(i)
    PROVE  GroupsInv'
  <1> USE DEF GroupsInv, AnswerFits
  <1>1. present \subseteq Devices
    BY PresentKnown
  <1>2. /\ call \in CallTypes /\ call.todo \subseteq icd_terms
        /\ linked \subseteq GroupDrivers /\ failing \subseteq Drivers
        /\ call.room # NoArray
    BY DEF CallInv
  <1>3. UNCHANGED <<icd_terms, present, linked, failing>>
    BY DEF vars, environment
  <1>4. PICK B : B = GroupsOf(i)
    OBVIOUS
  <1>5. /\ B \in SUBSET SUBSET Devices /\ {} \notin B
        /\ \A g \in B : \A d \in g : DriverOf[d] = i
        /\ \A g, h \in B : g # h => g \cap h = {}
    BY <1>1, <1>4, GroupsOfFacts
  <1>6. /\ call' \in CallTypes /\ call'.at = "fill" /\ call'.todo = call.todo \ {i}
        /\ call'.total = call.total /\ call'.local = call.local \cup B /\ call'.room = call.room
        /\ call'.lost = call.lost /\ call.total \in Nat /\ call.local \in SUBSET SUBSET Devices
    BY <1>2, <1>4, <1>5 DEF CallTypes
  <1>7. Cardinality(call'.local) <= call'.total
    <2>1. PICK A : A = call.local
      OBVIOUS
    <2>2. /\ IsFiniteSet(A) /\ Cardinality(A) \in Nat /\ IsFiniteSet(B) /\ Cardinality(B) \in Nat
          /\ Cardinality(A \cap B) \in Nat
      BY <1>5, <1>6, <2>1, GroupSetsFinite
    <2>3. Cardinality(A \cup B) = Cardinality(A) + Cardinality(B) - Cardinality(A \cap B)
      BY <2>2, FS_Union
    <2> QED
      BY <1>4, <1>6, <2>1, <2>2, <2>3
  <1>8. CallInv'
    BY <1>2, <1>3, <1>6, <1>7 DEF CallInv
  <1>9. LocalInv'
    <2>1. {} \notin call'.local
      BY <1>5, <1>6 DEF LocalInv
    <2>2. \A g \in call'.local : \E j \in icd_terms' \ call'.todo : \A d \in g : DriverOf[d] = j
      <3>1. i \in icd_terms' \ call'.todo
        BY <1>2, <1>3, <1>6
      <3>2. icd_terms \ call.todo \subseteq icd_terms' \ call'.todo
        BY <1>3, <1>6
      <3>3. \A g \in call.local : \E j \in icd_terms \ call.todo : \A d \in g : DriverOf[d] = j
        BY DEF LocalInv
      <3> QED
        BY <1>5, <1>6, <3>1, <3>2, <3>3
    <2>3. ASSUME NEW g \in call.local, NEW h \in B PROVE g \cap h = {}
      <3>1. PICK j \in icd_terms \ call.todo : \A d \in g : DriverOf[d] = j
        BY DEF LocalInv
      <3> QED
        BY <1>5, <3>1
    <2>4. \A g, h \in call'.local : g # h => g \cap h = {}
      <3>1. \A g, h \in call.local : g # h => g \cap h = {}
        BY DEF LocalInv
      <3> QED
        BY <1>5, <1>6, <2>3, <3>1
    <2> QED
      BY <2>1, <2>2, <2>4 DEF LocalInv
  <1>10. CountInv'
    <2>1. GroupsOfAll(call.todo)' \cup B = GroupsOfAll(call.todo)
      <3>1. GroupsOfAll(call.todo)' = UNION {GroupsOf(j) : j \in call.todo \ {i}}
        BY <1>3, <1>6 DEF GroupsOfAll, GroupsOf
      <3> QED
        BY <1>4, <3>1 DEF GroupsOfAll
    <2>2. call'.local \cup GroupsOfAll(call.todo)' = call.local \cup GroupsOfAll(call.todo)
      BY <1>6, <2>1
    <2> QED
      BY <1>6, <2>2 DEF CountInv
  <1> QED
    BY <1>1, <1>6, <1>8, <1>9, <1>10, QuietStep DEF vars

LEMMA FillGroupsStep ==
    ASSUME GroupsInv, NEW i \in Drivers, FillGroups(i)
    PROVE  GroupsInv'
  <1>1. call.at = "fill" /\ call.room # NoArray
    BY DEF FillGroups, GroupsInv, CallInv
  <1>2. UNCHANGED <<present, icd_terms, termVars, out, held, environment>>
    BY DEF FillGroups
  <1>3. ASSUME NEW cause \in {Incomplete, InitFailed}, GiveUp(cause)
        PROVE  GroupsInv'
    <2>1. cause \in Results \ {Success}
      BY DEF Results, Success, Incomplete, InitFailed
    <2>2. CopyOut(cause, phys_dev_groups_term, group') /\ UNCHANGED <<group, phys_dev_groups_term>>
      BY <1>3 DEF GiveUp
    <2> QED
      BY <1>1, <1>2, <2>1, <2>2, ErrorEnds
  <1>4. CASE /\ Cardinality(GroupsOf(i)) <= call.total - Cardinality(call.local)
             /\ call' = [call EXCEPT !.todo = @ \ {i}, !.local = @ \cup GroupsOf(i)]
             /\ UNCHANGED <<trampVars, total_gpu_count, group, phys_dev_groups_term, found>>
    <2>1. i \in call.todo
      BY DEF FillGroups
    <2>2. UNCHANGED <<vars, environment, group, phys_dev_groups_term, found>>
      BY <1>2, <1>4 DEF vars
    <2>3. AnswerFits(i)
      BY <1>1, <1>4, <2>1, <2>2 DEF AnswerFits
    <2> QED
      BY <2>3, FillStep
  <1>5. \/ /\ Cardinality(GroupsOf(i)) <= call.total - Cardinality(call.local)
           /\ call' = [call EXCEPT !.todo = @ \ {i}, !.local = @ \cup GroupsOf(i)]
           /\ UNCHANGED <<trampVars, total_gpu_count, group, phys_dev_groups_term, found>>
        \/ GiveUp(Incomplete) \/ GiveUp(InitFailed)
    BY DEF FillGroups
  <1> QED
    BY <1>3, <1>4, <1>5


-----------------------------------------------------------------------------
(* The new array                                                           *)

LEMMA TermOfFacts ==
    ASSUME TermInv, NEW d, Known(d)
    PROVE  TermOf(d) \in DOMAIN term /\ TermOf(d) \in TermAddr /\ term[TermOf(d)] = d
  <1>1. PICK i \in DOMAIN phys_devs_term : term[phys_devs_term[i]] = d
    BY DEF Known
  <1>2. PICK j \in DOMAIN phys_devs_term : TermOf(d) = phys_devs_term[j] /\ term[phys_devs_term[j]] = d
    BY <1>1 DEF TermOf
  <1>3. phys_devs_term[j] \in Range(phys_devs_term) /\ phys_devs_term[j] \in TermAddr
    BY DEF TermInv, IsArrayOf, Range
  <1> QED
    BY <1>2, <1>3 DEF TermInv

\* A set of devices that have terminator objects is determined by these.
LEMMA TermsOfFacts ==
    ASSUME TermInv, NEW g \in SUBSET Devices, \A d \in g : Known(d)
    PROVE  /\ TermsOf(g) \in SUBSET TermAddr
           /\ IsFiniteSet(TermsOf(g)) /\ Cardinality(TermsOf(g)) <= Cardinality(Devices)
           /\ g = {d \in Devices : TermOf(d) \in TermsOf(g) /\ Known(d)}
  <1>1. TermsOf(g) \in SUBSET TermAddr
    BY TermOfFacts DEF TermsOf
  <1>2. IsFiniteSet(TermsOf(g)) /\ Cardinality(TermsOf(g)) <= Cardinality(Devices)
    <2>1. IsFiniteSet(g) /\ Cardinality(g) \in Nat /\ Cardinality(g) <= Cardinality(Devices)
      BY DevicesFinite, FS_Subset, FS_CardinalityType
    <2>2. PICK f : f = [d \in g |-> TermOf(d)]
      BY Zenon
    <2>3. PICK T : T = TermsOf(g)
      OBVIOUS
    <2>4. f \in Surjection(g, T)
      BY <2>2, <2>3 DEF Surjection, TermsOf
    <2>5. IsFiniteSet(T) /\ Cardinality(T) <= Cardinality(g)
      BY <2>1, <2>4, FS_Surjection
    <2>6. Cardinality(T) \in Nat /\ Cardinality(Devices) \in Nat
      BY <2>5, DevicesFinite, FS_CardinalityType
    <2> QED
      BY <2>1, <2>3, <2>5, <2>6
  <1>3. ASSUME NEW d \in Devices, TermOf(d) \in TermsOf(g), Known(d)
        PROVE  d \in g
    <2>1. PICK e \in g : TermOf(d) = TermOf(e)
      BY <1>3 DEF TermsOf
    <2> QED
      BY <1>3, <2>1, TermOfFacts
  <1>4. \A d \in g : TermOf(d) \in TermsOf(g)
    BY DEF TermsOf
  <1> QED
    BY <1>1, <1>2, <1>3, <1>4

\* The array, the new objects and the heap that MatchGroups makes; at[g] is where it puts g.
MakesArray(order, addr, at, new, objs, heap) ==
    /\ order \in Orderings(call.local)
    /\ addr \in Injection({g \in call.local : OldGroup(g) = {}}, GroupAddr \ DOMAIN group)
    /\ at = [g \in call.local |->
               IF g \in DOMAIN addr THEN addr[g] ELSE CHOOSE a \in OldGroup(g) : TRUE]
    /\ new = [i \in 1..call.total |-> IF i \in DOMAIN order THEN at[order[i]] ELSE Null]
    /\ objs = [a \in Range(addr) |-> TermsOf(AntiFunction(addr)[a])]
    /\ heap = Free(Alloc(group, objs), StaleGroups(Range(new)))

\* The array's entries are distinct groups with the terminator objects of the groups found,
\* and the heap holds exactly these.
IsNewArray(new, heap) ==
    /\ new \in [1..call.total -> GroupAddr \cup {Null}]
    /\ \A i, j \in 1..call.total : new[i] = new[j] /\ i # j => new[i] = Null
    /\ heap \in [Range(new) \ {Null} -> SUBSET TermAddr]
    /\ \A i \in 1..call.total : new[i] # Null =>
         \E g \in call.local : heap[new[i]] = TermsOf(g)
    /\ call.total <= Cardinality(call.local) => \A i \in 1..call.total : new[i] # Null

LEMMA NewArray ==
    ASSUME TermInv, CallInv, ArrayInv,
           \A g \in call.local : \A d \in g : Known(d),
           NEW order, NEW addr, NEW at, NEW new, NEW objs, NEW heap,
           MakesArray(order, addr, at, new, objs, heap)
    PROVE  IsNewArray(new, heap)
  <1>1. PICK L : L = call.local
    OBVIOUS
  <1>2. PICK N \in Nat : N = call.total
    BY DEF CallInv, CallTypes
  <1>3. /\ L \in SUBSET SUBSET Devices /\ \A g \in L : \A d \in g : Known(d)
        /\ Cardinality(L) \in Nat /\ Cardinality(L) <= N
    BY <1>1, <1>2, GroupSetsFinite DEF CallInv, CallTypes
  <1>4. /\ order \in [1..Cardinality(L) -> L]
        /\ \A i, j \in 1..Cardinality(L) : order[i] = order[j] => i = j
        /\ \A g \in L : \E i \in 1..Cardinality(L) : order[i] = g
    <2>1. order \in Orderings(L)
      BY <1>1 DEF MakesArray
    <2> QED
      BY <2>1, OrderingFacts
  <1>5. /\ DOMAIN group = OldGroups /\ OldGroups \subseteq GroupAddr
        /\ \A a \in OldGroups : group[a] \subseteq TermAddr
        /\ Null \notin OldGroups /\ Null \notin GroupAddr
    <2>1. OldGroups \subseteq GroupAddr
      BY DEF ArrayInv, OldGroups, Range
    <2> QED
      BY <2>1, NullIsNoAddress DEF ArrayInv, OldGroups
  <1>6. /\ DOMAIN addr = {g \in L : OldGroup(g) = {}}
        /\ \A g \in DOMAIN addr : addr[g] \in GroupAddr \ OldGroups /\ addr[g] \in Range(addr)
        /\ \A a \in Range(addr) : AntiFunction(addr)[a] \in DOMAIN addr
        /\ \A g \in DOMAIN addr : AntiFunction(addr)[addr[g]] = g
        /\ Range(addr) \subseteq GroupAddr \ OldGroups
        /\ \A a \in Range(addr) : \E g \in DOMAIN addr : a = addr[g]
    <2>1. addr \in [{g \in L : OldGroup(g) = {}} -> GroupAddr \ OldGroups]
      BY <1>1, <1>5 DEF Injection, MakesArray
    <2>2. PICK S, T : S = {g \in L : OldGroup(g) = {}} /\ T = GroupAddr \ OldGroups
      OBVIOUS
    <2>3. addr \in Injection(S, T) /\ DOMAIN addr = S
      BY <1>1, <1>5, <2>1, <2>2 DEF MakesArray
    <2>4. /\ Range(addr) \subseteq T
          /\ \A a \in Range(addr) : AntiFunction(addr)[a] \in S /\ addr[AntiFunction(addr)[a]] = a
          /\ \A s \in S : addr[s] \in Range(addr) /\ AntiFunction(addr)[addr[s]] = s
      BY <2>3, AntiFunctionFacts
    <2>5. \A g \in DOMAIN addr : addr[g] \in GroupAddr \ OldGroups
      BY <2>2, <2>3, <2>4
    <2> QED
      BY <2>2, <2>3, <2>4, <2>5
  <1>7. \A g \in L : \/ g \in DOMAIN addr /\ at[g] = addr[g]
                     \/ g \notin DOMAIN addr /\ at[g] \in OldGroups /\ group[at[g]] = TermsOf(g)
    <2> TAKE g \in L
    <2>1. CASE g \in DOMAIN addr
      BY <1>1, <2>1 DEF MakesArray
    <2>2. CASE g \notin DOMAIN addr
      <3>1. OldGroup(g) # {}
        BY <1>6, <2>2
      <3>2. at[g] \in OldGroup(g)
        BY <1>1, <2>2, <3>1 DEF MakesArray
      <3> QED
        BY <2>2, <3>2 DEF OldGroup
    <2> QED
      BY <2>1, <2>2
  <1>8. \A g \in L : at[g] \in GroupAddr /\ at[g] # Null
    BY <1>5, <1>6, <1>7
  <1>9. /\ DOMAIN new = 1..N
        /\ \A i \in 1..N : \/ i \in 1..Cardinality(L) /\ new[i] = at[order[i]] /\ order[i] \in L
                           \/ i \notin 1..Cardinality(L) /\ new[i] = Null
    BY <1>2, <1>4 DEF MakesArray
  <1>10. \A g \in L : \E i \in 1..N : new[i] = at[g]
    <2> TAKE g \in L
    <2>1. PICK i \in 1..Cardinality(L) : order[i] = g
      BY <1>4
    <2>2. i \in 1..N
      BY <1>2, <1>3
    <2> QED
      BY <1>9, <2>1, <2>2
  <1>11. Range(new) \ {Null} = {at[g] : g \in L}
    <2>1. \A x \in Range(new) : \E i \in 1..N : x = new[i]
      BY <1>9 DEF Range
    <2>2. \A i \in 1..N : new[i] \in Range(new)
      BY <1>9 DEF Range
    <2>3. \A x \in Range(new) : x # Null => \E g \in L : x = at[g]
      BY <1>9, <2>1
    <2>4. \A g \in L : at[g] \in Range(new) /\ at[g] # Null
      BY <1>8, <1>10, <2>2
    <2> QED
      BY <2>3, <2>4
  <1>12. PICK R : R = Range(new) \ {Null}
    OBVIOUS
  <1>13. DOMAIN objs = Range(addr) /\ \A g \in DOMAIN addr : objs[addr[g]] = TermsOf(g)
    BY <1>6 DEF MakesArray
  <1>14. /\ heap = [a \in R |-> IF a \in DOMAIN objs THEN objs[a] ELSE group[a]]
         /\ DOMAIN heap = R
    <2>1. OldGroups \ Range(new) = OldGroups \ R
      BY <1>5, <1>12
    <2>2. heap = Free(Alloc(group, objs), OldGroups \ R)
      BY <2>1 DEF StaleGroups, MakesArray
    <2>3. DOMAIN objs \cap OldGroups = {}
      BY <1>6, <1>13
    <2>4. DOMAIN objs \subseteq R
      <3>1. \A a \in DOMAIN objs : \E g \in L : g \in DOMAIN addr /\ a = addr[g]
        BY <1>6, <1>13
      <3>2. \A g \in L : g \in DOMAIN addr => addr[g] = at[g]
        BY <1>7
      <3> QED
        BY <1>11, <1>12, <3>1, <3>2
    <2>5. R \subseteq OldGroups \cup DOMAIN objs
      BY <1>6, <1>7, <1>11, <1>12, <1>13
    <2>6. PICK old, h : old = OldGroups /\ h = group
      OBVIOUS
    <2>7. /\ DOMAIN h = old /\ DOMAIN objs \cap old = {} /\ DOMAIN objs \subseteq R
          /\ R \subseteq old \cup DOMAIN objs
      BY <1>5, <2>3, <2>4, <2>5, <2>6
    <2>8. LET f == Free(Alloc(h, objs), old \ R) IN
            /\ f = [a \in R |-> IF a \in DOMAIN objs THEN objs[a] ELSE h[a]]
            /\ DOMAIN f = R
      BY <2>7, SwapArray
    <2> QED
      BY <2>2, <2>6, <2>8
  <1>15. \A g \in L : heap[at[g]] = TermsOf(g)
    <2> TAKE g \in L
    <2>1. at[g] \in R
      BY <1>11, <1>12
    <2>2. CASE g \in DOMAIN addr /\ at[g] = addr[g]
      BY <1>6, <1>13, <1>14, <2>1, <2>2
    <2>3. CASE at[g] \in OldGroups /\ group[at[g]] = TermsOf(g)
      <3>1. at[g] \notin DOMAIN objs
        BY <1>6, <1>13, <2>3
      <3> QED
        BY <1>14, <2>1, <2>3, <3>1
    <2> QED
      BY <1>7, <2>2, <2>3
  <1>16. ASSUME NEW g \in L, NEW h \in L, at[g] = at[h] PROVE g = h
    <2>1. TermsOf(g) = TermsOf(h)
      BY <1>15, <1>16
    <2>2. /\ g = {d \in Devices : TermOf(d) \in TermsOf(g) /\ Known(d)}
          /\ h = {d \in Devices : TermOf(d) \in TermsOf(h) /\ Known(d)}
      BY <1>3, TermsOfFacts
    <2> QED
      BY <2>1, <2>2
  <1>17. new \in [1..N -> GroupAddr \cup {Null}]
    <2>1. \A i \in 1..N : new[i] \in GroupAddr \cup {Null}
      BY <1>8, <1>9
    <2>2. new = [i \in 1..N |-> new[i]]
      BY <1>2 DEF MakesArray
    <2> QED
      BY <2>1, <2>2
  <1>18. \A i, j \in 1..N : new[i] = new[j] /\ i # j => new[i] = Null
    <2> SUFFICES ASSUME NEW i \in 1..N, NEW j \in 1..N, new[i] = new[j], i # j, new[i] # Null
                 PROVE  FALSE
      OBVIOUS
    <2>1. /\ i \in 1..Cardinality(L) /\ new[i] = at[order[i]] /\ order[i] \in L
          /\ j \in 1..Cardinality(L) /\ new[j] = at[order[j]] /\ order[j] \in L
      BY <1>9
    <2>2. order[i] = order[j]
      BY <1>16, <2>1
    <2> QED
      BY <1>4, <2>1, <2>2
  <1>19. heap \in [R -> SUBSET TermAddr]
    <2>1. \A a \in R : heap[a] \in SUBSET TermAddr
      <3> TAKE a \in R
      <3>1. PICK g \in L : a = at[g]
        BY <1>11, <1>12
      <3> QED
        BY <1>3, <1>15, <3>1, TermsOfFacts
    <2>2. heap = [a \in R |-> heap[a]]
      BY <1>14
    <2> QED
      BY <2>1, <2>2
  <1>20. \A i \in 1..N : new[i] # Null => \E g \in L : heap[new[i]] = TermsOf(g)
    BY <1>9, <1>15
  <1>21. N <= Cardinality(L) => \A i \in 1..N : new[i] # Null
    BY <1>3, <1>8, <1>9
  <1> QED
    BY <1>1, <1>2, <1>12, <1>17, <1>18, <1>19, <1>20, <1>21 DEF IsNewArray


\* The groups of handles that a call returns with the new array: each leads to the devices
\* of one of the groups found.
LEMMA HandlesOfGroups ==
    ASSUME TermInv, LocalInv, call.local \in SUBSET SUBSET Devices,
           \A g \in call.local : \A d \in g : Known(d),
           UNCHANGED <<icd_terms, term>>,
           \A G \in found'.groups : \E g \in call.local :
               G = {w \in DOMAIN tramp' : tramp'[w] \in TermsOf(g)}
    PROVE  GroupsResolve'
  <1>1. ASSUME NEW G \in found'.groups
        PROVE  \E i \in icd_terms' : \A w \in G : \E d \in Devices :
                  Resolves(d, w)' /\ DriverOf[d] = i
    <2>1. PICK g \in call.local : G = {w \in DOMAIN tramp' : tramp'[w] \in TermsOf(g)}
      OBVIOUS
    <2>2. PICK i \in icd_terms : \A d \in g : DriverOf[d] = i
      BY DEF LocalInv
    <2>3. ASSUME NEW w \in G
          PROVE  \E d \in Devices : Resolves(d, w)' /\ DriverOf[d] = i
      <3>1. PICK d \in g : tramp'[w] = TermOf(d)
        BY <2>1 DEF TermsOf
      <3>2. TermOf(d) \in DOMAIN term /\ term[TermOf(d)] = d
        BY TermOfFacts
      <3>3. Resolves(d, w)'
        BY <2>1, <3>1, <3>2 DEF Resolves
      <3> QED
        BY <2>2, <3>3
    <2> QED
      BY <2>3
  <1>2. ASSUME NEW G \in found'.groups, NEW H \in found'.groups, NEW w \in G \cap H
        PROVE  G = H
    <2>1. PICK g \in call.local : G = {v \in DOMAIN tramp' : tramp'[v] \in TermsOf(g)}
      OBVIOUS
    <2>2. PICK h \in call.local : H = {v \in DOMAIN tramp' : tramp'[v] \in TermsOf(h)}
      OBVIOUS
    <2>3. PICK d \in g : tramp'[w] = TermOf(d)
      BY <2>1 DEF TermsOf
    <2>4. PICK e \in h : tramp'[w] = TermOf(e)
      BY <2>2 DEF TermsOf
    <2>5. d = e
      <3>1. term[TermOf(d)] = d /\ term[TermOf(e)] = e
        BY TermOfFacts
      <3> QED
        BY <2>3, <2>4, <3>1
    <2>6. g = h
      BY <2>5 DEF LocalInv
    <2> QED
      BY <2>1, <2>2, <2>6
  <1>3. \A G, H \in found'.groups : G # H => G \cap H = {}
    BY <1>2
  <1> QED
    BY <1>1, <1>3 DEF GroupsResolve

\* The new array is swapped in.
LEMMA MatchStep ==
    ASSUME GroupsInv, MatchGroups
    PROVE  GroupsInv'
  <1> USE DEF GroupsInv
  <1>1. /\ call.at = "fill" /\ call.todo = {} /\ call.room # NoArray
        /\ \A g \in call.local : \A d \in g : Known(d)
        /\ UNCHANGED <<present, icd_terms, termVars, out, held, environment>>
    BY DEF MatchGroups, CallInv
  <1>2. /\ TermInv /\ TrampInv /\ total_gpu_count \in 0..Cardinality(Devices)
        /\ call \in CallTypes /\ call.total \in Nat /\ call.local \in SUBSET SUBSET Devices
        /\ present' \subseteq Devices
    BY <1>1 DEF ListsInv, RestType, CallInv, CallTypes
  <1>3. PICK order, addr, at, new, objs, heap :
            /\ MakesArray(order, addr, at, new, objs, heap)
            /\ group' = heap /\ phys_dev_groups_term' = new
            /\ CopyOut(Success, new, heap)
    <2>1. PICK order \in Orderings(call.local),
               addr \in Injection({g \in call.local : OldGroup(g) = {}}, GroupAddr \ DOMAIN group) :
            LET at(g) == IF g \in DOMAIN addr THEN addr[g] ELSE CHOOSE a \in OldGroup(g) : TRUE
                new == [i \in 1..call.total |-> IF i \in DOMAIN order THEN at(order[i]) ELSE Null]
                objs == [a \in Range(addr) |-> TermsOf(AntiFunction(addr)[a])]
                heap == Free(Alloc(group, objs), StaleGroups(Range(new)))
            IN  /\ group' = heap
                /\ phys_dev_groups_term' = new
                /\ CopyOut(Success, new, heap)
      BY Zenon DEF MatchGroups
    <2> DEFINE at(g) == IF g \in DOMAIN addr THEN addr[g] ELSE CHOOSE a \in OldGroup(g) : TRUE
               atf == [g \in call.local |-> at(g)]
               new == [i \in 1..call.total |-> IF i \in DOMAIN order THEN at(order[i]) ELSE Null]
               objs == [a \in Range(addr) |-> TermsOf(AntiFunction(addr)[a])]
               heap == Free(Alloc(group, objs), StaleGroups(Range(new)))
    <2>2. group' = heap /\ phys_dev_groups_term' = new /\ CopyOut(Success, new, heap)
      BY <2>1, Zenon
    <2>3. new = [i \in 1..call.total |-> IF i \in DOMAIN order THEN atf[order[i]] ELSE Null]
      <3>1. \A i \in DOMAIN order : order[i] \in call.local
        BY DEF Orderings, Bijection, Injection
      <3> HIDE DEF at
      <3> QED
        BY <3>1
    <2>4. MakesArray(order, addr, atf, new, objs, heap)
      <3>1. atf = [g \in call.local |->
               IF g \in DOMAIN addr THEN addr[g] ELSE CHOOSE a \in OldGroup(g) : TRUE]
        BY Zenon
      <3> HIDE DEF atf, new
      <3> QED
        BY <2>3, <3>1, Zenon DEF MakesArray
    <2> HIDE DEF atf, new, objs, heap
    <2> QED
      BY <2>2, <2>4, Zenon
  <1>4. IsNewArray(new, heap)
    BY <1>1, <1>2, <1>3, NewArray
  <1>5. /\ new \in [1..call.total -> GroupAddr \cup {Null}]
        /\ \A i, j \in 1..call.total : new[i] = new[j] /\ i # j => new[i] = Null
        /\ heap \in [Range(new) \ {Null} -> SUBSET TermAddr]
        /\ \A i \in 1..call.total : new[i] # Null =>
             \E g \in call.local : heap[new[i]] = TermsOf(g)
        /\ call.total <= Cardinality(call.local) => \A i \in 1..call.total : new[i] # Null
    BY <1>4 DEF IsNewArray
  <1>6. PICK N \in Nat : N = call.total
    BY <1>2
  <1>7. PICK T : T = TermsOf(UNION call.local)
    OBVIOUS
  <1>8. /\ T \in SUBSET TermAddr /\ IsFiniteSet(T) /\ Cardinality(T) <= Cardinality(Devices)
        /\ \A g \in call.local : TermsOf(g) \subseteq T
    <2>1. UNION call.local \in SUBSET Devices /\ \A d \in UNION call.local : Known(d)
      BY <1>1, <1>2
    <2>2. T \in SUBSET TermAddr /\ IsFiniteSet(T) /\ Cardinality(T) <= Cardinality(Devices)
      BY <1>2, <1>7, <2>1, TermsOfFacts
    <2>3. \A g \in call.local : TermsOf(g) \subseteq T
      BY <1>7 DEF TermsOf
    <2> QED
      BY <2>2, <2>3
  <1>9. Fits(N, new, heap, T)
    BY <1>5, <1>6, <1>8 DEF Fits
  <1>10. Success \in Results
    BY DEF Results
  <1>11. /\ TrampInv' /\ total_gpu_count' \in 0..Cardinality(Devices)
         /\ Crashes(N, new) \/ Returns(Success, N, new, heap)
    BY <1>1, <1>2, <1>3, <1>9, <1>10, CopyOutStep
  <1>12. ListsInv'
    BY <1>1, <1>2, <1>11, ListsKept
  <1>13. CallInv' /\ LocalInv' /\ CountInv' /\ call'.lost = call.lost
    BY <1>1, <1>11, EndOfCall DEF Crashes, Returns
  <1>14. ArrayInv'
    <2>1. OldGroups' = Range(new) \ {Null}
      BY <1>3 DEF OldGroups
    <2>2. InGroups' \subseteq T
      <3>1. InGroups' = UNION {heap[a] : a \in Range(new) \ {Null}}
        BY <1>3, <2>1 DEF InGroups
      <3>2. \A a \in Range(new) \ {Null} : \E i \in 1..N : a = new[i]
        BY <1>5, <1>6 DEF Range
      <3>3. \A a \in Range(new) \ {Null} : heap[a] \subseteq T
        BY <1>9, <3>2 DEF Fits
      <3> QED
        BY <3>1, <3>3
    <2>3. IsFiniteSet(InGroups') /\ Cardinality(InGroups') <= Cardinality(Devices)
      <3>1. PICK U : U = InGroups'
        OBVIOUS
      <3>2. U \in SUBSET T
        BY <2>2, <3>1
      <3>3. IsFiniteSet(U) /\ Cardinality(U) <= Cardinality(T)
        BY <1>8, <3>2, FS_Subset
      <3>4. Cardinality(U) \in Nat /\ Cardinality(T) \in Nat /\ Cardinality(Devices) \in Nat
        BY <1>8, <3>3, DevicesFinite, FS_CardinalityType
      <3> QED
        BY <1>8, <3>1, <3>3, <3>4
    <2>4. group' \in [OldGroups' -> SUBSET TermAddr]
      BY <1>3, <1>5, <2>1
    <2>5. DOMAIN phys_dev_groups_term' = 1..N
      BY <1>3, <1>5, <1>6
    <2> QED
      BY <1>3, <1>5, <1>6, <2>3, <2>4, <2>5 DEF ArrayInv
  \* Without a loss every place that was counted is filled.
  <1>15. ~call.lost => \A i \in 1..N : new[i] # Null
    <2> SUFFICES ASSUME ~call.lost PROVE \A i \in 1..N : new[i] # Null
      OBVIOUS
    <2>1. call.total <= Cardinality(call.local \cup GroupsOfAll(call.todo))
      BY <1>1 DEF CountInv
    <2>2. call.local \cup GroupsOfAll(call.todo) = call.local
      BY <1>1 DEF GroupsOfAll
    <2> QED
      BY <1>5, <1>6, <2>1, <2>2
  <1>16. NoEmptyEntry'
    <2>1. Null \in Range(new) => \E i \in 1..N : new[i] = Null
      BY <1>5, <1>6 DEF Range
    <2>2. call'.at = "crashed" => \E i \in 1..N : new[i] = Null
      <3>1. CASE Crashes(N, new)
        BY <3>1 DEF Crashes
      <3>2. CASE Returns(Success, N, new, heap)
        BY <1>2, <3>2, IdleFacts DEF Returns
      <3> QED
        BY <1>11, <3>1, <3>2
    <2> QED
      BY <1>3, <1>13, <1>15, <2>1, <2>2 DEF NoEmptyEntry
  <1>17. FoundInv'
    <2>1. CASE Crashes(N, new)
      BY <1>1, <2>1 DEF Crashes, FoundInv, GroupsResolve
    <2>2. CASE Returns(Success, N, new, heap)
      <3>1. call'.at = "idle" /\ found' \in FoundTypes
        BY <1>2, <2>2, IdleFacts DEF Returns
      <3>2. \A G \in found'.groups : \E g \in call.local :
               G = {w \in DOMAIN tramp' : tramp'[w] \in TermsOf(g)}
        <4> SUFFICES ASSUME NEW G \in found'.groups
                     PROVE  \E g \in call.local : G = {w \in DOMAIN tramp' : tramp'[w] \in TermsOf(g)}
          OBVIOUS
        <4>1. PICK i \in 1..N : /\ new[i] # Null
                                /\ G = {w \in DOMAIN tramp' : tramp'[w] \in heap[new[i]]}
          BY <2>2 DEF Returns
        <4>2. PICK g \in call.local : heap[new[i]] = TermsOf(g)
          BY <1>5, <1>6, <4>1
        <4> QED
          BY <4>1, <4>2
      <3>3. GroupsResolve'
        BY <1>1, <1>2, <3>2, HandlesOfGroups DEF termVars
      <3> QED
        BY <3>1, <3>3 DEF FoundInv
    <2> QED
      BY <1>11, <2>1, <2>2
  <1> QED
    BY <1>12, <1>13, <1>14, <1>16, <1>17


\* The error paths: a device without a terminator object, or a group that cannot be
\* allocated; the heap is as it was.
LEMMA MatchErrorStep ==
    ASSUME GroupsInv, MatchUnknown \/ MatchFails
    PROVE  GroupsInv'
  <1> USE DEF GroupsInv
  <1>1. /\ call.at = "fill" /\ call.room # NoArray
        /\ UNCHANGED <<present, icd_terms, termVars, out, held, environment, phys_dev_groups_term>>
    BY DEF MatchUnknown, MatchFails, CallInv, GiveUp
  <1>2. InitFailed \in Results \ {Success} /\ OutOfMemory \in Results \ {Success}
    BY DEF Results, Success, InitFailed, OutOfMemory
  <1>3. CASE MatchUnknown
    <2>1. CopyOut(InitFailed, phys_dev_groups_term, group') /\ group' = group
      BY <1>3 DEF MatchUnknown, GiveUp
    <2> QED
      BY <1>1, <1>2, <2>1, ErrorEnds
  <1>4. CASE MatchFails
    <2>1. PICK copied \in SUBSET UNION {OldGroup(g) : g \in call.local},
               fresh \in SUBSET (GroupAddr \ DOMAIN group) :
             /\ group' = Free(Alloc(group, [a \in fresh |-> {}]), GroupCleanup(copied, fresh))
             /\ CopyOut(OutOfMemory, phys_dev_groups_term,
                        Free(Alloc(group, [a \in fresh |-> {}]), GroupCleanup(copied, fresh)))
      BY <1>4 DEF MatchFails
    <2>2. CopyOut(OutOfMemory, phys_dev_groups_term, group')
      BY <2>1
    <2>3. copied \subseteq OldGroups
      BY DEF OldGroup
    <2>4. PICK h, A, objs : h = group /\ A = OldGroups /\ objs = [a \in fresh |-> {}]
      OBVIOUS
    <2>5. /\ h \in [A -> SUBSET TermAddr] /\ DOMAIN objs = fresh /\ DOMAIN objs \cap A = {}
          /\ copied \subseteq A
      BY <2>3, <2>4 DEF ArrayInv
    <2>6. Free(Alloc(h, objs), (copied \cup DOMAIN objs) \ A) = h
      BY <2>5, RollBack
    <2>7. group' = group
      BY <2>1, <2>4, <2>5, <2>6 DEF GroupCleanup
    <2> QED
      BY <1>1, <1>2, <2>2, <2>7, ErrorEnds
  <1> QED
    BY <1>3, <1>4

-----------------------------------------------------------------------------
(* The other steps                                                         *)

\* A call begins.
LEMMA BeginStep ==
    ASSUME GroupsInv, NEW room \in Rooms \cup {NoArray}, EnumerateGroups(room)
    PROVE  GroupsInv'
  <1> USE DEF GroupsInv
  <1>1. /\ call.at = "idle" /\ found' = NoGroups(Success) /\ failing' \in FailedDrivers
        /\ call' = [Stage("count", room, call.lost) EXCEPT !.todo = icd_terms]
        /\ UNCHANGED <<vars, linked, group, phys_dev_groups_term>>
    BY DEF EnumerateGroups
  <1>2. /\ call \in CallTypes /\ linked \subseteq GroupDrivers
        /\ icd_terms \subseteq Drivers /\ present \subseteq Devices
    BY DEF CallInv, ListsInv, RestType
  <1>3. call.lost \in BOOLEAN /\ Success \in Results
    BY <1>2 DEF CallTypes, Results
  <1>4. /\ call' \in CallTypes /\ call'.at = "count" /\ call'.todo = icd_terms
        /\ call'.total = 0 /\ call'.local = {} /\ call'.lost = call.lost
    BY <1>1, <1>2, <1>3 DEF CallTypes, Stage
  <1>5. UNCHANGED <<icd_terms, present, linked>> /\ failing' \subseteq Drivers
    BY <1>1, <1>2 DEF vars, FailedDrivers
  <1>6. CallInv'
    BY <1>2, <1>4, <1>5, FS_EmptySet DEF CallInv
  <1>7. LocalInv'
    BY <1>4 DEF LocalInv
  <1>8. CountInv'
    <2>1. Cardinality(GroupsOfAll(icd_terms \ call.todo)') = 0
      <3>1. GroupsOfAll(icd_terms \ call.todo)' = {}
        BY <1>4, <1>5 DEF GroupsOfAll
      <3> QED
        BY <3>1, FS_EmptySet
    <2> QED
      BY <1>4, <2>1 DEF CountInv
  <1>9. ListsInv'
    BY <1>1, <1>2, ListsSame DEF vars
  <1>10. ArrayInv'
    BY <1>1, ArrayKept
  <1>11. FoundInv'
    BY <1>1, <1>3 DEF FoundInv, FoundTypes, NoGroups, GroupsResolve
  <1>12. NoEmptyEntry'
    BY <1>1, <1>4 DEF NoEmptyEntry, Range
  <1> QED
    BY <1>6, <1>7, <1>8, <1>9, <1>10, <1>11, <1>12

\* Between the loops the terminator list may be made anew.
LEMMA SetupStep ==
    ASSUME GroupsInv, GroupsSetup
    PROVE  GroupsInv'
  <1> USE DEF GroupsInv
  <1>1. /\ call.at = "count" /\ call.todo = {}
        /\ UNCHANGED <<present, icd_terms, trampVars, out, environment>>
        /\ UNCHANGED <<group, phys_dev_groups_term, found>>
    BY DEF GroupsSetup, Counted
  <1>2. TermInv /\ TrampInv /\ RestType /\ TypeOK
    BY TypesSplit DEF ListsInv
  <1>3. TrampInv'
    BY <1>1, <1>2 DEF TrampInv, trampVars, IsArrayOf, IsInjective, Range
  <1>4. Cardinality(Devices) \in Nat
    BY DevicesFinite, FS_CardinalityType
  <1>5. /\ \/ call' = [call EXCEPT !.at = "ready"]
           \/ \E res \in {OutOfMemory, InitFailed} :
                 call' = [call EXCEPT !.at = "ready", !.cause = res]
        /\ ListsInv'
    <2>1. ASSUME NEW failed \in FailedDrivers, SetupTermPhysDevs(failed),
                 total_gpu_count' = Cardinality(DOMAIN phys_devs_term'),
                 held' = StillHeld(Reported(failed))
          PROVE  ListsInv'
      <3>1. /\ physical_device_count' \in [Drivers -> Nat]
            /\ phys_devs_term' \in [1..Cardinality(Reported(failed)) -> TermAddr]
        BY <1>2, <2>1, SetupTermStep
      <3>2. Cardinality(Reported(failed)) \in 0..Cardinality(Devices)
        BY <1>2, ReportedFacts
      <3>3. total_gpu_count' \in 0..Cardinality(Devices)
        <4>1. Cardinality(Reported(failed)) \in Nat
          BY <1>4, <3>2
        <4>2. Cardinality(1..Cardinality(Reported(failed))) = Cardinality(Reported(failed))
          BY <4>1, FS_Interval
        <4> QED
          BY <2>1, <3>1, <3>2, <4>2
      <3>4. TermInv'
        BY <1>1, <1>2, <2>1, TermInvNext
      <3>5. held' \subseteq Devices \X TrampAddr
        BY <1>2, <2>1 DEF StillHeld, RestType
      <3>6. RestType'
        BY <1>1, <1>2, <3>1, <3>3, <3>5 DEF RestType, IsArrayOf
      <3> QED
        BY <1>3, <3>4, <3>6 DEF ListsInv
    <2>2. ASSUME NEW res, SetupTermPhysDevsFails(res), UNCHANGED held
          PROVE  ListsInv'
      <3>1. /\ physical_device_count' \in [Drivers -> Nat]
            /\ UNCHANGED <<term, phys_devs_term>> /\ total_gpu_count' = 0
        BY <1>2, <2>2, SetupTermFailsStep
      <3>2. TermInv'
        BY <1>1, <1>2, <3>1 DEF TermInv, IsArrayOf, IsInjective, Range
      <3>3. RestType'
        BY <1>1, <1>2, <1>4, <2>2, <3>1 DEF RestType, IsArrayOf
      <3> QED
        BY <1>3, <3>2, <3>3 DEF ListsInv
    <2>3. \/ \E failed \in FailedDrivers :
               /\ SetupTermPhysDevs(failed)
               /\ total_gpu_count' = Cardinality(DOMAIN phys_devs_term')
               /\ held' = StillHeld(Reported(failed))
               /\ call' = [call EXCEPT !.at = "ready"]
          \/ \E res \in {OutOfMemory, InitFailed} :
               /\ SetupTermPhysDevsFails(res)
               /\ call' = [call EXCEPT !.at = "ready", !.cause = res]
               /\ UNCHANGED held
      BY DEF GroupsSetup
    <2> QED
      BY <2>1, <2>2, <2>3
  <1>6. call \in CallTypes /\ OutOfMemory \in Results /\ InitFailed \in Results
    BY DEF CallInv, Results
  <1>7. /\ call' \in CallTypes /\ call'.at = "ready" /\ call'.todo = call.todo
        /\ call'.total = call.total /\ call'.local = call.local /\ call'.lost = call.lost
    <2>1. CASE call' = [call EXCEPT !.at = "ready"]
      BY <1>6, <2>1 DEF CallTypes
    <2>2. ASSUME NEW res \in Results, call' = [call EXCEPT !.at = "ready", !.cause = res]
          PROVE  /\ call' \in CallTypes /\ call'.at = "ready" /\ call'.todo = call.todo
                 /\ call'.total = call.total /\ call'.local = call.local /\ call'.lost = call.lost
      BY <1>6, <2>2 DEF CallTypes
    <2>3. CASE \E res \in Results : call' = [call EXCEPT !.at = "ready", !.cause = res]
      BY <2>2, <2>3, Zenon
    <2>4. \/ call' = [call EXCEPT !.at = "ready"]
          \/ \E res \in Results : call' = [call EXCEPT !.at = "ready", !.cause = res]
      BY <1>5, <1>6, Zenon
    <2> QED
      BY <2>1, <2>3, <2>4, Zenon
  <1>8. UNCHANGED <<present, linked, failing>>
    BY <1>1 DEF environment
  <1>9. CallInv'
    BY <1>1, <1>7, <1>8 DEF CallInv
  <1>10. LocalInv'
    BY <1>1, <1>7 DEF LocalInv
  <1>11. CountInv'
    <2>1. GroupsOfAll(icd_terms \ call.todo)' = GroupsOfAll(icd_terms \ call.todo)
      BY <1>1, <1>7, <1>8 DEF GroupsOfAll, GroupsOf
    <2> QED
      BY <1>1, <1>7, <2>1 DEF CountInv
  <1>12. ArrayInv'
    BY <1>1, ArrayKept
  <1>13. FoundInv'
    BY <1>1, <1>7 DEF FoundInv, GroupsResolve
  <1>14. NoEmptyEntry'
    BY <1>1, <1>7 DEF NoEmptyEntry, Range
  <1> QED
    BY <1>5, <1>9, <1>10, <1>11, <1>12, <1>13, <1>14


\* The end of a call that wanted the number only, the way to the second loop, and the errors
\* between the loops.
LEMMA ReadyStep ==
    ASSUME GroupsInv, GroupsReady
    PROVE  GroupsInv'
  <1> USE DEF GroupsInv
  <1>1. /\ call.at \in {"count", "ready"} /\ call.todo = {}
        /\ UNCHANGED <<present, icd_terms, termVars, out, held, environment>>
    BY DEF GroupsReady, Ready, Counted, CallInv
  <1>2. /\ call \in CallTypes /\ call.cause \in Results /\ present \subseteq Devices
        /\ icd_terms \subseteq Drivers /\ call.local = {}
    BY <1>1 DEF CallInv, CallTypes, ListsInv, RestType
  <1>3. CASE /\ found' = NoGroups(call.cause) /\ call' = Idle
             /\ UNCHANGED <<trampVars, total_gpu_count, group, phys_dev_groups_term>>
    <2>1. CallInv' /\ LocalInv' /\ CountInv' /\ call'.lost = call.lost
      BY <1>1, <1>3, EndOfCall
    <2>2. call'.at = "idle"
      BY <1>2, <1>3, IdleFacts
    <2>3. ListsInv'
      BY <1>1, <1>2, <1>3, ListsSame
    <2>4. ArrayInv'
      BY <1>3, ArrayKept
    <2>5. FoundInv'
      BY <1>2, <1>3 DEF FoundInv, FoundTypes, NoGroups, GroupsResolve
    <2>6. NoEmptyEntry'
      BY <1>3, <2>1, <2>2 DEF NoEmptyEntry, Range
    <2> QED
      BY <2>1, <2>3, <2>4, <2>5, <2>6
  <1>4. CASE /\ call.room # NoArray
             /\ call' = [call EXCEPT !.at = "fill", !.todo = icd_terms]
             /\ UNCHANGED <<trampVars, total_gpu_count, group, phys_dev_groups_term, found>>
    <2>1. /\ call' \in CallTypes /\ call'.at = "fill" /\ call'.todo = icd_terms
          /\ call'.total = call.total /\ call'.local = {} /\ call'.lost = call.lost
          /\ call'.room = call.room
      BY <1>2, <1>4 DEF CallTypes
    <2>2. UNCHANGED <<present, linked, failing>>
      BY <1>1 DEF environment
    <2>3. CallInv'
      BY <1>1, <1>2, <1>4, <2>1, <2>2 DEF CallInv
    <2>4. LocalInv'
      BY <2>1 DEF LocalInv
    <2>5. CountInv'
      <3>1. call'.local \cup GroupsOfAll(call.todo)' = GroupsOfAll(icd_terms \ call.todo)
        <4>1. GroupsOfAll(call.todo)' = GroupsOfAll(icd_terms)
          BY <2>1, <2>2 DEF GroupsOfAll, GroupsOf
        <4>2. icd_terms \ call.todo = icd_terms
          BY <1>1
        <4> QED
          BY <2>1, <4>1, <4>2
      <3> QED
        BY <1>1, <2>1, <3>1 DEF CountInv
    <2> QED
      BY <1>1, <1>2, <1>4, <2>1, <2>3, <2>4, <2>5, QuietStep
  <1>5. ASSUME NEW cause \in Results \ {Success}, call.room # NoArray, GiveUp(cause)
        PROVE  GroupsInv'
    <2>1. CopyOut(cause, phys_dev_groups_term, group') /\ UNCHANGED <<group, phys_dev_groups_term>>
      BY <1>5 DEF GiveUp
    <2>2. call.at # "idle"
      BY <1>1
    <2> QED
      BY <1>1, <1>5, <2>1, <2>2, ErrorEnds
  <1>6. OutOfMemory \in Results \ {Success}
    BY DEF Results, Success, OutOfMemory
  <1>7. \/ /\ found' = NoGroups(call.cause) /\ call' = Idle
           /\ UNCHANGED <<trampVars, total_gpu_count, group, phys_dev_groups_term>>
        \/ /\ call.room # NoArray
           /\ call' = [call EXCEPT !.at = "fill", !.todo = icd_terms]
           /\ UNCHANGED <<trampVars, total_gpu_count, group, phys_dev_groups_term, found>>
        \/ call.room # NoArray /\ GiveUp(OutOfMemory)
        \/ call.room # NoArray /\ call.cause # Success /\ GiveUp(call.cause)
    BY DEF GroupsReady
  <1>8. CASE call.room # NoArray /\ call.cause # Success /\ GiveUp(call.cause)
    <2>1. PICK cause \in Results \ {Success} : cause = call.cause
      BY <1>2, <1>8
    <2>2. GiveUp(cause)
      BY <1>8, <2>1
    <2> QED
      BY <1>5, <1>8, <2>2
  <1>9. CASE call.room # NoArray /\ GiveUp(OutOfMemory)
    BY <1>5, <1>6, <1>9
  <1> QED
    BY <1>3, <1>4, <1>7, <1>8, <1>9

\* vkEnumeratePhysicalDevices keeps the lists sound, whatever was called before.
LEMMA EnumerateLists ==
    ASSUME ListsInv, EnumerateCount \/ EnumerateFill
    PROVE  ListsInv'
  <1> USE DEF ListsInv
  <1>1. TypeOK /\ Cardinality(Devices) \in Nat
    BY TypesSplit, DevicesFinite, FS_CardinalityType
  <1>2. UNCHANGED trampVars => TrampInv'
    BY DEF TrampInv, trampVars, IsArrayOf, IsInjective, Range
  <1>3. UNCHANGED <<term, phys_devs_term, icd_terms>> => TermInv'
    BY DEF TermInv, IsArrayOf, IsInjective, Range
  <1>4. ASSUME NEW res \in {OutOfMemory, InitFailed}, SetupTermPhysDevsFails(res),
               out' = [res |-> res, arr |-> Empty],
               UNCHANGED <<present, icd_terms, trampVars, held>>
        PROVE  ListsInv'
    <2>1. /\ physical_device_count' \in [Drivers -> Nat]
          /\ UNCHANGED <<term, phys_devs_term>> /\ total_gpu_count' = 0
      BY <1>1, <1>4, SetupTermFailsStep
    <2>2. TermInv' /\ TrampInv'
      BY <1>2, <1>3, <1>4, <2>1
    <2>3. out'.res \in Results /\ IsArrayOf(out'.arr, TrampAddr)
      BY <1>4, NothingReturned DEF Results
    <2> QED
      BY <1>1, <1>4, <2>1, <2>2, <2>3 DEF RestType
  <1>5. ASSUME NEW failed, SetupTermPhysDevs(failed),
               total_gpu_count' = Cardinality(DOMAIN phys_devs_term'),
               held' = StillHeld(Reported(failed)),
               out' = [res |-> Success, arr |-> Empty],
               UNCHANGED <<present, icd_terms, trampVars>>
        PROVE  ListsInv'
    <2>1. /\ physical_device_count' \in [Drivers -> Nat]
          /\ phys_devs_term' \in [1..Cardinality(Reported(failed)) -> TermAddr]
      BY <1>1, <1>5, SetupTermStep
    <2>2. Cardinality(Reported(failed)) \in 0..Cardinality(Devices)
      BY <1>1, ReportedFacts
    <2>3. total_gpu_count' \in 0..Cardinality(Devices)
      <3>1. Cardinality(1..Cardinality(Reported(failed))) = Cardinality(Reported(failed))
        BY <1>1, <2>2, FS_Interval
      <3> QED
        BY <1>5, <2>1, <2>2, <3>1
    <2>4. TermInv' /\ TrampInv'
      BY <1>1, <1>2, <1>5, TermInvNext
    <2>5. out'.res \in Results /\ IsArrayOf(out'.arr, TrampAddr)
      BY <1>5, NothingReturned DEF Results
    <2>6. held' \subseteq Devices \X TrampAddr
      BY <1>5 DEF StillHeld, RestType
    <2> QED
      BY <1>5, <2>1, <2>3, <2>4, <2>5, <2>6 DEF RestType
  <1>6. ASSUME NEW failed, NEW c \in 0..Cardinality(Reported(failed)),
               SetupTermPhysDevs(failed), WrapAndUnload(failed, c), UNCHANGED present
        PROVE  ListsInv'
    <2>1. UnloadEmptyDrivers
      BY <1>6 DEF WrapAndUnload
    <2>2. TermInv' /\ icd_terms' \subseteq Drivers
      BY <1>1, <1>6, <2>1, TermInvNext
    <2>3. TrampInv' /\ total_gpu_count' \in 0..Cardinality(Devices)
      BY <1>1, <1>6, WrapStep
    <2>4. /\ phys_devs_term' \in [1..Cardinality(Reported(failed)) -> TermAddr]
          /\ term' \in [Range(phys_devs_term') -> Reported(failed)]
          /\ physical_device_count' \in [Drivers -> Nat]
      BY <1>1, <1>6, SetupTermStep
    <2>5. /\ Reported(failed) \subseteq Devices
          /\ Cardinality(Reported(failed)) \in 0..Cardinality(Devices)
      BY <1>1, ReportedFacts
    <2>6. StillHeld(Reported(failed)) \subseteq Devices \X TrampAddr
      BY DEF StillHeld, RestType
    <2>7. CASE out' = [res |-> OutOfMemory, arr |-> Empty] /\ held' = StillHeld(Reported(failed))
      <3>1. out'.res \in Results /\ IsArrayOf(out'.arr, TrampAddr)
        BY <2>7, NothingReturned DEF Results
      <3> QED
        BY <1>6, <2>2, <2>3, <2>4, <2>6, <2>7, <3>1 DEF RestType
    <2>8. CASE /\ out'.arr \in [1..c -> TrampAddr]
               /\ out'.res = IF c < Cardinality(Reported(failed)) THEN Incomplete ELSE Success
               /\ held' = StillHeld(Reported(failed))
                     \cup {<<term'[phys_devs_term'[i]], out'.arr[i]>> : i \in 1..c}
      <3>1. c \in 0..Cardinality(Devices) /\ 1..c \subseteq 1..Cardinality(Reported(failed))
        BY <1>1, <2>5
      <3>2. \A i \in 1..c : term'[phys_devs_term'[i]] \in Devices /\ out'.arr[i] \in TrampAddr
        BY <2>4, <2>5, <2>8, <3>1 DEF Range
      <3>3. held' \subseteq Devices \X TrampAddr
        BY <2>6, <2>8, <3>2
      <3>4. out'.res \in Results /\ IsArrayOf(out'.arr, TrampAddr)
        BY <2>8, <3>1 DEF Results, IsArrayOf
      <3> QED
        BY <1>6, <2>2, <2>3, <2>4, <3>3, <3>4 DEF RestType
    <2> QED
      BY <1>1, <1>6, <2>7, <2>8, WrapStep
  <1>7. CASE EnumerateCount
    BY <1>4, <1>5, <1>7 DEF EnumerateCount
  <1>8. CASE EnumerateFill
    BY <1>4, <1>6, <1>8 DEF EnumerateFill
  <1> QED
    BY <1>7, <1>8

LEMMA OtherCallsStep ==
    ASSUME GroupsInv, OtherCalls
    PROVE  GroupsInv'
  <1> USE DEF GroupsInv
  <1>1. /\ call.at = "idle" /\ (EnumerateCount \/ EnumerateFill)
        /\ found' = NoGroups(Success)
        /\ UNCHANGED <<environment, call, group, phys_dev_groups_term>>
    BY DEF OtherCalls
  <1>2. ListsInv'
    BY <1>1, EnumerateLists
  <1>3. call.todo = {} /\ call.local = {}
    BY <1>1 DEF CallInv
  <1>4. CallInv'
    BY <1>1, <1>3 DEF CallInv, environment
  <1>5. LocalInv' /\ CountInv'
    BY <1>1, <1>3 DEF LocalInv, CountInv
  <1>6. ArrayInv'
    BY <1>1, ArrayKept
  <1>7. FoundInv'
    BY <1>1 DEF FoundInv, FoundTypes, NoGroups, GroupsResolve, Results
  <1>8. NoEmptyEntry'
    BY <1>1 DEF NoEmptyEntry, Range
  <1> QED
    BY <1>2, <1>4, <1>5, <1>6, <1>7, <1>8


\* Devices come and go.  Only a device that goes, or drivers that are linked otherwise, can
\* make the second answer shorter than the first, and this is recorded in call.lost.
LEMMA DevicesChangeStep ==
    ASSUME GroupsInv, DevicesChange
    PROVE  GroupsInv'
  <1> USE DEF GroupsInv
  <1>1. present \subseteq Devices /\ call \in CallTypes /\ linked \subseteq GroupDrivers
    BY DEF ListsInv, RestType, CallInv
  <1>2. /\ call.at # "crashed"
        /\ UNCHANGED <<failing, group, phys_dev_groups_term, found>>
        /\ UNCHANGED <<icd_terms, termVars, trampVars, total_gpu_count, out, held>>
    BY DEF DevicesChange, PlugIn, Unplug, vars
  <1>3. CASE PlugIn /\ UNCHANGED <<call, linked>>
    <2>1. present' \subseteq Devices
      BY <1>1, <1>3 DEF PlugIn
    <2>2. CallInv' /\ LocalInv'
      BY <1>2, <1>3 DEF CallInv, LocalInv
    <2>3. CountInv'
      <3> SUFFICES ASSUME ~call.lost
                   PROVE  /\ call.at \in {"count", "ready"} =>
                               call.total <= Cardinality(GroupsOfAll(icd_terms \ call.todo)')
                          /\ call.at = "fill" =>
                               call.total <= Cardinality(call.local \cup GroupsOfAll(call.todo)')
        BY <1>3 DEF CountInv
      <3>1. /\ call.total \in Nat /\ call.local \in SUBSET SUBSET Devices
            /\ \A S : /\ Cardinality(GroupsOfAll(S)) \in Nat
                      /\ Cardinality(call.local \cup GroupsOfAll(S)) \in Nat
        BY <1>1, GroupsOfAllFacts, GroupSetsFinite DEF CallTypes
      <3>2. CASE call.at \in {"count", "ready"}
        <4>1. PICK S : S = icd_terms \ call.todo
          OBVIOUS
        <4>2. GroupsOfAll(icd_terms \ call.todo)' = GroupsOfAll(S)'
          BY <1>2, <1>3, <4>1 DEF GroupsOfAll
        <4>3. call.total <= Cardinality(GroupsOfAll(S))
          BY <3>2, <4>1 DEF CountInv
        <4>4. Cardinality({} \cup GroupsOfAll(S)) <= Cardinality({} \cup GroupsOfAll(S)')
          BY <1>1, <1>3, PlugInGrows
        <4>5. {} \cup GroupsOfAll(S) = GroupsOfAll(S) /\ {} \cup GroupsOfAll(S)' = GroupsOfAll(S)'
          OBVIOUS
        <4>6. Cardinality(GroupsOfAll(S)') \in Nat
          BY <2>1, GroupSetsFinite DEF GroupsOfAll, GroupsOf
        <4>7. Cardinality(GroupsOfAll(S)) <= Cardinality(GroupsOfAll(S)')
          BY <4>4, <4>5, Zenon
        <4>8. Cardinality(GroupsOfAll(S)) \in Nat /\ call.total \in Nat
          BY <3>1
        <4>9. call.total <= Cardinality(GroupsOfAll(S)')
          BY <4>3, <4>6, <4>7, <4>8
        <4> QED
          BY <3>2, <4>2, <4>9
      <3>3. CASE call.at = "fill"
        <4>1. PICK S, L : S = call.todo /\ L = call.local
          OBVIOUS
        <4>2. GroupsOfAll(call.todo)' = GroupsOfAll(S)'
          BY <1>3, <4>1 DEF GroupsOfAll
        <4>3. call.total <= Cardinality(L \cup GroupsOfAll(S))
          BY <3>3, <4>1 DEF CountInv
        <4>4. L \in SUBSET SUBSET Devices /\ \A g \in L : \A e \in g : DriverOf[e] \notin S
          BY <3>1, <4>1 DEF LocalInv
        <4>5. Cardinality(L \cup GroupsOfAll(S)) <= Cardinality(L \cup GroupsOfAll(S)')
          BY <1>1, <1>3, <4>4, PlugInGrows
        <4>6. Cardinality(L \cup GroupsOfAll(S)') \in Nat
          <5>1. GroupsOfAll(S)' \in SUBSET SUBSET Devices
            BY <2>1 DEF GroupsOfAll, GroupsOf
          <5>2. L \cup GroupsOfAll(S)' \in SUBSET SUBSET Devices
            BY <4>4, <5>1
          <5> QED
            BY <5>2, GroupSetsFinite
        <4> QED
          BY <3>1, <3>3, <4>1, <4>2, <4>3, <4>5, <4>6
      <3> QED
        BY <3>2, <3>3
    <2> QED
      BY <1>2, <1>3, <2>1, <2>2, <2>3, QuietStep
  <1>4. ASSUME Changed, present' \subseteq Devices, linked' \subseteq GroupDrivers
        PROVE  GroupsInv'
    <2>1. call.lost \in BOOLEAN
      BY <1>1 DEF CallTypes
    <2>2. /\ call' \in CallTypes /\ call'.at = call.at /\ call'.todo = call.todo
          /\ call'.local = call.local /\ call'.total = call.total /\ call'.room = call.room
          /\ call'.lost = (call.lost \/ InCall)
      BY <1>1, <1>4, <2>1 DEF Changed, CallTypes, InCall
    <2>3. CallInv'
      BY <1>2, <1>4, <2>2 DEF CallInv
    <2>4. LocalInv'
      BY <1>2, <2>2 DEF LocalInv
    <2>5. CountInv'
      BY <2>2 DEF CountInv, InCall
    <2>6. call.lost => call'.lost
      BY <2>2
    <2> QED
      BY <1>2, <1>4, <2>2, <2>3, <2>4, <2>5, <2>6, QuietStep
  <1>5. CASE Unplug /\ Changed /\ UNCHANGED linked
    BY <1>1, <1>4, <1>5 DEF Unplug
  <1>6. CASE /\ \E i \in GroupDrivers : linked' = (linked \cup {i}) \ (linked \cap {i})
             /\ Changed /\ UNCHANGED vars
    BY <1>1, <1>4, <1>6 DEF vars
  <1> QED
    BY <1>3, <1>5, <1>6 DEF DevicesChange

\* A driver begins or ceases to answer with errors, or nothing happens.
LEMMA DriverStep ==
    ASSUME GroupsInv,
           failing' \subseteq Drivers, UNCHANGED <<vars, linked, groupVars>>
    PROVE  GroupsInv'
  <1> USE DEF GroupsInv
  <1>1. UNCHANGED <<present, icd_terms, call, linked>> /\ present' \subseteq Devices
    BY PresentKnown DEF vars, groupVars
  <1>2. CallInv' /\ LocalInv'
    BY <1>1 DEF CallInv, LocalInv
  <1>3. CountInv'
    BY <1>1 DEF CountInv, GroupsOfAll, GroupsOf
  <1> QED
    BY <1>1, <1>2, <1>3, QuietStep DEF vars, groupVars

-----------------------------------------------------------------------------
(* The theorems                                                            *)

LEMMA GroupsInvInit == GroupsInit => GroupsInv
  <1> SUFFICES ASSUME GroupsInit PROVE GroupsInv
    OBVIOUS
  <1>1. ListsInv
    BY IndInit DEF GroupsInit, IndInv, ListsInv
  <1>2. /\ call \in CallTypes /\ call.at = "idle" /\ call.todo = {} /\ call.local = {}
        /\ call.total = 0 /\ call.lost = FALSE
    BY DEF GroupsInit, Stage, CallTypes, Results
  <1>3. CallInv
    <2>1. linked = {} /\ failing = {}
      BY DEF GroupsInit
    <2>2. Cardinality(call.local) <= call.total
      BY <1>2, FS_EmptySet
    <2> HIDE DEF GroupsInit
    <2> QED
      BY <1>2, <2>1, <2>2 DEF CallInv
  <1>4. LocalInv /\ CountInv
    BY <1>2 DEF LocalInv, CountInv
  <1>5. ArrayInv
    <2>1. /\ phys_dev_groups_term = Empty /\ group = Empty
          /\ DOMAIN Empty = {} /\ Range(Empty) = {}
      BY EmptyFacts DEF GroupsInit
    <2>2. OldGroups = {} /\ InGroups = {}
      BY <2>1 DEF OldGroups, InGroups
    <2>3. Empty \in [1..0 -> GroupAddr \cup {Null}] /\ Empty \in [{} -> SUBSET TermAddr]
      <3>1. 1..0 = {}
        OBVIOUS
      <3> QED
        BY <3>1 DEF Empty
    <2>4. Cardinality(Devices) \in Nat
      BY DevicesFinite, FS_CardinalityType
    <2>5. IsFiniteSet(InGroups) /\ Cardinality(InGroups) <= Cardinality(Devices)
      BY <2>2, <2>4, FS_EmptySet
    <2> QED
      BY <2>1, <2>2, <2>3, <2>5 DEF ArrayInv
  <1>6. FoundInv
    BY DEF GroupsInit, FoundInv, FoundTypes, NoGroups, GroupsResolve, Results
  <1>7. NoEmptyEntry
    BY <1>2, EmptyFacts DEF GroupsInit, NoEmptyEntry
  <1> QED
    BY <1>1, <1>3, <1>4, <1>5, <1>6, <1>7 DEF GroupsInv

LEMMA GroupsInvNext == GroupsInv /\ [GroupsNext]_allVars => GroupsInv'
  <1> SUFFICES ASSUME GroupsInv, [GroupsNext]_allVars PROVE GroupsInv'
    OBVIOUS
  <1>1. failing \subseteq Drivers
    BY DEF GroupsInv, CallInv
  <1>2. CASE \E room \in Rooms \cup {NoArray} : EnumerateGroups(room)
    BY <1>2, BeginStep
  <1>3. CASE GroupsStep
    BY <1>3, CountStep, FillGroupsStep, SetupStep, ReadyStep, MatchStep, MatchErrorStep
       DEF GroupsStep
  <1>4. CASE OtherCalls
    BY <1>4, OtherCallsStep
  <1>5. CASE DevicesChange
    BY <1>5, DevicesChangeStep
  <1>6. CASE \E i \in Drivers : DriverFails(i) \/ DriverRecovers(i)
    BY <1>1, <1>6, DriverStep DEF DriverFails, DriverRecovers
  <1>7. CASE UNCHANGED allVars
    BY <1>1, <1>7, DriverStep DEF allVars, environment
  <1> QED
    BY <1>2, <1>3, <1>4, <1>5, <1>6, <1>7 DEF GroupsNext

\* GroupsInv is an inductive invariant of vkEnumeratePhysicalDeviceGroups together with
\* vkEnumeratePhysicalDevices and the drivers.
THEOREM GroupsInvariance == GroupsSpec => []GroupsInv
  BY GroupsInvInit, GroupsInvNext, PTL DEF GroupsSpec

\* Every variable keeps its type: what a driver announced bounds what is written to the
\* arrays sized by it, and no driver is asked that was unloaded.
THEOREM GroupsTypeCorrect == GroupsSpec => []GroupsTypeOK
  <1>1. GroupsInv => GroupsTypeOK
    <2> SUFFICES ASSUME GroupsInv PROVE GroupsTypeOK
      OBVIOUS
    <2>1. TypeOK
      BY TypesSplit DEF GroupsInv, ListsInv
    <2>2. OldGroups \in SUBSET GroupAddr /\ group \in [OldGroups -> SUBSET TermAddr]
      BY DEF GroupsInv, ArrayInv, OldGroups, Range
    <2>3. phys_dev_groups_term \in [DOMAIN phys_dev_groups_term -> GroupAddr \cup {Null}]
      BY DEF GroupsInv, ArrayInv
    <2>4. found.res \in Results /\ found.groups \subseteq SUBSET TrampAddr
      BY DEF GroupsInv, FoundInv, FoundTypes
    <2>5. /\ call.at \in {"idle", "count", "ready", "fill", "crashed"}
          /\ call.total \in Nat /\ call.local \subseteq SUBSET Devices
      BY DEF GroupsInv, CallInv, CallTypes
    <2> QED
      BY <2>1, <2>2, <2>3, <2>4, <2>5 DEF GroupsInv, CallInv, GroupsTypeOK
  <1> QED
    BY <1>1, GroupsInvariance, PTL

\* inst->phys_dev_groups_term owns exactly the groups on the heap, each once: no path of
\* terminator_EnumeratePhysicalDeviceGroups leaks a group or frees one in use.
THEOREM GroupsOwnedHolds == GroupsSpec => []GroupsOwned
  <1>1. GroupsInv => GroupsOwned
    BY DEF GroupsInv, ArrayInv, GroupsOwned
  <1> QED
    BY <1>1, GroupsInvariance, PTL

\* A call that met no error returns disjoint groups of good handles, each of one driver.
THEOREM GroupsResolveHolds == GroupsSpec => []GroupsResolve
  <1>1. GroupsInv => GroupsResolve
    BY DEF GroupsInv, FoundInv
  <1> QED
    BY <1>1, GroupsInvariance, PTL

\* Only when groups went away between a driver's two answers does an entry of the array stay
\* empty, and does the copy to the application follow it.
THEOREM NoEmptyEntryHolds == GroupsSpec => []NoEmptyEntry
  <1>1. GroupsInv => NoEmptyEntry
    BY DEF GroupsInv
  <1> QED
    BY <1>1, GroupsInvariance, PTL

\* The lists shared with vkEnumeratePhysicalDevices stay sound when the calls alternate.
THEOREM SharedListsSoundHolds == GroupsSpec => []SharedListsSound
  <1>1. GroupsInv => SharedListsSound
    BY DEF GroupsInv, ListsInv, TermInv, TrampInv, SharedListsSound, HeapOwned, OneObjectPerDevice
  <1> QED
    BY <1>1, GroupsInvariance, PTL

=============================================================================
