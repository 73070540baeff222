---------------------------- MODULE DevicesProofs ----------------------------
(***************************************************************************)
(* For any number of threads, drivers, devices and names: the lists of     *)
(* logical devices hold what exists, a handle leads to a living device,    *)
(* loader_get_icd_and_device reads nothing that is gone, and the unlocked  *)
(* table of unknown functions is right for one thread that asks.           *)
(***************************************************************************)
EXTENDS Devices, FiniteSetTheorems, SequenceTheorems, WellFoundedInduction, TLAPS

-----------------------------------------------------------------------------
(* The inductive invariant                                                 *)

\* The phases of a call; it has its device after the first.
PhaseOK(r) ==
    /\ r.op = "create" => r.phase \in {"begin", "down", "up", "init", "failed"}
    /\ r.op = "destroy" => r.phase \in {"down", "gone"}
    /\ r.phase = "begin" <=> r.a = None

\* Nobody has a handle of the device that a call is at.
OwnOK(r) ==
    r.a # None => /\ r.a \in DOMAIN dev
                  /\ r.a \notin handles
                  /\ \A b \in DOMAIN dev : dev[b].second # r.a

\* In a creation up to its end the dispatch table is not filled; the device is
\* in the driver's list from the terminator on, until it is freed.
PlaceOK(r) ==
    /\ r.op = "create" /\ r.phase = "down" => \A d \in Drivers : r.a \notin Range(list[d])
    /\ r.op = "create" /\ r.phase \in {"down", "up", "failed"} => ~dev[r.a].gdpa
    /\ r.op = "create" /\ r.phase \in {"up", "init"} => /\ r.a \in Range(list[r.d])
                                                        /\ dev[r.a].icd = "live"
    /\ r.phase = "init" => dev[r.a].gdpa
    /\ r.op = "destroy" => r.a \in Range(list[r.d]) /\ dev[r.a].gdpa
    /\ r.op = "destroy" /\ r.phase = "down" => dev[r.a].icd = "live"

FrameOK(r) == PhaseOK(r) /\ OwnOK(r) /\ PlaceOK(r)

\* The holder of the lock has a call under way, and inside it at most one more,
\* on another device, while the outer call is in a layer.
FramesInv ==
    /\ lock = None <=> frames = <<>>
    /\ lock # None => lock \in env.devices
    /\ Len(frames) <= 2
    /\ \A i \in 1..Len(frames) : FrameOK(frames[i])
    /\ Len(frames) = 2 => /\ frames[1].a # frames[2].a
                          /\ frames[2].op = frames[1].op
                          /\ frames[1].phase = IF frames[1].op = "create" THEN "up" ELSE "down"

\* A device is in the list of its driver, once, or in the hand of a call.
ListInv ==
    /\ \A d \in Drivers : IsInjective(list[d])
    /\ \A d \in Drivers : \A a \in Range(list[d]) : a \in DOMAIN dev /\ dev[a].driver = d
    /\ \A a \in DOMAIN dev : \/ \E d \in Drivers : a \in Range(list[d])
                             \/ \E i \in 1..Len(frames) : frames[i].a = a

\* A listed device exists in the driver and has its table, unless a call is at it.
LiveInv ==
    \A d \in Drivers : \A a \in Range(list[d]) :
        /\ \/ dev[a].icd = "live"
           \/ \E i \in 1..Len(frames) : frames[i].a = a /\ frames[i].phase \in {"failed", "gone"}
        /\ \/ dev[a].gdpa
           \/ \E i \in 1..Len(frames) : /\ frames[i].a = a /\ frames[i].op = "create"
                                        /\ frames[i].phase \in {"up", "failed"}

Sound(a) == /\ \E d \in Drivers : a \in Range(list[d])
            /\ dev[a].icd = "live" /\ dev[a].gdpa

\* A handle is known to the application or to one layer, and leads to a device.
HandlesInv ==
    /\ \A a \in handles : Sound(a) /\ \A b \in DOMAIN dev : dev[b].second # a
    /\ \A b \in DOMAIN dev : dev[b].second # None =>
         /\ Sound(dev[b].second)
         /\ \A c \in DOMAIN dev : dev[c].second = dev[b].second => c = b

\* A walk is at a listed device unless that was freed under it.
QueryInv ==
    \A t \in Threads :
        /\ query[t] # NoQuery => t \in env.queries /\ query[t].f \in Names
        /\ query[t].a # None => /\ query[t].d \in Drivers
                                /\ query[t].freed \/ query[t].a \in Range(list[query[t].d])

DevInv == FramesInv /\ ListInv /\ LiveInv /\ HandlesInv /\ QueryInv

\* With one thread that queries, the names below count stay, and the slot at
\* count is the one that it fills.
NamesInv ==
    Cardinality(env.queries) <= 1 =>
        /\ \A g \in given : g[2] < count /\ names[g[2]] = g[1]
        /\ \A i \in Slots : i < count => names[i] # None
        /\ \A i \in Slots : i > count => names[i] = None
        /\ \A t \in Threads : query[t] # NoQuery => query[t].slot = count /\ names[count] = query[t].f
        /\ (\A t \in Threads : query[t] = NoQuery) => \A i \in Slots : i >= count => names[i] = None

\* A thread frees no device while its own walk is under way, and what it meets that is
\* not ready is the device of a call it is in.
AloneInv ==
    Cardinality(env.devices \cup env.queries) = 1 =>
        /\ \A t \in Threads : ~query[t].freed
        /\ fault # "freed"
        /\ fault = "null" => ComesBack("create")
        /\ fault = "destroyed" => ComesBack("destroy")

IndInv == TypeOK /\ DevInv /\ NamesInv /\ AloneInv

\* Where the walk of query q has still to come, in the lists l.
Ahead(l, a, q) ==
    /\ q.a # None
    /\ \/ \E d \in Drivers : d > q.d /\ a \in Range(l[d])
       \/ \E i, j \in DOMAIN l[q.d] : l[q.d][i] = q.a /\ l[q.d][j] = a /\ i <= j

\* Slot i of the table of device a has what the name asks for, or will have: the
\* device's creation still looks at the slot, or the walk at the device.
Filled(a, i) == dev[a].ext[i] = IF names[i] \in ChainOffers(a) THEN names[i] ELSE None
ByCreation(a, i) == \E k \in 1..Len(frames) : /\ frames[k].a = a /\ frames[k].phase = "init"
                                              /\ frames[k].slot <= i
ByWalk(a, i) == \E t \in Threads : /\ query[t] # NoQuery /\ query[t].slot = i
                                   /\ query[t].freed \/ Ahead(list, a, query[t])
FillOK(a, i) == Filled(a, i) \/ (dev[a].ext[i] = None /\ (ByCreation(a, i) \/ ByWalk(a, i)))

FillInv ==
    Cardinality(env.queries) <= 1 /\ fault = "none" =>
        \A d \in Drivers : \A a \in Range(list[d]) : dev[a].gdpa => \A i \in Slots : FillOK(a, i)

\* A creation begins with the first slot, and a walk at its end has no device
\* that could be freed.
SlotInv ==
    /\ \A k \in 1..Len(frames) : frames[k].phase # "init" => frames[k].slot = 0
    /\ \A t \in Threads : query[t].freed => query[t].a # None

-----------------------------------------------------------------------------
(* Facts about the helpers                                                 *)

\* A list without one entry has the others, in the same order.
LEMMA UnlinkedFacts ==
    ASSUME NEW S, NEW s \in Seq(S), IsInjective(s), NEW i \in 1..Len(s)
    PROVE  /\ Unlinked(s, i) \in Seq(S)
           /\ IsInjective(Unlinked(s, i))
           /\ Range(Unlinked(s, i)) = Range(s) \ {s[i]}
  <1> DEFINE r == Unlinked(s, i)
             f(n) == IF n < i THEN n ELSE n + 1
  <1>1. Len(s) \in Nat /\ DOMAIN s = 1..Len(s) /\ \A j \in 1..Len(s) : s[j] \in S
    OBVIOUS
  <1>2. Len(s) - 1 \in Nat
    BY <1>1
  <1>3. /\ DOMAIN r = 1..(Len(s) - 1)
        /\ \A j \in 1..(Len(s) - 1) : f(j) \in 1..Len(s) /\ f(j) # i /\ r[j] = s[f(j)]
    BY <1>1 DEF Unlinked
  <1>4. \A j, k \in 1..(Len(s) - 1) : f(j) = f(k) => j = k
    BY <1>1
  <1>5. \A k \in 1..Len(s) : k # i => \E j \in 1..(Len(s) - 1) : f(j) = k
    <2> SUFFICES ASSUME NEW k \in 1..Len(s), k # i PROVE \E j \in 1..(Len(s) - 1) : f(j) = k
      OBVIOUS
    <2>1. CASE k < i
      <3>1. k \in 1..(Len(s) - 1) /\ f(k) = k
        BY <1>1, <2>1
      <3> QED
        BY <3>1
    <2>2. CASE k > i
      <3>1. k - 1 \in 1..(Len(s) - 1) /\ f(k - 1) = k
        BY <1>1, <2>2
      <3> QED
        BY <3>1
    <2> QED
      BY <1>1, <2>1, <2>2
  <1>6. r = [j \in 1..(Len(s) - 1) |-> IF j < i THEN s[j] ELSE s[j + 1]]
    BY DEF Unlinked
  <1>7. r \in Seq(S)
    <2>1. r \in [1..(Len(s) - 1) -> S]
      BY <1>1, <1>6
    <2> HIDE DEF r
    <2> QED
      BY <1>2, <2>1
  <1> HIDE DEF r, f
  <1>8. IsInjective(r)
    BY <1>1, <1>3, <1>4 DEF IsInjective
  <1>9. Range(r) = Range(s) \ {s[i]}
    <2>1. ASSUME NEW x \in Range(r) PROVE x \in Range(s) \ {s[i]}
      <3>1. PICK j \in 1..(Len(s) - 1) : r[j] = x
        BY <1>3 DEF Range
      <3> QED
        BY <1>1, <1>3, <3>1 DEF Range, IsInjective
    <2>2. ASSUME NEW x \in Range(s), x # s[i] PROVE x \in Range(r)
      <3>1. PICK k \in 1..Len(s) : s[k] = x
        BY <1>1 DEF Range
      <3>2. PICK j \in 1..(Len(s) - 1) : f(j) = k
        BY <1>5, <2>2, <3>1
      <3> QED
        BY <1>3, <3>1, <3>2 DEF Range
    <2> QED
      BY <2>1, <2>2
  <1> QED
    BY <1>7, <1>8, <1>9 DEF r

\* A list with a new device in front.
LEMMA ConsFacts ==
    ASSUME NEW S, NEW s \in Seq(S), IsInjective(s), NEW e \in S, e \notin Range(s)
    PROVE  /\ <<e>> \o s \in Seq(S)
           /\ IsInjective(<<e>> \o s)
           /\ Range(<<e>> \o s) = Range(s) \cup {e}
  <1> DEFINE r == <<e>> \o s
  <1>1. DOMAIN s = 1..Len(s) /\ Len(s) \in Nat
    OBVIOUS
  <1>2. /\ r \in Seq(S) /\ Len(r) = Len(s) + 1 /\ r[1] = e
        /\ \A i \in 2..(Len(s) + 1) : r[i] = s[i - 1]
    OBVIOUS
  <1> HIDE DEF r
  <1>3. DOMAIN r = 1..(Len(s) + 1)
    BY <1>2
  <1>4. \A i \in 1..(Len(s) + 1) : i # 1 => i \in 2..(Len(s) + 1) /\ i - 1 \in 1..Len(s)
    BY <1>1
  <1>5. \A i \in 1..Len(s) : s[i] # e
    BY <1>1 DEF Range
  <1>6. Range(r) = Range(s) \cup {e}
    <2>1. ASSUME NEW x \in Range(r) PROVE x \in Range(s) \cup {e}
      BY <1>1, <1>2, <1>3, <1>4 DEF Range
    <2>2. ASSUME NEW x \in Range(s) PROVE x \in Range(r)
      <3>1. PICK j \in 1..Len(s) : s[j] = x
        BY <1>1 DEF Range
      <3>2. j + 1 \in 2..(Len(s) + 1) /\ (j + 1) - 1 = j
        BY <1>1
      <3>3. r[j + 1] = x
        BY <1>2, <3>1, <3>2
      <3> QED
        BY <1>1, <1>3, <3>2, <3>3 DEF Range
    <2>3. e \in Range(r)
      BY <1>1, <1>2, <1>3 DEF Range
    <2> QED
      BY <2>1, <2>2, <2>3
  <1>7. ASSUME NEW i \in 1..(Len(s) + 1), NEW j \in 1..(Len(s) + 1), r[i] = r[j]
        PROVE  i = j
    <2>1. \A k, l \in 1..Len(s) : s[k] = s[l] => k = l
      BY <1>1 DEF IsInjective
    <2> QED
      BY <1>1, <1>2, <1>4, <1>5, <1>7, <2>1
  <1>8. IsInjective(r)
    BY <1>3, <1>7 DEF IsInjective
  <1> QED
    BY <1>2, <1>6, <1>8 DEF r

\* What the type invariant says of the parts the actions touch.
LEMMA TypeFacts ==
    ASSUME TypeOK
    PROVE  /\ dev \in [DOMAIN dev -> Dev] /\ DOMAIN dev \subseteq DevAddr /\ None \notin DOMAIN dev
           /\ list \in [Drivers -> Seq(DevAddr)]
           /\ \A d \in Drivers : None \notin Range(list[d])
           /\ Depth \in Nat /\ DOMAIN frames = 1..Depth /\ frames \in Seq(Frame)
           /\ frames = <<>> <=> Depth = 0
           /\ frames # <<>> => Depth \in 1..Depth /\ Top \in Frame
           /\ None \notin Threads
  <1>1. PICK A \in SUBSET DevAddr : dev \in [A -> Dev]
    BY DEF TypeOK
  <1>2. DOMAIN dev = A
    BY <1>1
  <1>3. frames \in Seq(Frame) /\ list \in [Drivers -> Seq(DevAddr)]
    BY DEF TypeOK
  <1>4. Depth \in Nat /\ DOMAIN frames = 1..Depth /\ (frames = <<>> <=> Depth = 0)
    BY <1>3 DEF Depth
  <1>5. frames # <<>> => Depth \in 1..Depth /\ Top \in Frame
    BY <1>3, <1>4 DEF Top
  <1>6. \A d \in Drivers : None \notin Range(list[d])
    <2>1. \A d \in Drivers : \A i \in DOMAIN list[d] : list[d][i] \in DevAddr
      BY <1>3
    <2> QED
      BY <2>1, NoneDistinct DEF Range
  <1> QED
    BY <1>1, <1>2, <1>3, <1>4, <1>5, <1>6, NoneDistinct

\* loader_get_icd_and_device finds a listed device under its driver alone.
LEMMA OnFacts ==
    ASSUME TypeOK, ListInv, NEW d \in Drivers, NEW a \in Range(list[d])
    PROVE  /\ On(a) = {d} /\ FirstOn(a) = d
           /\ Place(a, d) \in 1..Len(list[d]) /\ list[d][Place(a, d)] = a
  <1>1. On(a) = {d}
    BY DEF On, ListInv
  <1>2. FirstOn(a) = d
    <2>1. d <= d
      BY DriverCountAssumption DEF Drivers
    <2> QED
      BY <1>1, <2>1 DEF FirstOn
  <1>3. list[d] \in Seq(DevAddr) /\ \E i \in DOMAIN list[d] : list[d][i] = a
    BY TypeFacts DEF Range
  <1>4. Place(a, d) \in DOMAIN list[d] /\ list[d][Place(a, d)] = a
    BY <1>3 DEF Place
  <1> QED
    BY <1>1, <1>2, <1>3, <1>4

\* loader_remove_logical_device takes the device out of its list.
LEMMA RemovedFacts ==
    ASSUME TypeOK, ListInv, NEW d \in Drivers, NEW a \in Range(list[d])
    PROVE  /\ Removed(a, d) \in [Drivers -> Seq(DevAddr)]
           /\ \A e \in Drivers : /\ IsInjective(Removed(a, d)[e])
                                 /\ Range(Removed(a, d)[e]) = Range(list[e]) \ {a}
  <1> DEFINE i == Place(a, d)
             s == list[d]
  <1>1. i \in 1..Len(s) /\ s[i] = a
    BY OnFacts
  <1>2. s \in Seq(DevAddr) /\ IsInjective(s) /\ list \in [Drivers -> Seq(DevAddr)]
    BY TypeFacts DEF ListInv
  <1>3. Removed(a, d) = [list EXCEPT ![d] = Unlinked(s, i)]
    BY DEF Removed
  <1> HIDE DEF i, s
  <1>4. Unlinked(s, i) \in Seq(DevAddr) /\ IsInjective(Unlinked(s, i)) /\ Range(Unlinked(s, i)) = Range(s) \ {a}
    BY <1>1, <1>2, UnlinkedFacts
  <1>5. ASSUME NEW e \in Drivers, e # d PROVE a \notin Range(list[e])
    BY <1>5 DEF ListInv
  <1>6. ASSUME NEW e \in Drivers
        PROVE  /\ IsInjective(Removed(a, d)[e])
               /\ Range(Removed(a, d)[e]) = Range(list[e]) \ {a}
    <2>1. CASE e = d
      BY <1>2, <1>3, <1>4, <2>1 DEF s
    <2>2. CASE e # d
      <3>1. Removed(a, d)[e] = list[e] /\ IsInjective(list[e]) /\ a \notin Range(list[e])
        BY <1>2, <1>3, <1>5, <2>2 DEF ListInv
      <3> QED
        BY <3>1
    <2> QED
      BY <2>1, <2>2
  <1> QED
    BY <1>2, <1>3, <1>4, <1>6

\* The cleanup after a failed creation takes the device out if it was in.
LEMMA CleanedFacts ==
    ASSUME TypeOK, ListInv, NEW a
    PROVE  /\ CleanedList(a) \in [Drivers -> Seq(DevAddr)]
           /\ \A e \in Drivers : /\ IsInjective(CleanedList(a)[e])
                                 /\ Range(CleanedList(a)[e]) = Range(list[e]) \ {a}
  <1>1. CASE On(a) = {}
    <2>1. CleanedList(a) = list /\ \A e \in Drivers : a \notin Range(list[e])
      BY <1>1 DEF CleanedList, On
    <2>2. list \in [Drivers -> Seq(DevAddr)]
      BY TypeFacts
    <2>3. \A e \in Drivers : Range(list[e]) = Range(list[e]) \ {a}
      BY <2>1
    <2> QED
      BY <2>1, <2>2, <2>3 DEF ListInv
  <1>2. CASE On(a) # {}
    <2>1. PICK d \in Drivers : a \in Range(list[d])
      BY <1>2 DEF On
    <2>2. FirstOn(a) = d
      BY <2>1, OnFacts
    <2>3. CleanedList(a) = Removed(a, d)
      BY <1>2, <2>2 DEF CleanedList, Removed
    <2> QED
      BY <2>1, <2>3, RemovedFacts
  <1> QED
    BY <1>1, <1>2

-----------------------------------------------------------------------------
(* The calls under way                                                     *)

\* What a call holds about the innermost frame and the one around it.
LEMMA TopFacts ==
    ASSUME TypeOK, FramesInv, frames # <<>>
    PROVE  /\ Depth \in {1, 2} /\ Len(frames) = Depth /\ Top = frames[Depth] /\ Top \in Frame
           /\ FrameOK(Top) /\ lock # None /\ lock \in env.devices
           /\ Depth = 2 => /\ frames[1] \in Frame /\ FrameOK(frames[1]) /\ frames[1].a # Top.a
                           /\ frames[1].op = Top.op /\ frames[1].a # None
                           /\ frames[1].phase = IF Top.op = "create" THEN "up" ELSE "down"
  <1>1. Depth \in Nat /\ Depth # 0 /\ Depth <= 2 /\ Len(frames) = Depth /\ Top = frames[Depth] /\ Top \in Frame
    BY TypeFacts DEF FramesInv, Depth, Top
  <1>2. Depth \in {1, 2}
    BY <1>1
  <1>3. FrameOK(Top)
    BY <1>1, <1>2 DEF FramesInv
  <1>4. ASSUME Depth = 2
        PROVE  /\ frames[1] \in Frame /\ FrameOK(frames[1]) /\ frames[1].a # Top.a
               /\ frames[1].op = Top.op /\ frames[1].a # None
               /\ frames[1].phase = IF Top.op = "create" THEN "up" ELSE "down"
    <2>1. frames[1] \in Frame
      BY <1>1, <1>4, TypeFacts
    <2>2. /\ FrameOK(frames[1]) /\ frames[1].a # Top.a /\ frames[1].op = Top.op
          /\ frames[1].phase = IF Top.op = "create" THEN "up" ELSE "down"
      BY <1>1, <1>4 DEF FramesInv
    <2> QED
      BY <2>1, <2>2 DEF FrameOK, PhaseOK
  <1> QED
    BY <1>1, <1>2, <1>3, <1>4 DEF FramesInv

\* The innermost call goes on to frame r.
LEMMA TopChange ==
    ASSUME TypeOK, FramesInv, frames # <<>>, NEW r \in Frame,
           frames' = [frames EXCEPT ![Depth] = r]
    PROVE  /\ frames' \in Seq(Frame) /\ Len(frames') = Len(frames) /\ frames' # <<>>
           /\ frames'[Depth] = r
           /\ \A i \in 1..Len(frames) : i # Depth => frames'[i] = frames[i]
  BY TypeFacts DEF Depth

\* A step of the innermost call that concerns its own device x: it keeps the
\* invariant if it leaves x the way the frame says.
LEMMA LocalStep ==
    ASSUME TypeOK, DevInv, frames # <<>>, NEW r \in Frame, NEW x \in DevAddr,
           r.a = x, r.op = Top.op, Top.a \in {None, x}, Top.a = None => x \notin DOMAIN dev,
           frames' = [frames EXCEPT ![Depth] = r],
           UNCHANGED <<handles, lock, query, env>>,
           dev' \in [DOMAIN dev \cup {x} -> Dev],
           \A b \in DOMAIN dev : b # x => dev'[b] = dev[b],
           dev'[x].second = IF x \in DOMAIN dev THEN dev[x].second ELSE None,
           \A e \in Drivers : /\ IsInjective(list'[e]) /\ Range(list[e]) \subseteq Range(list'[e])
                              /\ Range(list'[e]) \subseteq Range(list[e]) \cup {x},
           \A e \in Drivers : x \in Range(list'[e]) =>
             /\ dev'[x].driver = e
             /\ dev'[x].icd = "live" \/ r.phase \in {"failed", "gone"}
             /\ dev'[x].gdpa \/ (r.op = "create" /\ r.phase \in {"up", "failed"}),
           PhaseOK(r), PlaceOK(r)'
    PROVE  DevInv'
  <1>a. FramesInv /\ ListInv /\ LiveInv /\ HandlesInv /\ QueryInv
    BY DEF DevInv
  <1>1. /\ Depth \in {1, 2} /\ Len(frames) = Depth /\ Top = frames[Depth] /\ FrameOK(Top)
        /\ Depth = 2 => /\ FrameOK(frames[1]) /\ frames[1].a # Top.a /\ frames[1].a # None
                        /\ frames[1].op = Top.op
                        /\ frames[1].phase = IF Top.op = "create" THEN "up" ELSE "down"
    BY <1>a, TopFacts
  <1>2. /\ Len(frames') = Len(frames) /\ frames' # <<>> /\ frames'[Depth] = r
        /\ \A i \in 1..Len(frames) : i # Depth => frames'[i] = frames[i]
    BY <1>a, TopChange
  <1>3. x # None
    BY NoneDistinct
  <1>4. DOMAIN dev' = DOMAIN dev \cup {x}
    OBVIOUS
  <1>5. Depth = 2 => frames[1].a # x /\ frames[1].a \in DOMAIN dev
    BY <1>1 DEF FrameOK, OwnOK
  <1>6. x \notin handles /\ \A b \in DOMAIN dev : dev[b].second # x
    <2>1. CASE Top.a = x
      BY <1>1, <1>3, <2>1 DEF FrameOK, OwnOK
    <2>2. CASE Top.a = None
      <3>1. x \notin DOMAIN dev
        BY <2>2
      <3>2. \A d \in Drivers : x \notin Range(list[d])
        BY <1>a, <3>1 DEF ListInv
      <3> QED
        BY <1>a, <1>3, <3>2 DEF HandlesInv, Sound
    <2> QED
      BY <2>1, <2>2
  <1>7. \A b \in DOMAIN dev' : /\ dev'[b].second # x
                               /\ b \in DOMAIN dev => dev'[b].second = dev[b].second
                               /\ b \notin DOMAIN dev => dev'[b].second = None
    <2> SUFFICES ASSUME NEW b \in DOMAIN dev'
                 PROVE  /\ dev'[b].second # x
                        /\ b \in DOMAIN dev => dev'[b].second = dev[b].second
                        /\ b \notin DOMAIN dev => dev'[b].second = None
      OBVIOUS
    <2>1. CASE b = x
      BY <1>3, <1>6, <2>1
    <2>2. CASE b # x
      BY <1>4, <1>6, <2>2
    <2> QED
      BY <2>1, <2>2
  <1>8. FrameOK(r)'
    BY <1>3, <1>4, <1>6, <1>7 DEF FrameOK, OwnOK, PhaseOK
  <1>9. ASSUME Depth = 2 PROVE FrameOK(frames[1])'
    <2>1. frames'[1] = frames[1] /\ frames[1].a # x /\ frames[1].a \in DOMAIN dev
      BY <1>1, <1>2, <1>5, <1>9
    <2>2. dev'[frames[1].a] = dev[frames[1].a]
      BY <2>1
    <2>3. PhaseOK(frames[1])'
      BY <1>1, <1>9, <2>1 DEF FrameOK, PhaseOK
    <2>4. OwnOK(frames[1])'
      BY <1>1, <1>3, <1>4, <1>7, <1>9, <2>1 DEF FrameOK, OwnOK
    <2>5. PlaceOK(frames[1])'
      <3>1. PlaceOK(frames[1])
        BY <1>1, <1>9 DEF FrameOK
      <3>2. \/ frames[1].phase = "up" /\ frames[1].op = "create"
            \/ frames[1].phase = "down" /\ frames[1].op = "destroy"
        <4>1. Top.op \in {"create", "destroy"}
          BY <1>a, TopFacts DEF Frame
        <4> QED
          BY <1>1, <1>9, <4>1
      <3>3. frames[1].d \in Drivers
        BY <1>a, <1>9, TopFacts DEF Frame
      <3>4. PICK g : g = frames[1]
        OBVIOUS
      <3>5. /\ g.a \in Range(list[g.d]) => g.a \in Range(list'[g.d])
            /\ frames'[1] = g /\ dev'[g.a] = dev[g.a]
        BY <2>1, <2>2, <3>3, <3>4
      <3>6. CASE g.phase = "up" /\ g.op = "create"
        <4>1. g.a \in Range(list[g.d]) /\ dev[g.a].icd = "live" /\ ~dev[g.a].gdpa
          BY <3>1, <3>4, <3>6 DEF PlaceOK
        <4> QED
          BY <3>4, <3>5, <3>6, <4>1 DEF PlaceOK
      <3>7. CASE g.phase = "down" /\ g.op = "destroy"
        <4>1. g.a \in Range(list[g.d]) /\ dev[g.a].icd = "live" /\ dev[g.a].gdpa
          BY <3>1, <3>4, <3>7 DEF PlaceOK
        <4> QED
          BY <3>4, <3>5, <3>7, <4>1 DEF PlaceOK
      <3> QED
        BY <3>2, <3>4, <3>6, <3>7
    <2> QED
      BY <2>3, <2>4, <2>5 DEF FrameOK
  <1>10. FramesInv'
    <2>1. \A i \in 1..Len(frames') : FrameOK(frames[i])'
      <3> SUFFICES ASSUME NEW i \in 1..Len(frames') PROVE FrameOK(frames[i])'
        OBVIOUS
      <3>1. CASE i = Depth
        <4>1. frames'[i] = r
          BY <1>2, <3>1
        <4> QED
          BY <1>8, <4>1 DEF FrameOK, PhaseOK, OwnOK, PlaceOK
      <3>2. CASE i # Depth
        <4>1. Depth = 2 /\ i = 1
          BY <1>1, <1>2, <3>2
        <4> QED
          BY <1>9, <4>1
      <3> QED
        BY <3>1, <3>2
    <2>2. Len(frames') = 2 => /\ frames'[1].a # frames'[2].a
                              /\ frames'[2].op = frames'[1].op
                              /\ frames'[1].phase = IF frames'[1].op = "create" THEN "up" ELSE "down"
      <3> SUFFICES ASSUME Len(frames') = 2
                   PROVE  /\ frames'[1].a # frames'[2].a
                          /\ frames'[2].op = frames'[1].op
                          /\ frames'[1].phase = IF frames'[1].op = "create" THEN "up" ELSE "down"
        OBVIOUS
      <3>1. Depth = 2 /\ frames'[2] = r /\ frames'[1] = frames[1]
        BY <1>1, <1>2
      <3> QED
        BY <1>1, <1>5, <3>1
    <2> QED
      BY <1>a, <1>1, <1>2, <2>1, <2>2 DEF FramesInv
  <1>11. ListInv'
    <2>1. ASSUME NEW d \in Drivers, NEW a \in Range(list'[d]) PROVE a \in DOMAIN dev' /\ dev'[a].driver = d
      <3>1. CASE a = x
        BY <1>4, <2>1, <3>1
      <3>2. CASE a # x
        <4>1. a \in Range(list[d])
          BY <3>2
        <4>2. a \in DOMAIN dev /\ dev[a].driver = d
          BY <1>a, <4>1 DEF ListInv
        <4> QED
          BY <1>4, <3>2, <4>2
      <3> QED
        BY <3>1, <3>2
    <2>2. ASSUME NEW a \in DOMAIN dev'
          PROVE  \/ \E d \in Drivers : a \in Range(list'[d])
                 \/ \E i \in 1..Len(frames') : frames'[i].a = a
      <3>1. CASE a = x
        BY <1>1, <1>2, <3>1
      <3>2. CASE a # x
        <4>1. CASE \E d \in Drivers : a \in Range(list[d])
          BY <4>1
        <4>2. CASE \E i \in 1..Len(frames) : frames[i].a = a
          <5>1. PICK i \in 1..Len(frames) : frames[i].a = a
            BY <4>2
          <5>2. a # None
            BY <1>4, <2>2, <3>2, TypeFacts
          <5>3. i # Depth
            BY <1>1, <3>2, <5>1, <5>2
          <5> QED
            BY <1>2, <5>1, <5>3
        <4> QED
          BY <1>a, <1>4, <2>2, <3>2, <4>1, <4>2 DEF ListInv
      <3> QED
        BY <3>1, <3>2
    <2> QED
      BY <2>1, <2>2 DEF ListInv
  <1>12. LiveInv'
    <2> SUFFICES ASSUME NEW d \in Drivers, NEW a \in Range(list'[d])
                 PROVE  /\ \/ dev'[a].icd = "live"
                           \/ \E i \in 1..Len(frames') : frames'[i].a = a /\ frames'[i].phase \in {"failed", "gone"}
                        /\ \/ dev'[a].gdpa
                           \/ \E i \in 1..Len(frames') : /\ frames'[i].a = a /\ frames'[i].op = "create"
                                                         /\ frames'[i].phase \in {"up", "failed"}
      BY DEF LiveInv
    <2>1. CASE a = x
      BY <1>1, <1>2, <2>1
    <2>2. CASE a # x
      <3>1. a \in Range(list[d]) /\ a \in DOMAIN dev
        BY <1>a, <2>2 DEF ListInv
      <3>2. dev'[a] = dev[a] /\ a # None
        BY <2>2, <3>1, TypeFacts
      <3>3. \A i \in 1..Len(frames) : frames[i].a = a => frames'[i] = frames[i] /\ i \in 1..Len(frames')
        BY <1>1, <1>2, <2>2, <3>2
      <3> QED
        BY <1>a, <3>1, <3>2, <3>3 DEF LiveInv
    <2> QED
      BY <2>1, <2>2
  <1>13. HandlesInv'
    <2>1. ASSUME NEW a, a # x, Sound(a) PROVE Sound(a)'
      BY <1>a, <2>1 DEF Sound, ListInv
    <2>2. \A a \in handles' : Sound(a)' /\ \A b \in DOMAIN dev' : dev'[b].second # a
      <3> SUFFICES ASSUME NEW a \in handles' PROVE Sound(a)' /\ \A b \in DOMAIN dev' : dev'[b].second # a
        OBVIOUS
      <3>1. a \in handles /\ a # x /\ a # None
        BY <1>6, NoneDistinct DEF TypeOK
      <3> QED
        BY <1>a, <1>7, <2>1, <3>1 DEF HandlesInv
    <2>3. ASSUME NEW b \in DOMAIN dev', dev'[b].second # None
          PROVE  /\ Sound(dev[b].second)'
                 /\ \A c \in DOMAIN dev' : dev'[c].second = dev'[b].second => c = b
      <3>1. b \in DOMAIN dev /\ dev'[b].second = dev[b].second /\ dev[b].second # x
        BY <1>6, <1>7, <2>3
      <3>2. PICK s : s = dev[b].second
        OBVIOUS
      <3>3. Sound(s)'
        BY <1>a, <2>1, <2>3, <3>1, <3>2 DEF HandlesInv
      <3>4. Sound(dev[b].second)'
        BY <3>1, <3>2, <3>3 DEF Sound
      <3> QED
        BY <1>a, <1>7, <2>3, <3>1, <3>4 DEF HandlesInv
    <2> QED
      BY <2>2, <2>3 DEF HandlesInv
  <1>14. QueryInv'
    BY <1>a DEF QueryInv
  <1> QED
    BY <1>10, <1>11, <1>12, <1>13, <1>14 DEF DevInv

\* The types, for a step that leaves the table of names alone.
LEMMA TypeStep ==
    ASSUME TypeOK, dev' \in [DOMAIN dev' -> Dev], DOMAIN dev' \subseteq DevAddr,
           list' \in [Drivers -> Seq(DevAddr)], frames' \in Seq(Frame), handles' \subseteq DevAddr,
           lock' \in Threads \cup {None}, patched' \subseteq Threads, query' \in [Threads -> Query],
           UNCHANGED <<names, count, given, fault, env>>
    PROVE  TypeOK'
  <1>1. \E A \in SUBSET DevAddr : dev' \in [A -> Dev]
    OBVIOUS
  <1> QED
    BY <1>1 DEF TypeOK

-----------------------------------------------------------------------------
(* Steps of a creation or a destruction on its own device                  *)

\* The loader_device is allocated.
LEMMA CreateDownStep ==
    ASSUME TypeOK, DevInv, NEW t \in Threads, NEW x \in DevAddr \ DOMAIN dev, CreateDown(t, x),
           UNCHANGED <<fault, env>>
    PROVE  TypeOK' /\ DevInv'
  <1>1. /\ At(t, "create", "begin") /\ dev' = With(dev, x, NewDev)
        /\ frames' = [frames EXCEPT ![Depth].a = x, ![Depth].phase = "down"]
        /\ patched' = IF Top.inner THEN patched \cup {t} ELSE patched
        /\ UNCHANGED <<list, handles, lock, query, names, count, given>>
    BY DEF CreateDown, table_vars
  <1>2. /\ frames # <<>> /\ Top.op = "create" /\ Top.phase = "begin"
        /\ Top \in Frame /\ FrameOK(Top) /\ Depth \in 1..Depth
    BY <1>1, TopFacts, TypeFacts DEF At, DevInv
  <1>3. PICK r : r = [Top EXCEPT !.a = x, !.phase = "down"]
    OBVIOUS
  <1>4. /\ r \in Frame /\ r.a = x /\ r.phase = "down" /\ r.op = "create" /\ r.d = Top.d
    BY <1>2, <1>3 DEF Frame, Phases
  <1>5. frames' = [frames EXCEPT ![Depth] = r]
    BY <1>1, <1>3 DEF Top
  <1>6. NewDev \in Dev /\ NewDev.second = None /\ ~NewDev.gdpa
    BY DEF NewDev, Dev
  <1>7. /\ dev' \in [DOMAIN dev \cup {x} -> Dev] /\ dev'[x] = NewDev
        /\ \A b \in DOMAIN dev : b # x => dev'[b] = dev[b]
    BY <1>1, <1>6, TypeFacts DEF With
  <1>8. \A e \in Drivers : x \notin Range(list[e]) /\ IsInjective(list[e])
    BY DEF DevInv, ListInv
  <1>9. Top.a = None
    BY <1>2 DEF FrameOK, PhaseOK
  <1>10. PhaseOK(r)
    BY <1>4, NoneDistinct DEF PhaseOK
  <1>11. PlaceOK(r)'
    BY <1>1, <1>4, <1>6, <1>7, <1>8 DEF PlaceOK
  <1>12. DevInv'
    <2> HIDE DEF NewDev
    <2>1. dev'[x].second = IF x \in DOMAIN dev THEN dev[x].second ELSE None
      BY <1>6, <1>7
    <2> QED
      BY <1>1, <1>2, <1>4, <1>5, <1>7, <1>8, <1>9, <1>10, <1>11, <2>1, LocalStep
  <1>13. TypeOK'
    <2>1. frames' \in Seq(Frame)
      BY <1>2, <1>4, <1>5, TopChange DEF DevInv
    <2>2. dev' \in [DOMAIN dev' -> Dev] /\ DOMAIN dev' \subseteq DevAddr
      BY <1>7, TypeFacts
    <2> QED
      BY <1>1, <2>1, <2>2, TypeStep DEF TypeOK
  <1> QED
    BY <1>12, <1>13

\* A step of the innermost call on its device that only changes the device's
\* own fields and leaves the lists alone.
LEMMA OwnFieldsStep ==
    ASSUME TypeOK, DevInv, NEW r, frames # <<>>, Top.a # None, r \in Frame,
           r.a = Top.a, r.op = Top.op, r.d = Top.d, PhaseOK(r),
           frames' = [frames EXCEPT ![Depth] = r],
           NEW v \in Dev, dev' = [dev EXCEPT ![Top.a] = v], v.second = dev[Top.a].second,
           \A e \in Drivers : Top.a \in Range(list[e]) =>
             /\ v.driver = dev[Top.a].driver
             /\ v.icd = "live" \/ r.phase \in {"failed", "gone"}
             /\ v.gdpa \/ (r.op = "create" /\ r.phase \in {"up", "failed"}),
           patched' \subseteq Threads,
           UNCHANGED <<list, handles, lock, query, names, count, given, fault, env>>,
           r.op = "create" /\ r.phase = "down" => Top.phase = "down",
           r.op = "create" /\ r.phase \in {"down", "up", "failed"} => ~v.gdpa,
           r.op = "create" /\ r.phase \in {"up", "init"} => /\ Top.phase \in {"up", "init"}
                                                            /\ v.icd = "live",
           r.phase = "init" => v.gdpa,
           r.op = "destroy" => v.gdpa,
           r.op = "destroy" /\ r.phase = "down" => v.icd = "live"
    PROVE  TypeOK' /\ DevInv'
  <1>1. Top \in Frame /\ FrameOK(Top) /\ Depth \in 1..Depth
    BY TopFacts, TypeFacts DEF DevInv
  <1>2. PICK x : x = Top.a
    OBVIOUS
  <1>3. x \in DOMAIN dev /\ x \in DevAddr /\ DOMAIN dev \subseteq DevAddr
    BY <1>1, <1>2, TypeFacts DEF FrameOK, OwnOK
  <1>4. /\ dev' \in [DOMAIN dev \cup {x} -> Dev] /\ DOMAIN dev' = DOMAIN dev /\ dev'[x] = v
        /\ \A b \in DOMAIN dev : b # x => dev'[b] = dev[b]
    <2>1. DOMAIN dev \cup {x} = DOMAIN dev
      BY <1>3
    <2>2. dev \in [DOMAIN dev -> Dev]
      BY TypeFacts
    <2> QED
      BY <1>2, <1>3, <2>1, <2>2
  <1>5. \A e \in Drivers : IsInjective(list[e])
    BY DEF DevInv, ListInv
  <1>6. \A e \in Drivers : x \in Range(list[e]) => dev[x].driver = e
    BY DEF DevInv, ListInv
  <1>7. PlaceOK(r)'
    <2>1. PlaceOK(Top) /\ PhaseOK(Top)
      BY <1>1 DEF FrameOK
    <2>2. r.a = x /\ list' = list
      BY <1>2
    <2>3. r.op = "create" /\ r.phase = "down" => \A d \in Drivers : x \notin Range(list[d])
      BY <1>2, <2>1 DEF PlaceOK
    <2>4. r.op = "create" /\ r.phase \in {"up", "init"} => x \in Range(list[r.d])
      BY <1>2, <2>1 DEF PlaceOK
    <2>5. r.op = "destroy" => x \in Range(list[r.d])
      BY <1>2, <2>1 DEF PlaceOK
    <2> QED
      BY <1>4, <2>2, <2>3, <2>4, <2>5 DEF PlaceOK
  <1>8. DevInv'
    BY <1>2, <1>3, <1>4, <1>5, <1>6, <1>7, LocalStep
  <1>9. TypeOK'
    <2>1. frames' \in Seq(Frame)
      BY TopChange DEF DevInv
    <2>2. dev' \in [DOMAIN dev' -> Dev]
      BY <1>3, <1>4
    <2> QED
      BY <1>3, <1>4, <2>1, <2>2, TypeStep DEF TypeOK
  <1> QED
    BY <1>8, <1>9

\* terminator_CreateDevice
LEMMA TerminatorCreateStep ==
    ASSUME TypeOK, DevInv, NEW t \in Threads, TerminatorCreate(t), UNCHANGED <<fault, env>>
    PROVE  TypeOK' /\ DevInv'
  <1>1. /\ At(t, "create", "down")
        /\ dev' = [dev EXCEPT ![Top.a].driver = Top.d, ![Top.a].icd = "live"]
        /\ list' = [list EXCEPT ![Top.d] = <<Top.a>> \o @]
        /\ Goes("up")
        /\ UNCHANGED <<handles, lock, patched, query, names, count, given>>
    BY DEF TerminatorCreate, table_vars
  <1>2. /\ frames # <<>> /\ Top.op = "create" /\ Top.phase = "down"
        /\ Top \in Frame /\ FrameOK(Top) /\ Depth \in 1..Depth
    BY <1>1, TopFacts, TypeFacts DEF At, DevInv
  <1>3. PICK r, x, d : r = [Top EXCEPT !.phase = "up"] /\ x = Top.a /\ d = Top.d
    OBVIOUS
  <1>4. /\ r \in Frame /\ r.a = x /\ r.phase = "up" /\ r.op = "create" /\ r.d = d /\ d \in Drivers
    BY <1>2, <1>3 DEF Frame, Phases
  <1>5. frames' = [frames EXCEPT ![Depth] = r]
    BY <1>1, <1>3 DEF Top, Goes
  <1>6. /\ x # None /\ x \in DOMAIN dev /\ x \in DevAddr /\ ~dev[x].gdpa
        /\ \A e \in Drivers : x \notin Range(list[e])
    BY <1>2, <1>3, TypeFacts DEF FrameOK, PhaseOK, OwnOK, PlaceOK
  <1>7. dev \in [DOMAIN dev -> Dev] /\ DOMAIN dev \subseteq DevAddr /\ dev[x] \in Dev
    BY <1>6, TypeFacts
  <1>8. /\ dev' \in [DOMAIN dev \cup {x} -> Dev] /\ DOMAIN dev' = DOMAIN dev
        /\ \A b \in DOMAIN dev : b # x => dev'[b] = dev[b]
        /\ dev'[x].driver = d /\ dev'[x].icd = "live" /\ dev'[x].second = dev[x].second
        /\ dev'[x].gdpa = dev[x].gdpa
    <2>1. DOMAIN dev \cup {x} = DOMAIN dev
      BY <1>6
    <2>2. dev' = [dev EXCEPT ![x] = [dev[x] EXCEPT !.driver = d, !.icd = "live"]]
      BY <1>1, <1>3, <1>6, <1>7
    <2>3. PICK v : v = [dev[x] EXCEPT !.driver = d, !.icd = "live"]
      OBVIOUS
    <2>4. v \in Dev /\ v.driver = d /\ v.icd = "live" /\ v.second = dev[x].second /\ v.gdpa = dev[x].gdpa
      BY <1>4, <1>7, <2>3 DEF Dev
    <2> QED
      BY <1>6, <1>7, <2>1, <2>2, <2>3, <2>4
  <1>9. /\ list' \in [Drivers -> Seq(DevAddr)]
        /\ \A e \in Drivers : /\ IsInjective(list'[e])
                              /\ Range(list'[e]) = IF e = d THEN Range(list[e]) \cup {x} ELSE Range(list[e])
    <2>1. list \in [Drivers -> Seq(DevAddr)] /\ \A e \in Drivers : IsInjective(list[e])
      BY TypeFacts DEF DevInv, ListInv
    <2>2. list' = [list EXCEPT ![d] = <<x>> \o list[d]]
      BY <1>1, <1>3
    <2>3. /\ <<x>> \o list[d] \in Seq(DevAddr) /\ IsInjective(<<x>> \o list[d])
          /\ Range(<<x>> \o list[d]) = Range(list[d]) \cup {x}
      BY <1>4, <1>6, <2>1, ConsFacts
    <2> QED
      BY <1>4, <2>1, <2>2, <2>3
  <1>10. PhaseOK(r)
    BY <1>4, <1>6 DEF PhaseOK
  <1>11. PlaceOK(r)'
    BY <1>4, <1>6, <1>8, <1>9 DEF PlaceOK
  <1>12. \A e \in Drivers : /\ Range(list[e]) \subseteq Range(list'[e])
                            /\ Range(list'[e]) \subseteq Range(list[e]) \cup {x}
                            /\ x \in Range(list'[e]) => e = d
    BY <1>6, <1>9
  <1>13. DevInv'
    <2>1. dev'[x].second = IF x \in DOMAIN dev THEN dev[x].second ELSE None
      BY <1>6, <1>8
    <2>2. \A e \in Drivers : x \in Range(list'[e]) =>
             /\ dev'[x].driver = e
             /\ dev'[x].icd = "live" \/ r.phase \in {"failed", "gone"}
             /\ dev'[x].gdpa \/ (r.op = "create" /\ r.phase \in {"up", "failed"})
      BY <1>4, <1>8, <1>12
    <2>3. /\ r.a = x /\ r.op = Top.op /\ Top.a \in {None, x} /\ (Top.a = None => x \notin DOMAIN dev)
          /\ UNCHANGED <<handles, lock, query, env>>
      BY <1>1, <1>2, <1>3, <1>4, <1>6
    <2>4. \A e \in Drivers : /\ IsInjective(list'[e]) /\ Range(list[e]) \subseteq Range(list'[e])
                              /\ Range(list'[e]) \subseteq Range(list[e]) \cup {x}
      BY <1>9, <1>12
    <2> QED
      BY <1>2, <1>4, <1>5, <1>6, <1>8, <1>10, <1>11, <2>1, <2>2, <2>3, <2>4, LocalStep
  <1>14. TypeOK'
    <2>1. frames' \in Seq(Frame)
      BY <1>2, <1>4, <1>5, TopChange DEF DevInv
    <2>2. dev' \in [DOMAIN dev' -> Dev]
      BY <1>6, <1>8
    <2> QED
      BY <1>1, <1>7, <1>8, <1>9, <2>1, <2>2, TypeStep DEF TypeOK
  <1> QED
    BY <1>13, <1>14

\* A creation fails before a device exists.
LEMMA TerminatorFailsStep ==
    ASSUME TypeOK, DevInv, NEW t \in Threads, TerminatorFails(t), UNCHANGED <<fault, env>>
    PROVE  TypeOK' /\ DevInv'
  <1>1. /\ At(t, "create", "down")
        /\ dev' \in {dev, [dev EXCEPT ![Top.a].driver = Top.d]}
        /\ Goes("failed")
        /\ UNCHANGED <<list, handles, lock, patched, query, names, count, given>>
    BY DEF TerminatorFails, table_vars
  <1>2. /\ frames # <<>> /\ Top.op = "create" /\ Top.phase = "down"
        /\ Top \in Frame /\ FrameOK(Top) /\ Depth \in 1..Depth
    BY <1>1, TopFacts, TypeFacts DEF At, DevInv
  <1>3. PICK r : r = [Top EXCEPT !.phase = "failed"]
    OBVIOUS
  <1>4. /\ r \in Frame /\ r.a = Top.a /\ r.phase = "failed" /\ r.op = "create" /\ r.d = Top.d /\ Top.d \in Drivers
    BY <1>2, <1>3 DEF Frame, Phases
  <1>5. frames' = [frames EXCEPT ![Depth] = r]
    BY <1>1, <1>3 DEF Top, Goes
  <1>6. /\ Top.a # None /\ Top.a \in DOMAIN dev /\ dev[Top.a] \in Dev /\ ~dev[Top.a].gdpa
        /\ \A e \in Drivers : Top.a \notin Range(list[e])
    BY <1>2, TypeFacts DEF FrameOK, PhaseOK, OwnOK, PlaceOK
  <1>7. PICK v \in {dev[Top.a], [dev[Top.a] EXCEPT !.driver = Top.d]} : dev' = [dev EXCEPT ![Top.a] = v]
    BY <1>1, <1>6, TypeFacts
  <1>8. v \in Dev /\ v.second = dev[Top.a].second /\ ~v.gdpa
    BY <1>4, <1>6, <1>7 DEF Dev
  <1>9. PhaseOK(r)
    BY <1>4, <1>6 DEF PhaseOK
  <1>10. patched' \subseteq Threads
    BY <1>1 DEF TypeOK
  <1> QED
    BY <1>1, <1>2, <1>4, <1>5, <1>6, <1>7, <1>8, <1>9, <1>10, OwnFieldsStep

\* A layer fails a creation on the way up.
LEMMA LayerFailsStep ==
    ASSUME TypeOK, DevInv, NEW t \in Threads, LayerFails(t), UNCHANGED <<fault, env>>
    PROVE  TypeOK' /\ DevInv'
  <1>1. /\ At(t, "create", "up")
        /\ dev' \in {dev, [dev EXCEPT ![Top.a].icd = "dead"]}
        /\ Goes("failed")
        /\ UNCHANGED <<list, handles, lock, patched, query, names, count, given>>
    BY DEF LayerFails, table_vars
  <1>2. /\ frames # <<>> /\ Top.op = "create" /\ Top.phase = "up"
        /\ Top \in Frame /\ FrameOK(Top) /\ Depth \in 1..Depth
    BY <1>1, TopFacts, TypeFacts DEF At, DevInv
  <1>3. PICK r : r = [Top EXCEPT !.phase = "failed"]
    OBVIOUS
  <1>4. /\ r \in Frame /\ r.a = Top.a /\ r.phase = "failed" /\ r.op = "create" /\ r.d = Top.d
    BY <1>2, <1>3 DEF Frame, Phases
  <1>5. frames' = [frames EXCEPT ![Depth] = r]
    BY <1>1, <1>3 DEF Top, Goes
  <1>6. Top.a # None /\ Top.a \in DOMAIN dev /\ dev[Top.a] \in Dev /\ ~dev[Top.a].gdpa
    BY <1>2, TypeFacts DEF FrameOK, PhaseOK, OwnOK, PlaceOK
  <1>7. PICK v \in {dev[Top.a], [dev[Top.a] EXCEPT !.icd = "dead"]} : dev' = [dev EXCEPT ![Top.a] = v]
    BY <1>1, <1>6, TypeFacts
  <1>8. v \in Dev /\ v.second = dev[Top.a].second /\ ~v.gdpa /\ v.driver = dev[Top.a].driver
    BY <1>6, <1>7 DEF Dev
  <1>9. PhaseOK(r)
    BY <1>4, <1>6 DEF PhaseOK
  <1>10. patched' \subseteq Threads
    BY <1>1 DEF TypeOK
  <1> QED
    BY <1>1, <1>2, <1>4, <1>5, <1>6, <1>7, <1>8, <1>9, <1>10, OwnFieldsStep

\* loader_init_device_dispatch_table
LEMMA ChainReturnsStep ==
    ASSUME TypeOK, DevInv, NEW t \in Threads, ChainReturns(t), UNCHANGED <<fault, env>>
    PROVE  TypeOK' /\ DevInv'
  <1>1. /\ At(t, "create", "up")
        /\ dev' = [dev EXCEPT ![Top.a].gdpa = TRUE, ![Top.a].ext = [i \in Slots |-> None]]
        /\ GroupRestored(t) /\ Goes("init")
        /\ UNCHANGED <<list, handles, lock, query, names, count, given>>
    BY DEF ChainReturns, table_vars, TableFilled
  <1>2. /\ frames # <<>> /\ Top.op = "create" /\ Top.phase = "up"
        /\ Top \in Frame /\ FrameOK(Top) /\ Depth \in 1..Depth
    BY <1>1, TopFacts, TypeFacts DEF At, DevInv
  <1>3. PICK r : r = [Top EXCEPT !.phase = "init"]
    OBVIOUS
  <1>4. /\ r \in Frame /\ r.a = Top.a /\ r.phase = "init" /\ r.op = "create" /\ r.d = Top.d
    BY <1>2, <1>3 DEF Frame, Phases
  <1>5. frames' = [frames EXCEPT ![Depth] = r]
    BY <1>1, <1>3 DEF Top, Goes
  <1>6. Top.a # None /\ Top.a \in DOMAIN dev /\ dev[Top.a] \in Dev /\ dev[Top.a].icd = "live"
    BY <1>2, TypeFacts DEF FrameOK, PhaseOK, OwnOK, PlaceOK
  <1>7. PICK v : v = [dev[Top.a] EXCEPT !.gdpa = TRUE, !.ext = [i \in Slots |-> None]]
    OBVIOUS
  <1>a. dev' = [dev EXCEPT ![Top.a] = v]
    BY <1>1, <1>6, <1>7, TypeFacts
  <1>8. v \in Dev /\ v.second = dev[Top.a].second /\ v.gdpa /\ v.driver = dev[Top.a].driver /\ v.icd = "live"
    BY <1>6, <1>7 DEF Dev
  <1>9. PhaseOK(r)
    BY <1>4, <1>6 DEF PhaseOK
  <1>10. patched' \subseteq Threads
    BY <1>1 DEF TypeOK, GroupRestored
  <1> QED
    BY <1>a, <1>1, <1>2, <1>4, <1>5, <1>6, <1>8, <1>9, <1>10, OwnFieldsStep

\* Two states of a device that differ at most in the slots.
SameCore(v, w) == /\ v.driver = w.driver /\ v.icd = w.icd /\ v.gdpa = w.gdpa
                  /\ v.second = w.second

\* loader_init_dispatch_dev_ext_entry writes to a slot of the device alone.
LEMMA InitSlotFacts ==
    ASSUME TypeOK, NEW x \in DOMAIN dev, NEW i \in Slots
    PROVE  \E v \in Dev : /\ InitSlot(x, i) = [dev EXCEPT ![x] = v]
                          /\ SameCore(v, dev[x])
                          /\ v.ext = IF names[i] # None /\ names[i] \in ChainOffers(x)
                                     THEN [dev[x].ext EXCEPT ![i] = names[i]] ELSE dev[x].ext
  <1>1. dev \in [DOMAIN dev -> Dev] /\ dev[x] \in Dev /\ names[i] \in Names \cup {None}
    BY TypeFacts DEF TypeOK
  <1>2. CASE names[i] # None /\ names[i] \in ChainOffers(x)
    <2>1. PICK v : v = [dev[x] EXCEPT !.ext = [dev[x].ext EXCEPT ![i] = names[i]]]
      OBVIOUS
    <2>2. InitSlot(x, i) = [dev EXCEPT ![x] = v]
      BY <1>1, <1>2, <2>1 DEF InitSlot
    <2>3. v \in Dev /\ SameCore(v, dev[x]) /\ v.ext = [dev[x].ext EXCEPT ![i] = names[i]]
      BY <1>1, <2>1 DEF Dev, SameCore
    <2> QED
      BY <1>2, <2>2, <2>3
  <1>3. CASE ~(names[i] # None /\ names[i] \in ChainOffers(x))
    <2>1. InitSlot(x, i) = [dev EXCEPT ![x] = dev[x]]
      BY <1>1, <1>3 DEF InitSlot
    <2>2. SameCore(dev[x], dev[x])
      BY DEF SameCore
    <2> QED
      BY <1>1, <1>3, <2>1, <2>2
  <1> QED
    BY <1>2, <1>3

\* loader_init_dispatch_dev_ext looks at one slot.
LEMMA CreateInitSlotStep ==
    ASSUME TypeOK, DevInv, NEW t \in Threads, CreateInitSlot(t), UNCHANGED <<fault, env>>
    PROVE  TypeOK' /\ DevInv'
  <1>1. /\ At(t, "create", "init") /\ Top.slot < MaxUnknown
        /\ dev' = InitSlot(Top.a, Top.slot)
        /\ frames' = [frames EXCEPT ![Depth].slot = @ + 1]
        /\ UNCHANGED <<list, handles, lock, patched, query, names, count, given>>
    BY DEF CreateInitSlot, table_vars
  <1>2. /\ frames # <<>> /\ Top.op = "create" /\ Top.phase = "init"
        /\ Top \in Frame /\ FrameOK(Top) /\ Depth \in 1..Depth
    BY <1>1, TopFacts, TypeFacts DEF At, DevInv
  <1>3. PICK r : r = [Top EXCEPT !.slot = Top.slot + 1]
    OBVIOUS
  <1>a. Top.slot \in 0..MaxUnknown /\ Top.slot \in Slots /\ Top.slot + 1 \in 0..MaxUnknown
    BY <1>1, <1>2, MaxUnknownAssumption DEF Frame, Slots
  <1>4. /\ r \in Frame /\ r.a = Top.a /\ r.phase = "init" /\ r.op = "create" /\ r.d = Top.d
    BY <1>a, <1>2, <1>3 DEF Frame
  <1>5. frames' = [frames EXCEPT ![Depth] = r]
    BY <1>1, <1>3 DEF Top
  <1>6. Top.a # None /\ Top.a \in DOMAIN dev /\ dev[Top.a].icd = "live" /\ dev[Top.a].gdpa
    BY <1>2 DEF FrameOK, PhaseOK, OwnOK, PlaceOK
  <1>7. PICK v \in Dev : /\ dev' = [dev EXCEPT ![Top.a] = v]
                         /\ v.driver = dev[Top.a].driver /\ v.icd = dev[Top.a].icd
                         /\ v.gdpa = dev[Top.a].gdpa /\ v.second = dev[Top.a].second
    <2>1. PICK x, i : x = Top.a /\ i = Top.slot
      OBVIOUS
    <2>2. x \in DOMAIN dev /\ i \in Slots
      BY <1>a, <1>6, <2>1
    <2>3. PICK v \in Dev : InitSlot(x, i) = [dev EXCEPT ![x] = v] /\ SameCore(v, dev[x])
      BY <2>2, InitSlotFacts
    <2> QED
      BY <1>1, <2>1, <2>3 DEF SameCore
  <1>8. PhaseOK(r)
    BY <1>4, <1>6 DEF PhaseOK
  <1>9. patched' \subseteq Threads
    BY <1>1 DEF TypeOK
  <1> QED
    BY <1>1, <1>2, <1>4, <1>5, <1>6, <1>7, <1>8, <1>9, OwnFieldsStep

\* The driver destroys its device.
LEMMA DriverDestroysStep ==
    ASSUME TypeOK, DevInv, NEW t \in Threads, DriverDestroys(t), UNCHANGED <<fault, env>>
    PROVE  TypeOK' /\ DevInv'
  <1>1. /\ At(t, "destroy", "down")
        /\ dev' = [dev EXCEPT ![Top.a].icd = "dead"]
        /\ Goes("gone")
        /\ UNCHANGED <<list, handles, lock, patched, query, names, count, given>>
    BY DEF DriverDestroys, table_vars
  <1>2. /\ frames # <<>> /\ Top.op = "destroy" /\ Top.phase = "down"
        /\ Top \in Frame /\ FrameOK(Top) /\ Depth \in 1..Depth
    BY <1>1, TopFacts, TypeFacts DEF At, DevInv
  <1>3. PICK r : r = [Top EXCEPT !.phase = "gone"]
    OBVIOUS
  <1>4. /\ r \in Frame /\ r.a = Top.a /\ r.phase = "gone" /\ r.op = "destroy" /\ r.d = Top.d
    BY <1>2, <1>3 DEF Frame, Phases
  <1>5. frames' = [frames EXCEPT ![Depth] = r]
    BY <1>1, <1>3 DEF Top, Goes
  <1>6. Top.a # None /\ Top.a \in DOMAIN dev /\ dev[Top.a] \in Dev /\ dev[Top.a].gdpa
    BY <1>2, TypeFacts DEF FrameOK, PhaseOK, OwnOK, PlaceOK
  <1>7. PICK v : v = [dev[Top.a] EXCEPT !.icd = "dead"]
    OBVIOUS
  <1>a. dev' = [dev EXCEPT ![Top.a] = v]
    BY <1>1, <1>6, <1>7, TypeFacts
  <1>8. v \in Dev /\ v.second = dev[Top.a].second /\ v.gdpa /\ v.driver = dev[Top.a].driver
    BY <1>6, <1>7 DEF Dev
  <1>9. PhaseOK(r)
    BY <1>4, <1>6 DEF PhaseOK
  <1>10. patched' \subseteq Threads
    BY <1>1 DEF TypeOK
  <1>11. \A e \in Drivers : Top.a \in Range(list[e]) =>
            /\ v.driver = dev[Top.a].driver
            /\ v.icd = "live" \/ r.phase \in {"failed", "gone"}
            /\ v.gdpa \/ (r.op = "create" /\ r.phase \in {"up", "failed"})
    BY <1>4, <1>8
  <1>12. UNCHANGED <<list, handles, lock, query, names, count, given, fault, env>>
    BY <1>1
  <1> QED
    BY <1>a, <1>2, <1>4, <1>5, <1>6, <1>8, <1>9, <1>10, <1>11, <1>12, OwnFieldsStep

-----------------------------------------------------------------------------
(* The innermost call returns                                              *)

\* What remains of the calls.
LEMMA PopFacts ==
    ASSUME TypeOK, FramesInv, frames # <<>>, NEW p \in Phases, Pops(p)
    PROVE  /\ frames' \in Seq(Frame)
           /\ Depth = 1 => frames' = <<>> /\ lock' = None /\ Len(frames') = 0
           /\ Depth = 2 => /\ Len(frames') = 1 /\ frames' # <<>> /\ lock' = lock
                           /\ frames'[1] \in Frame /\ frames'[1].phase = p
                           /\ frames'[1].op = frames[1].op /\ frames'[1].a = frames[1].a
                           /\ frames'[1].d = frames[1].d /\ frames'[1].slot = frames[1].slot
           /\ lock' \in Threads \cup {None}
  <1>1. Depth \in {1, 2} /\ (Depth = 2 => frames[1] \in Frame)
    BY TopFacts
  <1>2. CASE Depth = 1
    BY <1>2 DEF Pops
  <1>3. CASE Depth = 2
    <2>1. PICK r : r = [frames[1] EXCEPT !.phase = p]
      OBVIOUS
    <2>2. /\ r \in Frame /\ r.phase = p /\ r.op = frames[1].op /\ r.a = frames[1].a
          /\ r.d = frames[1].d /\ r.slot = frames[1].slot
      BY <1>1, <1>3, <2>1 DEF Frame
    <2>3. frames' = <<r>> /\ lock' = lock
      BY <1>3, <2>1 DEF Pops
    <2>4. frames' \in Seq(Frame) /\ Len(frames') = 1 /\ frames'[1] = r /\ frames' # <<>>
      BY <2>2, <2>3
    <2> QED
      BY <1>3, <2>2, <2>3, <2>4 DEF TypeOK
  <1> QED
    BY <1>1, <1>2, <1>3

\* The device of the innermost call is freed and no longer listed: nobody has
\* its handle, the call around it is on another device, and a walk that is at
\* the device is marked.
LEMMA FreeStep ==
    ASSUME TypeOK, DevInv, frames # <<>>, NEW p \in Phases, Pops(p),
           Top.a # None, p = IF Top.op = "create" THEN "failed" ELSE "down",
           list' \in [Drivers -> Seq(DevAddr)],
           \A e \in Drivers : IsInjective(list'[e]) /\ Range(list'[e]) = Range(list[e]) \ {Top.a},
           Freed(Top.a), UNCHANGED <<handles, patched, names, count, given, fault, env>>
    PROVE  TypeOK' /\ DevInv'
  <1>a. FramesInv /\ ListInv /\ LiveInv /\ HandlesInv /\ QueryInv
    BY DEF DevInv
  <1>1. PICK x : x = Top.a
    OBVIOUS
  <1>2. /\ Depth \in {1, 2} /\ Len(frames) = Depth /\ Top = frames[Depth] /\ FrameOK(Top) /\ Top \in Frame
        /\ Depth = 2 => /\ frames[1] \in Frame /\ FrameOK(frames[1]) /\ frames[1].a # x /\ frames[1].a # None
                        /\ frames[1].op = Top.op
                        /\ frames[1].phase = IF Top.op = "create" THEN "up" ELSE "down"
    BY <1>a, <1>1, TopFacts
  <1>3. /\ frames' \in Seq(Frame) /\ lock' \in Threads \cup {None}
        /\ Depth = 1 => frames' = <<>> /\ lock' = None /\ Len(frames') = 0
        /\ Depth = 2 => /\ Len(frames') = 1 /\ frames' # <<>> /\ lock' = lock
                        /\ frames'[1].phase = p
                        /\ frames'[1].op = frames[1].op /\ frames'[1].a = frames[1].a
                        /\ frames'[1].d = frames[1].d
    BY <1>a, PopFacts
  <1>4. /\ x \in DOMAIN dev /\ x \notin handles /\ \A b \in DOMAIN dev : dev[b].second # x
    BY <1>1, <1>2 DEF FrameOK, OwnOK
  <1>5. /\ dev' \in [DOMAIN dev \ {x} -> Dev] /\ DOMAIN dev' = DOMAIN dev \ {x} /\ DOMAIN dev \subseteq DevAddr
        /\ \A b \in DOMAIN dev' : dev'[b] = dev[b]
    BY <1>1, TypeFacts DEF Freed, Without
  <1>6. /\ query' \in [Threads -> Query]
        /\ \A t \in Threads : /\ query'[t].a = query[t].a /\ query'[t].d = query[t].d
                              /\ query'[t].f = query[t].f
                              /\ query'[t].freed = (query[t].freed \/ query[t].a = x)
                              /\ query[t] = NoQuery => query'[t] = NoQuery
    <2>1. query \in [Threads -> Query] /\ query' = [t \in Threads |-> [query[t] EXCEPT !.freed = @ \/ query[t].a = x]]
      BY <1>1 DEF TypeOK, Freed
    <2>2. x # None
      BY <1>1
    <2>3. ASSUME NEW t \in Threads
          PROVE  /\ query'[t] \in Query
                 /\ query'[t].a = query[t].a /\ query'[t].d = query[t].d /\ query'[t].f = query[t].f
                 /\ query'[t].freed = (query[t].freed \/ query[t].a = x)
                 /\ query[t] = NoQuery => query'[t] = NoQuery
      <3>1. PICK b : b = (query[t].freed \/ query[t].a = x)
        OBVIOUS
      <3>2. b \in BOOLEAN
        BY <3>1
      <3>3. query'[t] = [query[t] EXCEPT !.freed = b] /\ query[t] \in Query
        BY <2>1, <3>1
      <3>4. /\ query'[t] \in Query
            /\ query'[t].a = query[t].a /\ query'[t].d = query[t].d /\ query'[t].f = query[t].f
            /\ query'[t].freed = b
        BY <3>2, <3>3 DEF Query
      <3>5. query[t] = NoQuery => query[t].freed = FALSE /\ query[t].a = None
        BY DEF NoQuery
      <3>6. query[t] = NoQuery => b = FALSE
        BY <2>2, <3>1, <3>5
      <3>7. query[t] = NoQuery => query'[t] = NoQuery
        <4> SUFFICES ASSUME query[t] = NoQuery PROVE query'[t] = NoQuery
          OBVIOUS
        <4>1. query'[t] = [query[t] EXCEPT !.freed = query[t].freed]
          BY <3>3, <3>5, <3>6
        <4>2. [query[t] EXCEPT !.freed = query[t].freed] = query[t]
          BY <3>3 DEF Query
        <4> QED
          BY <4>1, <4>2
      <3> QED
        BY <3>1, <3>4, <3>7
    <2> QED
      BY <2>1, <2>3
  <1>7. \A d \in Drivers : \A a \in Range(list'[d]) : a \in Range(list[d]) /\ a # x /\ a \in DOMAIN dev'
    BY <1>a, <1>1, <1>5 DEF ListInv
  <1>8. TypeOK'
    <2>1. handles' \subseteq DevAddr /\ patched' \subseteq Threads
      BY DEF TypeOK
    <2>2. dev' \in [DOMAIN dev' -> Dev] /\ DOMAIN dev' \subseteq DevAddr
      BY <1>5
    <2> QED
      BY <1>3, <1>6, <2>1, <2>2, TypeStep
  <1>9. ASSUME Depth = 2 PROVE FrameOK(frames[1])'
    <2>1. /\ frames[1].a \in DOMAIN dev' /\ dev'[frames[1].a] = dev[frames[1].a]
          /\ frames[1].d \in Drivers /\ frames[1].op \in {"create", "destroy"}
      BY <1>2, <1>5, <1>9 DEF FrameOK, OwnOK, Frame
    <2>2. PhaseOK(frames[1])'
      BY <1>2, <1>3, <1>9, <2>1 DEF FrameOK, PhaseOK
    <2>3. OwnOK(frames[1])'
      BY <1>2, <1>3, <1>5, <1>9, <2>1 DEF FrameOK, OwnOK
    <2>4. PlaceOK(frames[1])'
      <3>1. CASE Top.op = "create"
        <4>1. frames'[1].op = "create" /\ frames'[1].phase = "failed" /\ ~dev[frames[1].a].gdpa
          BY <1>2, <1>3, <1>9, <3>1 DEF FrameOK, PlaceOK
        <4> QED
          BY <1>3, <1>9, <2>1, <4>1 DEF PlaceOK
      <3>2. CASE Top.op = "destroy"
        <4>1. /\ frames'[1].op = "destroy" /\ frames'[1].phase = "down"
              /\ frames[1].a \in Range(list[frames[1].d]) /\ dev[frames[1].a].gdpa
              /\ dev[frames[1].a].icd = "live"
          BY <1>2, <1>3, <1>9, <3>2 DEF FrameOK, PlaceOK
        <4>2. frames[1].a \in Range(list'[frames[1].d])
          BY <1>1, <1>2, <1>9, <2>1, <4>1
        <4> QED
          BY <1>3, <1>9, <2>1, <4>1, <4>2 DEF PlaceOK
      <3> QED
        BY <1>2, <1>9, <2>1, <3>1, <3>2
    <2> QED
      BY <2>2, <2>3, <2>4 DEF FrameOK
  <1>10. FramesInv'
    <2>1. CASE Depth = 1
      BY <1>3, <2>1 DEF FramesInv
    <2>2. CASE Depth = 2
      <3>1. Len(frames') = 1 /\ frames' # <<>> /\ lock' = lock
        BY <1>3, <2>2
      <3>2. \A i \in 1..Len(frames') : i = 1
        BY <3>1
      <3>3. \A i \in 1..Len(frames') : FrameOK(frames[i])'
        BY <1>9, <2>2, <3>2
      <3> QED
        BY <1>a, <3>1, <3>3 DEF FramesInv
    <2> QED
      BY <1>2, <2>1, <2>2
  <1>11. \A i \in 1..Len(frames) : frames[i].a # x => Depth = 2 /\ i = 1 /\ 1 \in 1..Len(frames')
    BY <1>1, <1>2, <1>3
  <1>12. ListInv'
    <2>1. ASSUME NEW a \in DOMAIN dev'
          PROVE  \/ \E d \in Drivers : a \in Range(list'[d])
                 \/ \E i \in 1..Len(frames') : frames'[i].a = a
      <3>1. a # x /\ a \in DOMAIN dev
        BY <1>5, <2>1
      <3>2. CASE \E d \in Drivers : a \in Range(list[d])
        BY <1>1, <3>1, <3>2
      <3>3. CASE \E i \in 1..Len(frames) : frames[i].a = a
        BY <1>3, <1>11, <3>1, <3>3
      <3> QED
        BY <1>a, <3>1, <3>2, <3>3 DEF ListInv
    <2>2. \A d \in Drivers : \A a \in Range(list'[d]) : a \in DOMAIN dev' /\ dev'[a].driver = d
      BY <1>a, <1>5, <1>7 DEF ListInv
    <2> QED
      BY <2>1, <2>2 DEF ListInv
  <1>13. LiveInv'
    <2> SUFFICES ASSUME NEW d \in Drivers, NEW a \in Range(list'[d])
                 PROVE  /\ dev'[a].icd = "live"
                        /\ \/ dev'[a].gdpa
                           \/ \E i \in 1..Len(frames') : /\ frames'[i].a = a /\ frames'[i].op = "create"
                                                         /\ frames'[i].phase \in {"up", "failed"}
      BY DEF LiveInv
    <2>1. a \in Range(list[d]) /\ a # x /\ dev'[a] = dev[a]
      BY <1>5, <1>7
    <2>2. \A i \in 1..Len(frames) : frames[i].a = a => /\ frames[i].phase \notin {"failed", "gone"}
                                                       /\ 1 \in 1..Len(frames') /\ frames'[1].a = a
                                                       /\ frames[i].op = frames'[1].op
                                                       /\ frames'[1].op = "create" => frames'[1].phase = "failed"
      BY <1>2, <1>3, <1>11, <2>1
    <2> QED
      BY <1>a, <2>1, <2>2 DEF LiveInv
  <1>14. HandlesInv'
    <2>1. ASSUME NEW a, a # x, Sound(a) PROVE Sound(a)'
      <3>1. PICK d \in Drivers : a \in Range(list[d])
        BY <2>1 DEF Sound
      <3>2. a \in Range(list'[d])
        BY <1>1, <2>1, <3>1
      <3>3. a \in DOMAIN dev'
        BY <1>7, <3>2
      <3> QED
        BY <1>5, <2>1, <3>2, <3>3 DEF Sound
    <2>2. ASSUME NEW a \in handles' PROVE Sound(a)' /\ \A b \in DOMAIN dev' : dev'[b].second # a
      BY <1>a, <1>4, <1>5, <2>1, <2>2 DEF HandlesInv
    <2>3. ASSUME NEW b \in DOMAIN dev', dev'[b].second # None
          PROVE  /\ Sound(dev[b].second)'
                 /\ \A c \in DOMAIN dev' : dev'[c].second = dev'[b].second => c = b
      <3>1. b \in DOMAIN dev /\ dev'[b] = dev[b] /\ dev[b].second # x
        BY <1>4, <1>5, <2>3
      <3>2. PICK s : s = dev[b].second
        OBVIOUS
      <3>3. Sound(s)'
        BY <1>a, <2>1, <2>3, <3>1, <3>2 DEF HandlesInv
      <3>4. Sound(dev[b].second)'
        BY <3>1, <3>2, <3>3 DEF Sound
      <3> QED
        BY <1>a, <1>5, <2>3, <3>1, <3>4 DEF HandlesInv
    <2> QED
      BY <2>2, <2>3 DEF HandlesInv
  <1>15. QueryInv'
    <2> SUFFICES ASSUME NEW t \in Threads
                 PROVE  /\ query'[t] # NoQuery => t \in env.queries /\ query'[t].f \in Names
                        /\ query'[t].a # None => /\ query'[t].d \in Drivers
                                                 /\ query'[t].freed \/ query'[t].a \in Range(list'[query'[t].d])
      BY DEF QueryInv
    <2> QED
      BY <1>a, <1>1, <1>6 DEF QueryInv
  <1> QED
    BY <1>8, <1>10, <1>12, <1>13, <1>14, <1>15 DEF DevInv

\* loader_destroy_logical_device after a failed creation.
LEMMA CreateCleanupStep ==
    ASSUME TypeOK, DevInv, NEW t \in Threads, CreateCleanup(t), UNCHANGED <<fault, env>>
    PROVE  TypeOK' /\ DevInv'
  <1>1. /\ At(t, "create", "failed") /\ list' = CleanedList(Top.a) /\ Freed(Top.a) /\ Pops("failed")
        /\ UNCHANGED <<handles, patched, names, count, given>>
    BY DEF CreateCleanup
  <1>2. frames # <<>> /\ Top.op = "create" /\ Top.a # None
    BY <1>1, TopFacts DEF At, DevInv, FrameOK, PhaseOK
  <1>3. PICK x : x = Top.a
    OBVIOUS
  <1>4. /\ CleanedList(x) \in [Drivers -> Seq(DevAddr)]
        /\ \A e \in Drivers : IsInjective(CleanedList(x)[e]) /\ Range(CleanedList(x)[e]) = Range(list[e]) \ {x}
    BY CleanedFacts DEF DevInv
  <1>5. "failed" \in Phases
    BY DEF Phases
  <1> QED
    BY <1>1, <1>2, <1>3, <1>4, <1>5, FreeStep

\* vkDestroyDevice removes the device and frees it.
LEMMA DestroyRemoveStep ==
    ASSUME TypeOK, DevInv, NEW t \in Threads, DestroyRemove(t), UNCHANGED <<fault, env>>
    PROVE  TypeOK' /\ DevInv'
  <1>1. /\ At(t, "destroy", "gone") /\ list' = Removed(Top.a, Top.d) /\ Freed(Top.a) /\ Pops("down")
        /\ UNCHANGED <<handles, patched, names, count, given>>
    BY DEF DestroyRemove
  <1>2. /\ frames # <<>> /\ Top.op = "destroy" /\ Top.a # None /\ Top.d \in Drivers
        /\ Top.a \in Range(list[Top.d])
    BY <1>1, TopFacts DEF At, DevInv, FrameOK, PhaseOK, PlaceOK, Frame
  <1>3. PICK x, d : x = Top.a /\ d = Top.d
    OBVIOUS
  <1>4. /\ Removed(x, d) \in [Drivers -> Seq(DevAddr)]
        /\ \A e \in Drivers : IsInjective(Removed(x, d)[e]) /\ Range(Removed(x, d)[e]) = Range(list[e]) \ {x}
    BY <1>2, <1>3, RemovedFacts DEF DevInv
  <1>5. "down" \in Phases
    BY DEF Phases
  <1> QED
    BY <1>1, <1>2, <1>3, <1>4, <1>5, FreeStep

\* A creation is refused before there is a device.
LEMMA CreateRefusedStep ==
    ASSUME TypeOK, DevInv, NEW t \in Threads, CreateRefused(t), UNCHANGED <<fault, env>>
    PROVE  TypeOK' /\ DevInv'
  <1>a. FramesInv /\ ListInv /\ LiveInv /\ HandlesInv /\ QueryInv
    BY DEF DevInv
  <1>1. /\ At(t, "create", "begin") /\ Pops("failed")
        /\ UNCHANGED <<dev, list, handles, patched, names, count, given, query>>
    BY DEF CreateRefused, table_vars
  <1>2. /\ Depth \in {1, 2} /\ Len(frames) = Depth /\ Top = frames[Depth] /\ FrameOK(Top)
        /\ frames # <<>> /\ Top.op = "create" /\ Top.phase = "begin" /\ Top.a = None
        /\ Depth = 2 => /\ frames[1] \in Frame /\ FrameOK(frames[1]) /\ frames[1].a # None
                        /\ frames[1].op = "create" /\ frames[1].phase = "up"
    BY <1>a, <1>1, TopFacts DEF At, FrameOK, PhaseOK
  <1>3. /\ frames' \in Seq(Frame) /\ lock' \in Threads \cup {None}
        /\ Depth = 1 => frames' = <<>> /\ lock' = None /\ Len(frames') = 0
        /\ Depth = 2 => /\ Len(frames') = 1 /\ frames' # <<>> /\ lock' = lock
                        /\ frames'[1].phase = "failed"
                        /\ frames'[1].op = frames[1].op /\ frames'[1].a = frames[1].a
                        /\ frames'[1].d = frames[1].d
    BY <1>a, <1>1, <1>2, PopFacts DEF Phases
  <1>4. TypeOK'
    <2>1. /\ handles' \subseteq DevAddr /\ patched' \subseteq Threads /\ query' \in [Threads -> Query]
          /\ list' \in [Drivers -> Seq(DevAddr)]
      BY <1>1 DEF TypeOK
    <2>2. dev' \in [DOMAIN dev' -> Dev] /\ DOMAIN dev' \subseteq DevAddr
      BY <1>1, TypeFacts
    <2> QED
      BY <1>1, <1>3, <2>1, <2>2, TypeStep
  <1>5. FramesInv'
    <2>1. CASE Depth = 1
      BY <1>3, <2>1 DEF FramesInv
    <2>2. CASE Depth = 2
      <3>1. FrameOK(frames[1])'
        BY <1>1, <1>2, <1>3, <2>2 DEF FrameOK, PhaseOK, OwnOK, PlaceOK
      <3>2. Len(frames') = 1 /\ frames' # <<>> /\ lock' = lock
        BY <1>3, <2>2
      <3>3. \A i \in 1..Len(frames') : i = 1
        BY <3>2
      <3>4. \A i \in 1..Len(frames') : FrameOK(frames[i])'
        BY <3>1, <3>3
      <3> QED
        BY <1>a, <1>2, <3>2, <3>4 DEF FramesInv
    <2> QED
      BY <1>2, <2>1, <2>2
  <1>6. \A i \in 1..Len(frames) : frames[i].a # None => Depth = 2 /\ i = 1 /\ 1 \in 1..Len(frames')
    BY <1>2, <1>3
  <1>7. ListInv'
    <2>1. \A a \in DOMAIN dev : a # None
      BY TypeFacts
    <2> QED
      BY <1>a, <1>1, <1>3, <1>6, <2>1 DEF ListInv
  <1>8. LiveInv'
    <2>1. \A d \in Drivers : \A a \in Range(list[d]) : a # None
      BY TypeFacts
    <2> QED
      BY <1>a, <1>1, <1>2, <1>3, <1>6, <2>1 DEF LiveInv
  <1>9. HandlesInv'
    BY <1>a, <1>1 DEF HandlesInv, Sound
  <1>10. QueryInv'
    <2>1. lock' \in {lock, None} /\ None \notin Threads
      BY <1>2, <1>3, NoneDistinct
    <2> QED
      BY <1>a, <1>1, <2>1 DEF QueryInv
  <1> QED
    BY <1>4, <1>5, <1>7, <1>8, <1>9, <1>10 DEF DevInv

\* A creation succeeds: the application has the handle, or the layer.
LEMMA CreateDoneStep ==
    ASSUME TypeOK, DevInv, NEW t \in Threads, CreateDone(t), UNCHANGED <<fault, env>>
    PROVE  TypeOK' /\ DevInv'
  <1>a. FramesInv /\ ListInv /\ LiveInv /\ HandlesInv /\ QueryInv
    BY DEF DevInv
  <1>1. /\ At(t, "create", "init") /\ Pops("up")
        /\ IF Depth = 1
           THEN handles' = handles \cup {Top.a} /\ dev' = dev
           ELSE handles' = handles /\ dev' = [dev EXCEPT ![frames[1].a].second = Top.a]
        /\ UNCHANGED <<list, patched, names, count, given, query>>
    BY DEF CreateDone, table_vars
  <1>2. /\ Depth \in {1, 2} /\ Len(frames) = Depth /\ Top = frames[Depth] /\ FrameOK(Top) /\ Top \in Frame
        /\ frames # <<>> /\ Top.op = "create" /\ Top.phase = "init"
        /\ Depth = 2 => /\ frames[1] \in Frame /\ FrameOK(frames[1]) /\ frames[1].a # None
                        /\ frames[1].a # Top.a /\ frames[1].op = "create" /\ frames[1].phase = "up"
    BY <1>a, <1>1, TopFacts DEF At
  <1>3. /\ frames' \in Seq(Frame) /\ lock' \in Threads \cup {None}
        /\ Depth = 1 => frames' = <<>> /\ lock' = None /\ Len(frames') = 0
        /\ Depth = 2 => /\ Len(frames') = 1 /\ frames' # <<>> /\ lock' = lock
                        /\ frames'[1].phase = "up"
                        /\ frames'[1].op = frames[1].op /\ frames'[1].a = frames[1].a
                        /\ frames'[1].d = frames[1].d
    BY <1>a, <1>1, <1>2, PopFacts DEF Phases
  <1>4. PICK x, y : x = Top.a /\ y = frames[1].a
    OBVIOUS
  <1>5. /\ x # None /\ x \in DOMAIN dev /\ x \in DevAddr /\ x \notin handles /\ Sound(x)
        /\ \A b \in DOMAIN dev : dev[b].second # x
    BY <1>2, <1>4, TypeFacts DEF FrameOK, PhaseOK, OwnOK, PlaceOK, Sound, Frame
  <1>6. Depth = 2 => y # x /\ y \in DOMAIN dev /\ y \notin handles /\ \A b \in DOMAIN dev : dev[b].second # y
    BY <1>2, <1>4 DEF FrameOK, OwnOK
  <1>7. /\ dev' \in [DOMAIN dev -> Dev] /\ DOMAIN dev' = DOMAIN dev /\ DOMAIN dev \subseteq DevAddr
        /\ \A b \in DOMAIN dev : /\ dev'[b].driver = dev[b].driver /\ dev'[b].icd = dev[b].icd
                                 /\ dev'[b].gdpa = dev[b].gdpa
                                 /\ dev'[b].second = IF Depth = 2 /\ b = y THEN x ELSE dev[b].second
    <2>1. dev \in [DOMAIN dev -> Dev] /\ DOMAIN dev \subseteq DevAddr
      BY TypeFacts
    <2>2. CASE Depth = 1
      BY <1>1, <2>1, <2>2
    <2>3. CASE Depth = 2
      <3>1. dev' = [dev EXCEPT ![y] = [dev[y] EXCEPT !.second = x]]
        BY <1>1, <1>4, <1>6, <2>1, <2>3
      <3>2. PICK v : v = [dev[y] EXCEPT !.second = x]
        OBVIOUS
      <3>3. /\ v \in Dev /\ v.driver = dev[y].driver /\ v.icd = dev[y].icd /\ v.gdpa = dev[y].gdpa
            /\ v.second = x
        BY <1>5, <1>6, <2>1, <2>3, <3>2 DEF Dev
      <3> QED
        BY <1>6, <2>1, <2>3, <3>1, <3>2, <3>3
    <2> QED
      BY <1>2, <2>2, <2>3
  <1>8. handles' = IF Depth = 1 THEN handles \cup {x} ELSE handles
    BY <1>1, <1>4
  <1>9. TypeOK'
    <2>1. /\ handles' \subseteq DevAddr /\ patched' \subseteq Threads /\ query' \in [Threads -> Query]
          /\ list' \in [Drivers -> Seq(DevAddr)]
      BY <1>1, <1>5, <1>8 DEF TypeOK
    <2>2. dev' \in [DOMAIN dev' -> Dev] /\ DOMAIN dev' \subseteq DevAddr
      BY <1>7
    <2> QED
      BY <1>1, <1>3, <2>1, <2>2, TypeStep
  <1>10. FramesInv'
    <2>1. CASE Depth = 1
      BY <1>3, <2>1 DEF FramesInv
    <2>2. CASE Depth = 2
      <3>1. frames'[1].a = y /\ frames'[1].op = "create" /\ frames'[1].phase = "up" /\ frames'[1].d = frames[1].d
        BY <1>2, <1>3, <1>4, <2>2
      <3>2. PhaseOK(frames[1])'
        BY <1>2, <1>4, <2>2, <3>1 DEF PhaseOK
      <3>3. OwnOK(frames[1])'
        BY <1>6, <1>7, <1>8, <2>2, <3>1 DEF OwnOK
      <3>4. PlaceOK(frames[1])'
        <4>1. ~dev[y].gdpa /\ y \in Range(list[frames[1].d]) /\ dev[y].icd = "live"
          BY <1>2, <1>4, <2>2 DEF FrameOK, PlaceOK
        <4> QED
          BY <1>1, <1>6, <1>7, <2>2, <3>1, <4>1 DEF PlaceOK
      <3>5. Len(frames') = 1 /\ frames' # <<>> /\ lock' = lock
        BY <1>3, <2>2
      <3>6. \A i \in 1..Len(frames') : i = 1
        BY <3>5
      <3>7. \A i \in 1..Len(frames') : FrameOK(frames[i])'
        BY <3>2, <3>3, <3>4, <3>6 DEF FrameOK
      <3> QED
        BY <1>a, <1>2, <3>5, <3>7 DEF FramesInv
    <2> QED
      BY <1>2, <2>1, <2>2
  <1>11. \A i \in 1..Len(frames) : frames[i].a # x => Depth = 2 /\ i = 1 /\ 1 \in 1..Len(frames')
    BY <1>2, <1>3, <1>4
  <1>12. ListInv'
    <2>1. ASSUME NEW a \in DOMAIN dev'
          PROVE  \/ \E d \in Drivers : a \in Range(list'[d])
                 \/ \E i \in 1..Len(frames') : frames'[i].a = a
      <3>1. CASE \E d \in Drivers : a \in Range(list[d])
        BY <1>1, <3>1
      <3>2. CASE a # x /\ \E i \in 1..Len(frames) : frames[i].a = a
        BY <1>3, <1>11, <3>2
      <3>3. CASE a = x
        BY <1>1, <1>5, <3>3 DEF Sound
      <3> QED
        BY <1>a, <1>7, <2>1, <3>1, <3>2, <3>3 DEF ListInv
    <2> QED
      BY <1>a, <1>1, <1>7, <2>1 DEF ListInv
  <1>13. LiveInv'
    <2> SUFFICES ASSUME NEW d \in Drivers, NEW a \in Range(list[d])
                 PROVE  /\ dev'[a].icd = "live"
                        /\ \/ dev'[a].gdpa
                           \/ \E i \in 1..Len(frames') : /\ frames'[i].a = a /\ frames'[i].op = "create"
                                                         /\ frames'[i].phase \in {"up", "failed"}
      BY <1>1 DEF LiveInv
    <2>1. a \in DOMAIN dev /\ dev'[a].icd = dev[a].icd /\ dev'[a].gdpa = dev[a].gdpa
      BY <1>a, <1>7 DEF ListInv
    <2>2. CASE a = x
      BY <1>5, <2>1, <2>2 DEF Sound
    <2>3. CASE a # x
      BY <1>a, <1>2, <1>3, <1>11, <2>1, <2>3 DEF LiveInv
    <2> QED
      BY <2>2, <2>3
  <1>14. HandlesInv'
    <2>1. ASSUME NEW a, Sound(a) PROVE Sound(a)'
      BY <1>a, <1>1, <1>7, <2>1 DEF Sound, ListInv
    <2>2. ASSUME NEW a \in handles' PROVE Sound(a)' /\ \A b \in DOMAIN dev' : dev'[b].second # a
      BY <1>a, <1>2, <1>5, <1>7, <1>8, <2>1, <2>2 DEF HandlesInv
    <2>3. ASSUME NEW b \in DOMAIN dev', dev'[b].second # None
          PROVE  /\ Sound(dev[b].second)'
                 /\ \A c \in DOMAIN dev' : dev'[c].second = dev'[b].second => c = b
      <3>1. PICK s : s = dev'[b].second
        OBVIOUS
      <3>2. Sound(s)'
        BY <1>a, <1>5, <1>7, <2>1, <2>3, <3>1 DEF HandlesInv
      <3>3. Sound(dev[b].second)'
        BY <3>1, <3>2 DEF Sound
      <3>4. \A c \in DOMAIN dev' : dev'[c].second = dev'[b].second => c = b
        BY <1>a, <1>5, <1>7, <2>3 DEF HandlesInv
      <3> QED
        BY <3>3, <3>4
    <2> QED
      BY <2>2, <2>3 DEF HandlesInv
  <1>15. QueryInv'
    <2>1. lock' \in {lock, None} /\ None \notin Threads
      BY <1>2, <1>3, NoneDistinct
    <2> QED
      BY <1>a, <1>1, <2>1 DEF QueryInv
  <1> QED
    BY <1>9, <1>10, <1>12, <1>13, <1>14, <1>15 DEF DevInv

-----------------------------------------------------------------------------
(* A call begins                                                           *)

\* The application's vkCreateDevice
LEMMA CreateBeginStep ==
    ASSUME TypeOK, DevInv, NEW t \in Threads, t \in env.devices, NEW d \in Drivers, NEW inner \in BOOLEAN,
           CreateBegin(t, d, inner), UNCHANGED <<fault, env>>
    PROVE  TypeOK' /\ DevInv'
  <1>a. FramesInv /\ ListInv /\ LiveInv /\ HandlesInv /\ QueryInv
    BY DEF DevInv
  <1>1. /\ lock = None /\ query[t] = NoQuery /\ lock' = t /\ frames' = <<Creating(d, inner)>>
        /\ patched' = patched \ {t}
        /\ UNCHANGED <<dev, list, handles, names, count, given, query>>
    BY DEF CreateBegin, table_vars
  <1>2. frames = <<>> /\ Len(frames) = 0 /\ t # None
    BY <1>a, <1>1, NoneDistinct DEF FramesInv
  <1>3. PICK r : r = Creating(d, inner)
    OBVIOUS
  <1>4. r \in Frame /\ r.op = "create" /\ r.phase = "begin" /\ r.a = None
    BY <1>3, MaxUnknownAssumption DEF Creating, Frame, Phases
  <1>5. frames' \in Seq(Frame) /\ Len(frames') = 1 /\ frames'[1] = r /\ frames' # <<>>
    BY <1>1, <1>3, <1>4
  <1>6. TypeOK'
    <2>1. /\ handles' \subseteq DevAddr /\ patched' \subseteq Threads /\ query' \in [Threads -> Query]
          /\ list' \in [Drivers -> Seq(DevAddr)] /\ lock' \in Threads \cup {None}
      BY <1>1 DEF TypeOK
    <2>2. dev' \in [DOMAIN dev' -> Dev] /\ DOMAIN dev' \subseteq DevAddr
      BY <1>1, TypeFacts
    <2> QED
      BY <1>1, <1>5, <2>1, <2>2, TypeStep
  <1>7. FrameOK(r)'
    BY <1>4 DEF FrameOK, PhaseOK, OwnOK, PlaceOK
  <1>8. FramesInv'
    <2>1. \A i \in 1..Len(frames') : i = 1
      BY <1>5
    <2>2. FrameOK(frames[1])'
      BY <1>5, <1>7 DEF FrameOK, PhaseOK, OwnOK, PlaceOK
    <2>3. \A i \in 1..Len(frames') : FrameOK(frames[i])'
      BY <2>1, <2>2
    <2> QED
      BY <1>1, <1>2, <1>5, <2>3 DEF FramesInv
  <1>9. ListInv' /\ LiveInv'
    BY <1>a, <1>1, <1>2 DEF ListInv, LiveInv
  <1>10. HandlesInv'
    BY <1>a, <1>1 DEF HandlesInv, Sound
  <1>11. QueryInv'
    BY <1>a, <1>1 DEF QueryInv
  <1> QED
    BY <1>6, <1>8, <1>9, <1>10, <1>11 DEF DevInv

\* A second call inside the first.
LEMMA PushFacts ==
    ASSUME NEW S, NEW s \in Seq(S), NEW r \in S, NEW q, q = Append(s, r)
    PROVE  /\ q \in Seq(S) /\ Len(q) = Len(s) + 1 /\ q # <<>>
           /\ \A i \in 1..Len(s) : q[i] = s[i]
           /\ q[Len(s) + 1] = r
  <1>1. q \in Seq(S)
    BY AppendProperties
  <1>2. Len(q) = Len(s) + 1
    OBVIOUS
  <1>3. q[Len(s) + 1] = r
    OBVIOUS
  <1>4. \A i \in 1..Len(s) : q[i] = s[i]
    OBVIOUS
  <1>5. q # <<>>
    BY <1>2
  <1> QED
    BY <1>1, <1>2, <1>3, <1>4, <1>5

\* A layer's own vkCreateDevice, inside the application's.
LEMMA LayerCreateBeginStep ==
    ASSUME TypeOK, DevInv, NEW t \in Threads, NEW d \in Drivers,
           LayerCreateBegin(t, d), UNCHANGED <<fault, env>>
    PROVE  TypeOK' /\ DevInv'
  <1>a. FramesInv /\ ListInv /\ LiveInv /\ HandlesInv /\ QueryInv
    BY DEF DevInv
  <1>1. /\ At(t, "create", "up") /\ Depth = 1
        /\ frames' = Append(frames, Creating(d, FALSE))
        /\ UNCHANGED <<dev, list, handles, lock, patched, names, count, given, query>>
    BY DEF LayerCreateBegin, table_vars
  <1>2. /\ frames # <<>> /\ Len(frames) = 1 /\ Top = frames[1] /\ FrameOK(frames[1]) /\ frames \in Seq(Frame)
        /\ frames[1].op = "create" /\ frames[1].phase = "up" /\ frames[1].a # None
    BY <1>a, <1>1, TopFacts, TypeFacts DEF At, FrameOK, PhaseOK
  <1>3. PICK r : r = Creating(d, FALSE)
    OBVIOUS
  <1>4. r \in Frame /\ r.op = "create" /\ r.phase = "begin" /\ r.a = None
    BY <1>3, MaxUnknownAssumption DEF Creating, Frame, Phases
  <1>5. /\ frames' \in Seq(Frame) /\ Len(frames') = 2 /\ frames' # <<>>
        /\ frames'[1] = frames[1] /\ frames'[2] = r
    <2>1. PICK q : q = Append(frames, r)
      OBVIOUS
    <2>2. /\ q \in Seq(Frame) /\ Len(q) = Len(frames) + 1 /\ q # <<>>
          /\ (\A i \in 1..Len(frames) : q[i] = frames[i]) /\ q[Len(frames) + 1] = r
      BY <1>2, <1>4, <2>1, PushFacts
    <2>3. frames' = q
      BY <1>1, <1>3, <2>1
    <2> QED
      BY <1>2, <2>2, <2>3
  <1>b. UNCHANGED <<dev, list, handles, lock, env>> /\ lock # None
    BY <1>a, <1>1, <1>2 DEF FramesInv
  <1>6. TypeOK'
    <2>1. /\ handles' \subseteq DevAddr /\ patched' \subseteq Threads /\ query' \in [Threads -> Query]
          /\ list' \in [Drivers -> Seq(DevAddr)] /\ lock' \in Threads \cup {None}
      BY <1>1 DEF TypeOK
    <2>2. dev' \in [DOMAIN dev' -> Dev] /\ DOMAIN dev' \subseteq DevAddr
      BY <1>1, TypeFacts
    <2> QED
      BY <1>1, <1>5, <2>1, <2>2, TypeStep
  <1>7. FramesInv'
    <2>1. FrameOK(frames[1])'
      BY <1>1, <1>2, <1>5 DEF FrameOK, PhaseOK, OwnOK, PlaceOK
    <2>2. FrameOK(frames[2])'
      BY <1>4, <1>5 DEF FrameOK, PhaseOK, OwnOK, PlaceOK
    <2>3. \A i \in 1..Len(frames') : i = 1 \/ i = 2
      BY <1>5
    <2>4. \A i \in 1..Len(frames') : FrameOK(frames[i])'
      BY <2>1, <2>2, <2>3
    <2> QED
      BY <1>a, <1>b, <1>2, <1>4, <1>5, <2>4 DEF FramesInv
  <1>8. \A i \in 1..Len(frames) : i \in 1..Len(frames') /\ frames'[i] = frames[i]
    BY <1>2, <1>5
  <1>9. ListInv' /\ LiveInv'
    BY <1>a, <1>b, <1>8 DEF ListInv, LiveInv
  <1>10. HandlesInv'
    BY <1>a, <1>1 DEF HandlesInv, Sound
  <1>11. QueryInv'
    BY <1>a, <1>1 DEF QueryInv
  <1> QED
    BY <1>6, <1>7, <1>9, <1>10, <1>11 DEF DevInv

\* The application's vkDestroyDevice
LEMMA DestroyBeginStep ==
    ASSUME TypeOK, DevInv, NEW t \in Threads, t \in env.devices, NEW a \in handles,
           DestroyBegin(t, a), UNCHANGED <<fault, env>>
    PROVE  TypeOK' /\ DevInv'
  <1>a. FramesInv /\ ListInv /\ LiveInv /\ HandlesInv /\ QueryInv
    BY DEF DevInv
  <1>1. /\ lock = None /\ query[t] = NoQuery /\ lock' = t /\ frames' = <<Destroying(a, FirstOn(a))>>
        /\ handles' = handles \ {a}
        /\ UNCHANGED <<dev, list, patched, names, count, given, query>>
    BY DEF DestroyBegin, table_vars
  <1>2. frames = <<>> /\ Len(frames) = 0 /\ t # None
    BY <1>a, <1>1, NoneDistinct DEF FramesInv
  <1>3. /\ Sound(a) /\ a \in DevAddr /\ a # None /\ \A b \in DOMAIN dev : dev[b].second # a
    BY <1>a, NoneDistinct DEF HandlesInv, TypeOK
  <1>4. PICK d \in Drivers : a \in Range(list[d])
    BY <1>3 DEF Sound
  <1>5. FirstOn(a) = d /\ a \in DOMAIN dev
    BY <1>a, <1>4, OnFacts DEF ListInv
  <1>6. PICK r : r = Destroying(a, d)
    OBVIOUS
  <1>7. r \in Frame /\ r.op = "destroy" /\ r.phase = "down" /\ r.a = a /\ r.d = d
    BY <1>3, <1>6, MaxUnknownAssumption DEF Destroying, Frame, Phases
  <1>8. frames' \in Seq(Frame) /\ Len(frames') = 1 /\ frames'[1] = r /\ frames' # <<>>
    BY <1>1, <1>5, <1>6, <1>7
  <1>9. TypeOK'
    <2>1. /\ handles' \subseteq DevAddr /\ patched' \subseteq Threads /\ query' \in [Threads -> Query]
          /\ list' \in [Drivers -> Seq(DevAddr)] /\ lock' \in Threads \cup {None}
      BY <1>1 DEF TypeOK
    <2>2. dev' \in [DOMAIN dev' -> Dev] /\ DOMAIN dev' \subseteq DevAddr
      BY <1>1, TypeFacts
    <2> QED
      BY <1>1, <1>8, <2>1, <2>2, TypeStep
  <1>10. FramesInv'
    <2>1. \A i \in 1..Len(frames') : i = 1
      BY <1>8
    <2>2. FrameOK(frames[1])'
      BY <1>1, <1>3, <1>4, <1>5, <1>7, <1>8 DEF FrameOK, PhaseOK, OwnOK, PlaceOK, Sound
    <2>3. \A i \in 1..Len(frames') : FrameOK(frames[i])'
      BY <2>1, <2>2
    <2> QED
      BY <1>1, <1>2, <1>8, <2>3 DEF FramesInv
  <1>11. ListInv' /\ LiveInv'
    BY <1>a, <1>1, <1>2 DEF ListInv, LiveInv
  <1>12. HandlesInv'
    BY <1>a, <1>1 DEF HandlesInv, Sound
  <1>13. QueryInv'
    BY <1>a, <1>1 DEF QueryInv
  <1> QED
    BY <1>9, <1>10, <1>11, <1>12, <1>13 DEF DevInv

\* The layer's vkDestroyDevice of the device that it created.
LEMMA LayerDestroyBeginStep ==
    ASSUME TypeOK, DevInv, NEW t \in Threads, LayerDestroyBegin(t), UNCHANGED <<fault, env>>
    PROVE  TypeOK' /\ DevInv'
  <1>a. FramesInv /\ ListInv /\ LiveInv /\ HandlesInv /\ QueryInv
    BY DEF DevInv
  <1>1. PICK x, y : x = Top.a /\ y = dev[Top.a].second
    OBVIOUS
  <1>2. /\ At(t, "destroy", "down") /\ Depth = 1 /\ y # None
        /\ dev' = [dev EXCEPT ![x].second = None]
        /\ frames' = Append(frames, Destroying(y, FirstOn(y)))
        /\ UNCHANGED <<list, handles, lock, patched, names, count, given, query>>
    BY <1>1 DEF LayerDestroyBegin, table_vars
  <1>3. /\ frames # <<>> /\ Len(frames) = 1 /\ Top = frames[1] /\ FrameOK(frames[1]) /\ frames \in Seq(Frame)
        /\ frames[1].op = "destroy" /\ frames[1].phase = "down" /\ frames[1].a = x /\ x # None
        /\ frames[1].d \in Drivers
    BY <1>a, <1>1, <1>2, TopFacts, TypeFacts DEF At, FrameOK, PhaseOK, Frame
  <1>4. /\ x \in DOMAIN dev /\ x \notin handles /\ \A b \in DOMAIN dev : dev[b].second # x
        /\ dev[x].second = y
    BY <1>1, <1>3 DEF FrameOK, OwnOK
  <1>5. /\ Sound(y) /\ y # x /\ y \notin handles
        /\ \A c \in DOMAIN dev : c # x => dev[c].second # y
    BY <1>a, <1>2, <1>4 DEF HandlesInv
  <1>6. PICK d \in Drivers : y \in Range(list[d])
    BY <1>5 DEF Sound
  <1>7. FirstOn(y) = d /\ y \in DOMAIN dev
    BY <1>a, <1>6, OnFacts DEF ListInv
  <1>8. dev \in [DOMAIN dev -> Dev] /\ DOMAIN dev \subseteq DevAddr
    BY TypeFacts
  <1>9. PICK r : r = Destroying(y, d)
    OBVIOUS
  <1>10. r \in Frame /\ r.op = "destroy" /\ r.phase = "down" /\ r.a = y /\ r.d = d
    BY <1>7, <1>8, <1>9, MaxUnknownAssumption DEF Destroying, Frame, Phases
  <1>11. /\ frames' \in Seq(Frame) /\ Len(frames') = 2 /\ frames' # <<>>
         /\ frames'[1] = frames[1] /\ frames'[2] = r
    <2>1. PICK q : q = Append(frames, r)
      OBVIOUS
    <2>2. /\ q \in Seq(Frame) /\ Len(q) = Len(frames) + 1 /\ q # <<>>
          /\ (\A i \in 1..Len(frames) : q[i] = frames[i]) /\ q[Len(frames) + 1] = r
      BY <1>3, <1>10, <2>1, PushFacts
    <2>3. frames' = q
      BY <1>2, <1>7, <1>9, <2>1
    <2> QED
      BY <1>3, <2>2, <2>3
  <1>12. /\ dev' \in [DOMAIN dev -> Dev] /\ DOMAIN dev' = DOMAIN dev
         /\ \A b \in DOMAIN dev : /\ dev'[b].driver = dev[b].driver /\ dev'[b].icd = dev[b].icd
                                  /\ dev'[b].gdpa = dev[b].gdpa
                                  /\ dev'[b].second = IF b = x THEN None ELSE dev[b].second
    <2>1. dev' = [dev EXCEPT ![x] = [dev[x] EXCEPT !.second = None]]
      BY <1>2, <1>4, <1>8
    <2>2. PICK v : v = [dev[x] EXCEPT !.second = None]
      OBVIOUS
    <2>3. /\ v \in Dev /\ v.driver = dev[x].driver /\ v.icd = dev[x].icd /\ v.gdpa = dev[x].gdpa
          /\ v.second = None
      BY <1>4, <1>8, <2>2 DEF Dev
    <2> QED
      BY <1>4, <1>8, <2>1, <2>2, <2>3
  <1>13. TypeOK'
    <2>1. /\ handles' \subseteq DevAddr /\ patched' \subseteq Threads /\ query' \in [Threads -> Query]
          /\ list' \in [Drivers -> Seq(DevAddr)] /\ lock' \in Threads \cup {None}
      BY <1>2 DEF TypeOK
    <2>2. dev' \in [DOMAIN dev' -> Dev] /\ DOMAIN dev' \subseteq DevAddr
      BY <1>8, <1>12
    <2> QED
      BY <1>2, <1>11, <2>1, <2>2, TypeStep
  <1>14. FramesInv'
    <2>1. FrameOK(frames[1])'
      <3>1. x \in Range(list[frames[1].d]) /\ dev[x].gdpa /\ dev[x].icd = "live"
        BY <1>3 DEF FrameOK, PlaceOK
      <3>2. PhaseOK(frames[1])' /\ OwnOK(frames[1])'
        BY <1>2, <1>3, <1>4, <1>11, <1>12 DEF PhaseOK, OwnOK
      <3>3. PlaceOK(frames[1])'
        BY <1>2, <1>3, <1>4, <1>11, <1>12, <3>1 DEF PlaceOK
      <3> QED
        BY <3>2, <3>3 DEF FrameOK
    <2>2. FrameOK(frames[2])'
      <3>1. PhaseOK(frames[2])' /\ OwnOK(frames[2])'
        BY <1>2, <1>5, <1>7, <1>10, <1>11, <1>12 DEF PhaseOK, OwnOK
      <3>2. PlaceOK(frames[2])'
        BY <1>2, <1>5, <1>6, <1>7, <1>10, <1>11, <1>12 DEF PlaceOK, Sound
      <3> QED
        BY <3>1, <3>2 DEF FrameOK
    <2>3. \A i \in 1..Len(frames') : i = 1 \/ i = 2
      BY <1>11
    <2>4. \A i \in 1..Len(frames') : FrameOK(frames[i])'
      BY <2>1, <2>2, <2>3
    <2> QED
      BY <1>a, <1>2, <1>3, <1>5, <1>10, <1>11, <2>4 DEF FramesInv
  <1>15. \A i \in 1..Len(frames) : i \in 1..Len(frames') /\ frames'[i] = frames[i]
    BY <1>3, <1>11
  <1>16. ListInv'
    BY <1>a, <1>2, <1>12, <1>15 DEF ListInv
  <1>17. LiveInv'
    BY <1>a, <1>2, <1>12, <1>15 DEF ListInv, LiveInv
  <1>18. HandlesInv'
    <2>1. ASSUME NEW a, Sound(a) PROVE Sound(a)'
      BY <1>a, <1>2, <1>12, <2>1 DEF Sound, ListInv
    <2>2. ASSUME NEW a \in handles' PROVE Sound(a)' /\ \A b \in DOMAIN dev' : dev'[b].second # a
      <3>1. a \in handles /\ a # None
        BY <1>2, NoneDistinct DEF TypeOK
      <3> QED
        BY <1>a, <1>12, <2>1, <3>1 DEF HandlesInv
    <2>3. ASSUME NEW b \in DOMAIN dev', dev'[b].second # None
          PROVE  /\ Sound(dev[b].second)'
                 /\ \A c \in DOMAIN dev' : dev'[c].second = dev'[b].second => c = b
      <3>1. b # x /\ b \in DOMAIN dev /\ dev'[b].second = dev[b].second
        BY <1>12, <2>3
      <3>2. PICK s : s = dev[b].second
        OBVIOUS
      <3>3. Sound(s)'
        BY <1>a, <2>1, <2>3, <3>1, <3>2 DEF HandlesInv
      <3>4. Sound(dev[b].second)'
        BY <3>1, <3>2, <3>3 DEF Sound
      <3>5. \A c \in DOMAIN dev' : dev'[c].second = dev'[b].second => c = b
        BY <1>a, <1>12, <2>3, <3>1 DEF HandlesInv
      <3> QED
        BY <3>4, <3>5
    <2> QED
      BY <2>2, <2>3 DEF HandlesInv
  <1>19. QueryInv'
    BY <1>a, <1>2 DEF QueryInv
  <1> QED
    BY <1>13, <1>14, <1>16, <1>17, <1>18, <1>19 DEF DevInv

-----------------------------------------------------------------------------
(* vkDestroyInstance                                                       *)

\* No device is left, and no name.
LEMMA DestroyInstanceStep ==
    ASSUME TypeOK, DevInv, DestroyInstance, UNCHANGED <<fault, env>>
    PROVE  TypeOK' /\ DevInv' /\ DOMAIN dev' = {}
  <1>a. FramesInv /\ ListInv /\ LiveInv /\ HandlesInv /\ QueryInv
    BY DEF DevInv
  <1>1. /\ lock = None /\ handles = {} /\ \A t \in Threads : query[t] = NoQuery
        /\ dev' = [a \in DOMAIN dev \ UNION {Range(list[d]) : d \in Drivers} |-> dev[a]]
        /\ list' = [d \in Drivers |-> <<>>]
        /\ names' = [i \in Slots |-> None] /\ count' = 0 /\ given' = {}
        /\ UNCHANGED <<handles, lock, frames, patched, query>>
    BY DEF DestroyInstance
  <1>2. frames = <<>> /\ Len(frames) = 0
    BY <1>a, <1>1 DEF FramesInv
  <1>3. \A a \in DOMAIN dev : \E d \in Drivers : a \in Range(list[d])
    BY <1>a, <1>2 DEF ListInv
  <1>4. DOMAIN dev' = {}
    BY <1>1, <1>3
  <1>5. dev' \in [{} -> Dev]
    BY <1>1, <1>4
  <1>6. \A d \in Drivers : list'[d] = <<>> /\ Range(list'[d]) = {} /\ IsInjective(list'[d])
    <2>1. Range(<<>>) = {} /\ IsInjective(<<>>)
      BY DEF Range, IsInjective
    <2> QED
      BY <1>1, <2>1
  <1>7. TypeOK'
    <2>1. \E A \in SUBSET DevAddr : dev' \in [A -> Dev]
      BY <1>5
    <2>2. list' \in [Drivers -> Seq(DevAddr)]
      BY <1>1
    <2>3. names' \in [Slots -> Names \cup {None}] /\ count' \in Nat /\ given' \subseteq Names \X Slots
      BY <1>1
    <2>4. /\ handles' \subseteq DevAddr /\ lock' \in Threads \cup {None} /\ frames' \in Seq(Frame)
          /\ patched' \subseteq Threads /\ query' \in [Threads -> Query]
      BY <1>1 DEF TypeOK
    <2> QED
      BY <2>1, <2>2, <2>3, <2>4 DEF TypeOK
  <1>8. FramesInv'
    BY <1>a, <1>1, <1>2 DEF FramesInv
  <1>9. ListInv' /\ LiveInv'
    BY <1>4, <1>6 DEF ListInv, LiveInv
  <1>10. HandlesInv'
    BY <1>1, <1>4 DEF HandlesInv
  <1>11. QueryInv'
    <2>1. NoQuery.a = None
      BY DEF NoQuery
    <2> QED
      BY <1>1, <2>1 DEF QueryInv
  <1> QED
    BY <1>4, <1>7, <1>8, <1>9, <1>10, <1>11 DEF DevInv

-----------------------------------------------------------------------------
(* vkGetInstanceProcAddr of an unknown name                                *)

\* A set of numbers has a least one.
LEMMA LeastNat ==
    ASSUME NEW T \in SUBSET Nat, T # {}
    PROVE  \E x \in T : \A y \in T : x <= y
  <1> DEFINE R == {ss \in Nat \X Nat : ss[1] < ss[2]}
  <1>1. IsWellFoundedOn(R, Nat)
    BY NatLessThanWellFounded DEF OpToRel
  <1>2. \A x, y \in Nat : y < x => <<y, x>> \in R
    OBVIOUS
  <1> HIDE DEF R
  <1>3. PICK x \in T : \A y \in T : ~ (<<y, x>> \in R)
    BY <1>1, WFMin
  <1>4. \A y \in T : ~(y < x) /\ x \in Nat /\ y \in Nat
    BY <1>2, <1>3
  <1>5. \A y \in T : x <= y
    BY <1>4
  <1> QED
    BY <1>5

\* The walk goes on at the first device of the next driver that has one.
LEMMA NextHeadFacts ==
    ASSUME TypeOK, NEW d \in 0..DriverCount, NEW n, n = NextHead(d)
    PROVE  /\ n.d \in 0..(DriverCount + 1) /\ n.a \in DevAddr \cup {None}
           /\ n.a = None => \A e \in Drivers : e > d => list[e] = <<>>
           /\ n.a # None => /\ n.d \in Drivers /\ n.d > d
                            /\ list[n.d] # <<>> /\ n.a = list[n.d][1] /\ n.a \in Range(list[n.d])
                            /\ \A e \in Drivers : e > d /\ e < n.d => list[e] = <<>>
  <1> DEFINE later == {e \in Drivers : e > d /\ list[e] # <<>>}
  <1>1. CASE later = {}
    <2>1. n = [d |-> DriverCount + 1, a |-> None]
      BY <1>1 DEF NextHead
    <2>2. n.d = DriverCount + 1 /\ n.a = None
      BY <2>1
    <2> QED
      BY <1>1, <2>2, DriverCountAssumption
  <1>2. CASE later # {}
    <2>1. later \in SUBSET Nat
      BY DriverCountAssumption DEF Drivers
    <2>2. \E e \in later : \A g \in later : e <= g
      <3> HIDE DEF later
      <3> QED
        BY <1>2, <2>1, LeastNat
    <2>3. PICK e : e = CHOOSE m \in later : \A g \in later : m <= g
      OBVIOUS
    <2>4. e \in later /\ \A g \in later : e <= g
      BY <2>2, <2>3
    <2>5. n = [d |-> e, a |-> list[e][1]]
      BY <1>2, <2>3 DEF NextHead
    <2>6. n.d = e /\ n.a = list[e][1]
      BY <2>5
    <2>7. list[e] \in Seq(DevAddr) /\ list[e] # <<>> /\ e \in Drivers /\ e > d
      BY <2>4, TypeFacts
    <2>8. list[e][1] \in DevAddr /\ list[e][1] \in Range(list[e])
      <3>1. 1 \in DOMAIN list[e]
        BY <2>7
      <3> QED
        BY <2>7, <3>1 DEF Range
    <2>9. \A g \in Drivers : g > d /\ g < e => list[g] = <<>>
      <3> SUFFICES ASSUME NEW g \in Drivers, g > d, g < e, list[g] # <<>> PROVE FALSE
        OBVIOUS
      <3>1. e <= g /\ e \in Nat /\ g \in Nat
        BY <2>1, <2>4
      <3> QED
        BY <3>1
    <2>10. n.a # None /\ n.d \in 0..(DriverCount + 1)
      BY <2>6, <2>7, <2>8, NoneDistinct, DriverCountAssumption DEF Drivers
    <2> QED
      BY <2>6, <2>7, <2>8, <2>9, <2>10
  <1> QED
    BY <1>1, <1>2

\* The walk goes on from device a of driver d's list.
LEMMA NextStopFacts ==
    ASSUME TypeOK, ListInv, NEW d \in Drivers, NEW a \in Range(list[d]), NEW n, n = NextStop(a, d)
    PROVE  /\ n.d \in 0..(DriverCount + 1) /\ n.a \in DevAddr \cup {None}
           /\ n.a # None => n.d \in Drivers /\ n.a \in Range(list[n.d])
           /\ \/ /\ Place(a, d) < Len(list[d])
                 /\ n.d = d /\ n.a = list[d][Place(a, d) + 1] /\ n.a # None
              \/ Place(a, d) = Len(list[d]) /\ n = NextHead(d)
  <1> DEFINE i == Place(a, d)
             s == list[d]
  <1>1. i \in 1..Len(s) /\ s \in Seq(DevAddr)
    BY OnFacts, TypeFacts
  <1>2. d \in 0..DriverCount
    BY DriverCountAssumption DEF Drivers
  <1>3. CASE i < Len(s)
    <2>1. n = [d |-> d, a |-> s[i + 1]]
      BY <1>3 DEF NextStop
    <2>2. n.d = d /\ n.a = s[i + 1]
      BY <2>1
    <2> HIDE DEF i, s
    <2>3. i + 1 \in DOMAIN s /\ s[i + 1] \in DevAddr
      BY <1>1, <1>3
    <2>4. n.a # None /\ n.a \in Range(s) /\ n.a \in DevAddr
      BY <2>2, <2>3, NoneDistinct DEF Range
    <2> QED
      BY <1>2, <1>3, <2>2, <2>4, DriverCountAssumption DEF i, s
  <1>4. CASE ~(i < Len(s))
    <2>1. n = NextHead(d)
      BY <1>4 DEF NextStop
    <2>2. i = Len(s)
      <3> HIDE DEF i, s
      <3> QED
        BY <1>1, <1>4
    <2> QED
      BY <1>2, <2>1, <2>2, NextHeadFacts
  <1> QED
    BY <1>3, <1>4

\* A step that leaves the devices alone but for the slots of their tables.
LEMMA CoreStep ==
    ASSUME TypeOK, DevInv, UNCHANGED <<list, handles, lock, frames, env>>,
           DOMAIN dev' = DOMAIN dev, \A b \in DOMAIN dev : SameCore(dev'[b], dev[b])
    PROVE  FramesInv' /\ ListInv' /\ LiveInv' /\ HandlesInv'
  <1>a. FramesInv /\ ListInv /\ LiveInv /\ HandlesInv /\ QueryInv
    BY DEF DevInv
  <1>1. \A b \in DOMAIN dev : /\ dev'[b].driver = dev[b].driver /\ dev'[b].icd = dev[b].icd
                              /\ dev'[b].gdpa = dev[b].gdpa /\ dev'[b].second = dev[b].second
    BY DEF SameCore
  <1>2. ASSUME NEW i \in 1..Len(frames) PROVE FrameOK(frames[i])'
    <2>1. FrameOK(frames[i]) /\ frames'[i] = frames[i]
      BY <1>a DEF FramesInv
    <2>2. PhaseOK(frames[i])' /\ OwnOK(frames[i])'
      BY <1>1, <2>1 DEF FrameOK, PhaseOK, OwnOK
    <2>3. PlaceOK(frames[i])'
      BY <1>1, <2>1 DEF FrameOK, PhaseOK, OwnOK, PlaceOK
    <2> QED
      BY <2>2, <2>3 DEF FrameOK
  <1>3. FramesInv'
    BY <1>a, <1>2 DEF FramesInv
  <1>4. ListInv'
    BY <1>a, <1>1 DEF ListInv
  <1>5. LiveInv'
    BY <1>a, <1>1 DEF ListInv, LiveInv
  <1>6. HandlesInv'
    <2>1. ASSUME NEW a, Sound(a) PROVE Sound(a)'
      BY <1>a, <1>1, <2>1 DEF Sound, ListInv
    <2>2. ASSUME NEW b \in DOMAIN dev', dev'[b].second # None PROVE Sound(dev[b].second)'
      <3>1. PICK s : s = dev[b].second
        OBVIOUS
      <3>2. Sound(s)' /\ dev'[b].second = s
        BY <1>a, <1>1, <2>1, <2>2, <3>1 DEF HandlesInv
      <3> QED
        BY <3>2 DEF Sound
    <2>3. \A b, c \in DOMAIN dev' : dev'[b].second # None /\ dev'[c].second = dev'[b].second => c = b
      BY <1>a, <1>1 DEF HandlesInv
    <2>4. \A a \in handles' : Sound(a)' /\ \A b \in DOMAIN dev' : dev'[b].second # a
      BY <1>a, <1>1, <2>1 DEF HandlesInv
    <2> QED
      BY <2>2, <2>3, <2>4 DEF HandlesInv
  <1> QED
    BY <1>3, <1>4, <1>5, <1>6

\* The name has a slot already.
LEMMA QueryKnownStep ==
    ASSUME TypeOK, DevInv, NEW t \in Threads, NEW f \in Names, QueryKnown(t, f), UNCHANGED <<fault, env>>
    PROVE  /\ TypeOK' /\ DevInv'
           /\ \E i \in Known(f) : given' = given \cup {<<f, i>>}
           /\ UNCHANGED <<device_vars, names, count, query>>
  <1>1. /\ Known(f) # {} /\ UNCHANGED <<device_vars, names, count, query>>
        /\ given' = given \cup {<<f, CHOOSE i \in Known(f) : \A j \in Known(f) : i <= j>>}
    BY DEF QueryKnown
  <1>2. UNCHANGED <<dev, list, handles, lock, frames, patched>>
    BY <1>1 DEF device_vars
  <1>3. Known(f) \in SUBSET Nat /\ Known(f) \subseteq Slots
    BY MaxUnknownAssumption DEF Known, Slots
  <1>4. \E i \in Known(f) : \A j \in Known(f) : i <= j
    BY <1>1, <1>3, LeastNat
  <1>5. PICK i : i = CHOOSE m \in Known(f) : \A j \in Known(f) : m <= j
    OBVIOUS
  <1>6. i \in Known(f) /\ given' = given \cup {<<f, i>>}
    BY <1>1, <1>4, <1>5
  <1>7. TypeOK'
    <2>1. UNCHANGED <<names, count, query>>
      BY <1>1
    <2>2. given' \subseteq Names \X Slots
      <3>1. given \subseteq Names \X Slots
        BY DEF TypeOK
      <3> QED
        BY <1>3, <1>6, <3>1
    <2> QED
      BY <1>2, <2>1, <2>2 DEF TypeOK
  <1>8. FramesInv' /\ ListInv' /\ LiveInv' /\ HandlesInv'
    <2>1. \A b \in DOMAIN dev : SameCore(dev'[b], dev[b])
      BY <1>2 DEF SameCore
    <2> QED
      BY <1>2, <2>1, CoreStep
  <1>9. QueryInv'
    BY <1>1, <1>2 DEF DevInv, QueryInv
  <1> QED
    BY <1>1, <1>6, <1>7, <1>8, <1>9 DEF DevInv

\* The name is stored and the walk begins, at a listed device or at the end.
LEMMA QueryNewStep ==
    ASSUME TypeOK, DevInv, NEW t \in Threads, t \in env.queries, NEW f \in Names, NEW is_tramp \in BOOLEAN,
           QueryNew(t, f, is_tramp), UNCHANGED <<fault, env>>
    PROVE  /\ TypeOK' /\ DevInv'
           /\ query[t] = NoQuery /\ count \in Slots
           /\ names' = [names EXCEPT ![count] = f]
           /\ query'[t] # NoQuery /\ query'[t].f = f /\ query'[t].slot = count /\ query'[t].freed = FALSE
           /\ query'[t].d = NextHead(0).d /\ query'[t].a = NextHead(0).a
           /\ \A u \in Threads : u # t => query'[u] = query[u]
           /\ UNCHANGED <<device_vars, count, given>>
  <1>1. PICK n : n = NextHead(0)
    OBVIOUS
  <1>2. PICK q : q = [f |-> f, slot |-> count, d |-> n.d, a |-> n.a, freed |-> FALSE]
    OBVIOUS
  <1>3. /\ query[t] = NoQuery /\ HasRoom
        /\ names' = [names EXCEPT ![count] = f]
        /\ query' = [query EXCEPT ![t] = q]
        /\ UNCHANGED <<device_vars, count, given>>
    BY <1>1, <1>2 DEF QueryNew
  <1>4. UNCHANGED <<dev, list, handles, lock, frames, patched>>
    BY <1>3 DEF device_vars
  <1>5. count \in Slots
    BY <1>3, MaxUnknownAssumption DEF HasRoom, Slots, TypeOK
  <1>6. 0 \in 0..DriverCount
    BY DriverCountAssumption
  <1>7. /\ n.d \in 0..(DriverCount + 1) /\ n.a \in DevAddr \cup {None}
        /\ n.a # None => n.d \in Drivers /\ n.a \in Range(list[n.d])
    BY <1>1, <1>6, NextHeadFacts
  <1>8. q \in Query /\ q.f = f /\ q.slot = count /\ q.freed = FALSE /\ q.a = n.a /\ q.d = n.d
    BY <1>2, <1>5, <1>7 DEF Query
  <1>9. q # NoQuery
    <2>1. NoQuery.f = None /\ f # None
      BY NoneDistinct DEF NoQuery
    <2> QED
      BY <1>8, <2>1
  <1>10. query' \in [Threads -> Query] /\ query'[t] = q /\ \A u \in Threads : u # t => query'[u] = query[u]
    BY <1>3, <1>8 DEF TypeOK
  <1>11. TypeOK'
    <2>1. names' \in [Slots -> Names \cup {None}]
      BY <1>3, <1>5 DEF TypeOK
    <2> QED
      BY <1>3, <1>4, <1>10, <2>1 DEF TypeOK
  <1>12. FramesInv' /\ ListInv' /\ LiveInv' /\ HandlesInv'
    <2>1. \A b \in DOMAIN dev : SameCore(dev'[b], dev[b])
      BY <1>4 DEF SameCore
    <2> QED
      BY <1>4, <2>1, CoreStep
  <1>13. QueryInv'
    <2> SUFFICES ASSUME NEW u \in Threads
                 PROVE  /\ query'[u] # NoQuery => u \in env.queries /\ query'[u].f \in Names
                        /\ query'[u].a # None => /\ query'[u].d \in Drivers
                                                 /\ query'[u].freed \/ query'[u].a \in Range(list[query'[u].d])
      BY <1>4 DEF QueryInv
    <2>1. CASE u = t
      BY <1>3, <1>7, <1>8, <1>10, <2>1
    <2>2. CASE u # t
      BY <1>10, <2>2 DEF DevInv, QueryInv
    <2> QED
      BY <2>1, <2>2
  <1> QED
    BY <1>1, <1>3, <1>5, <1>8, <1>9, <1>10, <1>11, <1>12, <1>13 DEF DevInv

\* There is no memory for the name.
LEMMA QueryNoMemoryStep ==
    ASSUME TypeOK, DevInv, NEW t \in Threads, NEW f \in Names, NEW is_tramp \in BOOLEAN,
           QueryNoMemory(t, f, is_tramp), UNCHANGED <<fault, env>>
    PROVE  /\ TypeOK' /\ DevInv'
           /\ query[t] = NoQuery /\ count \in Slots
           /\ names' = [names EXCEPT ![count] = None]
           /\ UNCHANGED <<device_vars, count, given, query>>
  <1>1. /\ query[t] = NoQuery /\ HasRoom
        /\ names' = [names EXCEPT ![count] = None]
        /\ UNCHANGED <<device_vars, count, given, query>>
    BY DEF QueryNoMemory
  <1>2. UNCHANGED <<dev, list, handles, lock, frames, patched>>
    BY <1>1 DEF device_vars
  <1>3. count \in Slots
    BY <1>1, MaxUnknownAssumption DEF HasRoom, Slots, TypeOK
  <1>4. TypeOK'
    BY <1>1, <1>2, <1>3 DEF TypeOK
  <1>5. FramesInv' /\ ListInv' /\ LiveInv' /\ HandlesInv'
    <2>1. \A b \in DOMAIN dev : SameCore(dev'[b], dev[b])
      BY <1>2 DEF SameCore
    <2> QED
      BY <1>2, <2>1, CoreStep
  <1>6. QueryInv'
    BY <1>1, <1>2 DEF DevInv, QueryInv
  <1> QED
    BY <1>1, <1>3, <1>4, <1>5, <1>6 DEF DevInv

\* The walk asks a device for the name and goes on.
LEMMA QueryVisitStep ==
    ASSUME TypeOK, DevInv, NEW t \in Threads, QueryVisit(t), UNCHANGED <<fault, env>>
    PROVE  /\ TypeOK' /\ DevInv'
           /\ DOMAIN dev' = DOMAIN dev /\ \A b \in DOMAIN dev : SameCore(dev'[b], dev[b])
           /\ UNCHANGED <<list, handles, lock, frames, patched, names, count, given>>
           /\ query[t].a # None /\ query[t].d \in Drivers /\ query[t].a \in Range(list[query[t].d])
           /\ query[t] # NoQuery /\ ~query[t].freed /\ dev[query[t].a].gdpa
           /\ \A b \in DOMAIN dev : b # query[t].a => dev'[b] = dev[b]
           /\ dev'[query[t].a].ext = IF query[t].f \in ChainOffers(query[t].a)
                                     THEN [dev[query[t].a].ext EXCEPT ![query[t].slot] = query[t].f]
                                     ELSE dev[query[t].a].ext
           /\ query'[t].d = NextStop(query[t].a, query[t].d).d /\ query'[t].a = NextStop(query[t].a, query[t].d).a
           /\ query'[t].f = query[t].f /\ query'[t].slot = query[t].slot /\ query'[t].freed = query[t].freed
           /\ query'[t] # NoQuery
           /\ \A u \in Threads : u # t => query'[u] = query[u]
  <1>1. PICK q, x, n : q = query[t] /\ x = query[t].a /\ n = NextStop(query[t].a, query[t].d)
    OBVIOUS
  <1>2. /\ x # None /\ ~q.freed /\ dev[x].gdpa
        /\ dev' = VisitInit(x, q.slot, q.f)
        /\ query' = [query EXCEPT ![t].d = n.d, ![t].a = n.a]
        /\ UNCHANGED <<list, handles, lock, frames, patched, names, count, given>>
    BY <1>1 DEF QueryVisit
  <1>3. q \in Query /\ q.a = x /\ query \in [Threads -> Query]
    BY <1>1 DEF TypeOK
  <1>4. q # NoQuery
    <2>1. NoQuery.a = None
      BY DEF NoQuery
    <2> QED
      BY <1>2, <1>3, <2>1
  <1>5. q.d \in Drivers /\ x \in Range(list[q.d]) /\ q.f \in Names /\ q.slot \in Slots
    BY <1>1, <1>2, <1>3, <1>4 DEF DevInv, QueryInv, Query
  <1>6. x \in DOMAIN dev
    BY <1>5 DEF DevInv, ListInv
  <1>7. /\ DOMAIN dev' = DOMAIN dev /\ dev' \in [DOMAIN dev -> Dev]
        /\ \A b \in DOMAIN dev : SameCore(dev'[b], dev[b])
        /\ \A b \in DOMAIN dev : b # x => dev'[b] = dev[b]
        /\ dev'[x].ext = IF q.f \in ChainOffers(x) THEN [dev[x].ext EXCEPT ![q.slot] = q.f] ELSE dev[x].ext
    <2>1. dev \in [DOMAIN dev -> Dev] /\ dev[x] \in Dev
      BY <1>6, TypeFacts
    <2>2. CASE q.f \in ChainOffers(x)
      <3>1. PICK v : v = [dev[x] EXCEPT !.ext = [dev[x].ext EXCEPT ![q.slot] = q.f]]
        OBVIOUS
      <3>2. dev' = [dev EXCEPT ![x] = v]
        BY <1>2, <1>6, <2>1, <2>2, <3>1 DEF VisitInit
      <3>3. v \in Dev /\ SameCore(v, dev[x]) /\ v.ext = [dev[x].ext EXCEPT ![q.slot] = q.f]
        BY <1>5, <2>1, <3>1 DEF Dev, SameCore
      <3>4. \A b \in DOMAIN dev : SameCore(dev[b], dev[b])
        BY DEF SameCore
      <3>5. dev' \in [DOMAIN dev -> Dev] /\ dev'[x] = v /\ \A b \in DOMAIN dev : b # x => dev'[b] = dev[b]
        BY <1>6, <2>1, <3>2, <3>3
      <3>6. \A b \in DOMAIN dev : SameCore(dev'[b], dev[b])
        BY <3>3, <3>4, <3>5
      <3> QED
        BY <2>2, <3>3, <3>5, <3>6
    <2>3. CASE q.f \notin ChainOffers(x)
      <3>1. dev' = dev
        BY <1>2, <2>3 DEF VisitInit
      <3> QED
        BY <2>1, <2>3, <3>1 DEF SameCore
    <2> QED
      BY <2>2, <2>3
  <1>8. /\ n.d \in 0..(DriverCount + 1) /\ n.a \in DevAddr \cup {None}
        /\ n.a # None => n.d \in Drivers /\ n.a \in Range(list[n.d])
    BY <1>1, <1>5, NextStopFacts DEF DevInv
  <1>9. PICK r : r = [q EXCEPT !.d = n.d, !.a = n.a]
    OBVIOUS
  <1>10. /\ r \in Query /\ r.d = n.d /\ r.a = n.a /\ r.f = q.f /\ r.slot = q.slot /\ r.freed = q.freed
    BY <1>3, <1>8, <1>9 DEF Query
  <1>11. query' = [query EXCEPT ![t] = r]
    BY <1>1, <1>2, <1>3, <1>9
  <1>12. query' \in [Threads -> Query] /\ query'[t] = r /\ \A u \in Threads : u # t => query'[u] = query[u]
    BY <1>3, <1>10, <1>11
  <1>13. r # NoQuery
    <2>1. NoQuery.f = None /\ r.f # None
      BY <1>5, <1>10, NoneDistinct DEF NoQuery
    <2> QED
      BY <2>1
  <1>14. TypeOK'
    <2>1. \E A \in SUBSET DevAddr : dev' \in [A -> Dev]
      BY <1>7, TypeFacts
    <2> QED
      BY <1>2, <1>12, <2>1 DEF TypeOK
  <1>15. FramesInv' /\ ListInv' /\ LiveInv' /\ HandlesInv'
    BY <1>2, <1>7, CoreStep
  <1>16. QueryInv'
    <2> SUFFICES ASSUME NEW u \in Threads
                 PROVE  /\ query'[u] # NoQuery => u \in env.queries /\ query'[u].f \in Names
                        /\ query'[u].a # None => /\ query'[u].d \in Drivers
                                                 /\ query'[u].freed \/ query'[u].a \in Range(list[query'[u].d])
      BY <1>2 DEF QueryInv
    <2>1. CASE u = t
      <3>1. t \in env.queries
        BY <1>1, <1>4 DEF DevInv, QueryInv
      <3> QED
        BY <1>5, <1>8, <1>10, <1>12, <2>1, <3>1
    <2>2. CASE u # t
      BY <1>12, <2>2 DEF DevInv, QueryInv
    <2> QED
      BY <2>1, <2>2
  <1>17. TypeOK' /\ DevInv'
    BY <1>14, <1>15, <1>16 DEF DevInv
  <1>18. /\ UNCHANGED <<list, handles, lock, frames, patched, names, count, given>>
         /\ x # None /\ ~q.freed /\ dev[x].gdpa
    BY <1>2
  <1> QED
    BY <1>1, <1>4, <1>5, <1>7, <1>10, <1>12, <1>13, <1>17, <1>18

\* The query counts its slot and returns.
LEMMA QueryDoneStep ==
    ASSUME TypeOK, DevInv, NEW t \in Threads, QueryDone(t), UNCHANGED <<fault, env>>
    PROVE  /\ TypeOK' /\ DevInv'
           /\ query[t] # NoQuery /\ query[t].a = None
           /\ count' = count + 1 /\ given' = given \cup Returned(query[t].f)
           /\ query'[t] = NoQuery /\ \A u \in Threads : u # t => query'[u] = query[u]
           /\ UNCHANGED <<device_vars, names>>
  <1>1. /\ query[t] # NoQuery /\ query[t].a = None
        /\ count' = count + 1 /\ given' = given \cup Returned(query[t].f)
        /\ query' = [query EXCEPT ![t] = NoQuery]
        /\ UNCHANGED <<device_vars, names>>
    BY DEF QueryDone
  <1>2. UNCHANGED <<dev, list, handles, lock, frames, patched>>
    BY <1>1 DEF device_vars
  <1>3. query[t].f \in Names
    BY <1>1 DEF DevInv, QueryInv
  <1>4. NoQuery \in Query /\ NoQuery.a = None
    BY DriverCountAssumption, MaxUnknownAssumption DEF NoQuery, Query, Slots
  <1>5. query' \in [Threads -> Query] /\ query'[t] = NoQuery /\ \A u \in Threads : u # t => query'[u] = query[u]
    BY <1>1, <1>4 DEF TypeOK
  <1>6. count' \in Nat /\ given' \subseteq Names \X Slots
    <2>1. count \in Nat
      BY DEF TypeOK
    <2>2. count < MaxUnknown => count \in Slots
      BY <2>1, MaxUnknownAssumption DEF Slots
    <2>3. Returned(query[t].f) \subseteq Names \X Slots
      BY <1>3, <2>2 DEF Returned
    <2> QED
      BY <1>1, <2>1, <2>3 DEF TypeOK
  <1>7. TypeOK'
    BY <1>1, <1>2, <1>5, <1>6 DEF TypeOK
  <1>8. FramesInv' /\ ListInv' /\ LiveInv' /\ HandlesInv'
    <2>1. \A b \in DOMAIN dev : SameCore(dev'[b], dev[b])
      BY <1>2 DEF SameCore
    <2> QED
      BY <1>2, <2>1, CoreStep
  <1>9. QueryInv'
    <2> SUFFICES ASSUME NEW u \in Threads
                 PROVE  /\ query'[u] # NoQuery => u \in env.queries /\ query'[u].f \in Names
                        /\ query'[u].a # None => /\ query'[u].d \in Drivers
                                                 /\ query'[u].freed \/ query'[u].a \in Range(list[query'[u].d])
      BY <1>2 DEF QueryInv
    <2>1. CASE u = t
      BY <1>4, <1>5, <2>1
    <2>2. CASE u # t
      BY <1>5, <2>2 DEF DevInv, QueryInv
    <2> QED
      BY <2>1, <2>2
  <1> QED
    BY <1>1, <1>5, <1>7, <1>8, <1>9 DEF DevInv

-----------------------------------------------------------------------------
(* The steps together                                                      *)

\* The environment names threads, and finitely many of them.
LEMMA EnvFacts ==
    ASSUME TypeOK
    PROVE  /\ env.devices \subseteq Threads /\ env.queries \subseteq Threads
           /\ Cardinality(env.queries) <= 1 => \A t, u \in env.queries : t = u
           /\ Cardinality(env.devices \cup env.queries) = 1 =>
                \A t, u \in env.devices \cup env.queries : t = u
  <1>1. env \in EnvironmentType
    BY EnvironmentsAssumption DEF TypeOK
  <1>2. env.devices \subseteq Threads /\ env.queries \subseteq Threads
    BY <1>1 DEF EnvironmentType
  <1>3. PICK D, Q : D = env.devices /\ Q = env.queries
    OBVIOUS
  <1>4. IsFiniteSet(D) /\ IsFiniteSet(Q) /\ IsFiniteSet(D \cup Q)
    BY <1>2, <1>3, ThreadsAssumption, FS_Subset, FS_Union
  <1>5. Cardinality(Q) <= 1 => \A t, u \in Q : t = u
    <2> SUFFICES ASSUME Cardinality(Q) <= 1 PROVE \A t, u \in Q : t = u
      OBVIOUS
    <2>1. Cardinality(Q) = 0 \/ Cardinality(Q) = 1
      BY <1>4, FS_CardinalityType
    <2>2. Q = {} \/ \E x : Q = {x}
      BY <1>4, <2>1, FS_EmptySet, FS_Singleton
    <2> QED
      BY <2>2
  <1>6. Cardinality(D \cup Q) = 1 => \A t, u \in D \cup Q : t = u
    <2> SUFFICES ASSUME Cardinality(D \cup Q) = 1 PROVE \A t, u \in D \cup Q : t = u
      OBVIOUS
    <2>1. \E x : D \cup Q = {x}
      BY <1>4, FS_Singleton
    <2> QED
      BY <2>1
  <1> QED
    BY <1>2, <1>3, <1>5, <1>6

\* A device call changes nothing of a query under way but whether its device
\* was freed, and that of another thread only.
QueryKept(t) ==
    /\ UNCHANGED <<names, count, given>>
    /\ \A u \in Threads :
         /\ query'[u].f = query[u].f /\ query'[u].slot = query[u].slot
         /\ query'[u].d = query[u].d /\ query'[u].a = query[u].a
         /\ query'[u] = NoQuery <=> query[u] = NoQuery
         /\ query[u].freed => query'[u].freed
         /\ query'[u].freed => query[u].freed \/ (query[u].a # None /\ u # t)

\* So when the innermost call frees its device,
LEMMA KeptFreed ==
    ASSUME TypeOK, DevInv, NEW t \in Threads, query[t] = NoQuery, Top.a # None,
           Freed(Top.a), UNCHANGED <<names, count, given>>
    PROVE  QueryKept(t)
  <1>1. PICK x : x = Top.a
    OBVIOUS
  <1>2. query \in [Threads -> Query] /\ query' = [u \in Threads |-> [query[u] EXCEPT !.freed = @ \/ query[u].a = x]]
    BY <1>1 DEF TypeOK, Freed
  <1>3. NoQuery.a = None /\ NoQuery.f = None
    BY DEF NoQuery
  <1>4. ASSUME NEW u \in Threads
        PROVE  /\ query'[u].f = query[u].f /\ query'[u].slot = query[u].slot
               /\ query'[u].d = query[u].d /\ query'[u].a = query[u].a
               /\ query'[u] = NoQuery <=> query[u] = NoQuery
               /\ query[u].freed => query'[u].freed
               /\ query'[u].freed => query[u].freed \/ (query[u].a # None /\ u # t)
    <2>1. PICK q : q = query[u]
      OBVIOUS
    <2>2. q \in Query /\ query'[u] = [q EXCEPT !.freed = q.freed \/ q.a = x]
      BY <1>2, <2>1
    <2>3. /\ query'[u].f = q.f /\ query'[u].slot = q.slot /\ query'[u].d = q.d /\ query'[u].a = q.a
          /\ query'[u].freed = (q.freed \/ q.a = x)
      BY <2>2 DEF Query
    <2>4. q = NoQuery => query'[u] = NoQuery
      <3> SUFFICES ASSUME q = NoQuery PROVE query'[u] = NoQuery
        OBVIOUS
      <3>1. q.a # x /\ q.freed \in BOOLEAN
        BY <1>1, <1>3, <2>2 DEF Query
      <3>2. (q.freed \/ q.a = x) = q.freed
        BY <3>1
      <3> QED
        BY <2>2, <3>2 DEF Query
    <2>5. query'[u] = NoQuery => q = NoQuery
      <3> SUFFICES ASSUME query'[u] = NoQuery PROVE q = NoQuery
        OBVIOUS
      <3>1. q.f = None
        BY <1>3, <2>3
      <3> QED
        BY <2>1, <3>1, NoneDistinct DEF DevInv, QueryInv
    <2>6. q.a = x => u # t
      BY <1>1, <1>3, <2>1
    <2> QED
      BY <1>1, <2>1, <2>3, <2>4, <2>5, <2>6
  <1> QED
    BY <1>4 DEF QueryKept

\* and when a step leaves the table of names and the queries alone.
LEMMA KeptSame ==
    ASSUME NEW t, UNCHANGED table_vars
    PROVE  QueryKept(t)
  BY DEF QueryKept, table_vars

\* Every step of vkCreateDevice and of vkDestroyDevice.
LEMMA DeviceSteps ==
    ASSUME TypeOK, DevInv, NEW t \in env.devices, DeviceStep(t), UNCHANGED <<fault, env>>
    PROVE  TypeOK' /\ DevInv' /\ QueryKept(t)
  <1>a. t \in Threads
    BY EnvFacts
  <1>1. ASSUME NEW d \in Drivers, NEW inner \in BOOLEAN, CreateBegin(t, d, inner) PROVE TypeOK' /\ DevInv' /\ QueryKept(t)
    BY <1>a, <1>1, CreateBeginStep, KeptSame DEF CreateBegin
  <1>2. ASSUME NEW d \in Drivers, LayerCreateBegin(t, d) PROVE TypeOK' /\ DevInv' /\ QueryKept(t)
    BY <1>a, <1>2, LayerCreateBeginStep, KeptSame DEF LayerCreateBegin
  <1>3. ASSUME CreateRefused(t) PROVE TypeOK' /\ DevInv' /\ QueryKept(t)
    BY <1>a, <1>3, CreateRefusedStep, KeptSame DEF CreateRefused
  <1>4. ASSUME NEW a \in DevAddr \ DOMAIN dev, CreateDown(t, a) PROVE TypeOK' /\ DevInv' /\ QueryKept(t)
    BY <1>a, <1>4, CreateDownStep, KeptSame DEF CreateDown
  <1>5. ASSUME TerminatorCreate(t) PROVE TypeOK' /\ DevInv' /\ QueryKept(t)
    BY <1>a, <1>5, TerminatorCreateStep, KeptSame DEF TerminatorCreate
  <1>6. ASSUME TerminatorFails(t) PROVE TypeOK' /\ DevInv' /\ QueryKept(t)
    BY <1>a, <1>6, TerminatorFailsStep, KeptSame DEF TerminatorFails
  <1>7. ASSUME LayerFails(t) PROVE TypeOK' /\ DevInv' /\ QueryKept(t)
    BY <1>a, <1>7, LayerFailsStep, KeptSame DEF LayerFails
  <1>8. ASSUME ChainReturns(t) PROVE TypeOK' /\ DevInv' /\ QueryKept(t)
    BY <1>a, <1>8, ChainReturnsStep, KeptSame DEF ChainReturns
  <1>9. ASSUME CreateInitSlot(t) PROVE TypeOK' /\ DevInv' /\ QueryKept(t)
    BY <1>a, <1>9, CreateInitSlotStep, KeptSame DEF CreateInitSlot
  <1>10. ASSUME CreateDone(t) PROVE TypeOK' /\ DevInv' /\ QueryKept(t)
    BY <1>a, <1>10, CreateDoneStep, KeptSame DEF CreateDone
  <1>11. ASSUME CreateCleanup(t) PROVE TypeOK' /\ DevInv' /\ QueryKept(t)
    <2>1. /\ frames # <<>> /\ query[t] = NoQuery /\ Freed(Top.a) /\ UNCHANGED <<names, count, given>>
          /\ Top.phase = "failed"
      BY <1>11 DEF CreateCleanup, At
    <2>2. Top.a # None
      BY <2>1, TopFacts DEF DevInv, FrameOK, PhaseOK
    <2> QED
      BY <1>a, <1>11, <2>1, <2>2, KeptFreed, CreateCleanupStep
  <1>12. ASSUME NEW a \in handles, DestroyBegin(t, a) PROVE TypeOK' /\ DevInv' /\ QueryKept(t)
    BY <1>a, <1>12, DestroyBeginStep, KeptSame DEF DestroyBegin
  <1>13. ASSUME LayerDestroyBegin(t) PROVE TypeOK' /\ DevInv' /\ QueryKept(t)
    BY <1>a, <1>13, LayerDestroyBeginStep, KeptSame DEF LayerDestroyBegin
  <1>14. ASSUME DriverDestroys(t) PROVE TypeOK' /\ DevInv' /\ QueryKept(t)
    BY <1>a, <1>14, DriverDestroysStep, KeptSame DEF DriverDestroys
  <1>15. ASSUME DestroyRemove(t) PROVE TypeOK' /\ DevInv' /\ QueryKept(t)
    <2>1. /\ frames # <<>> /\ query[t] = NoQuery /\ Freed(Top.a) /\ UNCHANGED <<names, count, given>>
          /\ Top.phase = "gone"
      BY <1>15 DEF DestroyRemove, At
    <2>2. Top.a # None
      BY <2>1, TopFacts DEF DevInv, FrameOK, PhaseOK
    <2> QED
      BY <1>a, <1>15, <2>1, <2>2, KeptFreed, DestroyRemoveStep
  <1> QED
    BY <1>1, <1>2, <1>3, <1>4, <1>5, <1>6, <1>7, <1>8, <1>9, <1>10, <1>11, <1>12, <1>13, <1>14, <1>15 DEF DeviceStep

\* A query may only be under way in a thread that asks for names.
LEMMA OneQuery ==
    ASSUME TypeOK, DevInv, Cardinality(env.queries) <= 1, NEW t \in env.queries
    PROVE  \A u \in Threads : u # t => query[u] = NoQuery
  BY EnvFacts DEF DevInv, QueryInv

\* The names are kept by every step of a device call,
LEMMA NamesKept ==
    ASSUME TypeOK, NamesInv, NEW t, QueryKept(t), UNCHANGED env
    PROVE  NamesInv'
  <1> SUFFICES ASSUME Cardinality(env.queries) <= 1
               PROVE  /\ \A g \in given' : g[2] < count' /\ names'[g[2]] = g[1]
                      /\ \A i \in Slots : i < count' => names'[i] # None
                      /\ \A i \in Slots : i > count' => names'[i] = None
                      /\ \A u \in Threads : query'[u] # NoQuery => query'[u].slot = count' /\ names'[count'] = query'[u].f
                      /\ (\A u \in Threads : query'[u] = NoQuery) => \A i \in Slots : i >= count' => names'[i] = None
    BY DEF NamesInv
  <1> QED
    BY DEF NamesInv, QueryKept

\* and by those of a query, as long as one thread queries.
LEMMA NamesQuery ==
    ASSUME TypeOK, DevInv, NamesInv, NEW t \in env.queries, QueryStep(t), UNCHANGED <<fault, env>>
    PROVE  NamesInv'
  <1> SUFFICES ASSUME Cardinality(env.queries) <= 1
               PROVE  /\ \A g \in given' : g[2] < count' /\ names'[g[2]] = g[1]
                      /\ \A i \in Slots : i < count' => names'[i] # None
                      /\ \A i \in Slots : i > count' => names'[i] = None
                      /\ \A u \in Threads : query'[u] # NoQuery => query'[u].slot = count' /\ names'[count'] = query'[u].f
                      /\ (\A u \in Threads : query'[u] = NoQuery) => \A i \in Slots : i >= count' => names'[i] = None
    BY DEF NamesInv
  <1> DEFINE Goal == /\ \A g \in given' : g[2] < count' /\ names'[g[2]] = g[1]
                     /\ \A i \in Slots : i < count' => names'[i] # None
                     /\ \A i \in Slots : i > count' => names'[i] = None
                     /\ \A u \in Threads : query'[u] # NoQuery => query'[u].slot = count' /\ names'[count'] = query'[u].f
                     /\ (\A u \in Threads : query'[u] = NoQuery) => \A i \in Slots : i >= count' => names'[i] = None
  <1>1. /\ \A g \in given : g[2] < count /\ names[g[2]] = g[1] /\ g[2] \in Slots
        /\ \A i \in Slots : i < count => names[i] # None
        /\ \A i \in Slots : i > count => names[i] = None
        /\ \A u \in Threads : query[u] # NoQuery => query[u].slot = count /\ names[count] = query[u].f
        /\ (\A u \in Threads : query[u] = NoQuery) => \A i \in Slots : i >= count => names[i] = None
    BY DEF NamesInv, TypeOK
  <1>2. t \in Threads /\ \A u \in Threads : u # t => query[u] = NoQuery
    BY EnvFacts, OneQuery
  <1>3. names \in [Slots -> Names \cup {None}] /\ count \in Nat /\ \A i \in Slots : i \in Nat /\ i < MaxUnknown
    BY MaxUnknownAssumption DEF TypeOK, Slots
  <1>4. \A f \in Names : f # None
    BY NoneDistinct
  <1>5. ASSUME NEW f \in Names, QueryKnown(t, f) PROVE Goal
    <2>1. PICK i \in Known(f) : given' = given \cup {<<f, i>>}
      BY <1>2, <1>5, QueryKnownStep
    <2>2. UNCHANGED <<names, count, query>>
      BY <1>2, <1>5, QueryKnownStep
    <2>3. i \in Slots /\ i < count /\ names[i] = f
      BY <2>1 DEF Known
    <2>4. \A g \in given' : g[2] < count' /\ names'[g[2]] = g[1]
      BY <1>1, <2>1, <2>2, <2>3
    <2> QED
      BY <1>1, <2>2, <2>4
  <1>6. ASSUME NEW f \in Names, NEW is_tramp \in BOOLEAN, QueryNew(t, f, is_tramp) PROVE Goal
    <2>1. /\ query[t] = NoQuery /\ count \in Slots
          /\ names' = [names EXCEPT ![count] = f]
          /\ query'[t] # NoQuery /\ query'[t].f = f /\ query'[t].slot = count
          /\ \A u \in Threads : u # t => query'[u] = query[u]
          /\ UNCHANGED <<count, given>>
      <3>1. /\ TypeOK' /\ DevInv'
            /\ query[t] = NoQuery /\ count \in Slots
            /\ names' = [names EXCEPT ![count] = f]
            /\ query'[t] # NoQuery /\ query'[t].f = f /\ query'[t].slot = count /\ query'[t].freed = FALSE
            /\ query'[t].d = NextHead(0).d /\ query'[t].a = NextHead(0).a
            /\ \A u \in Threads : u # t => query'[u] = query[u]
            /\ UNCHANGED <<device_vars, count, given>>
        BY <1>2, <1>6, QueryNewStep, Zenon
      <3> QED
        BY <3>1
    <2>2. names'[count] = f /\ \A i \in Slots : i # count => names'[i] = names[i]
      BY <1>3, <2>1
    <2>3. \A g \in given' : g[2] < count' /\ names'[g[2]] = g[1]
      BY <1>1, <1>3, <2>1, <2>2
    <2>4. /\ \A i \in Slots : i < count' => names'[i] # None
          /\ \A i \in Slots : i > count' => names'[i] = None
      BY <1>1, <1>3, <2>1, <2>2
    <2>5. \A u \in Threads : query'[u] # NoQuery => query'[u].slot = count' /\ names'[count'] = query'[u].f
      BY <1>2, <2>1, <2>2
    <2> QED
      BY <1>2, <2>1, <2>3, <2>4, <2>5
  <1>7. ASSUME NEW f \in Names, NEW is_tramp \in BOOLEAN, QueryNoMemory(t, f, is_tramp) PROVE Goal
    <2>1. /\ query[t] = NoQuery /\ count \in Slots
          /\ names' = [names EXCEPT ![count] = None]
          /\ UNCHANGED <<count, given, query>>
      BY <1>2, <1>7, QueryNoMemoryStep
    <2>2. names'[count] = None /\ \A i \in Slots : i # count => names'[i] = names[i]
      BY <1>3, <2>1
    <2>3. \A g \in given' : g[2] < count' /\ names'[g[2]] = g[1]
      BY <1>1, <1>3, <2>1, <2>2
    <2>a. count' = count /\ \A u \in Threads : query[u] = NoQuery
      BY <1>2, <2>1
    <2>b. \A i \in Slots : i >= count => names[i] = None
      BY <1>1, <2>a
    <2>4. /\ \A i \in Slots : i < count' => names'[i] # None
          /\ \A i \in Slots : i >= count' => names'[i] = None
      BY <1>1, <1>3, <2>2, <2>a, <2>b
    <2>5. \A u \in Threads : query'[u] = NoQuery
      BY <1>2, <2>1
    <2>6. \A i \in Slots : i > count' => names'[i] = None
      BY <1>3, <2>4, <2>a
    <2> QED
      BY <2>3, <2>4, <2>5, <2>6
  <1>8. ASSUME QueryVisit(t) PROVE Goal
    <2>1. /\ query[t] # NoQuery /\ query'[t] # NoQuery
          /\ query'[t].f = query[t].f /\ query'[t].slot = query[t].slot
          /\ \A u \in Threads : u # t => query'[u] = query[u]
          /\ UNCHANGED <<names, count, given>>
      BY <1>2, <1>8, QueryVisitStep
    <2> QED
      BY <1>1, <1>2, <2>1
  <1>9. ASSUME QueryDone(t) PROVE Goal
    <2>1. /\ query[t] # NoQuery
          /\ count' = count + 1 /\ given' = given \cup Returned(query[t].f)
          /\ query'[t] = NoQuery /\ \A u \in Threads : u # t => query'[u] = query[u]
          /\ UNCHANGED names
      BY <1>2, <1>9, QueryDoneStep
    <2>2. query[t].slot = count /\ names[count] = query[t].f /\ query[t].f \in Names
      BY <1>1, <1>2, <2>1 DEF DevInv, QueryInv
    <2>3. count \in Slots
      BY <1>2, <2>2 DEF TypeOK, Query
    <2>4. given' = given \cup {<<query[t].f, count>>}
      BY <1>3, <2>1, <2>3 DEF Returned
    <2>5. \A g \in given' : g[2] < count' /\ names'[g[2]] = g[1]
      <3>1. PICK f : f = query[t].f
        OBVIOUS
      <3>2. ASSUME NEW g \in given PROVE g[2] < count' /\ names'[g[2]] = g[1]
        BY <1>1, <1>3, <2>1
      <3>3. <<f, count>>[2] = count /\ <<f, count>>[1] = f
        OBVIOUS
      <3> QED
        BY <1>3, <2>1, <2>2, <2>3, <2>4, <3>1, <3>2, <3>3
    <2>6. \A i \in Slots : i < count' => names'[i] # None
      BY <1>1, <1>3, <1>4, <2>1, <2>2
    <2>7. \A i \in Slots : i >= count' => names'[i] = None
      BY <1>1, <1>3, <2>1
    <2>8. \A u \in Threads : query'[u] = NoQuery
      BY <1>2, <2>1
    <2>9. \A i \in Slots : i > count' => names'[i] = None
      BY <1>3, <2>1, <2>7
    <2> QED
      BY <2>5, <2>6, <2>7, <2>8, <2>9
  <1> QED
    BY <1>5, <1>6, <1>7, <1>8, <1>9 DEF QueryStep

\* One thread alone: its device calls go on when its walk is done.
LEMMA AloneDevice ==
    ASSUME TypeOK, DevInv, AloneInv, NEW t \in env.devices, QueryKept(t), fault = "none", UNCHANGED <<fault, env>>
    PROVE  AloneInv'
  <1> SUFFICES ASSUME Cardinality(env.devices \cup env.queries) = 1, NEW u \in Threads, query'[u].freed
               PROVE  FALSE
    BY DEF AloneInv
  <1>1. query[u].a # None /\ u # t
    BY DEF AloneInv, QueryKept
  <1>2. query[u] # NoQuery
    <2>1. NoQuery.a = None
      BY DEF NoQuery
    <2> QED
      BY <1>1, <2>1
  <1>3. u \in env.queries
    BY <1>2 DEF DevInv, QueryInv
  <1> QED
    BY <1>1, <1>3, EnvFacts

\* Its own steps free nothing.
LEMMA AloneQuery ==
    ASSUME TypeOK, DevInv, AloneInv, NEW t \in env.queries, QueryStep(t), fault = "none", UNCHANGED <<fault, env>>
    PROVE  AloneInv'
  <1>a. t \in Threads
    BY EnvFacts
  <1>b. NoQuery.freed = FALSE
    BY DEF NoQuery
  <1>1. ASSUME NEW f \in Names, QueryKnown(t, f) PROVE \A u \in Threads : query'[u].freed => query[u].freed
    BY <1>1 DEF QueryKnown
  <1>2. ASSUME NEW f \in Names, NEW is_tramp \in BOOLEAN, QueryNew(t, f, is_tramp)
        PROVE  \A u \in Threads : query'[u].freed => query[u].freed
    <2>1. /\ TypeOK' /\ DevInv'
          /\ query[t] = NoQuery /\ count \in Slots
          /\ names' = [names EXCEPT ![count] = f]
          /\ query'[t] # NoQuery /\ query'[t].f = f /\ query'[t].slot = count /\ query'[t].freed = FALSE
          /\ query'[t].d = NextHead(0).d /\ query'[t].a = NextHead(0).a
          /\ \A u \in Threads : u # t => query'[u] = query[u]
          /\ UNCHANGED <<device_vars, count, given>>
      BY <1>a, <1>2, QueryNewStep, Zenon
    <2> QED
      BY <2>1
  <1>3. ASSUME NEW f \in Names, NEW is_tramp \in BOOLEAN, QueryNoMemory(t, f, is_tramp)
        PROVE  \A u \in Threads : query'[u].freed => query[u].freed
    BY <1>3 DEF QueryNoMemory
  <1>4. ASSUME QueryVisit(t) PROVE \A u \in Threads : query'[u].freed => query[u].freed
    <2>1. query'[t].freed = query[t].freed /\ \A u \in Threads : u # t => query'[u] = query[u]
      BY <1>a, <1>4, QueryVisitStep
    <2> QED
      BY <2>1
  <1>5. ASSUME QueryDone(t) PROVE \A u \in Threads : query'[u].freed => query[u].freed
    <2>1. query'[t] = NoQuery /\ \A u \in Threads : u # t => query'[u] = query[u]
      BY <1>a, <1>5, QueryDoneStep
    <2> QED
      BY <1>b, <2>1
  <1>6. \A u \in Threads : query'[u].freed => query[u].freed
    BY <1>1, <1>2, <1>3, <1>4, <1>5 DEF QueryStep
  <1> QED
    BY <1>6 DEF AloneInv

\* The walk of one thread alone is at a listed device: that exists and has its table,
\* unless a call of the thread itself is at it.
LEMMA AloneFault ==
    ASSUME TypeOK, DevInv, AloneInv, Cardinality(env.devices \cup env.queries) = 1,
           NEW t \in env.queries, QueryFaults(t)
    PROVE  /\ fault' # "freed"
           /\ fault' = "null" => ComesBack("create")
           /\ fault' = "destroyed" => ComesBack("destroy")
  <1>1. PICK q, x : q = query[t] /\ x = q.a
    OBVIOUS
  <1>2. t \in Threads /\ x # None /\ ~q.freed
    BY <1>1, EnvFacts DEF QueryFaults, AloneInv
  <1>3. q.d \in Drivers /\ x \in Range(list[q.d])
    BY <1>1, <1>2 DEF DevInv, QueryInv
  <1>4. x \in Listed
    BY <1>3 DEF Listed
  <1>5. DOMAIN frames = 1..Len(frames) /\ \A i \in 1..Len(frames) : FrameOK(frames[i]) /\ frames[i] \in Frame
    BY TypeFacts DEF DevInv, FramesInv, TypeOK
  <1>6. \/ ~dev[x].gdpa /\ fault' = "null"
        \/ dev[x].gdpa /\ dev[x].icd # "live" /\ fault' = "destroyed"
    BY <1>1, <1>2 DEF QueryFaults
  <1>7. CASE ~dev[x].gdpa /\ fault' = "null"
    <2>1. PICK i \in 1..Len(frames) : /\ frames[i].a = x /\ frames[i].op = "create"
                                      /\ frames[i].phase \in {"up", "failed"}
      BY <1>3, <1>7 DEF DevInv, LiveInv
    <2>2. ComesBack("create")
      BY <1>1, <1>4, <1>5, <2>1 DEF ComesBack
    <2> QED
      BY <1>7, <2>2
  <1>8. CASE dev[x].gdpa /\ dev[x].icd # "live" /\ fault' = "destroyed"
    <2>1. PICK i \in 1..Len(frames) : frames[i].a = x /\ frames[i].phase \in {"failed", "gone"}
      BY <1>3, <1>8 DEF DevInv, LiveInv
    <2>2. PhaseOK(frames[i]) /\ PlaceOK(frames[i]) /\ frames[i] \in Frame
      BY <1>5, <2>1 DEF FrameOK
    <2>3. frames[i].op = "destroy"
      BY <1>8, <2>1, <2>2 DEF PlaceOK, PhaseOK, Frame
    <2>4. ComesBack("destroy")
      BY <1>1, <1>4, <1>5, <2>1, <2>3 DEF ComesBack
    <2> QED
      BY <1>8, <2>4
  <1> QED
    BY <1>6, <1>7, <1>8

\* Undefined behaviour: by two threads, or by one that asks from inside its own call.
LEMMA FaultStep ==
    ASSUME IndInv, NEW t \in env.queries, QueryFaults(t), UNCHANGED env
    PROVE  IndInv'
  <1>1. TypeOK /\ DevInv /\ NamesInv /\ AloneInv
    BY DEF IndInv
  <1>2. UNCHANGED <<device_vars, table_vars>> /\ fault' \in {"freed", "null", "destroyed"}
    BY DEF QueryFaults
  <1>3. UNCHANGED <<dev, list, handles, lock, frames, patched, names, count, given, query, env>>
    BY <1>2 DEF device_vars, table_vars
  <1>4. TypeOK'
    BY <1>1, <1>2, <1>3 DEF TypeOK
  <1>5. FramesInv' /\ ListInv' /\ LiveInv' /\ HandlesInv'
    <2>1. \A b \in DOMAIN dev : SameCore(dev'[b], dev[b])
      BY <1>3 DEF SameCore
    <2> QED
      BY <1>1, <1>3, <2>1, CoreStep
  <1>6. QueryInv'
    BY <1>1, <1>3 DEF DevInv, QueryInv
  <1>7. NamesInv'
    <2>1. QueryKept(t)
      BY <1>2, KeptSame
    <2> QED
      BY <1>1, <1>3, <2>1, NamesKept
  <1>8. AloneInv'
    <2> SUFFICES ASSUME Cardinality(env.devices \cup env.queries) = 1 PROVE AloneInv'
      BY <1>3 DEF AloneInv
    <2>1. /\ fault' # "freed"
          /\ fault' = "null" => ComesBack("create")
          /\ fault' = "destroyed" => ComesBack("destroy")
      BY <1>1, AloneFault
    <2>2. \A op : ComesBack(op)' = ComesBack(op)
      BY <1>3 DEF ComesBack, Listed
    <2>3. \A u \in Threads : ~query'[u].freed
      BY <1>1, <1>3 DEF AloneInv
    <2> QED
      BY <2>1, <2>2, <2>3 DEF AloneInv
  <1> QED
    BY <1>4, <1>5, <1>6, <1>7, <1>8 DEF IndInv, DevInv

\* After vkDestroyInstance there are no devices, no names, no trampolines.
LEMMA InstanceStep ==
    ASSUME IndInv, DestroyInstance, fault = "none", UNCHANGED <<fault, env>>
    PROVE  IndInv'
  <1>1. TypeOK /\ DevInv /\ NamesInv /\ AloneInv
    BY DEF IndInv
  <1>2. TypeOK' /\ DevInv'
    BY <1>1, DestroyInstanceStep
  <1>3. /\ \A t \in Threads : query'[t] = NoQuery
        /\ names' = [i \in Slots |-> None] /\ count' = 0 /\ given' = {}
    BY DEF DestroyInstance
  <1>4. NamesInv'
    <2>1. \A i \in Slots : ~(i < count') /\ names'[i] = None
      BY <1>3, MaxUnknownAssumption DEF Slots
    <2> QED
      BY <1>3, <2>1 DEF NamesInv
  <1>5. AloneInv'
    <2>1. NoQuery.freed = FALSE
      BY DEF NoQuery
    <2> QED
      BY <1>1, <1>3, <2>1 DEF AloneInv
  <1> QED
    BY <1>2, <1>4, <1>5 DEF IndInv

\* A new instance.
LEMMA InitHolds == Init => IndInv
  <1> SUFFICES ASSUME Init PROVE IndInv
    OBVIOUS
  <1>1. /\ dev = [a \in {} |-> NewDev] /\ list = [d \in Drivers |-> <<>>]
        /\ handles = {} /\ lock = None /\ frames = <<>> /\ patched = {}
        /\ names = [i \in Slots |-> None] /\ count = 0 /\ given = {}
        /\ query = [t \in Threads |-> NoQuery] /\ fault = "none" /\ env \in Environments
    BY DEF Init
  <1>2. NoQuery \in Query /\ NoQuery.a = None /\ NoQuery.freed = FALSE
    BY DriverCountAssumption, MaxUnknownAssumption DEF NoQuery, Query, Slots
  <1>3. DOMAIN dev = {} /\ Len(frames) = 0
    BY <1>1
  <1>4. TypeOK
    <2>1. \E A \in SUBSET DevAddr : dev \in [A -> Dev]
      <3>1. dev \in [{} -> Dev]
        BY <1>1
      <3> QED
        BY <3>1
    <2>2. list \in [Drivers -> Seq(DevAddr)] /\ frames \in Seq(Frame)
      BY <1>1
    <2>3. names \in [Slots -> Names \cup {None}] /\ query \in [Threads -> Query]
      BY <1>1, <1>2
    <2> QED
      BY <1>1, <2>1, <2>2, <2>3 DEF TypeOK
  <1>5. \A d \in Drivers : Range(list[d]) = {} /\ IsInjective(list[d])
    <2>1. Range(<<>>) = {} /\ IsInjective(<<>>)
      BY DEF Range, IsInjective
    <2> QED
      BY <1>1, <2>1
  <1>6. FramesInv
    BY <1>1, <1>3 DEF FramesInv
  <1>7. ListInv /\ LiveInv
    BY <1>3, <1>5 DEF ListInv, LiveInv
  <1>8. HandlesInv
    BY <1>1, <1>3 DEF HandlesInv
  <1>9. QueryInv
    BY <1>1, <1>2 DEF QueryInv
  <1>10. NamesInv
    <2>1. \A i \in Slots : ~(i < count) /\ names[i] = None
      BY <1>1, MaxUnknownAssumption DEF Slots
    <2>2. \A t \in Threads : query[t] = NoQuery
      BY <1>1
    <2> QED
      BY <1>1, <2>1, <2>2 DEF NamesInv
  <1>11. AloneInv
    BY <1>1, <1>2 DEF AloneInv
  <1> QED
    BY <1>4, <1>6, <1>7, <1>8, <1>9, <1>10, <1>11 DEF IndInv, DevInv

\* Nothing happens.
LEMMA StutterStep ==
    ASSUME IndInv, UNCHANGED vars
    PROVE  IndInv'
  <1>1. UNCHANGED <<dev, list, handles, lock, frames, patched, names, count, given, query, fault, env>>
    BY DEF vars
  <1>2. TypeOK'
    BY <1>1 DEF IndInv, TypeOK
  <1>3. FramesInv' /\ ListInv' /\ LiveInv' /\ HandlesInv'
    <2>1. \A b \in DOMAIN dev : SameCore(dev'[b], dev[b])
      BY <1>1 DEF SameCore
    <2> QED
      BY <1>1, <2>1, CoreStep DEF IndInv
  <1>4. QueryInv'
    BY <1>1 DEF IndInv, DevInv, QueryInv
  <1>5. NamesInv'
    <2>1. QueryKept(None)
      BY <1>1, KeptSame DEF table_vars
    <2> QED
      BY <1>1, <2>1, NamesKept DEF IndInv
  <1>6. AloneInv'
    <2>1. \A op : ComesBack(op)' = ComesBack(op)
      BY <1>1 DEF ComesBack, Listed
    <2> QED
      BY <1>1, <2>1 DEF IndInv, AloneInv
  <1> QED
    BY <1>2, <1>3, <1>4, <1>5, <1>6 DEF IndInv, DevInv

\* Every step keeps the inductive invariant.
LEMMA NextStep ==
    ASSUME IndInv, [Next]_vars
    PROVE  IndInv'
  <1>1. TypeOK /\ DevInv /\ NamesInv /\ AloneInv
    BY DEF IndInv
  <1>2. ASSUME NEW t \in env.devices, DeviceStep(t), fault = "none", UNCHANGED <<fault, env>> PROVE IndInv'
    <2>1. TypeOK' /\ DevInv' /\ QueryKept(t)
      BY <1>1, <1>2, DeviceSteps
    <2>2. NamesInv'
      BY <1>1, <1>2, <2>1, NamesKept
    <2>3. AloneInv'
      BY <1>1, <1>2, <2>1, AloneDevice
    <2> QED
      BY <2>1, <2>2, <2>3 DEF IndInv
  <1>3. ASSUME NEW t \in env.queries, QueryStep(t), fault = "none", UNCHANGED <<fault, env>> PROVE IndInv'
    <2>a. t \in Threads
      BY <1>1, EnvFacts
    <2>1. ASSUME NEW f \in Names, QueryKnown(t, f) PROVE TypeOK' /\ DevInv'
      BY <1>1, <1>3, <2>a, <2>1, QueryKnownStep
    <2>2. ASSUME NEW f \in Names, NEW is_tramp \in BOOLEAN, QueryNew(t, f, is_tramp) PROVE TypeOK' /\ DevInv'
      BY <1>1, <1>3, <2>a, <2>2, QueryNewStep
    <2>3. ASSUME NEW f \in Names, NEW is_tramp \in BOOLEAN, QueryNoMemory(t, f, is_tramp) PROVE TypeOK' /\ DevInv'
      BY <1>1, <1>3, <2>a, <2>3, QueryNoMemoryStep
    <2>4. ASSUME QueryVisit(t) PROVE TypeOK' /\ DevInv'
      BY <1>1, <1>3, <2>a, <2>4, QueryVisitStep
    <2>5. ASSUME QueryDone(t) PROVE TypeOK' /\ DevInv'
      BY <1>1, <1>3, <2>a, <2>5, QueryDoneStep
    <2>6. TypeOK' /\ DevInv'
      BY <1>3, <2>1, <2>2, <2>3, <2>4, <2>5 DEF QueryStep
    <2>7. NamesInv' /\ AloneInv'
      BY <1>1, <1>3, NamesQuery, AloneQuery
    <2> QED
      BY <2>6, <2>7 DEF IndInv
  <1> QED
    BY <1>2, <1>3, InstanceStep, FaultStep, StutterStep DEF Next

-----------------------------------------------------------------------------
(* The theorems                                                            *)

\* The inductive invariant of vkCreateDevice, vkDestroyDevice, the layers that
\* nest them, vkDestroyInstance and the unlocked vkGetInstanceProcAddr.
THEOREM Inductive == Spec => []IndInv
  <1>1. Init => IndInv
    BY InitHolds
  <1>2. IndInv /\ [Next]_vars => IndInv'
    BY NextStep
  <1> QED
    BY <1>1, <1>2, PTL DEF Spec

\* Whichever step of a creation fails, in the outer device or in the one that a
\* layer nests in it, the drivers' lists hold exactly the loader_devices that
\* exist, each once and under its own driver, but for those whose call is under
\* way (loader_layer_create_device, loader_remove_logical_device).
THEOREM DevicesListedHolds == Spec => []DevicesListed
  <1>1. IndInv => DevicesListed
    <2> SUFFICES ASSUME IndInv PROVE DevicesListed
      OBVIOUS
    <2>1. TypeOK /\ ListInv /\ FramesInv
      BY DEF IndInv, DevInv
    <2>2. Listed \subseteq DOMAIN dev
      BY <2>1 DEF Listed, ListInv
    <2>3. ASSUME NEW a \in DOMAIN dev PROVE a \in Listed \cup InHand
      <3>1. CASE \E d \in Drivers : a \in Range(list[d])
        BY <3>1 DEF Listed
      <3>2. CASE \E i \in 1..Len(frames) : frames[i].a = a
        <4>1. a # None /\ DOMAIN frames = 1..Len(frames)
          BY <2>1, TypeFacts DEF Depth
        <4> QED
          BY <3>2, <4>1 DEF InHand
      <3> QED
        BY <2>1, <2>3, <3>1, <3>2 DEF ListInv
    <2>4. \A d \in Drivers : \A i \in DOMAIN list[d] : dev[list[d][i]].driver = d
      BY <2>1 DEF ListInv, Range
    <2>5. \A d \in Drivers : IsInjective(list[d])
      BY <2>1 DEF ListInv
    <2> QED
      BY <2>1, <2>2, <2>3, <2>4, <2>5 DEF DevicesListed
  <1> QED
    BY <1>1, Inductive, PTL

\* A VkDevice that the application or a layer holds is found by
\* loader_get_icd_and_device, exists in the driver and has its dispatch table.
THEOREM HandlesResolveHolds == Spec => []HandlesResolve
  <1>1. IndInv => HandlesResolve
    <2> SUFFICES ASSUME IndInv, NEW a \in handles \cup ({dev[b].second : b \in DOMAIN dev} \ {None})
                 PROVE  /\ a \in Listed
                        /\ dev[a].icd = "live" /\ dev[a].gdpa
      BY DEF HandlesResolve
    <2>1. Sound(a)
      <3>1. CASE a \in handles
        BY <3>1 DEF IndInv, DevInv, HandlesInv
      <3>2. CASE a \in {dev[b].second : b \in DOMAIN dev} \ {None}
        <4>1. PICK b \in DOMAIN dev : a = dev[b].second /\ a # None
          BY <3>2
        <4>2. Sound(dev[b].second)
          BY <4>1 DEF IndInv, DevInv, HandlesInv
        <4> QED
          BY <4>1, <4>2 DEF Sound
      <3> QED
        BY <3>1, <3>2
    <2> QED
      BY <2>1 DEF Sound, Listed
  <1> QED
    BY <1>1, Inductive, PTL

\* loader_get_icd_and_device reads icd_device of every listed device: all of those exist in
\* their drivers, unless the call under way has failed or its driver's device is destroyed.
THEOREM ScansSafeHolds == Spec => []ScansSafe
  <1>1. IndInv => ScansSafe
    <2> SUFFICES ASSUME IndInv, frames = <<>> \/ Top.phase \notin {"failed", "gone"}, NEW a \in Listed
                 PROVE  a \in DOMAIN dev /\ dev[a].icd = "live"
      BY DEF ScansSafe
    <2>a. TypeOK /\ FramesInv /\ ListInv /\ LiveInv
      BY DEF IndInv, DevInv
    <2>1. PICK d \in Drivers : a \in Range(list[d])
      BY DEF Listed
    <2>2. \A i \in 1..Len(frames) : frames[i].phase \notin {"failed", "gone"}
      <3> SUFFICES ASSUME NEW i \in 1..Len(frames) PROVE frames[i].phase \notin {"failed", "gone"}
        OBVIOUS
      <3>1. frames # <<>> /\ Len(frames) \in Nat /\ Len(frames) <= 2 /\ Top = frames[Len(frames)]
        BY <2>a, TypeFacts DEF FramesInv, Depth, Top
      <3>a. PICK n : n = Len(frames)
        OBVIOUS
      <3>b. n \in Nat /\ n <= 2 /\ i \in 1..n
        BY <3>1, <3>a
      <3>c. i = n \/ (i = 1 /\ n = 2)
        BY <3>b
      <3>2. i = Len(frames) \/ (i = 1 /\ Len(frames) = 2)
        BY <3>a, <3>c
      <3>3. Len(frames) = 2 => frames[1].phase \notin {"failed", "gone"}
        BY <2>a DEF FramesInv
      <3> QED
        BY <3>1, <3>2, <3>3
    <2> QED
      BY <2>a, <2>1, <2>2 DEF ListInv, LiveInv
  <1> QED
    BY <1>1, Inductive, PTL

\* loader_dev_ext_gpa_impl takes no lock.  With one thread that asks for unknown names every
\* trampoline is its name's own.  If no other thread creates or destroys devices, its walk
\* meets none that is freed; it meets one without a dispatch table, or one that the driver
\* has destroyed, only when a layer asks from inside that device's own call on its way up.
THEOREM SafeAloneHolds == Spec => []SafeAlone
  <1>1. IndInv => SafeAlone
    BY DEF IndInv, NamesInv, AloneInv, SafeAlone, TrampolinesHold
  <1> QED
    BY <1>1, Inductive, PTL

-----------------------------------------------------------------------------
(* The slots of the tables                                                 *)

\* A device of which neither a creation nor a walk is in charge keeps its slots
\* through a device call; x, if there is such a device, is the one it is about.
LEMMA FillOther ==
    ASSUME IndInv, FillInv, NEW t, QueryKept(t), UNCHANGED <<fault, env>>, NEW x,
           \A d \in Drivers : \A a \in Range(list'[d]) : a # x /\ dev'[a].gdpa =>
             /\ a \in Range(list[d]) /\ dev[a].gdpa
             /\ dev'[a].ext = dev[a].ext /\ dev'[a].driver = dev[a].driver,
           \A k \in 1..Len(frames) :
             frames[k].phase # "init" \/ frames[k].slot = MaxUnknown \/ frames[k].a = x,
           \A u \in Threads : query'[u].freed \/
             \A d \in Drivers : \A a \in Range(list'[d]) :
               Ahead(list, a, query[u]) => Ahead(list', a, query[u]),
           Cardinality(env.queries) <= 1, fault = "none",
           NEW d \in Drivers, NEW a \in Range(list'[d]), a # x, dev'[a].gdpa, NEW i \in Slots
    PROVE  FillOK(a, i)'
  <1>1. /\ a \in Range(list[d]) /\ dev[a].gdpa
        /\ dev'[a].ext = dev[a].ext /\ dev'[a].driver = dev[a].driver
    OBVIOUS
  <1>2. FillOK(a, i)
    BY <1>1 DEF FillInv
  <1>3. ASSUME Filled(a, i) PROVE Filled(a, i)'
    BY <1>1, <1>3 DEF Filled, ChainOffers, QueryKept
  <1>4. ~ByCreation(a, i)
    <2>1. i < MaxUnknown /\ i \in Int /\ MaxUnknown \in Int
      BY MaxUnknownAssumption DEF Slots
    <2> QED
      BY <2>1 DEF ByCreation
  <1>5. ASSUME ByWalk(a, i) PROVE ByWalk(a, i)'
    <2>1. PICK u \in Threads : /\ query[u] # NoQuery /\ query[u].slot = i
                               /\ query[u].freed \/ Ahead(list, a, query[u])
      BY <1>5 DEF ByWalk
    <2>2. query'[u] # NoQuery /\ query'[u].slot = i
      BY <2>1 DEF QueryKept
    <2>3. query'[u].freed \/ Ahead(list', a, query[u])
      BY <2>1 DEF QueryKept
    <2>4. query'[u].d = query[u].d /\ query'[u].a = query[u].a
      BY DEF QueryKept
    <2>5. Ahead(list', a, query[u]) => Ahead(list', a, query'[u])
      BY <2>4 DEF Ahead
    <2> QED
      BY <2>2, <2>3, <2>5 DEF ByWalk
  <1> QED
    BY <1>1, <1>2, <1>3, <1>4, <1>5 DEF FillOK

\* A step that is about no device's slots and leaves the lists alone.
LEMMA FillPlain ==
    ASSUME IndInv, FillInv, NEW t, QueryKept(t), UNCHANGED <<list, fault, env>>,
           \A d \in Drivers : \A a \in Range(list[d]) :
             /\ dev'[a].gdpa = dev[a].gdpa
             /\ dev'[a].ext = dev[a].ext /\ dev'[a].driver = dev[a].driver,
           \A k \in 1..Len(frames) : frames[k].phase # "init" \/ frames[k].slot = MaxUnknown
    PROVE  FillInv'
  <1>1. \A d \in Drivers : None \notin Range(list[d])
    BY TypeFacts DEF IndInv
  <1>2. \A d \in Drivers : \A a \in Range(list'[d]) : a # None /\ dev'[a].gdpa =>
             /\ a \in Range(list[d]) /\ dev[a].gdpa
             /\ dev'[a].ext = dev[a].ext /\ dev'[a].driver = dev[a].driver
    OBVIOUS
  <1>3. \A u \in Threads : query'[u].freed \/
             \A d \in Drivers : \A a \in Range(list'[d]) :
               Ahead(list, a, query[u]) => Ahead(list', a, query[u])
    OBVIOUS
  <1>4. \A k \in 1..Len(frames) :
             frames[k].phase # "init" \/ frames[k].slot = MaxUnknown \/ frames[k].a = None
    OBVIOUS
  <1>5. ASSUME Cardinality(env.queries) <= 1, fault = "none",
               NEW d \in Drivers, NEW a \in Range(list'[d]), dev'[a].gdpa, NEW i \in Slots
        PROVE  FillOK(a, i)'
    <2>1. a # None /\ UNCHANGED <<fault, env>>
      BY <1>1
    <2> QED
      BY <1>2, <1>3, <1>4, <1>5, <2>1, FillOther
  <1> QED
    BY <1>5 DEF FillInv

\* Nobody is at the slots of a table unless the innermost call is.
LEMMA NotInit ==
    ASSUME TypeOK, FramesInv, frames = <<>> \/ Top.phase # "init"
    PROVE  \A k \in 1..Len(frames) : frames[k].phase # "init"
  <1>1. CASE frames = <<>>
    BY <1>1
  <1>2. CASE frames # <<>>
    <2>1. /\ Depth \in {1, 2} /\ Len(frames) = Depth /\ Top = frames[Depth]
          /\ Depth = 2 => frames[1].phase \in {"up", "down"}
      BY <1>2, TopFacts
    <2>2. \A k \in 1..Len(frames) : k = Depth \/ (k = 1 /\ Depth = 2)
      BY <2>1
    <2> QED
      BY <1>2, <2>1, <2>2
  <1> QED
    BY <1>1, <1>2

\* The first part of SlotInv.
FrameSlots == \A k \in 1..Len(frames) : frames[k].phase # "init" => frames[k].slot = 0

\* The second is kept by every step of a device call.
LEMMA SlotsKept ==
    ASSUME SlotInv, NEW t, QueryKept(t), FrameSlots'
    PROVE  SlotInv'
  BY DEF SlotInv, QueryKept, FrameSlots

\* The first: when the innermost call goes on with its first slot,
LEMMA TopSlots ==
    ASSUME TypeOK, FramesInv, FrameSlots, frames # <<>>, NEW r \in Frame,
           frames' = [frames EXCEPT ![Depth] = r], r.phase = "init" \/ r.slot = 0
    PROVE  FrameSlots'
  <1>1. /\ Len(frames') = Len(frames) /\ frames'[Depth] = r
        /\ \A i \in 1..Len(frames) : i # Depth => frames'[i] = frames[i]
    BY TopChange
  <1> QED
    BY <1>1 DEF FrameSlots

\* to another phase,
LEMMA GoesSlots ==
    ASSUME TypeOK, FramesInv, FrameSlots, frames # <<>>, Top.phase # "init", NEW p \in Phases, Goes(p)
    PROVE  FrameSlots'
  <1>1. PICK r : r = [Top EXCEPT !.phase = p]
    OBVIOUS
  <1>2. Top \in Frame /\ Top.slot = 0
    BY TopFacts DEF FrameSlots
  <1>3. r \in Frame /\ r.slot = 0
    BY <1>1, <1>2 DEF Frame
  <1>4. frames' = [frames EXCEPT ![Depth] = r]
    BY <1>1 DEF Top, Goes
  <1> QED
    BY <1>3, <1>4, TopSlots

\* or returns.
LEMMA PopSlots ==
    ASSUME TypeOK, FramesInv, FrameSlots, frames # <<>>, NEW p \in Phases, Pops(p)
    PROVE  FrameSlots'
  <1>1. /\ Depth \in {1, 2} /\ Len(frames) = Depth
        /\ Depth = 2 => frames[1].phase \in {"up", "down"}
    BY TopFacts
  <1>2. /\ Depth = 1 => Len(frames') = 0
        /\ Depth = 2 => Len(frames') = 1 /\ frames'[1].slot = frames[1].slot
    BY PopFacts
  <1>3. Depth = 2 => frames[1].slot = 0
    BY <1>1 DEF FrameSlots
  <1>4. CASE Depth = 1
    BY <1>2, <1>4 DEF FrameSlots
  <1>5. CASE Depth = 2
    <2>a. Len(frames') = 1
      BY <1>2, <1>5
    <2>1. \A k \in 1..Len(frames') : k = 1
      BY <2>a
    <2> QED
      BY <1>2, <1>3, <1>5, <2>1 DEF FrameSlots
  <1> QED
    BY <1>1, <1>4, <1>5

\* Two states of a device with the same dispatch table.
SameTable(v, w) == v.gdpa = w.gdpa /\ v.ext = w.ext /\ v.driver = w.driver

\* The table is not touched when icd_device changes, or a layer remembers its
\* second device.
LEMMA OneField ==
    ASSUME TypeOK, NEW x \in DOMAIN dev, NEW w
    PROVE  \A a \in DOMAIN dev : /\ SameTable([dev EXCEPT ![x].icd = w][a], dev[a])
                                 /\ SameTable([dev EXCEPT ![x].second = w][a], dev[a])
  <1>1. dev \in [DOMAIN dev -> Dev] /\ dev[x] \in Dev
    BY TypeFacts
  <1>2. PICK u, v : u = [dev[x] EXCEPT !.icd = w] /\ v = [dev[x] EXCEPT !.second = w]
    OBVIOUS
  <1>3. SameTable(u, dev[x]) /\ SameTable(v, dev[x])
    BY <1>1, <1>2 DEF Dev, SameTable
  <1>4. [dev EXCEPT ![x].icd = w] = [dev EXCEPT ![x] = u] /\ [dev EXCEPT ![x].second = w] = [dev EXCEPT ![x] = v]
    BY <1>1, <1>2
  <1>5. \A a \in DOMAIN dev : SameTable(dev[a], dev[a])
    BY DEF SameTable
  <1>6. \A a \in DOMAIN dev : /\ [dev EXCEPT ![x] = u][a] = IF a = x THEN u ELSE dev[a]
                              /\ [dev EXCEPT ![x] = v][a] = IF a = x THEN v ELSE dev[a]
    BY <1>1
  <1> QED
    BY <1>3, <1>4, <1>5, <1>6

\* A listed device exists.
LEMMA ListedExist ==
    ASSUME IndInv, \A a \in DOMAIN dev : SameTable(dev'[a], dev[a])
    PROVE  \A d \in Drivers : \A a \in Range(list[d]) :
             /\ dev'[a].gdpa = dev[a].gdpa
             /\ dev'[a].ext = dev[a].ext /\ dev'[a].driver = dev[a].driver
  BY DEF IndInv, DevInv, ListInv, SameTable

\* The steps of device calls that touch neither a table nor a list.
LEMMA FillPlainSteps ==
    ASSUME IndInv, SlotInv, FillInv, NEW t \in env.devices, QueryKept(t), UNCHANGED <<fault, env>>,
           \/ \E d \in Drivers, inner \in BOOLEAN : CreateBegin(t, d, inner)
           \/ \E d \in Drivers : LayerCreateBegin(t, d)
           \/ CreateRefused(t)
           \/ \E a \in DevAddr \ DOMAIN dev : CreateDown(t, a)
           \/ TerminatorFails(t)
           \/ LayerFails(t)
           \/ CreateDone(t)
           \/ \E a \in handles : DestroyBegin(t, a)
           \/ LayerDestroyBegin(t)
           \/ DriverDestroys(t)
    PROVE  FrameSlots' /\ FillInv'
  <1>a. TypeOK /\ FramesInv /\ ListInv /\ FrameSlots
    BY DEF IndInv, DevInv, SlotInv, FrameSlots
  <1>b. dev \in [DOMAIN dev -> Dev] /\ frames \in Seq(Frame) /\ Phases # {}
    BY <1>a, TypeFacts DEF Phases
  <1>c. \A a \in DOMAIN dev : SameTable(dev[a], dev[a])
    BY DEF SameTable
  <1>d. ASSUME NEW r, frames' = <<r>>, r.slot = 0 PROVE FrameSlots'
    <2>1. Len(frames') = 1 /\ frames'[1] = r
      BY <1>d
    <2>2. \A k \in 1..Len(frames') : k = 1
      BY <2>1
    <2> QED
      BY <1>d, <2>1, <2>2 DEF FrameSlots
  <1>e. ASSUME NEW r \in Frame, frames' = Append(frames, r), r.slot = 0 PROVE FrameSlots'
    <2>1. PICK q : q = Append(frames, r)
      OBVIOUS
    <2>2. /\ Len(q) = Len(frames) + 1 /\ q[Len(frames) + 1] = r /\ frames' = q
          /\ \A i \in 1..Len(frames) : q[i] = frames[i]
      BY <1>b, <1>e, <2>1, PushFacts
    <2>3. PICK n : n = Len(frames)
      OBVIOUS
    <2>4. n \in Nat
      BY <1>b, <2>3
    <2>5. \A k \in 1..(n + 1) : k = n + 1 \/ k \in 1..n
      BY <2>4
    <2> QED
      BY <1>a, <1>e, <2>2, <2>3, <2>5 DEF FrameSlots
  <1>f. ASSUME frames = <<>> \/ Top.phase # "init", UNCHANGED list, \A a \in DOMAIN dev : SameTable(dev'[a], dev[a])
        PROVE  FillInv'
    <2>1. \A k \in 1..Len(frames) : frames[k].phase # "init"
      BY <1>a, <1>f, NotInit
    <2>2. \A d \in Drivers : \A a \in Range(list[d]) :
             /\ dev'[a].gdpa = dev[a].gdpa
             /\ dev'[a].ext = dev[a].ext /\ dev'[a].driver = dev[a].driver
      BY <1>f, ListedExist
    <2> QED
      BY <1>f, <2>1, <2>2, FillPlain
  <1>1. ASSUME NEW d \in Drivers, NEW inner \in BOOLEAN, CreateBegin(t, d, inner) PROVE FrameSlots' /\ FillInv'
    <2>1. lock = None /\ frames' = <<Creating(d, inner)>> /\ dev' = dev /\ list' = list
      BY <1>1 DEF CreateBegin
    <2>2. frames = <<>> /\ Creating(d, inner).slot = 0
      BY <1>a, <2>1 DEF FramesInv, Creating
    <2> QED
      BY <1>c, <1>d, <1>f, <2>1, <2>2
  <1>2. ASSUME NEW d \in Drivers, LayerCreateBegin(t, d) PROVE FrameSlots' /\ FillInv'
    <2>1. /\ frames' = Append(frames, Creating(d, FALSE)) /\ dev' = dev /\ list' = list
          /\ Top.phase = "up"
      BY <1>2 DEF LayerCreateBegin, At
    <2>2. Creating(d, FALSE) \in Frame /\ Creating(d, FALSE).slot = 0
      BY MaxUnknownAssumption DEF Creating, Frame, Phases
    <2> QED
      BY <1>c, <1>e, <1>f, <2>1, <2>2
  <1>3. ASSUME CreateRefused(t) PROVE FrameSlots' /\ FillInv'
    <2>1. frames # <<>> /\ Top.phase = "begin" /\ Pops("failed") /\ dev' = dev /\ list' = list
      BY <1>3 DEF CreateRefused, At
    <2>2. FrameSlots'
      BY <1>a, <2>1, PopSlots DEF Phases
    <2> QED
      BY <1>c, <1>f, <2>1, <2>2
  <1>4. ASSUME NEW a \in DevAddr \ DOMAIN dev, CreateDown(t, a) PROVE FrameSlots' /\ FillInv'
    <2>1. /\ frames # <<>> /\ Top.phase = "begin" /\ dev' = With(dev, a, NewDev) /\ list' = list
          /\ frames' = [frames EXCEPT ![Depth].a = a, ![Depth].phase = "down"]
      BY <1>4 DEF CreateDown, At
    <2>2. \A b \in DOMAIN dev : dev'[b] = dev[b]
      BY <2>1 DEF With
    <2>3. PICK r : r = [Top EXCEPT !.a = a, !.phase = "down"]
      OBVIOUS
    <2>4. Top \in Frame /\ Top.slot = 0
      BY <1>a, <2>1, TopFacts DEF FrameSlots
    <2>5. r \in Frame /\ r.slot = 0
      BY <2>3, <2>4 DEF Frame, Phases
    <2>6. frames' = [frames EXCEPT ![Depth] = r]
      BY <2>1, <2>3 DEF Top
    <2>7. FrameSlots'
      BY <1>a, <2>1, <2>5, <2>6, TopSlots
    <2> QED
      BY <1>c, <1>f, <2>1, <2>2, <2>7
  <1>5. ASSUME TerminatorFails(t) PROVE FrameSlots' /\ FillInv'
    <2>1. PICK x, d : x = Top.a /\ d = Top.d
      OBVIOUS
    <2>2. /\ frames # <<>> /\ Top.phase = "down" /\ Top.op = "create" /\ Goes("failed") /\ list' = list
          /\ dev' = dev \/ dev' = [dev EXCEPT ![x].driver = d]
      BY <1>5, <2>1 DEF TerminatorFails, At
    <2>3. FrameSlots'
      BY <1>a, <2>2, GoesSlots DEF Phases
    <2>4. \A e \in Drivers : x \notin Range(list[e])
      BY <1>a, <2>1, <2>2, TopFacts DEF FrameOK, PlaceOK
    <2>5. \A b \in DOMAIN dev : b # x => dev'[b] = dev[b]
      BY <1>b, <2>2
    <2>6. \A e \in Drivers : \A b \in Range(list[e]) :
             /\ dev'[b].gdpa = dev[b].gdpa
             /\ dev'[b].ext = dev[b].ext /\ dev'[b].driver = dev[b].driver
      BY <1>a, <2>4, <2>5 DEF ListInv
    <2>7. \A k \in 1..Len(frames) : frames[k].phase # "init"
      BY <1>a, <2>2, NotInit
    <2> QED
      BY <2>2, <2>3, <2>6, <2>7, FillPlain
  <1>6. ASSUME LayerFails(t) PROVE FrameSlots' /\ FillInv'
    <2>1. PICK x : x = Top.a
      OBVIOUS
    <2>2. /\ frames # <<>> /\ Top.phase = "up" /\ Top.op = "create" /\ Goes("failed") /\ list' = list
          /\ dev' = dev \/ dev' = [dev EXCEPT ![x].icd = "dead"]
      BY <1>6, <2>1 DEF LayerFails, At
    <2>3. FrameSlots'
      BY <1>a, <2>2, GoesSlots DEF Phases
    <2>4. x \in DOMAIN dev
      BY <1>a, <2>1, <2>2, TopFacts DEF FrameOK, PhaseOK, OwnOK
    <2>5. \A b \in DOMAIN dev : SameTable(dev'[b], dev[b])
      BY <1>a, <1>c, <2>2, <2>4, OneField
    <2> QED
      BY <1>f, <2>2, <2>3, <2>5
  <1>7. ASSUME CreateDone(t) PROVE FrameSlots' /\ FillInv'
    <2>1. PICK x, y : x = frames[1].a /\ y = Top.a
      OBVIOUS
    <2>2. /\ frames # <<>> /\ Top.phase = "init" /\ Top.slot = MaxUnknown /\ Pops("up") /\ list' = list
          /\ IF Depth = 1 THEN dev' = dev ELSE dev' = [dev EXCEPT ![x].second = y]
      BY <1>7, <2>1 DEF CreateDone, At
    <2>3. FrameSlots'
      BY <1>a, <2>2, PopSlots DEF Phases
    <2>4. /\ Depth \in {1, 2} /\ Len(frames) = Depth /\ Top = frames[Depth]
          /\ Depth = 2 => FrameOK(frames[1]) /\ frames[1].a # None /\ frames[1].phase \in {"up", "down"}
      BY <1>a, <2>2, TopFacts
    <2>5. Depth = 2 => x \in DOMAIN dev
      BY <2>1, <2>4 DEF FrameOK, OwnOK
    <2>6. \A b \in DOMAIN dev : SameTable(dev'[b], dev[b])
      BY <1>a, <1>c, <2>2, <2>4, <2>5, OneField
    <2>7. \A k \in 1..Len(frames) : frames[k].phase # "init" \/ frames[k].slot = MaxUnknown
      <3>1. \A k \in 1..Len(frames) : k = Depth \/ (k = 1 /\ Depth = 2)
        BY <2>4
      <3> QED
        BY <2>2, <2>4, <3>1
    <2>8. \A d \in Drivers : \A a \in Range(list[d]) :
             /\ dev'[a].gdpa = dev[a].gdpa
             /\ dev'[a].ext = dev[a].ext /\ dev'[a].driver = dev[a].driver
      BY <2>6, ListedExist
    <2> QED
      BY <2>2, <2>3, <2>7, <2>8, FillPlain
  <1>8. ASSUME NEW a \in handles, DestroyBegin(t, a) PROVE FrameSlots' /\ FillInv'
    <2>1. lock = None /\ frames' = <<Destroying(a, FirstOn(a))>> /\ dev' = dev /\ list' = list
      BY <1>8 DEF DestroyBegin
    <2>2. frames = <<>> /\ Destroying(a, FirstOn(a)).slot = 0
      BY <1>a, <2>1 DEF FramesInv, Destroying
    <2> QED
      BY <1>c, <1>d, <1>f, <2>1, <2>2
  <1>9. ASSUME LayerDestroyBegin(t) PROVE FrameSlots' /\ FillInv'
    <2>1. PICK x, y : x = Top.a /\ y = dev[Top.a].second
      OBVIOUS
    <2>2. /\ frames # <<>> /\ Top.phase = "down" /\ list' = list /\ y # None
          /\ dev' = [dev EXCEPT ![x].second = None]
          /\ frames' = Append(frames, Destroying(y, FirstOn(y)))
      BY <1>9, <2>1 DEF LayerDestroyBegin, At
    <2>3. x \in DOMAIN dev
      BY <1>a, <2>1, <2>2, TopFacts DEF FrameOK, PhaseOK, OwnOK
    <2>4. PICK d \in Drivers : y \in Range(list[d])
      BY <2>1, <2>2, <2>3 DEF IndInv, DevInv, HandlesInv, Sound
    <2>5. FirstOn(y) = d /\ y \in DevAddr
      BY <1>a, <2>4, OnFacts, TypeFacts DEF ListInv
    <2>6. Destroying(y, d) \in Frame /\ Destroying(y, d).slot = 0
      BY <2>5, MaxUnknownAssumption DEF Destroying, Frame, Phases
    <2>7. \A b \in DOMAIN dev : SameTable(dev'[b], dev[b])
      BY <1>a, <2>2, <2>3, OneField
    <2> QED
      BY <1>e, <1>f, <2>2, <2>5, <2>6, <2>7
  <1>10. ASSUME DriverDestroys(t) PROVE FrameSlots' /\ FillInv'
    <2>1. PICK x : x = Top.a
      OBVIOUS
    <2>2. /\ frames # <<>> /\ Top.phase = "down" /\ Goes("gone") /\ list' = list
          /\ dev' = [dev EXCEPT ![x].icd = "dead"]
      BY <1>10, <2>1 DEF DriverDestroys, At
    <2>3. FrameSlots'
      BY <1>a, <2>2, GoesSlots DEF Phases
    <2>4. x \in DOMAIN dev
      BY <1>a, <2>1, <2>2, TopFacts DEF FrameOK, PhaseOK, OwnOK
    <2>5. \A b \in DOMAIN dev : SameTable(dev'[b], dev[b])
      BY <1>a, <2>2, <2>4, OneField
    <2> QED
      BY <1>f, <2>2, <2>3, <2>5
  <1> QED
    BY <1>1, <1>2, <1>3, <1>4, <1>5, <1>6, <1>7, <1>8, <1>9, <1>10

\* A new device in front moves the others by one,
LEMMA ConsShift ==
    ASSUME NEW S, NEW s \in Seq(S), NEW e \in S, NEW r, r = <<e>> \o s
    PROVE  Len(s) \in Nat /\ DOMAIN r = 1..(Len(s) + 1) /\ \A k \in 2..(Len(s) + 1) : r[k] = s[k - 1]
  <1>1. Len(s) \in Nat /\ r \in Seq(S) /\ Len(r) = Len(s) + 1 /\ \A k \in 2..(Len(s) + 1) : r[k] = s[k - 1]
    OBVIOUS
  <1> QED
    BY <1>1

\* and the removal of one leaves the order of the others.
LEMMA UnlinkedOrder ==
    ASSUME NEW S, NEW s \in Seq(S), NEW p \in 1..Len(s), NEW i \in 1..Len(s), NEW j \in 1..Len(s),
           i <= j, i # p, j # p
    PROVE  \E k, l \in DOMAIN Unlinked(s, p) : /\ Unlinked(s, p)[k] = s[i] /\ Unlinked(s, p)[l] = s[j]
                                               /\ k <= l
  <1>1. PICK r : r = Unlinked(s, p)
    OBVIOUS
  <1>2. Len(s) \in Nat
    OBVIOUS
  <1>3. /\ DOMAIN r = 1..(Len(s) - 1)
        /\ \A k \in 1..(Len(s) - 1) : r[k] = IF k < p THEN s[k] ELSE s[k + 1]
    BY <1>1 DEF Unlinked
  <1>4. \A m \in 1..Len(s) : m # p => \E k \in 1..(Len(s) - 1) : /\ r[k] = s[m]
                                                                 /\ k = IF m < p THEN m ELSE m - 1
    <2> SUFFICES ASSUME NEW m \in 1..Len(s), m # p
                 PROVE  \E k \in 1..(Len(s) - 1) : /\ r[k] = s[m]
                                                   /\ k = IF m < p THEN m ELSE m - 1
      OBVIOUS
    <2>1. CASE m < p
      <3>1. m \in 1..(Len(s) - 1)
        BY <1>2, <2>1
      <3> QED
        BY <1>3, <2>1, <3>1
    <2>2. CASE m > p
      <3>1. m - 1 \in 1..(Len(s) - 1) /\ ~(m - 1 < p) /\ (m - 1) + 1 = m /\ ~(m < p)
        BY <1>2, <2>2
      <3>2. r[m - 1] = s[m]
        BY <1>3, <3>1
      <3> QED
        BY <3>1, <3>2
    <2> QED
      BY <1>2, <2>1, <2>2
  <1>5. PICK k \in 1..(Len(s) - 1) : r[k] = s[i] /\ k = IF i < p THEN i ELSE i - 1
    BY <1>4
  <1>6. PICK l \in 1..(Len(s) - 1) : r[l] = s[j] /\ l = IF j < p THEN j ELSE j - 1
    BY <1>4
  <1>7. k <= l
    BY <1>2, <1>5, <1>6
  <1> QED
    BY <1>1, <1>3, <1>5, <1>6, <1>7

\* What a walk has still to come to, it has still to come to when the order of
\* the lists is kept, as it is when a device enters a list in front,
LEMMA AheadKept ==
    ASSUME TypeOK, NEW l,
           \A e \in Drivers : \A i, j \in DOMAIN list[e] : i <= j =>
             \E k, m \in DOMAIN l[e] : l[e][k] = list[e][i] /\ l[e][m] = list[e][j] /\ k <= m,
           NEW q, q.d \in Drivers, NEW a, Ahead(list, a, q)
    PROVE  Ahead(l, a, q)
  <1>1. list \in [Drivers -> Seq(DevAddr)]
    BY TypeFacts
  <1>2. CASE \E e \in Drivers : e > q.d /\ a \in Range(list[e])
    <2>1. PICK e \in Drivers : e > q.d /\ a \in Range(list[e])
      BY <1>2
    <2>2. PICK i \in DOMAIN list[e] : list[e][i] = a
      BY <2>1 DEF Range
    <2>3. i <= i
      BY <1>1
    <2>4. a \in Range(l[e])
      BY <2>2, <2>3 DEF Range
    <2> QED
      BY <2>1, <2>4 DEF Ahead
  <1>3. CASE \E i, j \in DOMAIN list[q.d] : list[q.d][i] = q.a /\ list[q.d][j] = a /\ i <= j
    <2>1. PICK i \in DOMAIN list[q.d], j \in DOMAIN list[q.d] : list[q.d][i] = q.a /\ list[q.d][j] = a /\ i <= j
      BY <1>3
    <2>2. \E k, m \in DOMAIN l[q.d] : l[q.d][k] = q.a /\ l[q.d][m] = a /\ k <= m
      BY <2>1
    <2> QED
      BY <2>2 DEF Ahead
  <1> QED
    BY <1>2, <1>3 DEF Ahead

\* which the driver's new device does,
LEMMA ConsKept ==
    ASSUME TypeOK, NEW d \in Drivers, \A g \in Drivers : g # d => list'[g] = list[g],
           DOMAIN list'[d] = 1..(Len(list[d]) + 1),
           \A k \in 2..(Len(list[d]) + 1) : list'[d][k] = list[d][k - 1]
    PROVE  \A e \in Drivers : \A i, j \in DOMAIN list[e] : i <= j =>
             \E k, m \in DOMAIN list'[e] : list'[e][k] = list[e][i] /\ list'[e][m] = list[e][j] /\ k <= m
  <1> SUFFICES ASSUME NEW e \in Drivers, NEW i \in DOMAIN list[e], NEW j \in DOMAIN list[e], i <= j
               PROVE  \E k, m \in DOMAIN list'[e] : list'[e][k] = list[e][i] /\ list'[e][m] = list[e][j] /\ k <= m
    OBVIOUS
  <1>1. CASE e = d
    <2>1. PICK n : n = Len(list[d])
      OBVIOUS
    <2>2. n \in Nat /\ i \in 1..n /\ j \in 1..n
      BY <1>1, <2>1, TypeFacts
    <2>3. /\ i + 1 \in 2..(n + 1) /\ j + 1 \in 2..(n + 1)
          /\ i + 1 \in 1..(n + 1) /\ j + 1 \in 1..(n + 1)
          /\ (i + 1) - 1 = i /\ (j + 1) - 1 = j /\ i + 1 <= j + 1
      BY <2>2
    <2>4. list'[d][i + 1] = list[d][i] /\ list'[d][j + 1] = list[d][j] /\ i + 1 \in DOMAIN list'[d] /\ j + 1 \in DOMAIN list'[d]
      BY <2>1, <2>3
    <2> QED
      BY <1>1, <2>3, <2>4
  <1>2. CASE e # d
    BY <1>2
  <1> QED
    BY <1>1, <1>2

\* and when another device than its own is removed.
LEMMA AheadRemoved ==
    ASSUME TypeOK, ListInv, NEW d \in Drivers, NEW x \in Range(list[d]),
           NEW q, q.d \in Drivers, q.a # x, NEW a, a # x, Ahead(list, a, q)
    PROVE  Ahead(Removed(x, d), a, q)
  <1>1. list \in [Drivers -> Seq(DevAddr)]
    BY TypeFacts
  <1>2. PICK l, p : l = Removed(x, d) /\ p = Place(x, d)
    OBVIOUS
  <1>3. /\ l[d] = Unlinked(list[d], p) /\ \A e \in Drivers : e # d => l[e] = list[e]
        /\ p \in 1..Len(list[d]) /\ list[d][p] = x
    BY <1>1, <1>2, OnFacts DEF Removed
  <1>4. ASSUME NEW e \in Drivers, NEW i \in DOMAIN list[e], NEW j \in DOMAIN list[e], i <= j,
               list[e][i] # x, list[e][j] # x
        PROVE  \E k, m \in DOMAIN l[e] : l[e][k] = list[e][i] /\ l[e][m] = list[e][j] /\ k <= m
    <2>1. list[e] \in Seq(DevAddr) /\ i \in 1..Len(list[e]) /\ j \in 1..Len(list[e])
      BY <1>1
    <2>2. CASE e = d
      <3>1. i # p /\ j # p
        BY <1>3, <1>4, <2>2
      <3> QED
        BY <1>3, <1>4, <2>1, <2>2, <3>1, UnlinkedOrder
    <2>3. CASE e # d
      BY <1>3, <1>4, <2>3
    <2> QED
      BY <2>2, <2>3
  <1>5. CASE \E e \in Drivers : e > q.d /\ a \in Range(list[e])
    <2>1. PICK e \in Drivers : e > q.d /\ a \in Range(list[e])
      BY <1>5
    <2>a. Range(Removed(x, d)[e]) = Range(list[e]) \ {x}
      BY RemovedFacts
    <2>2. a \in Range(Removed(x, d)[e])
      BY <2>1, <2>a
    <2> QED
      BY <2>1, <2>2 DEF Ahead
  <1>6. CASE \E i, j \in DOMAIN list[q.d] : list[q.d][i] = q.a /\ list[q.d][j] = a /\ i <= j
    <2>1. PICK i \in DOMAIN list[q.d], j \in DOMAIN list[q.d] : list[q.d][i] = q.a /\ list[q.d][j] = a /\ i <= j
      BY <1>6
    <2>2. \E k, m \in DOMAIN l[q.d] : l[q.d][k] = q.a /\ l[q.d][m] = a /\ k <= m
      BY <1>4, <2>1
    <2> QED
      BY <1>2, <2>2 DEF Ahead
  <1> QED
    BY <1>5, <1>6 DEF Ahead

\* The terminator puts the device into the list: its table is not filled yet.
LEMMA FillTerminator ==
    ASSUME IndInv, SlotInv, FillInv, NEW t \in env.devices, QueryKept(t), UNCHANGED <<fault, env>>,
           TerminatorCreate(t)
    PROVE  FrameSlots' /\ FillInv'
  <1>a. TypeOK /\ FramesInv /\ ListInv /\ QueryInv /\ FrameSlots
    BY DEF IndInv, DevInv, SlotInv, FrameSlots
  <1>b. dev \in [DOMAIN dev -> Dev] /\ list \in [Drivers -> Seq(DevAddr)]
    BY <1>a, TypeFacts
  <1>1. PICK x, d : x = Top.a /\ d = Top.d
    OBVIOUS
  <1>2. /\ frames # <<>> /\ Top.phase = "down" /\ Top.op = "create" /\ Goes("up")
    BY DEF TerminatorCreate, At
  <1>3. /\ d \in Drivers /\ x \in DOMAIN dev /\ x \in DevAddr /\ ~dev[x].gdpa
        /\ \A e \in Drivers : x \notin Range(list[e])
    BY <1>a, <1>1, <1>2, TopFacts, TypeFacts DEF FrameOK, PhaseOK, OwnOK, PlaceOK, Frame
  <1>4. \A b \in DOMAIN dev : b # x => dev'[b] = dev[b]
    BY <1>b, <1>1 DEF TerminatorCreate
  <1>5. ~dev'[x].gdpa
    <2>1. dev' = [dev EXCEPT ![x].driver = d, ![x].icd = "live"]
      BY <1>1 DEF TerminatorCreate
    <2>2. PICK v : v = [dev[x] EXCEPT !.driver = d, !.icd = "live"]
      OBVIOUS
    <2>3. dev[x] \in Dev
      BY <1>b, <1>3
    <2>4. v.gdpa = dev[x].gdpa
      BY <2>2, <2>3 DEF Dev
    <2>5. dev' = [dev EXCEPT ![x] = v]
      BY <1>b, <1>3, <2>1, <2>2
    <2> QED
      BY <1>b, <1>3, <2>4, <2>5
  <1>6. PICK r : r = <<x>> \o list[d]
    OBVIOUS
  <1>7. list'[d] = r /\ \A g \in Drivers : g # d => list'[g] = list[g]
    <2>1. list' = [list EXCEPT ![d] = r]
      BY <1>1, <1>6 DEF TerminatorCreate
    <2> HIDE <1>6
    <2> QED
      BY <1>b, <1>3, <2>1
  <1>8. /\ DOMAIN r = 1..(Len(list[d]) + 1) /\ \A k \in 2..(Len(list[d]) + 1) : r[k] = list[d][k - 1]
        /\ Range(r) = Range(list[d]) \cup {x}
    <2>1. list[d] \in Seq(DevAddr) /\ IsInjective(list[d]) /\ x \notin Range(list[d])
      BY <1>a, <1>b, <1>3 DEF ListInv
    <2> QED
      BY <1>3, <1>6, <2>1, ConsShift, ConsFacts
  <1>9. \A e \in Drivers : \A a \in Range(list'[e]) : a # x => a \in Range(list[e])
    BY <1>7, <1>8
  <1>10. ASSUME NEW u \in Threads, NEW a, Ahead(list, a, query[u]) PROVE Ahead(list', a, query[u])
    <2>1. query[u].d \in Drivers
      BY <1>a, <1>10 DEF QueryInv, Ahead
    <2>2. \A e \in Drivers : \A i, j \in DOMAIN list[e] : i <= j =>
             \E k, m \in DOMAIN list'[e] : list'[e][k] = list[e][i] /\ list'[e][m] = list[e][j] /\ k <= m
      <3>1. /\ DOMAIN list'[d] = 1..(Len(list[d]) + 1)
            /\ \A k \in 2..(Len(list[d]) + 1) : list'[d][k] = list[d][k - 1]
        BY <1>7, <1>8
      <3>2. \A g \in Drivers : g # d => list'[g] = list[g]
        BY <1>7
      <3> QED
        BY <1>a, <1>3, <3>1, <3>2, ConsKept
    <2> QED
      BY <1>a, <1>10, <2>1, <2>2, AheadKept
  <1>11. \A k \in 1..Len(frames) : frames[k].phase # "init"
    BY <1>a, <1>2, NotInit
  <1>12. FrameSlots'
    BY <1>a, <1>2, GoesSlots DEF Phases
  <1>13. \A e \in Drivers : \A a \in Range(list'[e]) : a # x /\ dev'[a].gdpa =>
             /\ a \in Range(list[e]) /\ dev[a].gdpa
             /\ dev'[a].ext = dev[a].ext /\ dev'[a].driver = dev[a].driver
    BY <1>a, <1>4, <1>9 DEF ListInv
  <1>14. \A u \in Threads : query'[u].freed \/
             \A e \in Drivers : \A a \in Range(list'[e]) :
               Ahead(list, a, query[u]) => Ahead(list', a, query[u])
    BY <1>10
  <1>15. \A k \in 1..Len(frames) :
             frames[k].phase # "init" \/ frames[k].slot = MaxUnknown \/ frames[k].a = x
    BY <1>11
  <1>16. ASSUME Cardinality(env.queries) <= 1, fault = "none",
                NEW e \in Drivers, NEW a \in Range(list'[e]), dev'[a].gdpa, NEW i \in Slots
         PROVE  FillOK(a, i)'
    <2>1. a # x
      BY <1>5, <1>16
    <2> QED
      BY <1>13, <1>14, <1>15, <1>16, <2>1, FillOther
  <1> QED
    BY <1>12, <1>16 DEF FillInv

\* The chain returns: the table has no unknown function, and the creation will
\* look at every slot.
LEMMA FillChain ==
    ASSUME IndInv, SlotInv, FillInv, NEW t \in env.devices, QueryKept(t), UNCHANGED <<fault, env>>,
           ChainReturns(t)
    PROVE  FrameSlots' /\ FillInv'
  <1>a. TypeOK /\ FramesInv /\ ListInv /\ FrameSlots
    BY DEF IndInv, DevInv, SlotInv, FrameSlots
  <1>b. dev \in [DOMAIN dev -> Dev]
    BY <1>a, TypeFacts
  <1>1. PICK x : x = Top.a
    OBVIOUS
  <1>2. /\ frames # <<>> /\ Top.phase = "up" /\ Top.op = "create" /\ Goes("init") /\ list' = list
        /\ dev' = [dev EXCEPT ![x].gdpa = TRUE, ![x].ext = [i \in Slots |-> None]]
    BY <1>1 DEF ChainReturns, At, TableFilled
  <1>3. x \in DOMAIN dev /\ dev[x] \in Dev
    BY <1>a, <1>b, <1>1, <1>2, TopFacts DEF FrameOK, PhaseOK, OwnOK
  <1>4. PICK v : v = [dev[x] EXCEPT !.gdpa = TRUE, !.ext = [i \in Slots |-> None]]
    OBVIOUS
  <1>5. dev' = [dev EXCEPT ![x] = v] /\ v.ext = [i \in Slots |-> None]
    BY <1>b, <1>2, <1>3, <1>4 DEF Dev
  <1>6. /\ \A b \in DOMAIN dev : b # x => dev'[b] = dev[b]
        /\ \A i \in Slots : dev'[x].ext[i] = None
    BY <1>b, <1>3, <1>5
  <1>7. PICK r : r = [Top EXCEPT !.phase = "init"]
    OBVIOUS
  <1>8. Top \in Frame /\ Top.slot = 0 /\ Depth \in 1..Len(frames)
    BY <1>a, <1>2, TopFacts DEF FrameSlots
  <1>9. r \in Frame /\ r.slot = 0 /\ r.phase = "init" /\ r.a = x
    BY <1>1, <1>7, <1>8 DEF Frame, Phases
  <1>10. frames' = [frames EXCEPT ![Depth] = r]
    BY <1>2, <1>7 DEF Goes, Top
  <1>11. FrameSlots' /\ frames'[Depth] = r /\ Len(frames') = Len(frames)
    BY <1>a, <1>2, <1>9, <1>10, TopSlots, TopChange
  <1>12. ASSUME NEW i \in Slots PROVE FillOK(x, i)'
    <2>1. PICK k : k = Depth
      OBVIOUS
    <2>2. k \in 1..Len(frames') /\ frames'[k] = r /\ 0 <= i
      BY <1>8, <1>11, <2>1, MaxUnknownAssumption DEF Slots
    <2>3. ByCreation(x, i)'
      BY <1>9, <2>2 DEF ByCreation
    <2> QED
      BY <1>6, <2>3 DEF FillOK
  <1>13. \A d \in Drivers : \A a \in Range(list'[d]) : a # x /\ dev'[a].gdpa =>
             /\ a \in Range(list[d]) /\ dev[a].gdpa
             /\ dev'[a].ext = dev[a].ext /\ dev'[a].driver = dev[a].driver
    BY <1>a, <1>2, <1>6 DEF ListInv
  <1>14. \A u \in Threads : query'[u].freed \/
             \A d \in Drivers : \A a \in Range(list'[d]) :
               Ahead(list, a, query[u]) => Ahead(list', a, query[u])
    BY <1>2
  <1>15. \A k \in 1..Len(frames) :
             frames[k].phase # "init" \/ frames[k].slot = MaxUnknown \/ frames[k].a = x
    BY <1>a, <1>2, NotInit
  <1>16. ASSUME Cardinality(env.queries) <= 1, fault = "none",
                NEW d \in Drivers, NEW a \in Range(list'[d]), dev'[a].gdpa, NEW i \in Slots
         PROVE  FillOK(a, i)'
    <2>1. CASE a = x
      BY <1>12, <2>1
    <2>2. CASE a # x
      BY <1>13, <1>14, <1>15, <1>16, <2>2, FillOther
    <2> QED
      BY <2>1, <2>2
  <1> QED
    BY <1>11, <1>16 DEF FillInv

\* What a chain offers has a name.
LEMMA OffersNamed ==
    ASSUME IndInv, NEW d \in Drivers, NEW a \in Range(list[d])
    PROVE  ChainOffers(a) \subseteq Names /\ None \notin ChainOffers(a)
  <1>1. dev[a].driver = d
    BY DEF IndInv, DevInv, ListInv
  <1> QED
    BY <1>1, OffersAssumption, NoneDistinct DEF ChainOffers

\* The creation looks at a slot.
LEMMA FillInit ==
    ASSUME IndInv, SlotInv, FillInv, NEW t \in env.devices, QueryKept(t), UNCHANGED <<fault, env>>,
           CreateInitSlot(t)
    PROVE  FrameSlots' /\ FillInv'
  <1>a. TypeOK /\ FramesInv /\ ListInv /\ FrameSlots
    BY DEF IndInv, DevInv, SlotInv, FrameSlots
  <1>b. dev \in [DOMAIN dev -> Dev] /\ names \in [Slots -> Names \cup {None}]
    BY <1>a, TypeFacts DEF TypeOK
  <1>1. PICK x, n : x = Top.a /\ n = Top.slot
    OBVIOUS
  <1>2. /\ frames # <<>> /\ Top.phase = "init" /\ Top.op = "create" /\ list' = list /\ n < MaxUnknown
        /\ dev' = InitSlot(x, n) /\ frames' = [frames EXCEPT ![Depth].slot = @ + 1]
    BY <1>1 DEF CreateInitSlot, At
  <1>3. /\ x \in DOMAIN dev /\ dev[x] \in Dev /\ Top \in Frame /\ x # None
        /\ Top = frames[Depth] /\ Len(frames) = Depth /\ Depth \in {1, 2}
        /\ Depth = 2 => frames[1].phase \in {"up", "down"}
    BY <1>a, <1>b, <1>1, <1>2, TopFacts DEF FrameOK, PhaseOK, OwnOK
  <1>4. n \in Slots /\ n + 1 \in 0..MaxUnknown
    BY <1>1, <1>2, <1>3, MaxUnknownAssumption DEF Frame, Slots
  <1>5. PICK v \in Dev : /\ InitSlot(x, n) = [dev EXCEPT ![x] = v]
                         /\ SameCore(v, dev[x])
                         /\ v.ext = IF names[n] # None /\ names[n] \in ChainOffers(x)
                                    THEN [dev[x].ext EXCEPT ![n] = names[n]] ELSE dev[x].ext
    BY <1>a, <1>3, <1>4, InitSlotFacts
  <1>6. /\ \A b \in DOMAIN dev : b # x => dev'[b] = dev[b]
        /\ dev'[x] = v
    BY <1>b, <1>2, <1>3, <1>5
  <1>7. PICK r : r = [Top EXCEPT !.slot = n + 1]
    OBVIOUS
  <1>8. r \in Frame /\ r.phase = "init" /\ r.slot = n + 1 /\ r.a = x
    BY <1>1, <1>2, <1>3, <1>4, <1>7 DEF Frame
  <1>9. frames' = [frames EXCEPT ![Depth] = r]
    BY <1>1, <1>2, <1>7 DEF Top
  <1>10. FrameSlots' /\ frames'[Depth] = r /\ Len(frames') = Len(frames)
    BY <1>a, <1>2, <1>8, <1>9, TopSlots, TopChange
  <1>11. \A k \in 1..Len(frames) : frames[k].phase # "init" \/ k = Depth
    <2>1. \A k \in 1..Len(frames) : k = Depth \/ (k = 1 /\ Depth = 2)
      BY <1>3
    <2> QED
      BY <1>3, <2>1
  <1>12. ASSUME Cardinality(env.queries) <= 1, fault = "none",
                NEW d \in Drivers, x \in Range(list[d]), NEW i \in Slots
         PROVE  FillOK(x, i)'
    <2>1. FillOK(x, i) /\ dev[x].gdpa
      <3>1. dev[x].gdpa
        BY <1>a, <1>1, <1>2, TopFacts DEF FrameOK, PlaceOK
      <3> QED
        BY <1>12, <3>1 DEF FillInv
    <2>2. /\ v.driver = dev[x].driver /\ dev[x].ext \in [Slots -> Names \cup {None}]
          /\ names' = names
      BY <1>3, <1>5 DEF SameCore, Dev, QueryKept
    <2>3. ChainOffers(x)' = ChainOffers(x)
      BY <1>6, <2>2 DEF ChainOffers
    <2>4. None \notin ChainOffers(x)
      BY <1>12, OffersNamed
    <2>5. CASE i = n
      <3>1. CASE names[n] # None /\ names[n] \in ChainOffers(x)
        <4>1. v.ext[i] = names[i]
          BY <1>4, <1>5, <2>2, <2>5, <3>1
        <4>2. Filled(x, i)'
          BY <1>6, <2>2, <2>3, <2>5, <3>1, <4>1 DEF Filled
        <4> QED
          BY <4>2 DEF FillOK
      <3>2. CASE ~(names[n] # None /\ names[n] \in ChainOffers(x))
        <4>1. v.ext = dev[x].ext
          BY <1>5, <3>2
        <4>2. names[i] \notin ChainOffers(x)
          BY <2>4, <2>5, <3>2
        <4>3. dev[x].ext[i] = None
          BY <2>1, <4>2 DEF FillOK, Filled
        <4>4. Filled(x, i)'
          BY <1>6, <2>2, <2>3, <4>1, <4>2, <4>3 DEF Filled
        <4> QED
          BY <4>4 DEF FillOK
      <3> QED
        BY <3>1, <3>2
    <2>6. CASE i # n
      <3>1. v.ext[i] = dev[x].ext[i]
        BY <1>5, <2>2, <2>6
      <3>2. ASSUME Filled(x, i) PROVE Filled(x, i)'
        BY <1>6, <2>2, <2>3, <3>1, <3>2 DEF Filled
      <3>3. ASSUME ByCreation(x, i) PROVE ByCreation(x, i)'
        <4>1. n <= i
          BY <1>1, <1>3, <1>11, <3>3 DEF ByCreation
        <4>2. n + 1 <= i
          BY <1>4, <2>6, <4>1, MaxUnknownAssumption DEF Slots
        <4>3. PICK k : k = Depth
          OBVIOUS
        <4>4. k \in 1..Len(frames') /\ frames'[k] = r
          BY <1>3, <1>10, <4>3
        <4> QED
          BY <1>8, <4>2, <4>4 DEF ByCreation
      <3>4. ASSUME ByWalk(x, i) PROVE ByWalk(x, i)'
        <4>1. PICK u \in Threads : /\ query[u] # NoQuery /\ query[u].slot = i
                                   /\ query[u].freed \/ Ahead(list, x, query[u])
          BY <3>4 DEF ByWalk
        <4>2. /\ query'[u] # NoQuery /\ query'[u].slot = i
              /\ query'[u].d = query[u].d /\ query'[u].a = query[u].a
              /\ query'[u].freed \/ Ahead(list, x, query[u])
          BY <4>1 DEF QueryKept
        <4>3. Ahead(list, x, query[u]) => Ahead(list', x, query'[u])
          BY <1>2, <4>2 DEF Ahead
        <4> QED
          BY <4>2, <4>3 DEF ByWalk
      <3> QED
        BY <1>6, <2>1, <3>1, <3>2, <3>3, <3>4 DEF FillOK
    <2> QED
      BY <2>5, <2>6
  <1>13. \A d \in Drivers : \A a \in Range(list'[d]) : a # x /\ dev'[a].gdpa =>
             /\ a \in Range(list[d]) /\ dev[a].gdpa
             /\ dev'[a].ext = dev[a].ext /\ dev'[a].driver = dev[a].driver
    BY <1>a, <1>2, <1>6 DEF ListInv
  <1>14. \A u \in Threads : query'[u].freed \/
             \A d \in Drivers : \A a \in Range(list'[d]) :
               Ahead(list, a, query[u]) => Ahead(list', a, query[u])
    BY <1>2
  <1>15. \A k \in 1..Len(frames) :
             frames[k].phase # "init" \/ frames[k].slot = MaxUnknown \/ frames[k].a = x
    BY <1>1, <1>3, <1>11
  <1>16. ASSUME Cardinality(env.queries) <= 1, fault = "none",
                NEW d \in Drivers, NEW a \in Range(list'[d]), dev'[a].gdpa, NEW i \in Slots
         PROVE  FillOK(a, i)'
    <2>1. CASE a = x
      BY <1>2, <1>12, <1>16, <2>1
    <2>2. CASE a # x
      BY <1>13, <1>14, <1>15, <1>16, <2>2, FillOther
    <2> QED
      BY <2>1, <2>2
  <1> QED
    BY <1>10, <1>16 DEF FillInv

\* A device is removed and freed: a walk that was at it is marked, for any other
\* the devices ahead are still ahead.
LEMMA FillFree ==
    ASSUME IndInv, SlotInv, FillInv, NEW t \in env.devices, QueryKept(t), UNCHANGED <<fault, env>>,
           CreateCleanup(t) \/ DestroyRemove(t)
    PROVE  FrameSlots' /\ FillInv'
  <1>a. TypeOK /\ FramesInv /\ ListInv /\ QueryInv /\ FrameSlots
    BY DEF IndInv, DevInv, SlotInv, FrameSlots
  <1>1. PICK x, d : x = Top.a /\ d = Top.d
    OBVIOUS
  <1>2. /\ frames # <<>> /\ Top.phase \in {"failed", "gone"} /\ Freed(x)
        /\ Pops("failed") \/ Pops("down")
        /\ \/ list' = CleanedList(x)
           \/ Top.op = "destroy" /\ list' = Removed(x, d)
    BY <1>1 DEF CreateCleanup, DestroyRemove, At
  <1>3. Top.a # None /\ Top \in Frame /\ (Top.op = "destroy" => x \in Range(list[d]) /\ d \in Drivers)
    BY <1>a, <1>1, <1>2, TopFacts DEF FrameOK, PhaseOK, PlaceOK, Frame
  <1>4. \/ list' = list /\ \A e \in Drivers : x \notin Range(list[e])
        \/ \E e \in Drivers : x \in Range(list[e]) /\ list' = Removed(x, e)
    <2>1. CASE Top.op = "destroy" /\ list' = Removed(x, d)
      BY <1>3, <2>1
    <2>2. CASE list' = CleanedList(x) /\ On(x) = {}
      BY <2>2 DEF CleanedList, On
    <2>3. CASE list' = CleanedList(x) /\ On(x) # {}
      <3>1. PICK e \in Drivers : x \in Range(list[e])
        BY <2>3 DEF On
      <3>2. FirstOn(x) = e
        BY <1>a, <3>1, OnFacts
      <3>3. list' = Removed(x, e)
        BY <2>3, <3>2 DEF CleanedList, Removed
      <3> QED
        BY <3>1, <3>3
    <2> QED
      BY <1>2, <2>1, <2>2, <2>3
  <1>5. \A e \in Drivers : \A a \in Range(list'[e]) : a # x /\ a \in Range(list[e])
    <2>1. CASE list' = list /\ \A e \in Drivers : x \notin Range(list[e])
      BY <2>1
    <2>2. CASE \E e \in Drivers : x \in Range(list[e]) /\ list' = Removed(x, e)
      <3>1. PICK e \in Drivers : x \in Range(list[e]) /\ list' = Removed(x, e)
        BY <2>2
      <3>2. \A g \in Drivers : Range(Removed(x, e)[g]) = Range(list[g]) \ {x}
        BY <1>a, <3>1, RemovedFacts
      <3> QED
        BY <3>1, <3>2
    <2> QED
      BY <1>4, <2>1, <2>2
  <1>6. \A b \in DOMAIN dev : b # x => dev'[b] = dev[b]
    BY <1>2 DEF Freed, Without
  <1>7. FrameSlots'
    BY <1>a, <1>2, PopSlots DEF Phases
  <1>8. \A e \in Drivers : \A a \in Range(list'[e]) : a # x /\ dev'[a].gdpa =>
             /\ a \in Range(list[e]) /\ dev[a].gdpa
             /\ dev'[a].ext = dev[a].ext /\ dev'[a].driver = dev[a].driver
    BY <1>a, <1>5, <1>6 DEF ListInv
  <1>9. ASSUME NEW u \in Threads, ~query'[u].freed,
               NEW e \in Drivers, NEW a \in Range(list'[e]), Ahead(list, a, query[u])
        PROVE  Ahead(list', a, query[u])
    <2>1. query[u].a # None /\ query[u].d \in Drivers
      BY <1>a, <1>9 DEF QueryInv, Ahead
    <2>2. query[u].a # x
      <3>1. query \in [Threads -> Query] /\ query' = [w \in Threads |-> [query[w] EXCEPT !.freed = @ \/ query[w].a = x]]
        BY <1>a, <1>2 DEF TypeOK, Freed
      <3>2. query[u] \in Query /\ query'[u] = [query[u] EXCEPT !.freed = query[u].freed \/ query[u].a = x]
        BY <3>1
      <3>3. query'[u].freed = (query[u].freed \/ query[u].a = x)
        BY <3>2 DEF Query
      <3> QED
        BY <1>9, <3>3
    <2>3. a # x
      BY <1>5, <1>9
    <2>4. CASE list' = list
      BY <1>9, <2>4
    <2>5. CASE \E g \in Drivers : x \in Range(list[g]) /\ list' = Removed(x, g)
      <3>1. PICK g \in Drivers : x \in Range(list[g]) /\ list' = Removed(x, g)
        BY <2>5
      <3>2. PICK q : q = query[u]
        OBVIOUS
      <3>3. Ahead(Removed(x, g), a, q)
        BY <1>a, <1>9, <2>1, <2>2, <2>3, <3>1, <3>2, AheadRemoved
      <3> QED
        BY <3>1, <3>2, <3>3
    <2> QED
      BY <1>4, <2>4, <2>5
  <1>10. \A u \in Threads : query'[u].freed \/
             \A e \in Drivers : \A a \in Range(list'[e]) :
               Ahead(list, a, query[u]) => Ahead(list', a, query[u])
    BY <1>9
  <1>11. \A k \in 1..Len(frames) :
             frames[k].phase # "init" \/ frames[k].slot = MaxUnknown \/ frames[k].a = x
    BY <1>a, <1>2, NotInit
  <1>12. ASSUME Cardinality(env.queries) <= 1, fault = "none",
                NEW e \in Drivers, NEW a \in Range(list'[e]), dev'[a].gdpa, NEW i \in Slots
         PROVE  FillOK(a, i)'
    <2>1. a # x
      BY <1>5
    <2> QED
      BY <1>8, <1>10, <1>11, <1>12, <2>1, FillOther
  <1> QED
    BY <1>7, <1>12 DEF FillInv

\* A walk that begins has every listed device ahead,
LEMMA AheadAll ==
    ASSUME IndInv, NEW d \in Drivers, NEW a \in Range(list[d]), NEW g \in 0..DriverCount, g < d,
           NEW n, n = NextHead(g), NEW q, q.d = n.d, q.a = n.a
    PROVE  Ahead(list, a, q)
  <1>a. TypeOK /\ d \in Int /\ g \in Int /\ d > g
    BY DriverCountAssumption DEF IndInv, Drivers
  <1>1. /\ n.a = None => \A e \in Drivers : e > g => list[e] = <<>>
        /\ n.a # None => /\ n.d \in Drivers /\ n.d > g
                         /\ list[n.d] # <<>> /\ n.a = list[n.d][1]
                         /\ \A e \in Drivers : e > g /\ e < n.d => list[e] = <<>>
    BY <1>a, NextHeadFacts
  <1>2. PICK j \in DOMAIN list[d] : list[d][j] = a
    BY DEF Range
  <1>3. list[d] # <<>> /\ list[d] \in Seq(DevAddr) /\ j \in 1..Len(list[d])
    BY <1>a, <1>2, TypeFacts
  <1>4. n.a # None
    BY <1>a, <1>1, <1>3
  <1>5. n.d \in Drivers /\ n.d \in Int /\ ~(d < n.d)
    BY <1>a, <1>1, <1>3, <1>4, DriverCountAssumption DEF Drivers
  <1>6. CASE d > n.d
    BY <1>4, <1>6 DEF Ahead
  <1>7. CASE d = n.d
    <2>1. 1 \in DOMAIN list[d] /\ 1 <= j
      BY <1>3
    <2>2. list[d][1] = n.a
      BY <1>1, <1>4, <1>7
    <2> QED
      BY <1>2, <1>4, <1>7, <2>1, <2>2 DEF Ahead
  <1> QED
    BY <1>a, <1>5, <1>6, <1>7

\* and one that goes on, all that it had ahead but the device it was at.
LEMMA AheadNext ==
    ASSUME IndInv, NEW q, q.d \in Drivers, q.a \in Range(list[q.d]), NEW a, a # q.a, Ahead(list, a, q),
           NEW n, n = NextStop(q.a, q.d), NEW r, r.d = n.d, r.a = n.a
    PROVE  Ahead(list, a, r)
  <1>a. TypeOK /\ ListInv
    BY DEF IndInv, DevInv
  <1>b. PICK d, x, i : d = q.d /\ x = q.a /\ i = Place(q.a, q.d)
    OBVIOUS
  <1>c. d \in Drivers /\ d \in Int /\ d \in 0..DriverCount
    BY <1>b, DriverCountAssumption DEF Drivers
  <1>1. /\ list[d] \in Seq(DevAddr) /\ i \in 1..Len(list[d]) /\ list[d][i] = x
    BY <1>a, <1>b, OnFacts, TypeFacts
  <1>2. \/ i < Len(list[d]) /\ n.d = d /\ n.a = list[d][i + 1] /\ n.a # None
        \/ i = Len(list[d]) /\ n = NextHead(d)
    BY <1>a, <1>b, NextStopFacts
  <1>3. CASE \E e \in Drivers : e > d /\ a \in Range(list[e])
    <2>1. PICK e \in Drivers : e > d /\ a \in Range(list[e])
      BY <1>3
    <2>2. CASE n.d = d /\ n.a # None
      BY <2>1, <2>2 DEF Ahead
    <2>3. CASE n = NextHead(d)
      <3>1. d < e
        BY <1>c, <2>1, DriverCountAssumption DEF Drivers
      <3> QED
        BY <1>c, <2>1, <2>3, <3>1, AheadAll
    <2> QED
      BY <1>2, <2>2, <2>3
  <1>4. CASE \E k, j \in DOMAIN list[d] : list[d][k] = x /\ list[d][j] = a /\ k <= j
    <2>1. PICK k \in DOMAIN list[d], j \in DOMAIN list[d] : list[d][k] = x /\ list[d][j] = a /\ k <= j
      BY <1>4
    <2>2. IsInjective(list[d])
      BY <1>a, <1>c DEF ListInv
    <2>3. k = i
      BY <1>1, <2>1, <2>2 DEF IsInjective
    <2>4. j # i
      BY <1>b, <1>1, <2>1
    <2>5. i + 1 <= j /\ j \in 1..Len(list[d])
      BY <1>1, <2>1, <2>3, <2>4
    <2>6. i < Len(list[d]) /\ i + 1 \in DOMAIN list[d]
      BY <1>1, <2>5
    <2>7. n.d = d /\ n.a = list[d][i + 1] /\ n.a # None
      BY <1>1, <1>2, <2>6
    <2> QED
      BY <2>1, <2>5, <2>6, <2>7 DEF Ahead
  <1> QED
    BY <1>b, <1>3, <1>4 DEF Ahead

\* The steps of a query, when one thread queries.
LEMMA FillQuery ==
    ASSUME IndInv, SlotInv, FillInv, NEW t \in env.queries, QueryStep(t), UNCHANGED <<fault, env>>
    PROVE  SlotInv' /\ FillInv'
  <1>a. TypeOK /\ DevInv /\ ListInv /\ NamesInv /\ t \in Threads
    BY EnvFacts DEF IndInv, DevInv
  <1>b. NoQuery.freed = FALSE /\ NoQuery.a = None
    BY DEF NoQuery
  <1>c. FrameSlots /\ \A u \in Threads : query[u].freed => query[u].a # None
    BY DEF SlotInv, FrameSlots
  <1>d. ASSUME UNCHANGED frames, \A u \in Threads : u # t => query'[u] = query[u],
               query'[t].freed => query'[t].a # None
        PROVE  SlotInv'
    BY <1>c, <1>d DEF SlotInv, FrameSlots
  <1>e. Cardinality(env.queries) <= 1 => \A u \in Threads : u # t => query[u] = NoQuery
    BY <1>a, OneQuery
  <1>f. ASSUME UNCHANGED <<dev, list, frames, names, query>> PROVE SlotInv' /\ FillInv'
    <2>1. ASSUME NEW a, NEW i, FillOK(a, i) PROVE FillOK(a, i)'
      BY <1>f, <2>1 DEF FillOK, Filled, ByCreation, ByWalk, ChainOffers
    <2> QED
      BY <1>f, <2>1 DEF SlotInv, FillInv
  <1>1. ASSUME NEW f \in Names, QueryKnown(t, f) PROVE SlotInv' /\ FillInv'
    <2>1. UNCHANGED <<dev, list, frames, names, query>>
      BY <1>1 DEF QueryKnown, device_vars
    <2> QED
      BY <1>f, <2>1
  <1>2. ASSUME NEW f \in Names, NEW is_tramp \in BOOLEAN, QueryNew(t, f, is_tramp) PROVE SlotInv' /\ FillInv'
    <2>1. /\ TypeOK' /\ DevInv'
          /\ query[t] = NoQuery /\ count \in Slots
          /\ names' = [names EXCEPT ![count] = f]
          /\ query'[t] # NoQuery /\ query'[t].f = f /\ query'[t].slot = count /\ query'[t].freed = FALSE
          /\ query'[t].d = NextHead(0).d /\ query'[t].a = NextHead(0).a
          /\ \A u \in Threads : u # t => query'[u] = query[u]
          /\ UNCHANGED <<device_vars, count, given>>
      BY <1>a, <1>2, QueryNewStep, Zenon
    <2>2. UNCHANGED <<dev, list, frames>>
      BY <2>1 DEF device_vars
    <2>3. SlotInv'
      BY <1>d, <2>1, <2>2
    <2>4. ASSUME Cardinality(env.queries) <= 1, fault = "none",
                 NEW d \in Drivers, NEW a \in Range(list[d]), dev[a].gdpa, NEW i \in Slots
          PROVE  FillOK(a, i)'
      <3>1. FillOK(a, i) /\ \A u \in Threads : query[u] = NoQuery
        BY <1>e, <2>1, <2>4 DEF FillInv
      <3>2. ~ByWalk(a, i)
        BY <3>1 DEF ByWalk
      <3>3. names \in [Slots -> Names \cup {None}] /\ count \in Int /\ i \in Int
        BY <1>a, MaxUnknownAssumption DEF TypeOK, Slots
      <3>4. CASE i = count
        <4>1. names[i] = None
          <5>1. i >= count
            BY <3>3, <3>4
          <5> QED
            BY <1>a, <2>4, <3>1, <5>1 DEF NamesInv
        <4>2. dev[a].ext[i] = None
          BY <2>4, <3>1, <4>1, OffersNamed DEF FillOK, Filled
        <4>3. Ahead(list, a, query'[t])
          <5>1. PICK n, q : n = NextHead(0) /\ q = query'[t]
            OBVIOUS
          <5>2. 0 \in 0..DriverCount /\ 0 < d
            BY DriverCountAssumption DEF Drivers
          <5>3. q.d = n.d /\ q.a = n.a
            BY <2>1, <5>1
          <5> QED
            BY <5>1, <5>2, <5>3, AheadAll
        <4>4. ByWalk(a, i)'
          BY <1>a, <2>1, <2>2, <3>4, <4>3 DEF ByWalk
        <4> QED
          BY <2>2, <4>2, <4>4 DEF FillOK
      <3>5. CASE i # count
        <4>1. names'[i] = names[i]
          BY <2>1, <3>3, <3>5
        <4>2. ASSUME Filled(a, i) PROVE Filled(a, i)'
          BY <2>2, <4>1, <4>2 DEF Filled, ChainOffers
        <4>3. ASSUME ByCreation(a, i) PROVE ByCreation(a, i)'
          BY <2>2, <4>3 DEF ByCreation
        <4> QED
          BY <2>2, <3>1, <3>2, <4>2, <4>3 DEF FillOK
      <3> QED
        BY <3>4, <3>5
    <2> QED
      BY <2>2, <2>3, <2>4 DEF FillInv
  <1>3. ASSUME NEW f \in Names, NEW is_tramp \in BOOLEAN, QueryNoMemory(t, f, is_tramp) PROVE SlotInv' /\ FillInv'
    <2>1. /\ query[t] = NoQuery /\ count \in Slots
          /\ names' = [names EXCEPT ![count] = None]
          /\ UNCHANGED <<device_vars, query>>
      BY <1>a, <1>3, QueryNoMemoryStep
    <2>2. UNCHANGED <<dev, list, frames, query>>
      BY <2>1 DEF device_vars
    <2>3. CASE Cardinality(env.queries) <= 1
      <3>1. \A u \in Threads : query[u] = NoQuery
        BY <1>e, <2>1, <2>3
      <3>2. names \in [Slots -> Names \cup {None}] /\ count \in Nat
        BY <1>a DEF TypeOK
      <3>3. names[count] = None
        <4>1. count >= count
          BY <3>2
        <4> QED
          BY <1>a, <2>1, <2>3, <3>1, <4>1 DEF NamesInv
      <3>4. names' = names
        BY <2>1, <3>2, <3>3
      <3> QED
        BY <1>f, <2>2, <3>4
    <2>4. CASE ~(Cardinality(env.queries) <= 1)
      <3>1. SlotInv'
        BY <1>c, <1>d, <2>2, <1>a
      <3> QED
        BY <2>4, <3>1 DEF FillInv
    <2> QED
      BY <2>3, <2>4
  <1>4. ASSUME QueryVisit(t) PROVE SlotInv' /\ FillInv'
    <2>a. PICK q, x, n : q = query[t] /\ x = query[t].a /\ n = NextStop(query[t].a, query[t].d)
      OBVIOUS
    <2>1. /\ DOMAIN dev' = DOMAIN dev /\ \A b \in DOMAIN dev : SameCore(dev'[b], dev[b])
          /\ UNCHANGED <<list, frames, names>>
          /\ x # None /\ q.d \in Drivers /\ x \in Range(list[q.d])
          /\ q # NoQuery /\ ~q.freed /\ dev[x].gdpa
          /\ \A b \in DOMAIN dev : b # x => dev'[b] = dev[b]
          /\ dev'[x].ext = IF q.f \in ChainOffers(x) THEN [dev[x].ext EXCEPT ![q.slot] = q.f] ELSE dev[x].ext
          /\ query'[t].d = n.d /\ query'[t].a = n.a
          /\ query'[t].f = q.f /\ query'[t].slot = q.slot /\ query'[t].freed = q.freed
          /\ query'[t] # NoQuery
          /\ \A u \in Threads : u # t => query'[u] = query[u]
      BY <1>a, <1>4, <2>a, QueryVisitStep
    <2>2. SlotInv'
      BY <1>d, <2>1
    <2>3. ASSUME Cardinality(env.queries) <= 1, fault = "none",
                 NEW d \in Drivers, NEW a \in Range(list[d]), dev[a].gdpa, NEW i \in Slots
          PROVE  FillOK(a, i)'
      <3>1. FillOK(a, i) /\ \A u \in Threads : u # t => query[u] = NoQuery
        BY <1>e, <2>3 DEF FillInv
      <3>2. q.slot \in Slots /\ names[q.slot] = q.f /\ q.a = x
        BY <1>a, <2>1, <2>3, <2>a DEF NamesInv, TypeOK, Query
      <3>3. a \in DOMAIN dev /\ dev[a] \in Dev
        BY <1>a, TypeFacts DEF ListInv
      <3>4. dev[a].ext \in [Slots -> Names \cup {None}] /\ dev'[a].driver = dev[a].driver
        BY <2>1, <3>3 DEF Dev, SameCore
      <3>5. ChainOffers(a)' = ChainOffers(a)
        BY <3>4 DEF ChainOffers
      <3>6. ASSUME ByCreation(a, i) PROVE ByCreation(a, i)'
        BY <2>1, <3>6 DEF ByCreation
      <3>7. CASE a = x /\ i = q.slot
        <4>1. CASE q.f \in ChainOffers(x)
          <5>1. dev'[a].ext[i] = q.f
            BY <2>1, <3>2, <3>4, <3>7, <4>1
          <5>2. Filled(a, i)'
            BY <2>1, <3>2, <3>5, <3>7, <4>1, <5>1 DEF Filled
          <5> QED
            BY <5>2 DEF FillOK
        <4>2. CASE q.f \notin ChainOffers(x)
          <5>1. dev'[a].ext[i] = dev[a].ext[i]
            BY <2>1, <3>7, <4>2
          <5>2. names[i] \notin ChainOffers(a)
            BY <3>2, <3>7, <4>2
          <5>3. dev[a].ext[i] = None
            BY <3>1, <5>2 DEF FillOK, Filled
          <5>4. Filled(a, i)'
            BY <2>1, <3>5, <5>1, <5>2, <5>3 DEF Filled
          <5> QED
            BY <5>4 DEF FillOK
        <4> QED
          BY <4>1, <4>2
      <3>8. CASE ~(a = x /\ i = q.slot)
        <4>1. dev'[a].ext[i] = dev[a].ext[i]
          <5>1. CASE a # x
            BY <2>1, <3>3, <5>1
          <5>2. CASE a = x /\ i # q.slot
            BY <2>1, <3>4, <5>2
          <5> QED
            BY <3>8, <5>1, <5>2
        <4>2. ASSUME Filled(a, i) PROVE Filled(a, i)'
          BY <2>1, <3>5, <4>1, <4>2 DEF Filled
        <4>3. ASSUME ByWalk(a, i) PROVE ByWalk(a, i)'
          <5>1. q.slot = i /\ Ahead(list, a, q)
            BY <2>1, <2>a, <3>1, <4>3 DEF ByWalk
          <5>2. a # q.a
            BY <3>2, <3>8, <5>1
          <5>3. PICK r : r = query'[t]
            OBVIOUS
          <5>4. r.d = n.d /\ r.a = n.a /\ n = NextStop(q.a, q.d) /\ q.a \in Range(list[q.d])
            BY <2>1, <2>a, <3>2, <5>3
          <5>5. Ahead(list, a, r)
            BY <2>1, <5>1, <5>2, <5>4, AheadNext
          <5> QED
            BY <1>a, <2>1, <5>1, <5>3, <5>5 DEF ByWalk
        <4> QED
          BY <3>1, <3>6, <4>1, <4>2, <4>3 DEF FillOK
      <3> QED
        BY <3>7, <3>8
    <2>4. \A d \in Drivers : \A a \in Range(list[d]) : dev'[a].gdpa = dev[a].gdpa
      BY <1>a, <2>1 DEF ListInv, SameCore
    <2> QED
      BY <2>1, <2>2, <2>3, <2>4 DEF FillInv
  <1>5. ASSUME QueryDone(t) PROVE SlotInv' /\ FillInv'
    <2>1. /\ query[t].a = None /\ query'[t] = NoQuery /\ \A u \in Threads : u # t => query'[u] = query[u]
          /\ UNCHANGED <<device_vars, names>>
      BY <1>a, <1>5, QueryDoneStep
    <2>2. UNCHANGED <<dev, list, frames, names>>
      BY <2>1 DEF device_vars
    <2>3. SlotInv'
      BY <1>b, <1>d, <2>1, <2>2
    <2>4. ASSUME Cardinality(env.queries) <= 1, fault = "none",
                 NEW d \in Drivers, NEW a \in Range(list[d]), dev[a].gdpa, NEW i \in Slots
          PROVE  FillOK(a, i)'
      <3>1. FillOK(a, i) /\ \A u \in Threads : u # t => query[u] = NoQuery
        BY <1>e, <2>4 DEF FillInv
      <3>2. ~ByWalk(a, i)
        BY <1>a, <1>c, <2>1, <3>1 DEF ByWalk, Ahead
      <3>3. ASSUME Filled(a, i) PROVE Filled(a, i)'
        BY <2>2, <3>3 DEF Filled, ChainOffers
      <3>4. ASSUME ByCreation(a, i) PROVE ByCreation(a, i)'
        BY <2>2, <3>4 DEF ByCreation
      <3> QED
        BY <2>2, <3>1, <3>2, <3>3, <3>4 DEF FillOK
    <2> QED
      BY <2>2, <2>3, <2>4 DEF FillInv
  <1> QED
    BY <1>1, <1>2, <1>3, <1>4, <1>5 DEF QueryStep

\* Every step keeps the slots right.
LEMMA FillNext ==
    ASSUME IndInv, SlotInv, FillInv, [Next]_vars
    PROVE  SlotInv' /\ FillInv'
  <1>1. ASSUME NEW t \in env.devices, DeviceStep(t), UNCHANGED <<fault, env>> PROVE SlotInv' /\ FillInv'
    <2>1. QueryKept(t)
      BY <1>1, DeviceSteps DEF IndInv
    <2>2. FrameSlots' /\ FillInv'
      <3>1. CASE TerminatorCreate(t)
        BY <1>1, <2>1, <3>1, FillTerminator
      <3>2. CASE ChainReturns(t)
        BY <1>1, <2>1, <3>2, FillChain
      <3>3. CASE CreateInitSlot(t)
        BY <1>1, <2>1, <3>3, FillInit
      <3>4. CASE CreateCleanup(t) \/ DestroyRemove(t)
        BY <1>1, <2>1, <3>4, FillFree
      <3>5. CASE \/ \E d \in Drivers, inner \in BOOLEAN : CreateBegin(t, d, inner)
                 \/ \E d \in Drivers : LayerCreateBegin(t, d)
                 \/ CreateRefused(t)
                 \/ \E a \in DevAddr \ DOMAIN dev : CreateDown(t, a)
                 \/ TerminatorFails(t)
                 \/ LayerFails(t)
                 \/ CreateDone(t)
                 \/ \E a \in handles : DestroyBegin(t, a)
                 \/ LayerDestroyBegin(t)
                 \/ DriverDestroys(t)
        BY <1>1, <2>1, <3>5, FillPlainSteps
      <3> QED
        BY <1>1, <3>1, <3>2, <3>3, <3>4, <3>5, Zenon DEF DeviceStep
    <2> QED
      BY <2>1, <2>2, SlotsKept
  <1>2. ASSUME NEW t \in env.queries, QueryStep(t), UNCHANGED <<fault, env>> PROVE SlotInv' /\ FillInv'
    BY <1>2, FillQuery
  <1>3. ASSUME DestroyInstance, UNCHANGED <<fault, env>> PROVE SlotInv' /\ FillInv'
    <2>1. UNCHANGED <<frames, query>> /\ list' = [d \in Drivers |-> <<>>]
      BY <1>3 DEF DestroyInstance
    <2>2. \A d \in Drivers : Range(list'[d]) = {}
      BY <2>1 DEF Range
    <2> QED
      BY <2>1, <2>2 DEF SlotInv, FillInv
  <1>4. ASSUME NEW t \in env.queries, fault = "none", QueryFaults(t), UNCHANGED env PROVE SlotInv' /\ FillInv'
    <2>1. UNCHANGED <<frames, query>> /\ fault' # "none"
      BY <1>4 DEF QueryFaults, device_vars, table_vars
    <2> QED
      BY <2>1 DEF SlotInv, FillInv
  <1>5. ASSUME UNCHANGED vars PROVE SlotInv' /\ FillInv'
    <2>1. UNCHANGED <<dev, list, frames, names, query, fault, env>>
      BY <1>5 DEF vars
    <2>2. ASSUME NEW a, NEW i, FillOK(a, i) PROVE FillOK(a, i)'
      BY <2>1, <2>2 DEF FillOK, Filled, ByCreation, ByWalk, ChainOffers
    <2> QED
      BY <2>1, <2>2 DEF SlotInv, FillInv
  <1> QED
    BY <1>1, <1>2, <1>3, <1>4, <1>5 DEF Next

\* What the slots of the dispatch tables hold at every moment, when one thread
\* queries: the name's function, or nothing yet while a creation or the walk is
\* still to come by.
THEOREM SlotsInductive == Spec => [](SlotInv /\ FillInv)
  <1>1. Init => SlotInv /\ FillInv
    <2> SUFFICES ASSUME Init PROVE SlotInv /\ FillInv
      OBVIOUS
    <2>1. /\ frames = <<>> /\ query = [t \in Threads |-> NoQuery] /\ list = [d \in Drivers |-> <<>>]
          /\ NoQuery.freed = FALSE
      BY DEF Init, NoQuery
    <2>2. \A d \in Drivers : Range(list[d]) = {}
      BY <2>1 DEF Range
    <2>3. \A t \in Threads : query[t] = NoQuery
      BY <2>1
    <2> QED
      BY <2>1, <2>2, <2>3 DEF SlotInv, FillInv
  <1>2. IndInv /\ (SlotInv /\ FillInv) /\ [Next]_vars => (SlotInv /\ FillInv)'
    BY FillNext
  <1> QED
    BY <1>1, <1>2, Inductive, PTL DEF Spec

\* Whichever came first, the creation of the device (loader_init_dispatch_dev_ext)
\* or the first query for the name (loader_init_dispatch_dev_ext_entry for every
\* device of every list), the slot of the name leads to the device's own function.
THEOREM SlotsFilledHolds == Spec => []SlotsFilled
  <1>1. IndInv /\ SlotInv /\ FillInv => SlotsFilled
    <2> SUFFICES ASSUME IndInv, FillInv, Quiet, Cardinality(env.queries) <= 1, fault = "none",
                        NEW a \in Listed, dev[a].gdpa, NEW i \in Slots
                 PROVE  dev[a].ext[i] = IF i < count /\ names[i] \in ChainOffers(a) THEN names[i] ELSE None
      BY DEF SlotsFilled
    <2>1. PICK d \in Drivers : a \in Range(list[d])
      BY DEF Listed
    <2>2. FillOK(a, i)
      BY <2>1 DEF FillInv
    <2>3. ~ByCreation(a, i)
      BY DEF Quiet, IndInv, DevInv, FramesInv, ByCreation
    <2>4. ~ByWalk(a, i)
      BY DEF Quiet, ByWalk
    <2>5. Filled(a, i)
      BY <2>2, <2>3, <2>4 DEF FillOK
    <2>6. i >= count => names[i] = None
      BY DEF Quiet, IndInv, NamesInv
    <2>7. None \notin ChainOffers(a)
      BY <2>1, OffersNamed
    <2>8. i < count \/ i >= count
      BY MaxUnknownAssumption DEF Slots, IndInv, TypeOK
    <2> QED
      BY <2>5, <2>6, <2>7, <2>8 DEF Filled
  <1> QED
    BY <1>1, Inductive, SlotsInductive, PTL

=============================================================================
