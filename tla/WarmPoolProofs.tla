--------------------------- MODULE WarmPoolProofs ---------------------------
(***************************************************************************)
(* The warm pool's invariant, for any number of instances, leases and      *)
(* callers and any capacity.  Every step moves one instance from one place *)
(* to another: its owner, the idle list, a lease, the hand of a call.      *)
(***************************************************************************)
EXTENDS WarmPool, SequenceTheorems, FiniteSetTheorems, TLAPS

PCs == {"idle", "add", "reset", "verify", "return", "stop", "stopping"}
States == {"running", "stopping", "stopped", "cleanup-failed"}
Busy == At({"reset", "verify", "return"})

PoolTypes ==
  /\ idle \in Seq(Instances)
  /\ inUse \in [Leases -> Instances \cup {NoInstance}]
  /\ state \in [Instances -> States]
  /\ owned \subseteq Instances /\ dirty \subseteq Instances /\ repeated \subseteq Instances

CallTypes ==
  /\ pc \in [Callers -> PCs]
  /\ cur \in [Callers -> Instances \cup {NoInstance}]
  /\ \A t \in Callers : pc[t] # "idle" => cur[t] \in Instances

(* What its owner has, or a call has reset or is adding, is clean too.     *)
Spotless(i) ==
  i \in dirty => i \notin Idle \cup owned /\ \A t \in At({"add", "verify", "return"}) : cur[t] # i

CleanInv == \A i \in Instances \ repeated : Spotless(i)

CountInv == IsFiniteSet(Leased) /\ GrowthBounded

PoolInv == PoolTypes /\ CallTypes /\ OnePlace /\ CleanInv /\ RunningKept /\ CountInv

-----------------------------------------------------------------------------
Elements(s) == {s[k] : k \in 1..Len(s)}
Once(s, y) == \A j, k \in 1..Len(s) : s[j] = y /\ s[k] = y => j = k

(* Adding an instance at the end of the list.                              *)
LEMMA AppendElements ==
  ASSUME NEW S, NEW s \in Seq(S), NEW x \in S
  PROVE  /\ Append(s, x) \in Seq(S) /\ Len(Append(s, x)) = Len(s) + 1 /\ Len(s) \in Nat
         /\ Elements(Append(s, x)) = Elements(s) \cup {x}
         /\ \A y : Once(s, y) /\ (x = y => y \notin Elements(s)) => Once(Append(s, x), y)
<1> DEFINE n == Len(s)
           a == Append(s, x)
<1>1. /\ n \in Nat /\ a \in Seq(S) /\ Len(a) = n + 1
      /\ \A i \in 1..n : a[i] = s[i]
      /\ a[n + 1] = x
  BY AppendProperties, LenProperties
<1> HIDE DEF a
<1>2. Elements(a) = Elements(s) \cup {x}
  BY <1>1 DEF Elements
<1>3. ASSUME NEW y, Once(s, y), x = y => y \notin Elements(s) PROVE Once(a, y)
  BY <1>1, <1>3 DEF Elements, Once
<1> QED
  BY <1>1, <1>2, <1>3 DEF a

(* Taking the last instance off the list.                                  *)
LEMMA PopElements ==
  ASSUME NEW S, NEW s \in Seq(S), s # << >>
  PROVE  /\ SubSeq(s, 1, Len(s) - 1) \in Seq(S)
         /\ Len(s) \in Nat \ {0} /\ Len(SubSeq(s, 1, Len(s) - 1)) = Len(s) - 1
         /\ s[Len(s)] \in S
         /\ Elements(s) = Elements(SubSeq(s, 1, Len(s) - 1)) \cup {s[Len(s)]}
         /\ \A y : Once(s, y) =>
              Once(SubSeq(s, 1, Len(s) - 1), y)
              /\ (s[Len(s)] = y => y \notin Elements(SubSeq(s, 1, Len(s) - 1)))
<1> DEFINE n == Len(s)
           m == n - 1
           r == SubSeq(s, 1, m)
<1>1. n \in Nat \ {0}
  BY EmptySeq
<1>2. \A i \in 1..n : s[i] \in S
  BY <1>1, ElementOfSeq
<1>3. n = m + 1 /\ m \in Nat
  BY <1>1
<1> HIDE DEF m, n
<1>4. \A i \in 1..m : s[i] \in S
  BY <1>2, <1>3
<1>5. /\ r \in Seq(S)
      /\ Len(r) = IF 1 <= m THEN m - 1 + 1 ELSE 0
      /\ \A i \in 1..(m - 1 + 1) : r[i] = s[1 + i - 1]
  BY <1>3, <1>4, SubSeqProperties
<1> HIDE DEF r
<1>6. Len(r) = m /\ \A i \in 1..m : r[i] = s[i]
  BY <1>3, <1>5
<1>7. s[n] \in S
  BY <1>1, <1>2
<1>8. Elements(s) = {s[k] : k \in 1..n} /\ Elements(r) = {s[k] : k \in 1..m}
  BY <1>6 DEF Elements, n
<1>9. Elements(s) = Elements(r) \cup {s[n]}
  BY <1>3, <1>8
<1>10. ASSUME NEW y, Once(s, y) PROVE Once(r, y) /\ (s[n] = y => y \notin Elements(r))
  <2>1. \A j, k \in 1..n : s[j] = y /\ s[k] = y => j = k
    BY <1>10 DEF Once, n
  <2>2. Once(r, y)
    BY <1>3, <1>6, <2>1 DEF Once
  <2>3. ASSUME s[n] = y, y \in Elements(r) PROVE FALSE
    <3>1. PICK k \in 1..m : s[k] = y
      BY <1>8, <2>3
    <3> QED
      BY <1>1, <1>3, <2>1, <2>3, <3>1
  <2> QED
    BY <2>2, <2>3
<1> QED
  BY <1>1, <1>3, <1>5, <1>6, <1>7, <1>9, <1>10 DEF r, m, n

-----------------------------------------------------------------------------
(* The invariant holds at the start.                                       *)
LEMMA PoolInit == Init => PoolInv
<1> SUFFICES ASSUME Init PROVE PoolInv
  OBVIOUS
<1>1. idle = << >> /\ Len(idle) = 0 /\ Idle = {} /\ Leased = {}
  BY DEF Init, Idle, Leased
<1>2. At({"reset", "verify", "return"}) = {} /\ InHand = {} /\ At({"add", "verify", "return"}) = {}
  BY DEF Init, At, InHand
<1>3. PoolTypes
  BY <1>1, EmptySeq DEF Init, PoolTypes, States
<1>4. CallTypes
  BY DEF Init, CallTypes, PCs
<1>5. OnePlace
  BY <1>1, <1>2, CapacityAssumption DEF Init, OnePlace, InOnePlace
<1>6. CleanInv
  BY DEF Init, CleanInv, Spotless
<1>7. RunningKept
  BY DEF Init, RunningKept
<1>8. CountInv
  <2>1. IsFiniteSet({}) /\ Cardinality({}) = 0
    BY FS_EmptySet
  <2>2. Cardinality(Callers) \in Nat
    BY CallersAssumption, FS_CardinalityType
  <2>3. IsFiniteSet(Leased) /\ Cardinality(Leased) = 0 /\ Cardinality(At({"reset", "verify", "return"})) = 0
    BY <1>1, <1>2, <2>1
  <2>4. GrowthBounded
    BY <1>1, <2>2, <2>3, CapacityAssumption DEF GrowthBounded
  <2> QED
    BY <2>3, <2>4 DEF CountInv
<1> QED
  BY <1>3, <1>4, <1>5, <1>6, <1>7, <1>8 DEF PoolInv

-----------------------------------------------------------------------------
(* Caller t moves to step l with instance i in hand, the others stay.      *)
Moved(t, l, i) ==
  /\ CallTypes' /\ pc'[t] = l /\ cur'[t] = i
  /\ \A u \in Callers \ {t} : pc'[u] = pc[u] /\ cur'[u] = cur[u]

(* A call begins, goes on, returns.                                        *)
LEMMA CallMoves ==
  ASSUME PoolInv, NEW t \in Callers
  PROVE  /\ \A l \in PCs, i \in Instances : Begin(t, l, i) => Moved(t, l, i)
         /\ \A l \in PCs : pc[t] # "idle" /\ Goto(t, l) => Moved(t, l, cur[t])
         /\ Return(t) => Moved(t, "idle", NoInstance)
<1>0. CallTypes
  BY DEF PoolInv
<1>1. ASSUME NEW l \in PCs, NEW i \in Instances, Begin(t, l, i) PROVE Moved(t, l, i)
  BY <1>0, <1>1 DEF Begin, Moved, CallTypes
<1>2. ASSUME NEW l \in PCs, pc[t] # "idle", Goto(t, l) PROVE Moved(t, l, cur[t])
  BY <1>0, <1>2 DEF Goto, Moved, CallTypes
<1>3. Return(t) => Moved(t, "idle", NoInstance)
  BY <1>0 DEF Return, Moved, CallTypes, PCs
<1> QED
  BY <1>1, <1>2, <1>3

(* Who is at the places of a set after t moved.                            *)
LEMMA AtMoves ==
  ASSUME NEW t \in Callers, NEW l, NEW i, Moved(t, l, i), NEW places
  PROVE  At(places)' = (At(places) \ {t}) \cup (IF l \in places THEN {t} ELSE {})
  BY DEF Moved, At

(* The number of calls that hold a checked-in instance.                    *)
LEMMA BusyCount ==
  ASSUME NEW t \in Callers, NEW l, NEW i, Moved(t, l, i)
  PROVE  /\ Cardinality(Busy) \in Nat /\ Cardinality(Busy') \in Nat /\ Cardinality(Callers) \in Nat
         /\ (t \in Busy <=> t \in Busy') => Cardinality(Busy') = Cardinality(Busy)
         /\ t \in Busy /\ t \notin Busy' => Cardinality(Busy') = Cardinality(Busy) - 1
         /\ t \notin Busy /\ t \in Busy' => Cardinality(Busy') = Cardinality(Busy) + 1
         /\ t \notin Busy => Cardinality(Busy) <= Cardinality(Callers) - 1
<1>1. IsFiniteSet(Callers) /\ Cardinality(Callers) \in Nat
  BY CallersAssumption, FS_CardinalityType
<1>2. Busy \subseteq Callers /\ Busy' \subseteq Callers
  BY DEF Busy, At
<1>3. IsFiniteSet(Busy) /\ IsFiniteSet(Busy')
  BY <1>1, <1>2, FS_Subset
<1>4. Cardinality(Busy) \in Nat /\ Cardinality(Busy') \in Nat
  BY <1>3, FS_CardinalityType
<1>5. Busy' \ {t} = Busy \ {t}
  BY DEF Busy, At, Moved
<1>6. (t \in Busy <=> t \in Busy') => Busy' = Busy
  BY <1>5
<1>7. ASSUME t \in Busy, t \notin Busy' PROVE Cardinality(Busy') = Cardinality(Busy) - 1
  <2>1. Busy' = Busy \ {t}
    BY <1>5, <1>7
  <2> QED
    BY <1>3, <1>7, <2>1, FS_RemoveElement
<1>8. ASSUME t \notin Busy, t \in Busy' PROVE Cardinality(Busy') = Cardinality(Busy) + 1
  <2>1. Busy' = Busy \cup {t}
    BY <1>5, <1>8
  <2> QED
    BY <1>3, <1>8, <2>1, FS_AddElement
<1>9. ASSUME t \notin Busy PROVE Cardinality(Busy) <= Cardinality(Callers) - 1
  <2>1. Busy \subseteq Callers \ {t}
    BY <1>2, <1>9
  <2>2. IsFiniteSet(Callers \ {t}) /\ Cardinality(Callers \ {t}) = Cardinality(Callers) - 1
    BY <1>1, FS_RemoveElement
  <2> QED
    BY <2>1, <2>2, FS_Subset
<1> QED
  BY <1>1, <1>4, <1>6, <1>7, <1>8, <1>9

-----------------------------------------------------------------------------
(* Where the running instance i is.                                        *)
Kept(i) ==
  \/ i \in owned \cup Idle
  \/ \E l \in Leased : inUse[l] = i
  \/ \E t \in Callers : pc[t] # "idle" /\ cur[t] = i

(* The calls that are not under way with an instance of the pool.          *)
Aside == {"idle", "stop", "stopping"}

(* A step of a DestroyVM, or of a Checkin that stops its instance.         *)
LEMMA AsideKeeps ==
  ASSUME PoolInv, NEW t \in Callers, NEW l \in Aside, NEW i, Moved(t, l, i), pc[t] \in Aside,
         UNCHANGED <<poolVars, history, dirty>>, state' \in [Instances -> States],
         \A j \in Instances : state'[j] = "running" => state[j] = "running",
         l = "idle" => cur[t] \notin Instances \/ state'[cur[t]] # "running",
         l # "idle" => pc[t] = "idle" \/ i = cur[t]
  PROVE  PoolInv'
<1>1. PoolTypes' /\ CallTypes'
  BY DEF PoolInv, PoolTypes, poolVars, history, Moved
<1>2. /\ Idle' = Idle /\ Leased' = Leased /\ inUse' = inUse /\ owned' = owned /\ dirty' = dirty
      /\ idle' = idle /\ repeated' = repeated
  BY DEF Idle, Leased, poolVars, history
<1>3. /\ InHand' = InHand /\ t \notin InHand
      /\ At({"add", "verify", "return"})' = At({"add", "verify", "return"})
      /\ At({"add", "verify", "return"}) \subseteq InHand
      /\ At({"reset", "verify", "return"})' = At({"reset", "verify", "return"})
  BY DEF InHand, At, Moved, Aside
<1>4. \A u \in InHand : cur'[u] = cur[u]
  BY <1>3 DEF Moved, InHand, At
<1>5. OnePlace'
  BY <1>2, <1>3, <1>4 DEF PoolInv, OnePlace, InOnePlace
<1>6. CleanInv'
  BY <1>2, <1>3, <1>4 DEF PoolInv, CleanInv, Spotless
<1>7. CountInv'
  BY <1>2, <1>3 DEF PoolInv, CountInv, GrowthBounded
<1>8. ASSUME NEW j \in Instances, state'[j] = "running" PROVE Kept(j)'
  <2>1. Kept(j)
    BY <1>8 DEF PoolInv, RunningKept, Kept
  <2>2. CASE \E u \in Callers : pc[u] # "idle" /\ cur[u] = j
    BY <1>8, <2>2 DEF Kept, Moved
  <2> QED
    BY <1>2, <2>1, <2>2 DEF Kept
<1>9. RunningKept'
  BY <1>8 DEF RunningKept, Kept
<1> QED
  BY <1>1, <1>5, <1>6, <1>7, <1>9 DEF PoolInv

(* Add takes the instance from its owner, or it is a repeated one.         *)
LEMMA AddKeeps ==
  ASSUME PoolInv, NEW t \in Callers, NEW i \in Instances, Add(t, i)
  PROVE  PoolInv'
<1>0. Moved(t, "add", i) /\ pc[t] = "idle"
  BY CallMoves, Zenon DEF Add, Begin, PCs
<1>1. /\ owned' = owned \ {i} /\ dirty' = dirty /\ state' = state /\ idle' = idle /\ inUse' = inUse
      /\ repeated \subseteq repeated' /\ repeated' \subseteq repeated \cup {i}
      /\ i \in owned \/ i \in repeated'
  BY DEF Add, poolVars
<1>2. PoolTypes' /\ CallTypes'
  BY <1>0, <1>1 DEF PoolInv, PoolTypes, Moved
<1>3. Idle' = Idle /\ Leased' = Leased
  BY <1>1 DEF Idle, Leased
<1>4. /\ InHand' = InHand \cup {t} /\ t \notin InHand
      /\ At({"add", "verify", "return"})' = At({"add", "verify", "return"}) \cup {t}
      /\ At({"add", "verify", "return"}) \subseteq InHand
      /\ At({"reset", "verify", "return"})' = At({"reset", "verify", "return"})
  BY <1>0 DEF InHand, At, Moved
<1>5. cur'[t] = i /\ \A u \in InHand : cur'[u] = cur[u]
  BY <1>0, <1>4 DEF Moved, InHand, At
<1>6. ASSUME NEW x \in Instances \ repeated' PROVE InOnePlace(x)' /\ Spotless(x)'
  <2>1. InOnePlace(x) /\ Spotless(x) /\ (x = i => x \in owned)
    BY <1>1 DEF PoolInv, OnePlace, CleanInv
  <2>2. InOnePlace(x)'
    BY <1>1, <1>3, <1>4, <1>5, <2>1 DEF InOnePlace
  <2>3. Spotless(x)'
    BY <1>1, <1>3, <1>4, <1>5, <2>1 DEF Spotless
  <2> QED
    BY <2>2, <2>3
<1>7. OnePlace' /\ CleanInv'
  BY <1>6 DEF OnePlace, CleanInv
<1>8. CountInv'
  BY <1>1, <1>3, <1>4 DEF PoolInv, CountInv, GrowthBounded
<1>9. ASSUME NEW j \in Instances, state'[j] = "running" PROVE Kept(j)'
  <2>1. Kept(j)
    BY <1>1, <1>9 DEF PoolInv, RunningKept, Kept
  <2> QED
    BY <1>0, <1>1, <1>3, <2>1 DEF Kept, Moved
<1>10. RunningKept'
  BY <1>9 DEF RunningKept, Kept
<1> QED
  BY <1>2, <1>7, <1>8, <1>10, Zenon DEF PoolInv

(* An instance goes from the hand of a call into the idle list: Add with   *)
(* room for it, or a Checkin.                                              *)
LEMMA IntoList ==
  ASSUME PoolInv, NEW t \in Callers, pc[t] \in {"add", "return"}, Moved(t, "idle", NoInstance),
         idle' = Append(idle, cur[t]), UNCHANGED <<inUse, history, state, dirty>>,
         pc[t] = "add" => Len(idle) + Cardinality(Leased) < Capacity
  PROVE  PoolInv'
<1>0. PoolTypes /\ CallTypes /\ cur[t] \in Instances /\ t \in InHand
  BY DEF PoolInv, CallTypes, InHand, At
<1>1. /\ idle' \in Seq(Instances) /\ Len(idle') = Len(idle) + 1 /\ Len(idle) \in Nat
      /\ Idle' = Idle \cup {cur[t]}
      /\ \A y : Once(idle, y) /\ (cur[t] = y => y \notin Idle) => Once(idle', y)
  <2>1. idle \in Seq(Instances)
    BY <1>0 DEF PoolTypes
  <2> QED
    BY <1>0, <2>1, AppendElements DEF Elements, Idle
<1>2. PoolTypes' /\ CallTypes'
  BY <1>0, <1>1 DEF PoolTypes, Moved, history
<1>3. /\ Leased' = Leased /\ inUse' = inUse /\ owned' = owned /\ dirty' = dirty /\ state' = state
      /\ repeated' = repeated
  BY DEF Leased, history
<1>4. /\ InHand' = InHand \ {t}
      /\ At({"add", "verify", "return"})' = At({"add", "verify", "return"}) \ {t}
      /\ At({"add", "verify", "return"}) \subseteq InHand /\ t \in At({"add", "verify", "return"})
  BY DEF InHand, At, Moved
<1>5. \A u \in InHand \ {t} : cur'[u] = cur[u]
  BY DEF Moved, InHand, At
<1>6. ASSUME NEW x \in Instances \ repeated' PROVE InOnePlace(x)' /\ Spotless(x)'
  <2>1. InOnePlace(x) /\ Spotless(x)
    BY <1>3, <1>6 DEF PoolInv, OnePlace, CleanInv
  <2>2. Once(idle', x)
    BY <1>0, <1>1, <2>1 DEF InOnePlace, Once
  <2>3. InOnePlace(x)'
    BY <1>0, <1>1, <1>3, <1>4, <1>5, <2>1, <2>2 DEF InOnePlace, Once
  <2>4. Spotless(x)'
    BY <1>1, <1>3, <1>4, <1>5, <2>1 DEF Spotless
  <2> QED
    BY <2>3, <2>4
<1>7. OnePlace' /\ CleanInv'
  BY <1>6 DEF OnePlace, CleanInv
<1>8. CountInv'
  <2>1. /\ Cardinality(Busy) \in Nat /\ Cardinality(Busy') \in Nat /\ Cardinality(Callers) \in Nat
        /\ pc[t] = "add" => Cardinality(Busy') = Cardinality(Busy)
        /\ pc[t] = "add" => Cardinality(Busy) <= Cardinality(Callers) - 1
        /\ pc[t] = "return" => Cardinality(Busy') = Cardinality(Busy) - 1
    <3>1. t \notin Busy' /\ (pc[t] = "add" => t \notin Busy) /\ (pc[t] = "return" => t \in Busy)
      BY DEF Busy, At, Moved
    <3> QED
      BY <3>1, BusyCount
  <2>2. Cardinality(Leased) \in Nat /\ Capacity \in Nat
    BY FS_CardinalityType, CapacityAssumption DEF PoolInv, CountInv
  <2>3. Len(idle') + Cardinality(Leased) + Cardinality(Busy') <= Capacity + Cardinality(Callers) - 1
    BY <1>1, <2>1, <2>2 DEF PoolInv, CountInv, GrowthBounded, Busy
  <2> QED
    BY <1>3, <2>3 DEF PoolInv, CountInv, GrowthBounded, Busy
<1>9. ASSUME NEW j \in Instances, state'[j] = "running" PROVE Kept(j)'
  <2>1. Kept(j)
    BY <1>3, <1>9 DEF PoolInv, RunningKept, Kept
  <2>2. CASE j = cur[t]
    BY <1>1, <2>2 DEF Kept
  <2>3. CASE j # cur[t]
    BY <1>1, <1>3, <2>1, <2>3 DEF Kept, Moved
  <2> QED
    BY <2>2, <2>3
<1>10. RunningKept'
  BY <1>9 DEF RunningKept, Kept
<1> QED
  BY <1>2, <1>7, <1>8, <1>10 DEF PoolInv

(* An Add without room gives the instance back to its owner.               *)
LEMMA BackToOwner ==
  ASSUME PoolInv, NEW t \in Callers, pc[t] = "add", Moved(t, "idle", NoInstance),
         owned' = owned \cup {cur[t]}, UNCHANGED <<idle, inUse, state, dirty, repeated>>
  PROVE  PoolInv'
<1>0. PoolTypes /\ cur[t] \in Instances /\ t \in InHand
  BY DEF PoolInv, CallTypes, InHand, At
<1>1. PoolTypes' /\ CallTypes'
  BY <1>0 DEF PoolTypes, Moved
<1>2. Idle' = Idle /\ Leased' = Leased /\ inUse' = inUse /\ dirty' = dirty /\ idle' = idle /\ state' = state
  BY DEF Idle, Leased
<1>3. /\ InHand' = InHand \ {t}
      /\ At({"add", "verify", "return"})' = At({"add", "verify", "return"}) \ {t}
      /\ At({"add", "verify", "return"}) \subseteq InHand /\ t \in At({"add", "verify", "return"})
      /\ At({"reset", "verify", "return"})' = At({"reset", "verify", "return"})
  BY DEF InHand, At, Moved
<1>4. \A u \in InHand \ {t} : cur'[u] = cur[u]
  BY DEF Moved, InHand, At
<1>5. ASSUME NEW x \in Instances \ repeated' PROVE InOnePlace(x)' /\ Spotless(x)'
  <2>1. InOnePlace(x) /\ Spotless(x)
    BY <1>5 DEF PoolInv, OnePlace, CleanInv
  <2>2. InOnePlace(x)'
    BY <1>0, <1>2, <1>3, <1>4, <2>1, Zenon DEF InOnePlace
  <2>3. Spotless(x)'
    BY <1>2, <1>3, <1>4, <2>1 DEF Spotless
  <2> QED
    BY <2>2, <2>3
<1>6. OnePlace' /\ CleanInv'
  BY <1>5 DEF OnePlace, CleanInv
<1>7. CountInv'
  BY <1>2, <1>3 DEF PoolInv, CountInv, GrowthBounded
<1>8. ASSUME NEW j \in Instances, state'[j] = "running" PROVE Kept(j)'
  <2>1. Kept(j)
    BY <1>2, <1>8 DEF PoolInv, RunningKept, Kept
  <2>2. CASE j = cur[t]
    BY <2>2 DEF Kept
  <2>3. CASE j # cur[t]
    BY <1>2, <2>1, <2>3 DEF Kept, Moved
  <2> QED
    BY <2>2, <2>3
<1>9. RunningKept'
  BY <1>8 DEF RunningKept, Kept
<1> QED
  BY <1>1, <1>6, <1>7, <1>9 DEF PoolInv

(* Reset and Verify: the instance stays with the call, clean, or the call  *)
(* goes on to stop it.                                                     *)
LEMMA InHandKeeps ==
  ASSUME PoolInv, NEW t \in Callers, pc[t] \in {"reset", "verify"},
         NEW l \in {"verify", "return", "stop"}, Moved(t, l, cur[t]),
         UNCHANGED <<poolVars, history, state>>,
         dirty' \subseteq dirty, pc[t] = "reset" /\ l # "stop" => cur[t] \notin dirty'
  PROVE  PoolInv'
<1>0. PoolTypes /\ t \in InHand
  BY DEF PoolInv, InHand, At
<1>1. PoolTypes' /\ CallTypes'
  BY <1>0 DEF PoolTypes, poolVars, history, Moved
<1>2. /\ Idle' = Idle /\ Leased' = Leased /\ inUse' = inUse /\ owned' = owned /\ idle' = idle
      /\ state' = state /\ repeated' = repeated
  BY DEF Idle, Leased, poolVars, history
<1>3. /\ InHand' \subseteq InHand
      /\ \A u \in Callers : cur'[u] = cur[u]
      /\ \A u \in At({"add", "verify", "return"})' : u \in At({"add", "verify", "return"}) \/ (u = t /\ l # "stop")
  BY <1>0 DEF InHand, At, Moved
<1>4. InHand \subseteq Callers
  BY DEF InHand, At
<1>5. OnePlace'
  BY <1>2, <1>3, <1>4 DEF PoolInv, OnePlace, InOnePlace
<1>6. CleanInv'
  <2>1. At({"add", "verify", "return"})' \subseteq Callers
    BY DEF At
  <2>2. ASSUME NEW x \in Instances \ repeated PROVE Spotless(x)'
    <3>1. Spotless(x)
      BY DEF PoolInv, CleanInv
    <3>2. cur[t] = x /\ l # "stop" => x \notin dirty'
      BY <3>1 DEF Spotless, At
    <3> QED
      BY <1>2, <1>3, <2>1, <3>1, <3>2 DEF Spotless
  <2> QED
    BY <1>2, <2>2 DEF CleanInv
<1>7. CountInv'
  <2>1. /\ Cardinality(Busy) \in Nat /\ Cardinality(Busy') \in Nat /\ Cardinality(Callers) \in Nat
        /\ Cardinality(Busy') <= Cardinality(Busy)
    <3>1. t \in Busy
      BY DEF Busy, At
    <3> QED
      BY <3>1, BusyCount
  <2>2. Cardinality(Leased) \in Nat /\ Capacity \in Nat
    BY FS_CardinalityType, CapacityAssumption DEF PoolInv, CountInv
  <2>3. Len(idle) \in Nat
    BY <1>0, LenProperties DEF PoolTypes
  <2>4. Len(idle) + Cardinality(Leased) + Cardinality(Busy') <= Capacity + Cardinality(Callers) - 1
    BY <2>1, <2>2, <2>3 DEF PoolInv, CountInv, GrowthBounded, Busy
  <2> QED
    BY <1>2, <2>4 DEF PoolInv, CountInv, GrowthBounded, Busy
<1>8. ASSUME NEW j \in Instances, state'[j] = "running" PROVE Kept(j)'
  <2>1. Kept(j)
    BY <1>2, <1>8 DEF PoolInv, RunningKept, Kept
  <2>2. \A u \in Callers : pc[u] # "idle" => pc'[u] # "idle"
    BY DEF Moved
  <2> QED
    BY <1>2, <1>3, <2>1, <2>2, Zenon DEF Kept
<1>9. RunningKept'
  BY <1>8 DEF RunningKept, Kept
<1> QED
  BY <1>1, <1>5, <1>6, <1>7, <1>9 DEF PoolInv

(* Checkout moves the last idle instance under a lease.                    *)
LEMMA CheckoutKeeps ==
  ASSUME PoolInv, NEW l \in Leases, Checkout(l)
  PROVE  PoolInv'
<1> DEFINE i == idle[Len(idle)]
<1>0. PoolTypes
  BY DEF PoolInv
<1>1. /\ idle' \in Seq(Instances) /\ Len(idle) \in Nat \ {0} /\ Len(idle') = Len(idle) - 1
      /\ i \in Instances /\ Idle = Idle' \cup {i}
      /\ \A y : Once(idle, y) => Once(idle', y) /\ (i = y => y \notin Idle')
  <2>1. idle \in Seq(Instances) /\ idle # << >> /\ idle' = SubSeq(idle, 1, Len(idle) - 1)
    BY <1>0 DEF PoolTypes, Checkout
  <2>2. Idle = Elements(idle) /\ Idle' = Elements(idle')
    BY DEF Elements, Idle
  <2> QED
    BY <2>1, <2>2, PopElements
<1>2. /\ inUse' = [inUse EXCEPT ![l] = i] /\ dirty' = dirty \cup {i} /\ inUse[l] = NoInstance
      /\ state' = state /\ owned' = owned /\ repeated' = repeated /\ pc' = pc /\ cur' = cur
  BY DEF Checkout, callVars, history
<1> HIDE DEF i
<1>3. PoolTypes' /\ CallTypes'
  BY <1>0, <1>1, <1>2 DEF PoolInv, PoolTypes, CallTypes
<1>4. /\ Leased' = Leased \cup {l} /\ l \notin Leased
      /\ inUse'[l] = i /\ \A m \in Leases \ {l} : inUse'[m] = inUse[m]
  BY <1>0, <1>1, <1>2, CapacityAssumption DEF Leased, PoolTypes
<1>5. /\ InHand' = InHand
      /\ At({"add", "verify", "return"})' = At({"add", "verify", "return"})
      /\ At({"add", "verify", "return"}) \subseteq InHand
      /\ At({"reset", "verify", "return"})' = At({"reset", "verify", "return"})
  BY <1>2 DEF InHand, At
<1>6. ASSUME NEW x \in Instances \ repeated PROVE InOnePlace(x)' /\ Spotless(x)'
  <2>1. InOnePlace(x) /\ Spotless(x)
    BY DEF PoolInv, OnePlace, CleanInv
  <2>2. Once(idle', x) /\ (i = x => x \notin Idle')
    BY <1>1, <2>1 DEF InOnePlace, Once
  <2>3. i = x => x \notin owned /\ (\A m \in Leases : inUse[m] # x) /\ \A t \in InHand : cur[t] # x
    BY <1>1, <2>1 DEF InOnePlace
  <2>4. InOnePlace(x)'
    <3>1. \A m, n \in Leases : inUse'[m] = x /\ inUse'[n] = x => m = n
      BY <1>4, <2>1, <2>3, Zenon DEF InOnePlace
    <3>2. \A m \in Leases : inUse'[m] = x => x \notin Idle' \cup owned'
      BY <1>1, <1>2, <1>4, <2>1, <2>2, <2>3, Zenon DEF InOnePlace
    <3>3. \A t \in InHand' : cur'[t] = x => x \notin Idle' \cup owned' /\ \A m \in Leases : inUse'[m] # x
      BY <1>1, <1>2, <1>4, <1>5, <2>1, <2>3, Zenon DEF InOnePlace
    <3>4. x \notin Idle' \cap owned'
      BY <1>1, <1>2, <2>1, Zenon DEF InOnePlace
    <3>5. \A t, u \in InHand' : cur'[t] = x /\ cur'[u] = x => t = u
      BY <1>2, <1>5, <2>1, Zenon DEF InOnePlace
    <3> QED
      BY <2>2, <3>1, <3>2, <3>3, <3>4, <3>5, Zenon DEF InOnePlace, Once
  <2>5. Spotless(x)'
    BY <1>1, <1>2, <1>5, <2>1, <2>2, <2>3 DEF Spotless
  <2> QED
    BY <2>4, <2>5
<1>7. OnePlace' /\ CleanInv'
  BY <1>2, <1>6 DEF OnePlace, CleanInv
<1>8. CountInv'
  <2>1. /\ IsFiniteSet(Leased') /\ Cardinality(Leased') = Cardinality(Leased) + 1
        /\ Cardinality(Leased) \in Nat
    BY <1>4, FS_AddElement, FS_CardinalityType DEF PoolInv, CountInv
  <2>2. Len(idle') + Cardinality(Leased') = Len(idle) + Cardinality(Leased)
    BY <1>1, <2>1
  <2> QED
    BY <1>5, <2>1, <2>2 DEF PoolInv, CountInv, GrowthBounded
<1>9. ASSUME NEW j \in Instances, state'[j] = "running" PROVE Kept(j)'
  <2>1. Kept(j)
    BY <1>2, <1>9 DEF PoolInv, RunningKept, Kept
  <2>2. Leased \subseteq Leases \ {l}
    BY <1>4 DEF Leased
  <2> QED
    BY <1>1, <1>2, <1>4, <2>1, <2>2, Zenon DEF Kept
<1>10. RunningKept'
  BY <1>9 DEF RunningKept, Kept
<1> QED
  BY <1>3, <1>7, <1>8, <1>10 DEF PoolInv

(* Checkin takes the instance from its lease.                              *)
LEMMA CheckinKeeps ==
  ASSUME PoolInv, NEW l \in Leases, NEW t \in Callers, Checkin(t, l)
  PROVE  PoolInv'
<1> DEFINE i == inUse[l]
<1>0. PoolTypes /\ l \in Leased /\ i \in Instances
  BY Zenon DEF PoolInv, PoolTypes, Leased, Checkin
<1>1. Moved(t, "reset", i) /\ pc[t] = "idle"
  BY <1>0, CallMoves, Zenon DEF Checkin, Begin, PCs
<1>2. /\ inUse' = [inUse EXCEPT ![l] = NoInstance]
      /\ idle' = idle /\ state' = state /\ owned' = owned /\ dirty' = dirty /\ repeated' = repeated
  BY DEF Checkin, history
<1>3. PoolTypes' /\ CallTypes'
  BY <1>0, <1>1, <1>2 DEF PoolTypes, Moved
<1>4. /\ Leased' = Leased \ {l} /\ \A m \in Leases \ {l} : inUse'[m] = inUse[m]
      /\ inUse'[l] = NoInstance
  BY <1>0, <1>2 DEF Leased, PoolTypes
<1>5. /\ InHand' = InHand \cup {t} /\ t \notin InHand
      /\ At({"add", "verify", "return"})' = At({"add", "verify", "return"})
      /\ At({"add", "verify", "return"}) \subseteq InHand
  BY <1>1 DEF InHand, At, Moved
<1>6. Idle' = Idle /\ cur'[t] = i /\ \A u \in InHand : cur'[u] = cur[u]
  BY <1>1, <1>2, <1>5 DEF Idle, Moved, InHand, At
<1>7. ASSUME NEW x \in Instances \ repeated PROVE InOnePlace(x)' /\ Spotless(x)'
  <2>1. InOnePlace(x) /\ Spotless(x) /\ x # NoInstance
    BY CapacityAssumption DEF PoolInv, OnePlace, CleanInv
  <2>2. i = x => /\ x \notin Idle \cup owned /\ \A m \in Leases \ {l} : inUse[m] # x
                 /\ \A u \in InHand : cur[u] # x
    BY <1>0, <2>1 DEF InOnePlace, Leased
  <2>3. \A m, n \in Leases : inUse'[m] = x /\ inUse'[n] = x => m = n
    BY <1>4, <2>1, Zenon DEF InOnePlace
  <2>4. \A m \in Leases : inUse'[m] = x => x \notin Idle' \cup owned'
    BY <1>2, <1>4, <1>6, <2>1, Zenon DEF InOnePlace
  <2>5. \A u, v \in InHand' : cur'[u] = x /\ cur'[v] = x => u = v
    BY <1>5, <1>6, <2>1, <2>2, Zenon DEF InOnePlace
  <2>6. \A u \in InHand' : cur'[u] = x => x \notin Idle' \cup owned' /\ \A m \in Leases : inUse'[m] # x
    BY <1>2, <1>4, <1>5, <1>6, <2>1, <2>2, Zenon DEF InOnePlace
  <2>7. InOnePlace(x)'
    BY <1>2, <1>6, <2>1, <2>3, <2>4, <2>5, <2>6, Zenon DEF InOnePlace
  <2>8. Spotless(x)'
    BY <1>2, <1>5, <1>6, <2>1 DEF Spotless
  <2> QED
    BY <2>7, <2>8
<1>8. OnePlace' /\ CleanInv'
  BY <1>2, <1>7 DEF OnePlace, CleanInv
<1>9. CountInv'
  <2>1. /\ IsFiniteSet(Leased') /\ Cardinality(Leased') = Cardinality(Leased) - 1
        /\ Cardinality(Leased) \in Nat
    BY <1>0, <1>4, FS_RemoveElement, FS_CardinalityType DEF PoolInv, CountInv
  <2>2. /\ Cardinality(Busy) \in Nat /\ Cardinality(Callers) \in Nat
        /\ Cardinality(Busy') = Cardinality(Busy) + 1
    <3>1. t \notin Busy /\ t \in Busy'
      BY <1>1 DEF Busy, At, Moved
    <3> QED
      BY <1>1, <3>1, BusyCount
  <2>3. Len(idle) \in Nat /\ Capacity \in Nat
    BY <1>0, LenProperties, CapacityAssumption DEF PoolTypes
  <2>4. Len(idle) + Cardinality(Leased') + Cardinality(Busy') <= Capacity + Cardinality(Callers) - 1
    BY <2>1, <2>2, <2>3 DEF PoolInv, CountInv, GrowthBounded, Busy
  <2> QED
    BY <1>2, <2>1, <2>4 DEF CountInv, GrowthBounded, Busy
<1>10. ASSUME NEW j \in Instances, state'[j] = "running" PROVE Kept(j)'
  <2>1. Kept(j)
    BY <1>2, <1>10 DEF PoolInv, RunningKept, Kept
  <2>2. CASE j = i
    BY <1>1, <2>2, Zenon DEF Kept, Moved
  <2>3. CASE j # i
    <3>1. Leased \subseteq Leases
      BY DEF Leased
    <3> QED
      BY <1>1, <1>2, <1>4, <1>6, <2>1, <2>3, <3>1, Zenon DEF Kept, Moved
  <2> QED
    BY <2>2, <2>3
<1>11. RunningKept'
  BY <1>10 DEF RunningKept, Kept
<1> QED
  BY <1>3, <1>8, <1>9, <1>11 DEF PoolInv

-----------------------------------------------------------------------------
(* A step of a call under way.                                             *)
LEMMA CallKeeps ==
  ASSUME PoolInv, NEW t \in Callers, Step(t)
  PROVE  PoolInv'
<1>0. PoolTypes /\ (pc[t] # "idle" => cur[t] \in Instances)
  BY DEF PoolInv, CallTypes
<1>1. CASE AddIdle(t)
  <2>1. Moved(t, "idle", NoInstance) /\ pc[t] = "add"
    BY <1>1, CallMoves DEF AddIdle
  <2>2. CASE Len(idle) + Cardinality(Leased) >= Capacity
    BY <1>1, <2>1, <2>2, BackToOwner DEF AddIdle
  <2>3. CASE ~(Len(idle) + Cardinality(Leased) >= Capacity)
    <3>1. Len(idle) \in Nat /\ Cardinality(Leased) \in Nat /\ Capacity \in Nat
      BY <1>0, LenProperties, FS_CardinalityType, CapacityAssumption DEF PoolInv, PoolTypes,
         CountInv
    <3>2. Len(idle) + Cardinality(Leased) < Capacity
      BY <2>3, <3>1
    <3>3. idle' = Append(idle, cur[t]) /\ UNCHANGED <<inUse, history, state, dirty>>
      BY <1>1, <2>3 DEF AddIdle, history
    <3> QED
      BY <2>1, <3>2, <3>3, IntoList
  <2> QED
    BY <2>2, <2>3
<1>2. CASE Reset(t)
  <2>1. PICK l \in {"verify", "stop"} :
          /\ Goto(t, l) /\ dirty' \subseteq dirty /\ (l # "stop" => cur[t] \notin dirty')
    BY <1>2 DEF Reset
  <2>2. pc[t] = "reset" /\ UNCHANGED <<poolVars, history, state>>
    BY <1>2 DEF Reset
  <2>3. Moved(t, l, cur[t])
    BY <2>1, <2>2, CallMoves, Zenon DEF PCs
  <2> QED
    BY <2>1, <2>2, <2>3, InHandKeeps
<1>3. CASE Verify(t)
  <2>1. PICK l \in {"return", "stop"} : Goto(t, l)
    BY <1>3 DEF Verify
  <2>2. pc[t] = "verify" /\ UNCHANGED <<poolVars, history, state>> /\ dirty' = dirty
    BY <1>3 DEF Verify
  <2>3. Moved(t, l, cur[t])
    BY <2>1, <2>2, CallMoves, Zenon DEF PCs
  <2> QED
    BY <2>2, <2>3, InHandKeeps, Zenon
<1>4. CASE ReturnIdle(t)
  <2>1. /\ pc[t] = "return" /\ idle' = Append(idle, cur[t])
        /\ UNCHANGED <<inUse, history, state, dirty>> /\ Return(t)
    BY <1>4 DEF ReturnIdle
  <2>2. Moved(t, "idle", NoInstance)
    BY <2>1, CallMoves, Zenon
  <2> QED
    BY <2>1, <2>2, IntoList
<1>5. CASE Stop(t)
  <2>1. pc[t] = "stop" /\ UNCHANGED <<poolVars, history, dirty>> /\ cur[t] \in Instances
    BY <1>0, <1>5 DEF Stop
  <2>2. CASE state[cur[t]] \in {"running", "cleanup-failed"}
    <3>1. state' = [state EXCEPT ![cur[t]] = "stopping"] /\ Moved(t, "stopping", cur[t])
      BY <1>5, <2>1, <2>2, CallMoves, Zenon DEF Stop, PCs
    <3>2. /\ state' \in [Instances -> States]
          /\ \A j \in Instances : state'[j] = "running" => state[j] = "running"
      BY <1>0, <2>1, <3>1, Zenon DEF PoolTypes, States
    <3> QED
      BY <2>1, <3>1, <3>2, AsideKeeps, Zenon DEF Aside
  <2>3. CASE state[cur[t]] \notin {"running", "cleanup-failed"}
    <3>1. state' = state /\ Moved(t, "idle", NoInstance)
      BY <1>5, <2>1, <2>3, CallMoves, Zenon DEF Stop
    <3>2. state' \in [Instances -> States] /\ state'[cur[t]] # "running"
      BY <1>0, <2>3, <3>1 DEF PoolTypes
    <3>3. \A j \in Instances : state'[j] = "running" => state[j] = "running"
      BY <3>1, Zenon
    <3> QED
      BY <2>1, <3>1, <3>2, <3>3, AsideKeeps, Zenon DEF Aside
  <2> QED
    BY <2>2, <2>3
<1>6. CASE StopEnd(t)
  <2>1. pc[t] = "stopping" /\ UNCHANGED <<poolVars, history, dirty>> /\ cur[t] \in Instances
    BY <1>0, <1>6 DEF StopEnd
  <2>2. PICK s \in {"stopped", "cleanup-failed"} : state' = [state EXCEPT ![cur[t]] = s]
    BY <1>6, Zenon DEF StopEnd
  <2>3. /\ state' \in [Instances -> States] /\ state'[cur[t]] # "running"
        /\ \A j \in Instances : state'[j] = "running" => state[j] = "running"
    BY <1>0, <2>1, <2>2 DEF PoolTypes, States
  <2>4. Moved(t, "idle", NoInstance)
    BY <1>6, CallMoves DEF StopEnd
  <2> QED
    BY <2>1, <2>3, <2>4, AsideKeeps DEF Aside
<1> QED
  BY <1>1, <1>2, <1>3, <1>4, <1>5, <1>6 DEF Step

(* Every step of the pool keeps the invariant.                             *)
LEMMA PoolStep == PoolInv /\ [Next]_vars => PoolInv'
<1> SUFFICES ASSUME PoolInv, [Next]_vars PROVE PoolInv'
  BY Zenon
<1>1. CASE UNCHANGED vars
  BY <1>1 DEF vars, poolVars, callVars, history, PoolInv, PoolTypes, CallTypes, OnePlace,
     InOnePlace, CleanInv, Spotless, RunningKept, CountInv, GrowthBounded, Idle, Leased, InHand, At
<1>2. ASSUME NEW t \in Callers, NEW i \in Instances, DestroyVM(t, i) PROVE PoolInv'
  <2>1. Moved(t, "stop", i) /\ pc[t] = "idle" /\ UNCHANGED <<poolVars, history, dirty>> /\ state' = state
    BY <1>2, CallMoves, Zenon DEF DestroyVM, Begin, PCs
  <2>2. state' \in [Instances -> States] /\ \A j \in Instances : state'[j] = "running" => state[j] = "running"
    BY <2>1 DEF PoolInv, PoolTypes
  <2> QED
    BY <2>1, <2>2, AsideKeeps, Zenon DEF Aside
<1>3. ASSUME NEW t \in Callers, NEW i \in Instances, Add(t, i) PROVE PoolInv'
  BY <1>3, AddKeeps
<1>4. ASSUME NEW l \in Leases, Checkout(l) PROVE PoolInv'
  BY <1>4, CheckoutKeeps
<1>5. ASSUME NEW l \in Leases, NEW t \in Callers, Checkin(t, l) PROVE PoolInv'
  BY <1>5, CheckinKeeps
<1>6. ASSUME NEW t \in Callers, Step(t) PROVE PoolInv'
  BY <1>6, CallKeeps
<1> QED
  BY <1>1, <1>2, <1>3, <1>4, <1>5, <1>6 DEF Next

(* In every reachable state the pool's lists, its leases and the calls     *)
(* under way agree on who has which instance.                              *)
THEOREM PoolInvariant == Spec => []PoolInv
<1>1. Init => PoolInv
  BY PoolInit
<1>2. PoolInv /\ [Next]_vars => PoolInv'
  BY PoolStep
<1> QED
  BY <1>1, <1>2, PTL DEF Spec

(* Whatever order Adds, Checkouts, Checkins and DestroyVMs interleave in,  *)
(* an instance that is not added again while the pool has it is in one     *)
(* place, and no two tenants share it, even if other instances are.        *)
THEOREM InstancesHaveOnePlace == Spec => []OnePlace
<1>1. PoolInv => OnePlace
  BY DEF PoolInv
<1> QED
  BY <1>1, PoolInvariant, PTL

(* No tenant's leavings reach the idle list: what waits there was reset    *)
(* since its last checkout, unless it was added again while leased.        *)
THEOREM IdleIsClean == Spec => []IdleClean
<1>1. PoolInv => IdleClean
  <2> SUFFICES ASSUME PoolInv PROVE IdleClean
    OBVIOUS
  <2>1. dirty \subseteq Instances
    BY DEF PoolInv, PoolTypes
  <2> QED
    BY <2>1 DEF PoolInv, CleanInv, Spotless, IdleClean
<1> QED
  BY <1>1, PoolInvariant, PTL

(* No refusal, failed reset or concurrent stop loses track of a running    *)
(* instance.                                                               *)
THEOREM RunningAreKept == Spec => []RunningKept
<1>1. PoolInv => RunningKept
  BY DEF PoolInv
<1> QED
  BY <1>1, PoolInvariant, PTL

(* The pool outgrows its capacity by less than the number of goroutines    *)
(* that use it, whatever the capacity and their number.                    *)
THEOREM GrowthIsBounded == Spec => []GrowthBounded
<1>1. PoolInv => GrowthBounded
  BY DEF PoolInv, CountInv
<1> QED
  BY <1>1, PoolInvariant, PTL
=============================================================================
