---------------------------- MODULE AppLockProofs ----------------------------
(* Mutual exclusion of the lease of AppLock, for any number of processes,  *)
(* concurrent calls and TTLs.                                              *)
EXTENDS AppLock, TLAPS

\* MinTtl and AgeCap are what their CHOOSEs promise.
LEMMA Ages ==
    /\ MinTtl \in Ttl /\ MinTtl \in Nat \ {0}
    /\ AgeCap \in Nat
    /\ \A t \in Ttl : t \in Nat /\ MinTtl <= t /\ t < AgeCap
<1>1. PICK lo \in Ttl, hi \in Ttl : \A t \in Ttl : lo <= t /\ t <= hi
  BY TtlAssumption
<1>2. MinTtl \in Ttl /\ \A t \in Ttl : MinTtl <= t
  BY <1>1 DEF MinTtl
<1>3. DEFINE top == CHOOSE t \in Ttl : \A u \in Ttl : u <= t
<1>4. top \in Ttl /\ \A u \in Ttl : u <= top
  BY <1>1
<1>5. AgeCap = top + 1
  BY DEF AgeCap
<1>6. \A t \in Ttl : t \in Nat \ {0}
  BY TtlAssumption
<1>7. top \in Nat /\ \A u \in Ttl : u <= top
  BY <1>4, <1>6
<1> HIDE DEF top
<1>8. QED
  BY <1>2, <1>5, <1>6, <1>7

\* An age stays in its range and grows by at most one tick.
LEMMA OlderStaysInRange ==
    ASSUME NEW a \in 0..AgeCap
    PROVE  Older(a) \in 0..AgeCap /\ (a < AgeCap => Older(a) = a + 1)
  BY Ages DEF Older

\* The initial state of the lease is of the declared type.
LEMMA InitTypes == Init => TypeOK
<1> SUFFICES ASSUME Init PROVE TypeOK
  OBVIOUS
<1>1. Idle \in [pc : {"idle", "working", "closing"}, inst : Instance \cup {NoRow},
                ttl : Ttl \cup {0}, age : 0..AgeCap]
  BY Ages DEF Idle
<1>2. run \in [Run -> [pc : {"idle", "working", "closing"}, inst : Instance \cup {NoRow},
                       ttl : Ttl \cup {0}, age : 0..AgeCap]]
  BY <1>1 DEF Init
<1>3. QED
  BY <1>2 DEF Init, TypeOK

\* Every state of the lease is of the declared type.
THEOREM TypeCorrect == Spec => []TypeOK
<1>1. Init => TypeOK
  BY InitTypes
<1>2. TypeOK /\ [Next]_vars => TypeOK'
  <2> SUFFICES ASSUME TypeOK, [Next]_vars PROVE TypeOK'
    OBVIOUS
  <2> USE DEF TypeOK
  <2>1. ASSUME NEW r \in Run, NEW i \in Instance, NEW ttl \in Ttl, Acquire(r, i, ttl)
        PROVE TypeOK'
    BY <2>1, Ages DEF Acquire
  <2>2. ASSUME NEW i \in Instance, NEW ttl \in Ttl, AcquireLost(i, ttl)
        PROVE TypeOK'
    BY <2>2, Ages DEF AcquireLost
  <2>3. ASSUME NEW r \in Run, Finish(r) PROVE TypeOK'
    BY <2>3 DEF Finish
  <2>4. ASSUME NEW r \in Run, Release(r) PROVE TypeOK'
    BY <2>4, Ages DEF Release, Released, Idle
  <2>5. ASSUME NEW r \in Run, ReleaseLost(r) PROVE TypeOK'
    BY <2>5, Ages DEF ReleaseLost, Idle
  <2>6. ASSUME NEW i \in Instance, Crash(i) PROVE TypeOK'
    BY <2>6, Ages DEF Crash, Idle
  <2>7. ASSUME NEW i \in Instance, Boot(i) PROVE TypeOK'
    BY <2>7 DEF Boot
  <2>8. CASE Tick
    <3>1. row' \in {NoRow} \cup [by : Instance, age : 0..AgeCap]
      BY <2>8, OlderStaysInRange DEF Tick
    <3>2. \A r \in Run : run[r].age \in 0..AgeCap
      OBVIOUS
    <3>3. \A r \in Run : [run[r] EXCEPT !.age = Older(@)]
              \in [pc : {"idle", "working", "closing"}, inst : Instance \cup {NoRow},
                   ttl : Ttl \cup {0}, age : 0..AgeCap]
      BY <3>2, OlderStaysInRange
    <3>4. QED
      BY <2>8, <3>1, <3>3 DEF Tick
  <2>9. CASE UNCHANGED vars
    BY <2>9 DEF vars
  <2>10. QED
    BY <2>1, <2>2, <2>3, <2>4, <2>5, <2>6, <2>7, <2>8, <2>9
       DEF Next, AcquireAny, BootAny
<1>3. QED
  BY <1>1, <1>2, PTL DEF Spec

-----------------------------------------------------------------------------
\* The strengthening: until a call overruns, whoever is active is the one the
\* row names, entered when the row was written, and is younger than any TTL.
HolderOwnsRow ==
    ~overran => \A r \in Run : Active(r) =>
        /\ row # NoRow
        /\ row.by = run[r].inst
        /\ row.age = run[r].age
        /\ run[r].age <= MinTtl

LeaseInv == TypeOK /\ HolderOwnsRow /\ ExclusionUnlessOverrun

\* Under the invariant nobody can acquire while somebody is active.
LEMMA NotFreeWhileActive ==
    ASSUME LeaseInv, ~overran, NEW q \in Run, Active(q), NEW ttl \in Ttl
    PROVE  ~Free(ttl)
  BY Ages DEF LeaseInv, TypeOK, HolderOwnsRow, Free, Expired

\* No two calls run at once as long as none has outlived the shortest TTL,
\* whatever crashes and whatever answers are lost.
THEOREM LeaseExclusion == Spec => []ExclusionUnlessOverrun
<1> USE DEF LeaseInv, HolderOwnsRow, ExclusionUnlessOverrun
<1>1. Init => LeaseInv
  BY InitTypes DEF Init, Active, Idle
<1>2. LeaseInv /\ TypeOK' /\ [Next]_vars => LeaseInv'
  <2> SUFFICES ASSUME LeaseInv, TypeOK', [Next]_vars PROVE LeaseInv'
    OBVIOUS
  <2>1. ASSUME NEW r \in Run, NEW i \in Instance, NEW ttl \in Ttl, Acquire(r, i, ttl)
        PROVE LeaseInv'
    <3>1. ~overran => \A q \in Run : ~Active(q)
      BY <2>1, NotFreeWhileActive DEF Acquire
    <3>2. \A q \in Run : q # r => (Active(q)' <=> Active(q))
      BY <2>1 DEF Acquire, Active, TypeOK
    <3>3. row' # NoRow
      BY <2>1, TypeOK', InstanceAssumption DEF Acquire, TypeOK
    <3>4. run'[r].inst = i /\ run'[r].age = 0 /\ row'.by = i /\ row'.age = 0
      BY <2>1 DEF Acquire, TypeOK
    <3>5. overran' = overran
      BY <2>1 DEF Acquire
    <3>6. QED
      BY <3>1, <3>2, <3>3, <3>4, <3>5, Ages
  <2>2. ASSUME NEW i \in Instance, NEW ttl \in Ttl, AcquireLost(i, ttl)
        PROVE LeaseInv'
    <3>1. ~overran => \A q \in Run : ~Active(q)
      BY <2>2, NotFreeWhileActive DEF AcquireLost
    <3>2. QED
      BY <2>2, <3>1 DEF AcquireLost, Active
  <2>3. ASSUME NEW r \in Run, Finish(r) PROVE LeaseInv'
    BY <2>3 DEF Finish, Active, TypeOK
  <2>4. ASSUME NEW r \in Run, Release(r) PROVE LeaseInv'
    <3>1. Active(r) /\ ~Active(r)' /\ overran' = overran
      BY <2>4 DEF Release, Active, Idle, TypeOK
    <3>2. \A q \in Run : q # r => run'[q] = run[q] /\ (Active(q)' <=> Active(q))
      BY <2>4 DEF Release, Active, TypeOK
    <3>3. ~overran => \A q \in Run : ~Active(q)'
      BY <3>1, <3>2
    <3>4. QED
      BY <3>1, <3>3
  <2>5. ASSUME NEW r \in Run, ReleaseLost(r) PROVE LeaseInv'
    BY <2>5 DEF ReleaseLost, Active, Idle, TypeOK
  <2>6. ASSUME NEW i \in Instance, Crash(i) PROVE LeaseInv'
    BY <2>6 DEF Crash, Active, Idle, TypeOK
  <2>7. ASSUME NEW i \in Instance, Boot(i) PROVE LeaseInv'
    BY <2>7 DEF Boot, Active
  <2>8. CASE Tick
    <3>1. \A r \in Run : /\ Active(r)' <=> Active(r)
                         /\ run'[r].inst = run[r].inst
                         /\ Active(r) => run'[r].age = Older(run[r].age)
      BY <2>8 DEF Tick, Active, TypeOK
    <3>2. row # NoRow => row' = [row EXCEPT !.age = Older(@)]
      BY <2>8 DEF Tick
    <3>3. row # NoRow => row'.by = row.by /\ row'.age = Older(row.age)
      BY <3>2 DEF TypeOK
    <3>4. row # NoRow => row' # NoRow
      BY <3>2, InstanceAssumption, OlderStaysInRange DEF TypeOK
    <3>5. ~overran' => ~overran /\ \A r \in Run : Active(r) => run[r].age < MinTtl
      <4>1. overran' <=> (overran \/ \E r \in Run : Active(r) /\ run[r].age >= MinTtl)
        BY <2>8, ZenonT(20) DEF Tick
      <4>2. \A r \in Run : run[r].age \in Nat
        BY Ages DEF TypeOK
      <4>3. ~overran' => ~overran /\ \A r \in Run : Active(r) => ~(run[r].age >= MinTtl)
        BY <4>1, Zenon
      <4>4. QED
        BY <4>2, <4>3, Ages
    <3>6. ~overran' => \A r \in Run : Active(r) => Older(run[r].age) = run[r].age + 1
      BY <3>5, Ages, OlderStaysInRange DEF TypeOK
    <3>7. ~overran' => \A r \in Run : Active(r) => run'[r].age <= MinTtl
      BY <3>1, <3>5, <3>6, Ages DEF TypeOK
    <3>8. QED
      BY <3>1, <3>3, <3>4, <3>5, <3>7
  <2>9. CASE UNCHANGED vars
    BY <2>9 DEF vars, Active
  <2>10. QED
    BY <2>1, <2>2, <2>3, <2>4, <2>5, <2>6, <2>7, <2>8, <2>9
       DEF Next, AcquireAny, BootAny
<1>3. LeaseInv => ExclusionUnlessOverrun
  OBVIOUS
<1>4. QED
  BY <1>1, <1>2, <1>3, TypeCorrect, PTL DEF Spec
-----------------------------------------------------------------------------
\* A call that holds the lease by right: within the shortest TTL.
Fresh(r) == Active(r) /\ run[r].age <= MinTtl

\* The strengthening when calls do overrun: a process has one call of the name
\* at a time, and the row is that of the call that is fresh.
OneCallEach ==
    \A q, r \in Run : Active(q) /\ Active(r) /\ run[q].inst = run[r].inst => q = r

FreshOwnsRow ==
    \A r \in Run : Fresh(r) => row # NoRow /\ row.by = run[r].inst /\ row.age = run[r].age

FreshInv == ~doubled => OneCallEach /\ FreshOwnsRow

\* Nobody can acquire while somebody is fresh.
LEMMA NotFreeWhileFresh ==
    ASSUME TypeOK, FreshOwnsRow, NEW q \in Run, Fresh(q), NEW ttl \in Ttl
    PROVE  ~Free(ttl)
<1>1. row # NoRow /\ row.age = run[q].age /\ run[q].age <= MinTtl
  BY DEF FreshOwnsRow, Fresh
<1>2. run[q].age \in Nat
  BY Ages DEF TypeOK
<1>3. ~(row.age > ttl)
  BY <1>1, <1>2, Ages
<1>4. QED
  BY <1>1, <1>3 DEF Free, Expired

\* A step after which each active call was active before, in the same process
\* and with the same row, keeps the invariant.
LEMMA FewerCallsKeepFresh ==
    ASSUME FreshInv, doubled' = doubled, row' = row,
           \A r \in Run : Active(r)' => Active(r) /\ run'[r].inst = run[r].inst
                                                /\ run'[r].age = run[r].age
    PROVE  FreshInv'
<1> USE DEF FreshInv
<1>1. ~doubled => OneCallEach'
  BY DEF OneCallEach
<1>2. ~doubled => FreshOwnsRow'
  BY DEF FreshOwnsRow, Fresh
<1>3. QED
  BY <1>1, <1>2

\* Of the calls within the shortest TTL at most one runs at a time, also when
\* calls overrun, as long as no process had two calls of the name at once.
THEOREM FreshLeaseExclusion == Spec => []FreshExclusionAcrossProcesses
<1>1. Init => FreshInv
  BY DEF Init, Active, Idle, Fresh, FreshInv, OneCallEach, FreshOwnsRow
<1>2. TypeOK /\ TypeOK' /\ FreshInv /\ [Next]_vars => FreshInv'
  <2> SUFFICES ASSUME TypeOK, TypeOK', FreshInv, [Next]_vars PROVE FreshInv'
    OBVIOUS
  <2>1. ASSUME NEW r \in Run, NEW i \in Instance, NEW ttl \in Ttl, Acquire(r, i, ttl)
        PROVE FreshInv'
    <3>1. ~doubled => \A q \in Run : ~Fresh(q)
      BY <2>1, NotFreeWhileFresh DEF Acquire, FreshInv
    <3>2. \A q \in Run : q # r => run'[q] = run[q] /\ (Active(q)' <=> Active(q))
      BY <2>1 DEF Acquire, Active, TypeOK
    <3>3. /\ run'[r].inst = i /\ run'[r].age = 0
          /\ row' # NoRow /\ row'.by = i /\ row'.age = 0
      BY <2>1, TypeOK', InstanceAssumption DEF Acquire, TypeOK
    <3>4. ~doubled' => ~doubled /\ \A q \in Run : ~(Active(q) /\ run[q].inst = i)
      BY <2>1, Zenon DEF Acquire
    <3>5. ~doubled' => OneCallEach'
      BY <3>2, <3>3, <3>4 DEF FreshInv, OneCallEach
    <3>6. ~doubled' => FreshOwnsRow'
      BY <3>1, <3>2, <3>3, <3>4 DEF FreshOwnsRow, Fresh
    <3>7. QED
      BY <3>5, <3>6 DEF FreshInv
  <2>2. ASSUME NEW i \in Instance, NEW ttl \in Ttl, AcquireLost(i, ttl)
        PROVE FreshInv'
    <3>1. ~doubled => \A q \in Run : ~Fresh(q)
      BY <2>2, NotFreeWhileFresh DEF AcquireLost, FreshInv
    <3>2. QED
      BY <2>2, <3>1 DEF AcquireLost, Active, Fresh, FreshInv, OneCallEach, FreshOwnsRow
  <2>3. ASSUME NEW r \in Run, Finish(r) PROVE FreshInv'
    <3>1. \A q \in Run : Active(q)' => Active(q) /\ run'[q].inst = run[q].inst
                                                /\ run'[q].age = run[q].age
      BY <2>3 DEF Finish, Active, TypeOK
    <3>2. QED
      BY <2>3, <3>1, FewerCallsKeepFresh DEF Finish
  <2>4. ASSUME NEW r \in Run, Release(r) PROVE FreshInv'
    <3>1. Active(r) /\ ~Active(r)' /\ doubled' = doubled /\ row' = Released(run[r].inst)
      BY <2>4 DEF Release, Active, Idle, TypeOK
    <3>2. \A q \in Run : q # r => run'[q] = run[q] /\ (Active(q)' <=> Active(q))
      BY <2>4 DEF Release, Active, TypeOK
    <3>3. ~doubled => \A q \in Run : q # r /\ Active(q) => run[q].inst # run[r].inst
      BY <3>1 DEF FreshInv, OneCallEach
    \* The row of a call of another process is not the one deleted.
    <3>4. ~doubled => \A q \in Run : q # r /\ Fresh(q) => row' = row
      BY <3>1, <3>3 DEF FreshInv, FreshOwnsRow, Fresh, Released
    <3>5. ~doubled => OneCallEach'
      BY <3>1, <3>2 DEF FreshInv, OneCallEach
    <3>6. ~doubled => FreshOwnsRow'
      BY <3>1, <3>2, <3>4 DEF FreshInv, FreshOwnsRow, Fresh
    <3>7. QED
      BY <3>1, <3>5, <3>6 DEF FreshInv
  <2>5. ASSUME NEW r \in Run, ReleaseLost(r) PROVE FreshInv'
    <3>1. \A q \in Run : Active(q)' => Active(q) /\ run'[q].inst = run[q].inst
                                                /\ run'[q].age = run[q].age
      BY <2>5 DEF ReleaseLost, Active, Idle, TypeOK
    <3>2. QED
      BY <2>5, <3>1, FewerCallsKeepFresh DEF ReleaseLost
  <2>6. ASSUME NEW i \in Instance, Crash(i) PROVE FreshInv'
    <3>1. \A q \in Run : Active(q)' => Active(q) /\ run'[q].inst = run[q].inst
                                                /\ run'[q].age = run[q].age
      BY <2>6 DEF Crash, Active, Idle, TypeOK
    <3>2. QED
      BY <2>6, <3>1, FewerCallsKeepFresh DEF Crash
  <2>7. ASSUME NEW i \in Instance, Boot(i) PROVE FreshInv'
    BY <2>7, FewerCallsKeepFresh DEF Boot, Active
  <2>8. CASE Tick
    <3>1. \A r \in Run : /\ Active(r)' <=> Active(r)
                         /\ run'[r].inst = run[r].inst
                         /\ Active(r) => run'[r].age = Older(run[r].age)
      BY <2>8 DEF Tick, Active, TypeOK
    <3>2. row # NoRow => row' = [row EXCEPT !.age = Older(@)]
      BY <2>8 DEF Tick
    <3>3. row # NoRow => row'.by = row.by /\ row'.age = Older(row.age)
      BY <3>2 DEF TypeOK
    <3>4. row # NoRow => row' # NoRow
      BY <3>2, InstanceAssumption, OlderStaysInRange DEF TypeOK
    <3>5. \A r \in Run : run[r].age \in 0..AgeCap
      BY DEF TypeOK
    <3>6. \A r \in Run : Active(r) /\ Older(run[r].age) <= MinTtl => run[r].age <= MinTtl
      BY <3>5, Ages DEF Older
    <3>7. \A r \in Run : Fresh(r)' => Fresh(r)
      BY <3>1, <3>6 DEF Fresh
    <3>8. doubled' = doubled
      BY <2>8 DEF Tick
    <3>9. ~doubled => OneCallEach'
      BY <3>1 DEF FreshInv, OneCallEach
    <3>10. ~doubled => FreshOwnsRow'
      BY <3>1, <3>3, <3>4, <3>7 DEF FreshInv, FreshOwnsRow, Fresh
    <3>11. QED
      BY <3>8, <3>9, <3>10 DEF FreshInv
  <2>9. CASE UNCHANGED vars
    BY <2>9, FewerCallsKeepFresh DEF vars, Active
  <2>10. QED
    BY <2>1, <2>2, <2>3, <2>4, <2>5, <2>6, <2>7, <2>8, <2>9
       DEF Next, AcquireAny, BootAny
<1>3. FreshInv => FreshExclusionAcrossProcesses
  BY DEF FreshInv, FreshExclusionAcrossProcesses, OneCallEach, FreshOwnsRow, Fresh
<1>4. QED
  BY <1>1, <1>2, <1>3, TypeCorrect, PTL DEF Spec
=============================================================================
