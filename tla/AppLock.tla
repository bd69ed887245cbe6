------------------------------- MODULE AppLock -------------------------------
(***************************************************************************)
(* The named leases every scheduled job runs under: src/services/locks.js  *)
(* and the app_locks table.  The rows of different names never interact,   *)
(* so the module follows one name, for instance "emailQueue".              *)
(*                                                                         *)
(* A lease is one row holding the time it was taken and the INSTANCE_ID of *)
(* the process that took it.  Time is kept as ages: only "older than ttl"  *)
(* is ever asked of a timestamp, so ages stop growing at AgeCap.           *)
(***************************************************************************)
EXTENDS Naturals

CONSTANTS
    Instance,   \* INSTANCE_ID values; one process per value that is up
    Run,        \* slots for concurrent withLock() calls, all processes together
    Ttl,        \* the ttlSeconds the callers of this name pass, in ticks
    NoRow       \* the row of this name is absent from app_locks

ASSUME InstanceAssumption == NoRow \notin [by : Instance, age : Nat]
\* Every caller passes a positive TTL and acquireLock caps it: there is a
\* shortest and a longest one.
ASSUME TtlAssumption ==
    /\ Ttl \subseteq Nat \ {0}
    /\ \E lo, hi \in Ttl : \A t \in Ttl : lo <= t /\ t <= hi

VARIABLES
    row,        \* the app_locks row: NoRow or [by, age]
    run,        \* what each withLock() call is doing
    up,         \* the processes that are alive
    overran,    \* history: some call outlived the shortest TTL
    doubled     \* history: one process had two calls inside fn at once

vars == <<row, run, up, overran, doubled>>

-----------------------------------------------------------------------------
\* The shortest TTL some caller of the name passes, and the point past which
\* one more tick changes no comparison.
MinTtl == CHOOSE t \in Ttl : \A u \in Ttl : t <= u
AgeCap == (CHOOSE t \in Ttl : \A u \in Ttl : u <= t) + 1

\* Mutated form of the next operator.
OlderUncapped(age) == age + 1

Older(age) == IF age < AgeCap THEN age + 1 ELSE age

\* A call that holds, or believes it holds, the lease: fn has not returned
\* ("working"), or it has and releaseLock has not been answered ("closing").
Active(r) == run[r].pc \in {"working", "closing"}
Idle == [pc |-> "idle", inst |-> NoRow, ttl |-> 0, age |-> 0]

\* The row names the process that took it and when; a call knows its process,
\* the TTL it asked for and how long it has been running.
TypeOK ==
    /\ row \in {NoRow} \cup [by : Instance, age : 0..AgeCap]
    /\ run \in [Run -> [pc : {"idle", "working", "closing"},
                        inst : Instance \cup {NoRow},
                        ttl : Ttl \cup {0}, age : 0..AgeCap]]
    /\ up \subseteq Instance
    /\ overran \in BOOLEAN /\ doubled \in BOOLEAN

Init ==
    /\ row = NoRow
    /\ run = [r \in Run |-> Idle]
    /\ up = Instance
    /\ overran = FALSE /\ doubled = FALSE

-----------------------------------------------------------------------------
\* Mutated forms of the operators below.
ExpiredEarly(ttl) == row.age >= ttl
NeverExpired(ttl) == FALSE
ReleasedForAll(i) == NoRow

\* WHERE locked_at < NOW() - ttl: the caller's own ttl decides, the
\* ttl_seconds stored in the row is not read.
Expired(ttl) == row.age > ttl

\* The single statement of acquireLock takes an expired row over, or inserts
\* one when there is none.
Free(ttl) == IF row = NoRow THEN TRUE ELSE Expired(ttl)

\* DELETE ... WHERE name AND instance_id: the row survives when another
\* process has taken it over.
Released(i) == IF row = NoRow THEN NoRow ELSE IF row.by = i THEN NoRow ELSE row

-----------------------------------------------------------------------------
\* withLock: acquireLock answers true and fn starts.  A call that is refused
\* changes nothing and is no action.
Acquire(r, i, ttl) ==
    /\ run[r].pc = "idle" /\ i \in up
    /\ Free(ttl)
    /\ row' = [by |-> i, age |-> 0]
    /\ run' = [run EXCEPT ![r] = [pc |-> "working", inst |-> i, ttl |-> ttl, age |-> 0]]
    /\ doubled' = (doubled \/ \E q \in Run : Active(q) /\ run[q].inst = i)
    /\ UNCHANGED <<up, overran>>

\* The statement is applied but its answer is lost (connection error): the
\* catch returns false, the caller skips, the row stays.
AcquireLost(i, ttl) ==
    /\ i \in up
    /\ Free(ttl)
    /\ row' = [by |-> i, age |-> 0]
    /\ UNCHANGED <<run, up, overran, doubled>>

\* fn resolves or throws; the finally block writes cron_status.
Finish(r) ==
    /\ run[r].pc = "working"
    /\ run' = [run EXCEPT ![r].pc = "closing"]
    /\ UNCHANGED <<row, up, overran, doubled>>

Release(r) ==
    /\ run[r].pc = "closing"
    /\ row' = Released(run[r].inst)
    /\ run' = [run EXCEPT ![r] = Idle]
    /\ UNCHANGED <<up, overran, doubled>>

\* releaseLock's DELETE fails; the error is logged and swallowed.
ReleaseLost(r) ==
    /\ run[r].pc = "closing"
    /\ run' = [run EXCEPT ![r] = Idle]
    /\ UNCHANGED <<row, up, overran, doubled>>

\* The process dies (or the 5 s shutdown timer kills it): nothing is released.
Crash(i) ==
    /\ i \in up
    /\ up' = up \ {i}
    /\ run' = [r \in Run |-> IF Active(r) /\ run[r].inst = i THEN Idle ELSE run[r]]
    /\ UNCHANGED <<row, overran, doubled>>

\* A process starts under a fresh random INSTANCE_ID: one no row carries.
Boot(i) ==
    /\ i \notin up
    /\ IF row = NoRow THEN TRUE ELSE row.by # i
    /\ up' = up \cup {i}
    /\ UNCHANGED <<row, run, overran, doubled>>

Tick ==
    /\ row' = IF row = NoRow THEN NoRow ELSE [row EXCEPT !.age = Older(@)]
    /\ run' = [r \in Run |-> IF Active(r) THEN [run[r] EXCEPT !.age = Older(@)] ELSE run[r]]
    /\ overran' = (overran \/ \E r \in Run : Active(r) /\ run[r].age >= MinTtl)
    /\ UNCHANGED <<up, doubled>>

AcquireAny == \E r \in Run, i \in Instance, ttl \in Ttl : Acquire(r, i, ttl)
BootAny == \E i \in Instance : Boot(i)

Next ==
    \/ AcquireAny
    \/ \E i \in Instance, ttl \in Ttl : AcquireLost(i, ttl)
    \/ \E r \in Run : Finish(r) \/ Release(r) \/ ReleaseLost(r)
    \/ \E i \in Instance : Crash(i)
    \/ BootAny
    \/ Tick

Spec == Init /\ [][Next]_vars

\* Time passes, dead processes are restarted, and a cron tick that keeps
\* finding the lease free takes it: ticks come every few minutes for ever.
FairSpec == Spec /\ WF_vars(Tick) /\ WF_vars(BootAny) /\ SF_vars(AcquireAny)

-----------------------------------------------------------------------------
\* No two calls are inside fn at once, as long as no call has outlived the
\* shortest TTL its name is taken with.  Crashes, lost answers and lost
\* releases do not break it.
ExclusionUnlessOverrun ==
    ~overran => \A q, r \in Run : Active(q) /\ Active(r) => q = r

\* Even when calls overrun: of the calls that hold the lease by right (still
\* within the shortest TTL) there is at most one, because a late call of one
\* process cannot delete the row another process took over.  It needs every
\* process to have one call of the name at a time: releaseLock identifies the
\* process, not the call, so a late call deletes the row of its successor in
\* the same process.
FreshExclusionAcrossProcesses ==
    ~doubled => \A q, r \in Run :
        /\ Active(q) /\ run[q].age <= MinTtl
        /\ Active(r) /\ run[r].age <= MinTtl
        => q = r

\* A lease nobody works under (its holder crashed, or the answer or the
\* release was lost) does not block the job for ever.
OrphanIsTakenOver ==
    (row # NoRow /\ \A r \in Run : ~Active(r)) ~> \E r \in Run : Active(r)

\* A call is not displaced before the TTL it asked for has passed: what the
\* ttl_seconds column and the "already running" answers of the routes say.
NotDisplacedWithinOwnTtl ==
    \A q, r \in Run :
        /\ q # r
        /\ Active(q) /\ run[q].age <= run[q].ttl
        => ~(Active(r) /\ run[r].age < run[q].age)
=============================================================================
