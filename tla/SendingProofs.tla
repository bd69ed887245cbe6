------------------------------- MODULE SendingProofs -------------------------------
(* Proofs about the two services that every sending asks: the SMTP router,  *)
(* for every set of accounts and callers, every limit, and midnights, edits *)
(* and failures at any moment; and the send gate with the caches it reads,  *)
(* for every order of writes, loads, failed loads and switches.             *)
EXTENDS SmtpRouter, SendGate, FiniteSetTheorems, TLAPS

(***************************************************************************)
(* The SMTP router                                                         *)
(***************************************************************************)
\* Callers that hold account a since before now, but not since before midnight.
Fresh(a) == {p \in Caller : caller[p].holds = a /\ ~caller[p].stale}

\* Each message of today, and each that may still come, has its place in
\* sent_today, or strayed into this day; and sent_today never passed the
\* largest limit.
AccountSound(a) ==
    /\ sent[a] + Cardinality(Fresh(a)) <= account[a].used + stray[a]
    /\ account[a].used <= peak[a]
    /\ account[a].limit <= peak[a]

RouterInv == RouterTypeOK /\ \A a \in Account : AccountSound(a)

-----------------------------------------------------------------------------
LEMMA FreshIsFinite ==
    ASSUME NEW a PROVE IsFiniteSet(Fresh(a)) /\ Cardinality(Fresh(a)) \in Nat
BY RouterConstants, FS_Subset, FS_CardinalityType DEF Fresh

\* A caller is done with its account: one less, if it held it since midnight.
LEMMA LetGo ==
    ASSUME RouterTypeOK, NEW p \in Caller, caller' = [caller EXCEPT ![p] = Free], NEW a \in Account
    PROVE  /\ Cardinality(Fresh(a)') \in Nat
           /\ Cardinality(Fresh(a)') = IF caller[p].holds = a /\ ~caller[p].stale
                                       THEN Cardinality(Fresh(a)) - 1 ELSE Cardinality(Fresh(a))
<1>1. Fresh(a)' = Fresh(a) \ {p}
  BY RouterConstants DEF Fresh, Free, RouterTypeOK
<1>2. p \in Fresh(a) <=> caller[p].holds = a /\ ~caller[p].stale
  BY DEF Fresh
<1>3. IsFiniteSet(Fresh(a)) /\ IsFiniteSet(Fresh(a) \ {p})
  BY FreshIsFinite, FS_RemoveElement
<1>4. QED
  BY <1>1, <1>2, <1>3, FreshIsFinite, FS_RemoveElement, FS_CardinalityType

\* A caller that holds nothing takes account b.
LEMMA TakeUp ==
    ASSUME RouterTypeOK, NEW p \in Caller, caller[p].pc # "held", NEW b \in Account,
           caller' = [caller EXCEPT ![p] = Held(b)], NEW a \in Account
    PROVE  /\ Cardinality(Fresh(a)') \in Nat
           /\ Cardinality(Fresh(a)') = IF a = b THEN Cardinality(Fresh(a)) + 1 ELSE Cardinality(Fresh(a))
<1>1. p \notin Fresh(a)
  BY RouterConstants DEF Fresh, RouterTypeOK
<1>2. Fresh(a)' = IF a = b THEN Fresh(a) \cup {p} ELSE Fresh(a)
  BY <1>1 DEF Fresh, Held, RouterTypeOK
<1>3. QED
  BY <1>1, <1>2, FreshIsFinite, FS_AddElement, FS_CardinalityType

\* A caller moves on and holds what it held.
LEMMA HoldsOn ==
    ASSUME RouterTypeOK, NEW p \in Caller, NEW pc, caller' = [caller EXCEPT ![p].pc = pc], NEW a
    PROVE  Fresh(a)' = Fresh(a)
BY DEF Fresh, RouterTypeOK

AccountType == [on : BOOLEAN, used : Nat, limit : Nat, rr : Nat]
CallerType == [pc : {"idle", "warm", "pick", "held"}, holds : Account \cup {NoAccount}, stale : BOOLEAN]

\* One place more, and another turn.
Taken(f, a, turn) == [f EXCEPT ![a] = [f[a] EXCEPT !.used = @ + 1, !.rr = turn]]

LEMMA OneMore ==
    ASSUME NEW f \in [Account -> AccountType], NEW a \in Account, NEW turn \in Nat
    PROVE  LET g == Taken(f, a, turn)
           IN  /\ g \in [Account -> AccountType]
               /\ \A b \in Account : /\ g[b].used = IF b = a THEN f[b].used + 1 ELSE f[b].used
                                     /\ g[b].limit = f[b].limit
<1> DEFINE next == [f[a] EXCEPT !.used = f[a].used + 1, !.rr = turn]
<1>1. f[a] \in AccountType /\ f[a].used + 1 \in Nat
  BY DEF AccountType
<1>2. next \in AccountType /\ next.used = f[a].used + 1 /\ next.limit = f[a].limit
  BY <1>1 DEF AccountType
<1>3. Taken(f, a, turn) = [f EXCEPT ![a] = next]
  BY DEF Taken
<1> HIDE DEF next
<1>4. QED
  BY <1>2, <1>3

-----------------------------------------------------------------------------
LEMMA RouterInvHolds == RouterInit => RouterInv
<1> SUFFICES ASSUME RouterInit PROVE RouterInv
  OBVIOUS
<1>1. RouterTypeOK
  <2>1. account \in [Account -> AccountType] /\ peak \in [Account -> Nat]
    <3>1. ASSUME NEW r \in [on : {TRUE}, used : {0}, limit : Limits, rr : {0}] PROVE r \in AccountType
      <4>1. PICK n \in Limits : r = [on |-> TRUE, used |-> 0, limit |-> n, rr |-> 0]
        OBVIOUS
      <4>2. n \in Nat
        BY RouterConstants
      <4>3. QED
        BY <4>1, <4>2 DEF AccountType
    <3>2. account \in [Account -> AccountType]
      BY <3>1 DEF RouterInit
    <3>3. QED
      BY <3>2 DEF RouterInit, AccountType
  <2>2. caller \in [Caller -> CallerType] /\ \A p \in Caller : caller[p].pc = "held" <=> caller[p].holds # NoAccount
    BY DEF RouterInit, Free, CallerType
  <2>3. sent \in [Account -> Nat] /\ stray \in [Account -> Nat]
    BY DEF RouterInit
  <2>4. QED
    BY <2>1, <2>2, <2>3 DEF RouterTypeOK, AccountType, CallerType
<1>2. ASSUME NEW a \in Account PROVE AccountSound(a)
  <2>1. Fresh(a) = {}
    BY RouterConstants DEF RouterInit, Free, Fresh
  <2>2. account[a].used = 0 /\ account[a].limit \in Nat /\ sent[a] = 0 /\ stray[a] = 0 /\ peak[a] = account[a].limit
    BY RouterConstants DEF RouterInit
  <2>3. QED
    BY <2>1, <2>2, FS_EmptySet DEF AccountSound
<1>3. QED
  BY <1>1, <1>2 DEF RouterInv

\* Account b gives one more place, to p.
LEMMA TakingKeeps ==
    ASSUME RouterInv, NEW p \in Caller, caller[p].pc # "held", NEW b \in Account, Usable(b),
           account' \in [Account -> AccountType],
           \A a \in Account : /\ account'[a].used = IF a = b THEN account[a].used + 1 ELSE account[a].used
                              /\ account'[a].limit = account[a].limit,
           caller' = [caller EXCEPT ![p] = Held(b)], UNCHANGED <<sent, peak, stray>>
    PROVE  RouterInv'
<1>1. RouterTypeOK'
  <2>1. caller' \in [Caller -> CallerType] /\ \A q \in Caller : caller'[q].pc = "held" <=> caller'[q].holds # NoAccount
    BY RouterConstants DEF RouterInv, RouterTypeOK, Held, CallerType
  <2>2. QED
    BY <2>1 DEF RouterInv, RouterTypeOK, AccountType, CallerType
<1>2. ASSUME NEW a \in Account PROVE AccountSound(a)'
  <2>1. /\ sent'[a] = sent[a] /\ peak'[a] = peak[a] /\ stray'[a] = stray[a]
        /\ sent[a] \in Nat /\ peak[a] \in Nat /\ stray[a] \in Nat
        /\ account[a].used \in Nat /\ account[a].limit \in Nat
    BY DEF RouterInv, RouterTypeOK
  <2>2. Cardinality(Fresh(a)') = IF a = b THEN Cardinality(Fresh(a)) + 1 ELSE Cardinality(Fresh(a))
    BY TakeUp DEF RouterInv
  <2>3. a = b => account[a].used < account[a].limit
    BY DEF Usable
  <2>4. AccountSound(a) /\ Cardinality(Fresh(a)) \in Nat
    BY FreshIsFinite DEF RouterInv
  <2>5. QED
    BY <2>1, <2>2, <2>3, <2>4 DEF AccountSound
<1>3. QED
  BY <1>1, <1>2 DEF RouterInv

\* p is done: only the account it held since midnight may lose room.
Spare(a) == account[a].used + stray[a] - sent[a]

LEMMA LettingKeeps ==
    ASSUME RouterInv, NEW p \in Caller, caller' = [caller EXCEPT ![p] = Free],
           account' \in [Account -> AccountType], sent' \in [Account -> Nat], stray' \in [Account -> Nat],
           peak' = peak,
           \A a \in Account :
              /\ account'[a].limit = account[a].limit /\ account'[a].used <= account[a].used
              /\ Spare(a)' >= IF caller[p].holds = a /\ ~caller[p].stale THEN Spare(a) - 1 ELSE Spare(a)
    PROVE  RouterInv'
<1>1. RouterTypeOK'
  <2>1. caller' \in [Caller -> CallerType] /\ \A q \in Caller : caller'[q].pc = "held" <=> caller'[q].holds # NoAccount
    BY RouterConstants DEF RouterInv, RouterTypeOK, Free, CallerType
  <2>2. QED
    BY <2>1 DEF RouterInv, RouterTypeOK, AccountType, CallerType
<1>2. ASSUME NEW a \in Account PROVE AccountSound(a)'
  <2>1. /\ peak'[a] = peak[a] /\ sent[a] \in Nat /\ peak[a] \in Nat /\ stray[a] \in Nat
        /\ account[a].used \in Nat /\ account[a].limit \in Nat
        /\ account'[a].used \in Nat /\ sent'[a] \in Nat /\ stray'[a] \in Nat
    BY DEF RouterInv, RouterTypeOK, AccountType
  <2>2. Cardinality(Fresh(a)') = IF caller[p].holds = a /\ ~caller[p].stale
                                 THEN Cardinality(Fresh(a)) - 1 ELSE Cardinality(Fresh(a))
    BY LetGo DEF RouterInv
  <2>3. AccountSound(a) /\ Cardinality(Fresh(a)) \in Nat
    BY FreshIsFinite DEF RouterInv
  <2>4. QED
    BY <2>1, <2>2, <2>3 DEF AccountSound, Spare
<1>3. QED
  BY <1>1, <1>2 DEF RouterInv

\* Limits change, and the largest one with them.
LEMMA LimitsKeep ==
    ASSUME RouterInv, NEW p \in Caller, UNCHANGED <<sent, stray>>, account' \in [Account -> AccountType],
           caller' \in [Caller -> CallerType], peak' \in [Account -> Nat],
           \A q \in Caller : caller'[q].pc = "held" <=> caller'[q].holds # NoAccount,
           \A a \in Account : /\ Fresh(a)' = Fresh(a)
                              /\ account'[a].used = account[a].used
                              /\ peak'[a] >= peak[a] /\ peak'[a] >= account'[a].limit
    PROVE  RouterInv'
<1>1. RouterTypeOK'
  BY DEF RouterInv, RouterTypeOK, AccountType, CallerType
<1>2. ASSUME NEW a \in Account PROVE AccountSound(a)'
  <2>1. /\ sent'[a] = sent[a] /\ stray'[a] = stray[a]
        /\ sent[a] \in Nat /\ peak[a] \in Nat /\ peak'[a] \in Nat /\ stray[a] \in Nat
        /\ account[a].used \in Nat
    BY DEF RouterInv, RouterTypeOK
  <2>2. AccountSound(a) /\ Cardinality(Fresh(a)) \in Nat
    BY FreshIsFinite DEF RouterInv
  <2>3. QED
    BY <2>1, <2>2 DEF AccountSound
<1>3. QED
  BY <1>1, <1>2 DEF RouterInv

-----------------------------------------------------------------------------
LEMMA DedicatedKeeps ==
    ASSUME RouterInv, NEW p \in Caller, NEW a \in Account, Dedicated(p, a) PROVE RouterInv'
<1>1. account \in [Account -> AccountType]
  BY DEF RouterInv, RouterTypeOK, AccountType
<1>2. account' \in [Account -> AccountType]
  BY <1>1 DEF Dedicated, AccountType
<1>3. \A b \in Account : /\ account'[b].used = IF b = a THEN account[b].used + 1 ELSE account[b].used
                         /\ account'[b].limit = account[b].limit
  BY <1>1 DEF Dedicated, AccountType
<1>4. QED
  BY <1>2, <1>3, TakingKeeps DEF Dedicated

LEMMA PickKeeps ==
    ASSUME RouterInv, NEW p \in Caller, NEW locked, Pick(p, locked) PROVE RouterInv'
<1>1. account \in [Account -> AccountType] /\ sent \in [Account -> Nat] /\ stray \in [Account -> Nat]
  BY DEF RouterInv, RouterTypeOK, AccountType
<1>2. CASE caller' = [caller EXCEPT ![p] = Free] /\ UNCHANGED account
  <2>1. caller[p].holds = NoAccount
    BY DEF Pick, RouterInv, RouterTypeOK
  <2>2. UNCHANGED <<sent, peak, stray>>
    BY DEF Pick
  <2>3. account' \in [Account -> AccountType] /\ sent' \in [Account -> Nat] /\ stray' \in [Account -> Nat]
    BY <1>1, <1>2, <2>2
  <2>4. ASSUME NEW a \in Account
        PROVE  /\ account'[a].limit = account[a].limit /\ account'[a].used <= account[a].used
               /\ Spare(a)' >= IF caller[p].holds = a /\ ~caller[p].stale THEN Spare(a) - 1 ELSE Spare(a)
    BY <1>1, <1>2, <2>1, <2>2, RouterConstants DEF Spare, AccountType
  <2>5. peak' = peak /\ caller' = [caller EXCEPT ![p] = Free]
    BY <1>2, <2>2
  <2>6. QED
    BY <2>3, <2>4, <2>5, LettingKeeps
<1>3. CASE \E a \in Account \ locked :
              /\ Usable(a)
              /\ account' = [account EXCEPT
                     ![a] = [account[a] EXCEPT !.used = @ + 1, !.rr = (@ + 1) % Cardinality(Active)]]
              /\ caller' = [caller EXCEPT ![p] = Held(a)]
  <2>1. PICK a \in Account \ locked :
              /\ Usable(a)
              /\ account' = [account EXCEPT
                     ![a] = [account[a] EXCEPT !.used = @ + 1, !.rr = (@ + 1) % Cardinality(Active)]]
              /\ caller' = [caller EXCEPT ![p] = Held(a)]
    BY <1>3
  <2> DEFINE turn == (account[a].rr + 1) % Cardinality(Active)
  <2>2. turn \in Nat
    <3>1. IsFiniteSet(Active) /\ a \in Active
      BY <2>1, RouterConstants, FS_Subset DEF Active, Usable
    <3>2. Cardinality(Active) \in Nat /\ Cardinality(Active) # 0
      BY <3>1, FS_CardinalityType, FS_EmptySet
    <3>3. QED
      BY <1>1, <3>2 DEF AccountType
  <2>3. account' = Taken(account, a, turn)
    BY <2>1 DEF Taken
  <2> HIDE DEF turn
  <2>4. /\ account' \in [Account -> AccountType]
        /\ \A b \in Account : /\ account'[b].used = IF b = a THEN account[b].used + 1 ELSE account[b].used
                              /\ account'[b].limit = account[b].limit
    BY <1>1, <2>2, <2>3, OneMore
  <2>5. QED
    BY <2>1, <2>4, TakingKeeps DEF Pick
<1>4. QED
  BY <1>2, <1>3 DEF Pick

LEMMA SendKeeps == ASSUME RouterInv, NEW p \in Caller, Send(p) PROVE RouterInv'
<1>1. /\ account \in [Account -> AccountType] /\ sent \in [Account -> Nat] /\ stray \in [Account -> Nat]
      /\ caller[p].holds \in Account
  BY DEF RouterInv, RouterTypeOK, AccountType, Send
<1>2. account' \in [Account -> AccountType] /\ sent' \in [Account -> Nat] /\ stray' \in [Account -> Nat]
  BY <1>1 DEF Send, Strayed
<1>3. ASSUME NEW a \in Account
      PROVE  /\ account'[a].limit = account[a].limit /\ account'[a].used <= account[a].used
             /\ Spare(a)' >= IF caller[p].holds = a /\ ~caller[p].stale THEN Spare(a) - 1 ELSE Spare(a)
  <2>1. account'[a] = account[a] /\ account[a].used \in Nat /\ sent[a] \in Nat /\ stray[a] \in Nat
    BY <1>1 DEF Send, AccountType
  <2>2. /\ sent'[a] = IF caller[p].holds = a THEN sent[a] + 1 ELSE sent[a]
        /\ stray'[a] = IF caller[p].holds = a /\ caller[p].stale THEN stray[a] + 1 ELSE stray[a]
    BY <1>1 DEF Send, Strayed
  <2>3. QED
    BY <2>1, <2>2 DEF Spare
<1>4. QED
  BY <1>2, <1>3, LettingKeeps DEF Send

LEMMA GiveBackKeeps == ASSUME RouterInv, NEW p \in Caller, GiveBack(p) PROVE RouterInv'
<1>1. /\ account \in [Account -> AccountType] /\ sent \in [Account -> Nat] /\ stray \in [Account -> Nat]
      /\ caller[p].holds \in Account
  BY DEF RouterInv, RouterTypeOK, AccountType, GiveBack
<1>2. \A n \in Nat : GivenBack(n) \in Nat /\ GivenBack(n) <= n /\ GivenBack(n) >= n - 1
  BY DEF GivenBack
<1>3. /\ account' = [account EXCEPT ![caller[p].holds].used = GivenBack(account[caller[p].holds].used)]
      /\ sent' = sent
  BY DEF GiveBack
<1>4. account' \in [Account -> AccountType] /\ sent' \in [Account -> Nat] /\ stray' \in [Account -> Nat]
  <2>1. account' \in [Account -> AccountType]
    BY <1>1, <1>2, <1>3 DEF AccountType
  <2>2. stray' \in [Account -> Nat]
    BY <1>1 DEF GiveBack, Strayed
  <2>3. QED
    BY <1>1, <1>3, <2>1, <2>2
<1>5. ASSUME NEW a \in Account
      PROVE  /\ account'[a].limit = account[a].limit /\ account'[a].used <= account[a].used
             /\ Spare(a)' >= IF caller[p].holds = a /\ ~caller[p].stale THEN Spare(a) - 1 ELSE Spare(a)
  <2>1. account[a].used \in Nat /\ sent[a] \in Nat /\ stray[a] \in Nat
    BY <1>1 DEF AccountType
  <2>2. /\ account'[a].limit = account[a].limit
        /\ account'[a].used = IF caller[p].holds = a THEN GivenBack(account[a].used) ELSE account[a].used
    BY <1>1, <1>3 DEF AccountType
  <2>3. stray'[a] = IF caller[p].holds = a /\ caller[p].stale THEN stray[a] + 1 ELSE stray[a]
    BY <1>1 DEF GiveBack, Strayed
  <2>4. QED
    BY <1>2, <1>3, <2>1, <2>2, <2>3 DEF Spare
<1>6. QED
  BY <1>4, <1>5, LettingKeeps DEF GiveBack

LEMMA LoseKeeps == ASSUME RouterInv, NEW p \in Caller, Lose(p) PROVE RouterInv'
<1>1. account \in [Account -> AccountType] /\ sent \in [Account -> Nat] /\ stray \in [Account -> Nat]
  BY DEF RouterInv, RouterTypeOK, AccountType
<1>2. UNCHANGED <<account, sent, peak, stray>> /\ caller' = [caller EXCEPT ![p] = Free]
  BY DEF Lose
<1>3. ASSUME NEW a \in Account
      PROVE  /\ account'[a].limit = account[a].limit /\ account'[a].used <= account[a].used
             /\ Spare(a)' >= IF caller[p].holds = a /\ ~caller[p].stale THEN Spare(a) - 1 ELSE Spare(a)
  BY <1>1, <1>2 DEF Spare, AccountType
<1>4. QED
  BY <1>1, <1>2, <1>3, LettingKeeps

\* FallBack and NoWarming.
LEMMA MoveOnKeeps ==
    ASSUME RouterInv, NEW p \in Caller, NEW pc \in {"warm", "pick"}, caller[p].pc \in {"idle", "warm"},
           caller' = [caller EXCEPT ![p].pc = pc], UNCHANGED <<account, sent, peak, stray>>
    PROVE  RouterInv'
<1>1. /\ account' \in [Account -> AccountType] /\ peak' \in [Account -> Nat]
      /\ caller' \in [Caller -> CallerType]
      /\ \A q \in Caller : caller'[q].pc = "held" <=> caller'[q].holds # NoAccount
  BY DEF RouterInv, RouterTypeOK, AccountType, CallerType
<1>2. \A a \in Account : Fresh(a)' = Fresh(a)
  BY HoldsOn DEF RouterInv
<1>3. \A a \in Account : account'[a].used = account[a].used /\ peak'[a] >= peak[a] /\ peak'[a] >= account'[a].limit
  BY DEF RouterInv, RouterTypeOK, AccountSound
<1>4. QED
  BY <1>1, <1>2, <1>3, LimitsKeep

\* A limit is set, and the account switched perhaps.
LEMMA NewLimit ==
    ASSUME RouterInv, NEW a \in Account, NEW limit \in Limits, peak' = [peak EXCEPT ![a] = Larger(@, limit)],
           account' \in [Account -> AccountType],
           \A b \in Account : /\ account'[b].used = account[b].used
                              /\ account'[b].limit = IF b = a THEN limit ELSE account[b].limit
    PROVE  /\ peak' \in [Account -> Nat]
           /\ \A b \in Account : /\ account'[b].used = account[b].used
                                 /\ peak'[b] >= peak[b] /\ peak'[b] >= account'[b].limit
<1>1. peak \in [Account -> Nat] /\ limit \in Nat /\ \A b \in Account : account[b].limit \in Nat
  BY RouterConstants DEF RouterInv, RouterTypeOK
<1>2. \A m, n \in Nat : Larger(m, n) \in Nat /\ Larger(m, n) >= m /\ Larger(m, n) >= n
  BY DEF Larger
<1>3. peak' \in [Account -> Nat]
  BY <1>1, <1>2
<1>4. ASSUME NEW b \in Account PROVE peak'[b] >= peak[b] /\ peak'[b] >= account'[b].limit
  <2>1. peak[b] >= account[b].limit /\ peak[b] \in Nat
    BY <1>1 DEF RouterInv, AccountSound
  <2>2. peak'[b] = IF b = a THEN Larger(peak[b], limit) ELSE peak[b]
    BY <1>1
  <2>3. account'[b].limit = IF b = a THEN limit ELSE account[b].limit
    OBVIOUS
  <2>4. account[b].limit \in Nat /\ limit \in Nat
    BY <1>1
  <2>5. QED
    BY <2>1, <2>2, <2>3, <2>4 DEF Larger
<1>5. QED
  BY <1>3, <1>4

LEMMA WarmKeeps ==
    ASSUME RouterInv, NEW p \in Caller, NEW a \in Account, NEW limit \in Limits, Warm(p, a, limit)
    PROVE  RouterInv'
<1>1. account \in [Account -> AccountType] /\ limit \in Nat
  BY RouterConstants DEF RouterInv, RouterTypeOK, AccountType
<1>2. /\ account' \in [Account -> AccountType]
      /\ \A b \in Account : /\ account'[b].used = account[b].used
                            /\ account'[b].limit = IF b = a THEN limit ELSE account[b].limit
  BY <1>1 DEF Warm, AccountType
<1>3. /\ caller' \in [Caller -> CallerType]
      /\ \A q \in Caller : caller'[q].pc = "held" <=> caller'[q].holds # NoAccount
  BY DEF RouterInv, RouterTypeOK, CallerType, Warm
<1>4. \A b \in Account : Fresh(b)' = Fresh(b)
  BY HoldsOn DEF RouterInv, Warm
<1>5. peak' = [peak EXCEPT ![a] = Larger(@, limit)] /\ UNCHANGED <<sent, stray>>
  BY DEF Warm
<1>6. /\ peak' \in [Account -> Nat]
      /\ \A b \in Account : /\ account'[b].used = account[b].used
                            /\ peak'[b] >= peak[b] /\ peak'[b] >= account'[b].limit
  BY <1>2, <1>5, NewLimit
<1>7. QED
  BY <1>2, <1>3, <1>4, <1>5, <1>6, LimitsKeep

LEMMA SetAccountKeeps ==
    ASSUME RouterInv, NEW a \in Account, NEW on \in BOOLEAN, NEW limit \in Limits, SetAccount(a, on, limit)
    PROVE  RouterInv'
<1>1. account \in [Account -> AccountType] /\ limit \in Nat
  BY RouterConstants DEF RouterInv, RouterTypeOK, AccountType
<1>2. /\ account' \in [Account -> AccountType]
      /\ \A b \in Account : /\ account'[b].used = account[b].used
                            /\ account'[b].limit = IF b = a THEN limit ELSE account[b].limit
  BY <1>1 DEF SetAccount, AccountType
<1>3. peak' = [peak EXCEPT ![a] = Larger(@, limit)] /\ UNCHANGED <<caller, sent, stray>>
  BY DEF SetAccount
<1>4. /\ peak' \in [Account -> Nat]
      /\ \A b \in Account : /\ account'[b].used = account[b].used
                            /\ peak'[b] >= peak[b] /\ peak'[b] >= account'[b].limit
  BY <1>2, <1>3, NewLimit
<1>5. RouterTypeOK'
  BY <1>2, <1>3, <1>4 DEF RouterInv, RouterTypeOK, AccountType
<1>6. ASSUME NEW b \in Account PROVE AccountSound(b)'
  <2>1. Fresh(b)' = Fresh(b) /\ sent'[b] = sent[b] /\ stray'[b] = stray[b]
    BY <1>3 DEF Fresh
  <2>2. AccountSound(b) /\ peak[b] \in Nat /\ peak'[b] \in Nat /\ account[b].used \in Nat
    BY <1>4 DEF RouterInv, RouterTypeOK
  <2>3. QED
    BY <1>4, <2>1, <2>2 DEF AccountSound
<1>7. QED
  BY <1>5, <1>6 DEF RouterInv

\* At midnight every account in hand becomes one of yesterday.
LEMMA ResetDayKeeps == ASSUME RouterInv, ResetDay PROVE RouterInv'
<1>1. account \in [Account -> AccountType] /\ caller \in [Caller -> CallerType] /\ peak \in [Account -> Nat]
  BY DEF RouterInv, RouterTypeOK, AccountType, CallerType
<1>2. account' \in [Account -> AccountType]
  BY <1>1 DEF ResetDay, AccountType
<1>3. /\ caller' \in [Caller -> CallerType]
      /\ \A p \in Caller : /\ caller'[p].pc = caller[p].pc /\ caller'[p].holds = caller[p].holds
                           /\ caller'[p].stale = (caller[p].pc = "held")
  BY <1>1 DEF ResetDay, CallerType
<1>4. peak' \in [Account -> Nat]
  BY <1>1 DEF ResetDay, AccountType
<1>5. sent' \in [Account -> Nat] /\ stray' \in [Account -> Nat]
  BY DEF ResetDay
<1>6. RouterTypeOK'
  BY <1>2, <1>3, <1>4, <1>5 DEF RouterInv, RouterTypeOK, AccountType, CallerType
<1>7. ASSUME NEW a \in Account PROVE AccountSound(a)'
  <2>1. Fresh(a)' = {}
    <3>1. \A p \in Caller : caller[p].holds = a => caller[p].pc = "held"
      BY RouterConstants DEF RouterInv, RouterTypeOK
    <3>2. \A p \in Caller : caller'[p].holds = a => caller'[p].stale
      BY <1>3, <3>1
    <3>3. QED
      BY <3>2 DEF Fresh
  <2>2. sent'[a] = 0 /\ stray'[a] = 0
    BY DEF ResetDay
  <2>3. /\ account'[a].used = IF account[a].on THEN 0 ELSE account[a].used
        /\ account'[a].limit = account[a].limit
        /\ peak'[a] = IF account[a].on THEN account[a].limit ELSE peak[a]
    BY <1>1 DEF ResetDay, AccountType
  <2>4. AccountSound(a) /\ account[a].used \in Nat /\ account[a].limit \in Nat /\ peak[a] \in Nat
    BY <1>1 DEF RouterInv, AccountType
  <2>5. QED
    BY <2>1, <2>2, <2>3, <2>4, FS_EmptySet DEF AccountSound
<1>8. QED
  BY <1>6, <1>7 DEF RouterInv

-----------------------------------------------------------------------------
LEMMA RouterInvKept == RouterInv /\ [RouterNext]_routerVars => RouterInv'
<1> SUFFICES ASSUME RouterInv, [RouterNext]_routerVars PROVE RouterInv'
  OBVIOUS
<1>1. CASE \E p \in Caller : FallBack(p) \/ NoWarming(p)
  BY <1>1, MoveOnKeeps DEF FallBack, NoWarming
<1>2. CASE \E p \in Caller, locked \in SUBSET Account : Pick(p, locked)
  BY <1>2, PickKeeps
<1>3. CASE \E p \in Caller, a \in Account : Dedicated(p, a)
  BY <1>3, DedicatedKeeps
<1>4. CASE \E p \in Caller, a \in Account, n \in Limits : Warm(p, a, n)
  BY <1>4, WarmKeeps
<1>5. CASE \E p \in Caller : Send(p) \/ GiveBack(p) \/ Lose(p)
  BY <1>5, SendKeeps, GiveBackKeeps, LoseKeeps
<1>6. CASE ResetDay
  BY <1>6, ResetDayKeeps
<1>7. CASE \E a \in Account, on \in BOOLEAN, n \in Limits : SetAccount(a, on, n)
  BY <1>7, SetAccountKeeps
<1>8. CASE UNCHANGED routerVars
  BY <1>8 DEF routerVars, RouterInv, RouterTypeOK, AccountSound, Fresh
<1>9. QED
  BY <1>1, <1>2, <1>3, <1>4, <1>5, <1>6, <1>7, <1>8 DEF RouterNext

\* Between two midnights an account sends no more than its largest limit plus
\* the strays of the day before, however its limit was edited or warmed.
THEOREM AccountsWithinBudget == RouterSpec => []BudgetKept
<1>1. RouterInv => BudgetKept
  <2> SUFFICES ASSUME RouterInv, NEW a \in Account PROVE sent[a] <= peak[a] + stray[a]
    BY DEF BudgetKept
  <2>1. AccountSound(a) /\ Cardinality(Fresh(a)) \in Nat
    BY FreshIsFinite DEF RouterInv
  <2>2. sent[a] \in Nat /\ peak[a] \in Nat /\ stray[a] \in Nat /\ account[a].used \in Nat
    BY DEF RouterInv, RouterTypeOK
  <2>3. QED
    BY <2>1, <2>2 DEF AccountSound
<1>2. QED
  BY RouterInvHolds, RouterInvKept, <1>1, PTL DEF RouterSpec

(***************************************************************************)
(* The caches                                                              *)
(***************************************************************************)

ReadingType == [pc : {"rest", "asked", "told"}, value : 0..MaxWrites, since : 0..MaxWrites]

\* The strengthening: writes are counted once they are stored; an answer is no
\* older than what was over when it was asked for; what is cached came from such
\* an answer or from a write.
WritesStored == over <= stored /\ \A n \in writer : n <= stored
AnswersAreNew ==
    \A r \in Reader :
        /\ reader[r].since <= stored
        /\ reader[r].pc = "told" => reader[r].since <= reader[r].value /\ reader[r].value <= stored
CachedIsNew == cached # Missing => least <= cached /\ cached <= stored

CacheInv == CacheTypeOK /\ WritesStored /\ AnswersAreNew /\ CachedIsNew

LEMMA NewerIs ==
    ASSUME NEW m \in 0..MaxWrites, NEW n \in 0..MaxWrites
    PROVE  Newer(m, n) \in {m, n}
BY DEF Newer

LEMMA CacheInvHolds == CacheInit => CacheInv
<1> SUFFICES ASSUME CacheInit PROVE CacheInv
  OBVIOUS
<1>1. 0 \in 0..MaxWrites /\ Missing \in Missing..MaxWrites /\ 0 \in Missing..MaxWrites
  BY CacheConstants DEF Missing
<1>2. reader = [r \in Reader |-> Resting] /\ Resting \in ReadingType
  BY <1>1 DEF CacheInit, Resting, ReadingType
<1>3. CacheTypeOK
  BY <1>1, <1>2 DEF CacheInit, CacheTypeOK, ReadingType
<1>4. AnswersAreNew
  BY <1>2 DEF CacheInit, AnswersAreNew, Resting
<1>5. QED
  BY <1>3, <1>4 DEF CacheInit, CacheInv, WritesStored, CachedIsNew, Missing

\* One reader moves, with an answer no older than it may be; whatever is cached
\* with it is no older than its floor.
LEMMA ReaderKeeps ==
    ASSUME CacheInv, NEW r \in Reader, reader' \in [Reader -> ReadingType],
           \A q \in Reader : q # r => reader'[q] = reader[q],
           reader'[r].since <= stored,
           reader'[r].pc = "told" => reader'[r].since <= reader'[r].value /\ reader'[r].value <= stored,
           old' \in BOOLEAN, loaded' \in BOOLEAN, UNCHANGED <<table, stored, writer, over>>,
           \/ UNCHANGED <<cached, least>>
           \/ /\ cached' \in 0..MaxWrites /\ least' \in 0..MaxWrites
              /\ least' <= cached' /\ cached' <= stored
    PROVE  CacheInv'
<1>1. cached' \in Missing..MaxWrites /\ least' \in 0..MaxWrites
  BY CacheConstants DEF CacheInv, CacheTypeOK, Missing
<1>2. CacheTypeOK'
  BY <1>1 DEF CacheInv, CacheTypeOK, ReadingType
<1>3. AnswersAreNew'
  BY DEF CacheInv, AnswersAreNew
<1>4. WritesStored' /\ CachedIsNew'
  BY DEF CacheInv, WritesStored, CachedIsNew
<1>5. QED
  BY <1>2, <1>3, <1>4 DEF CacheInv

LEMMA LoadsKeep ==
    ASSUME CacheInv, NEW r \in Reader,
           StartLoad(r) \/ AnswerLoad(r) \/ FinishLoad(r) \/ FailLoad(r)
    PROVE  CacheInv'
<1>1. /\ reader \in [Reader -> ReadingType] /\ stored \in 0..MaxWrites /\ over \in 0..MaxWrites
      /\ over <= stored /\ old \in BOOLEAN /\ loaded \in BOOLEAN /\ reader[r].since <= stored
      /\ reader[r].since \in 0..MaxWrites /\ reader[r].value \in 0..MaxWrites
      /\ reader[r].pc = "told" => reader[r].since <= reader[r].value /\ reader[r].value <= stored
  BY DEF CacheInv, CacheTypeOK, ReadingType, WritesStored, AnswersAreNew
<1>2. Resting \in ReadingType /\ Resting.pc # "told" /\ Resting.since <= stored
  BY <1>1, CacheConstants DEF Resting, ReadingType
<1>3. CASE StartLoad(r)
  <2>1. /\ reader' \in [Reader -> ReadingType] /\ \A q \in Reader : q # r => reader'[q] = reader[q]
        /\ reader'[r].pc = "asked" /\ reader'[r].since = over
    BY <1>1, <1>3 DEF StartLoad, ReadingType
  <2>2. QED
    BY <1>1, <1>3, <2>1, ReaderKeeps DEF StartLoad
<1>4. CASE AnswerLoad(r)
  <2>1. /\ reader' \in [Reader -> ReadingType] /\ \A q \in Reader : q # r => reader'[q] = reader[q]
        /\ reader'[r].value = stored /\ reader'[r].since = reader[r].since
    BY <1>1, <1>4 DEF AnswerLoad, ReadingType
  <2>2. reader'[r].since <= reader'[r].value /\ reader'[r].value <= stored
    BY <1>1, <2>1
  <2>3. QED
    BY <1>1, <1>4, <2>1, <2>2, ReaderKeeps DEF AnswerLoad
<1>5. CASE FinishLoad(r)
  <2>1. /\ reader' \in [Reader -> ReadingType] /\ \A q \in Reader : q # r => reader'[q] = reader[q]
        /\ reader'[r] = Resting
    BY <1>1, <1>2, <1>5 DEF FinishLoad
  <2>2. QED
    BY <1>1, <1>2, <1>5, <2>1, ReaderKeeps DEF FinishLoad
<1>6. CASE FailLoad(r)
  <2>1. /\ reader' \in [Reader -> ReadingType] /\ \A q \in Reader : q # r => reader'[q] = reader[q]
        /\ reader'[r] = Resting
    BY <1>1, <1>2, <1>6 DEF FailLoad
  <2>2. QED
    BY <1>1, <1>2, <1>6, <2>1, ReaderKeeps DEF FailLoad
<1>7. QED
  BY <1>3, <1>4, <1>5, <1>6

LEMMA WritesKeep ==
    ASSUME CacheInv, (\E here \in BOOLEAN : StoreValue(here)) \/ (\E n \in 1..MaxWrites : TouchCache(n))
    PROVE  CacheInv'
<1>1. /\ reader \in [Reader -> ReadingType] /\ stored \in 0..MaxWrites /\ over \in 0..MaxWrites
      /\ least \in 0..MaxWrites /\ cached \in Missing..MaxWrites /\ writer \subseteq 1..MaxWrites
      /\ old \in BOOLEAN /\ loaded \in BOOLEAN /\ Missing = -1
      /\ table \in {"settings", "schedule", "patterns"}
  BY DEF CacheInv, CacheTypeOK, ReadingType, Missing
<1>2. ASSUME NEW here \in BOOLEAN, StoreValue(here) PROVE CacheInv'
  <2>1. /\ stored' = stored + 1 /\ stored + 1 \in 1..MaxWrites /\ writer' \subseteq writer \cup {stored + 1}
        /\ UNCHANGED <<table, cached, old, loaded, reader, over, least>>
    BY <1>1, <1>2, CacheConstants DEF StoreValue
  <2>2. CacheTypeOK'
    BY <1>1, <2>1 DEF CacheTypeOK, ReadingType
  <2>3. \A r \in Reader : reader[r].since \in 0..MaxWrites /\ reader[r].value \in 0..MaxWrites
    BY <1>1 DEF ReadingType
  <2>4. AnswersAreNew'
    BY <1>1, <2>1, <2>3 DEF CacheInv, AnswersAreNew
  <2>5. WritesStored'
    BY <1>1, <2>1 DEF CacheInv, WritesStored
  <2>6. CachedIsNew'
    BY <1>1, <2>1 DEF CacheInv, CachedIsNew
  <2>7. QED
    BY <2>2, <2>4, <2>5, <2>6 DEF CacheInv
<1>3. ASSUME NEW n \in 1..MaxWrites, TouchCache(n) PROVE CacheInv'
  <2>1. /\ cached' \in {n, Missing} /\ least' = n /\ over' = Newer(over, n) /\ writer' = writer \ {n}
        /\ n \in writer /\ old' = TRUE /\ UNCHANGED <<table, stored, loaded, reader>>
    BY <1>3 DEF TouchCache, AfterWrite
  <2>2. n \in 0..MaxWrites /\ n <= stored
    BY <2>1 DEF CacheInv, WritesStored
  <2>3. over' \in {over, n}
    BY <1>1, <2>1, <2>2, NewerIs
  <2>4. CacheTypeOK'
    <3>1. cached' \in Missing..MaxWrites /\ writer' \subseteq 1..MaxWrites
      BY <1>1, <2>1, CacheConstants
    <3>2. over' \in 0..MaxWrites /\ least' \in 0..MaxWrites
      BY <1>1, <2>1, <2>2, <2>3
    <3>3. QED
      BY <1>1, <2>1, <3>1, <3>2 DEF CacheTypeOK, ReadingType
  <2>5. WritesStored'
    BY <2>1, <2>2, <2>3 DEF CacheInv, WritesStored
  <2>6. AnswersAreNew' /\ CachedIsNew'
    BY <1>1, <2>1, <2>2 DEF CacheInv, AnswersAreNew, CachedIsNew
  <2>7. QED
    BY <2>4, <2>5, <2>6 DEF CacheInv
<1>4. QED
  BY <1>2, <1>3

LEMMA CacheInvKept == CacheInv /\ [CacheNext]_cacheVars => CacheInv'
<1> SUFFICES ASSUME CacheInv, [CacheNext]_cacheVars PROVE CacheInv'
  OBVIOUS
<1>1. CASE Expire
  BY <1>1 DEF Expire, CacheInv, CacheTypeOK, WritesStored, AnswersAreNew, CachedIsNew
<1>2. CASE UNCHANGED cacheVars
  BY <1>2 DEF cacheVars, CacheInv, CacheTypeOK, WritesStored, AnswersAreNew, CachedIsNew
<1>3. QED
  BY <1>1, <1>2, LoadsKeep, WritesKeep DEF CacheNext

\* A process sees its own writes: whatever it serves is no older than the newest
\* write of its own that was over when it asked for it.
THEOREM OwnWritesAreSeen == CacheSpec => [](CacheTypeOK /\ OwnWriteSeen)
<1>1. CacheInv => CacheTypeOK /\ OwnWriteSeen
  <2> SUFFICES ASSUME CacheInv, NEW n \in 0..MaxWrites, Serves(n) PROVE n >= least
    BY DEF CacheInv, OwnWriteSeen
  <2>1. cached = n /\ n # Missing /\ least \in 0..MaxWrites /\ n \in Int
    BY CacheConstants DEF Serves, Missing, CacheInv, CacheTypeOK
  <2>2. QED
    BY <2>1 DEF CacheInv, CachedIsNew
<1>2. QED
  BY <1>1, CacheInvHolds, CacheInvKept, PTL DEF CacheSpec

(***************************************************************************)
(* The send gate                                                           *)
(***************************************************************************)

\* Test mode asked for to at some moment between the floor m has and now.
AskedFor(to, floor, now) == \E n \in floor..now : to = IF TestModeOn(n) THEN "test" ELSE "real"

\* The strengthening: what each check that message m has passed found, where now
\* is the setting that is stored and seen says that the tenant was found active
\* or could not be read.  A message that waits for its recipient found test mode
\* on.
Passed(m, now, seen) ==
    /\ m \in Message
    /\ m.pc \in {"consent", "global", "list", "mail"} => (m.followUp => seen)
    /\ m.pc = "list" => AskedFor("test", m.floor, now)
    /\ m.pc = "mail" => AskedFor(m.to, m.floor, now)

GateInv ==
    /\ active \in BOOLEAN /\ onceActive \in BOOLEAN /\ unread \in BOOLEAN
    /\ active => onceActive
    /\ Passed(message, stored, onceActive \/ unread)

-----------------------------------------------------------------------------
\* No message has passed nothing.
LEMMA NobodyPassed == ASSUME NEW now, NEW seen PROVE Passed(NoMessage, now, seen)
<1>1. NoMessage \in Message /\ NoMessage.pc = "none"
  BY CacheConstants DEF NoMessage, Message, Missing
<1>2. QED
  BY <1>1 DEF Passed

\* A message that moves on.
Moved(m, pc, to, floor) == [m EXCEPT !.pc = pc, !.to = to, !.floor = floor]

\* What is stored goes up only, so what test mode asked for stays asked for.
LEMMA StoredGoesUp ==
    ASSUME CacheInv, [CacheNext]_cacheVars
    PROVE  stored \in Int /\ stored' \in Int /\ stored <= stored'
<1>1. stored \in 0..MaxWrites /\ stored \in Int
  BY DEF CacheInv, CacheTypeOK
<1>2. stored' = stored \/ stored' = stored + 1
  BY DEF CacheNext, cacheVars, StartLoad, AnswerLoad, FinishLoad, FailLoad, Expire, StoreValue, TouchCache
<1>3. QED
  BY <1>1, <1>2

LEMMA StillAskedFor ==
    ASSUME NEW to, NEW floor \in Int, NEW now \in Int, NEW later \in Int, now <= later,
           AskedFor(to, floor, now)
    PROVE  AskedFor(to, floor, later)
BY DEF AskedFor

LEMMA GateInvHolds == GateInit => GateInv
<1> SUFFICES ASSUME GateInit PROVE GateInv
  OBVIOUS
<1>1. active \in BOOLEAN /\ onceActive = active /\ unread = FALSE /\ message = NoMessage
  BY DEF GateInit
<1>2. Passed(message, stored, onceActive \/ unread)
  BY <1>1, NobodyPassed
<1>3. QED
  BY <1>1, <1>2 DEF GateInv

-----------------------------------------------------------------------------
LEMMA BeginKeeps == ASSUME GateInv, NEW followUp \in BOOLEAN, Begin(followUp) PROVE GateInv'
<1>1. /\ message' = [pc |-> "tenant", followUp |-> followUp, to |-> "nobody", floor |-> Missing]
      /\ active' = active /\ onceActive' = active /\ unread' = FALSE
  BY DEF Begin, NoMessage
<1>2. message' \in Message /\ message'.pc = "tenant"
  BY <1>1, CacheConstants DEF Message, Missing
<1>3. Passed(message', stored', onceActive' \/ unread')
  BY <1>2 DEF Passed
<1>4. QED
  BY <1>1, <1>3 DEF GateInv

\* A message that goes on to where nothing more is asked of it than before.
LEMMA GoingOnIs ==
    ASSUME message \in Message, NEW pc \in {"consent", "global"}, GoOn(pc)
    PROVE  message' \in Message /\ message'.pc = pc /\ message'.followUp = message.followUp
BY DEF GoOn, Message

LEMMA QuitKeeps ==
    ASSUME GateInv, Quit, UNCHANGED <<active, onceActive>>, unread' \in BOOLEAN
    PROVE  GateInv'
BY NobodyPassed DEF Quit, GateInv

LEMMA TenantKeeps == ASSUME GateInv, NEW readable \in BOOLEAN, PassTenant(readable) PROVE GateInv'
<1>1. /\ message \in Message /\ message.followUp \in BOOLEAN /\ UNCHANGED <<active, onceActive>>
      /\ unread' = (message.followUp /\ ~readable)
  BY DEF GateInv, Passed, Message, PassTenant
<1>2. unread' \in BOOLEAN
  BY <1>1
<1>3. CASE (message.followUp /\ readable => active) /\ GoOn("consent")
  <2>1. message' \in Message /\ message'.pc = "consent" /\ message'.followUp = message.followUp
    BY <1>1, <1>3, GoingOnIs
  <2>2. message'.followUp => onceActive' \/ unread'
    BY <1>1, <1>3, <2>1 DEF GateInv
  <2>3. Passed(message', stored', onceActive' \/ unread')
    BY <2>1, <2>2 DEF Passed
  <2>4. QED
    BY <1>1, <1>2, <2>3 DEF GateInv
<1>4. CASE Quit
  BY <1>1, <1>2, <1>4, QuitKeeps
<1>5. QED
  BY <1>3, <1>4 DEF PassTenant

LEMMA ConsentKeeps == ASSUME GateInv, PassConsent PROVE GateInv'
<1>1. /\ message \in Message /\ message.pc = "consent" /\ UNCHANGED <<active, onceActive, unread>>
      /\ message.followUp => onceActive \/ unread
  BY DEF GateInv, Passed, PassConsent, At
<1>2. CASE GoOn("global")
  <2>1. message' \in Message /\ message'.pc = "global" /\ message'.followUp = message.followUp
    BY <1>1, <1>2, GoingOnIs
  <2>2. Passed(message', stored', onceActive' \/ unread')
    BY <1>1, <2>1 DEF Passed
  <2>3. QED
    BY <1>1, <2>2 DEF GateInv
<1>3. CASE Quit
  BY <1>1, <1>3, QuitKeeps DEF GateInv
<1>4. QED
  BY <1>2, <1>3 DEF PassConsent

\* The value that is cached is one of those between its floor and what is stored;
\* a process that has none goes by none.
LEMMA CachedIsAMoment ==
    ASSUME CacheInv, NEW floor, floor = IF cached = Missing THEN Missing ELSE least
    PROVE  floor \in Missing..MaxWrites /\ cached \in floor..stored
<1>1. /\ cached \in Missing..MaxWrites /\ least \in 0..MaxWrites /\ stored \in 0..MaxWrites
      /\ cached # Missing => least <= cached /\ cached <= stored
  BY DEF CacheInv, CacheTypeOK, CachedIsNew
<1>2. QED
  BY <1>1, CacheConstants DEF Missing

LEMMA GlobalKeeps == ASSUME CacheInv, GateInv, ReadGlobal, UNCHANGED cacheVars PROVE GateInv'
<1> DEFINE on == TestModeOn(cached)
<1>1. /\ message \in Message /\ message.pc = "global" /\ UNCHANGED <<active, onceActive, unread>>
      /\ message.followUp => onceActive \/ unread
      /\ message.to \in {"nobody", "real", "test"}
      /\ stored' = stored
  BY DEF GateInv, Passed, Message, ReadGlobal, At, cacheVars
<1>2. PICK floor : floor = IF cached = Missing THEN Missing ELSE least
  OBVIOUS
<1>3. floor \in Missing..MaxWrites /\ cached \in floor..stored
  BY <1>2, CachedIsAMoment
<1>4. PICK pc \in {"list", "mail"}, to \in {"nobody", "real", "test"} :
          /\ pc = IF on THEN "list" ELSE "mail"
          /\ to = IF on THEN message.to ELSE "real"
  BY <1>1
<1>5. message' = Moved(message, pc, to, floor)
  BY <1>2, <1>4 DEF ReadGlobal, Moved
<1>6. /\ message' \in Message /\ message'.pc = pc /\ message'.to = to /\ message'.floor = floor
      /\ message'.followUp = message.followUp
  <2>1. /\ Moved(message, pc, to, floor) \in Message
        /\ Moved(message, pc, to, floor).pc = pc /\ Moved(message, pc, to, floor).to = to
        /\ Moved(message, pc, to, floor).floor = floor
        /\ Moved(message, pc, to, floor).followUp = message.followUp
    BY <1>1, <1>3, <1>4 DEF Message, Moved
  <2>2. QED
    BY <1>5, <2>1
<1>7. on => AskedFor("test", floor, stored)
  BY <1>3 DEF AskedFor
<1>8. ~on => AskedFor("real", floor, stored)
  BY <1>3 DEF AskedFor
<1> HIDE DEF on
<1>9. Passed(message', stored', onceActive' \/ unread')
  BY <1>1, <1>4, <1>6, <1>7, <1>8 DEF Passed
<1>10. QED
  BY <1>1, <1>9 DEF GateInv

LEMMA ListKeeps ==
    ASSUME GateInv, NEW found \in BOOLEAN, ReadRecipients(found), UNCHANGED cacheVars
    PROVE  GateInv'
<1>1. /\ message \in Message /\ message.pc = "list" /\ UNCHANGED <<active, onceActive, unread>>
      /\ message.followUp => onceActive \/ unread
      /\ AskedFor("test", message.floor, stored) /\ stored' = stored
      /\ message.floor \in Missing..MaxWrites
  BY DEF GateInv, Passed, Message, ReadRecipients, At, cacheVars
<1>2. CASE found
  <2>1. message' = Moved(message, "mail", "test", message.floor)
    BY <1>1, <1>2 DEF ReadRecipients, Diverted, Message, Moved
  <2>2. /\ message' \in Message /\ message'.pc = "mail" /\ message'.to = "test"
        /\ message'.floor = message.floor /\ message'.followUp = message.followUp
    <3>1. /\ Moved(message, "mail", "test", message.floor) \in Message
          /\ Moved(message, "mail", "test", message.floor).pc = "mail"
          /\ Moved(message, "mail", "test", message.floor).to = "test"
          /\ Moved(message, "mail", "test", message.floor).floor = message.floor
          /\ Moved(message, "mail", "test", message.floor).followUp = message.followUp
      BY <1>1 DEF Message, Moved
    <3>2. QED
      BY <2>1, <3>1
  <2>3. Passed(message', stored', onceActive' \/ unread')
    BY <1>1, <2>2 DEF Passed
  <2>4. QED
    BY <1>1, <2>3 DEF GateInv
<1>3. CASE ~found
  <2>1. Quit
    BY <1>3 DEF ReadRecipients, Diverted
  <2>2. QED
    BY <1>1, <2>1, QuitKeeps DEF GateInv
<1>4. QED
  BY <1>2, <1>3

-----------------------------------------------------------------------------
\* The cache at work, or nothing: what was asked for stays asked for.
LEMMA CacheKeepsGate ==
    ASSUME CacheInv, GateInv, [CacheNext]_cacheVars, UNCHANGED gateVars
    PROVE  GateInv'
<1>1. /\ UNCHANGED <<active, message, onceActive, unread>>
      /\ message \in Message /\ message.floor \in Int
  BY CacheConstants DEF gateVars, GateInv, Passed, Message, Missing
<1>2. stored \in Int /\ stored' \in Int /\ stored <= stored'
  BY StoredGoesUp
<1>3. \A to : AskedFor(to, message.floor, stored) => AskedFor(to, message.floor, stored')
  BY <1>1, <1>2, StillAskedFor
<1>4. Passed(message', stored', onceActive' \/ unread')
  BY <1>1, <1>3 DEF GateInv, Passed
<1>5. QED
  BY <1>1, <1>4 DEF GateInv

LEMMA SetActiveKeeps == ASSUME GateInv, SetActive, UNCHANGED cacheVars PROVE GateInv'
<1>1. /\ UNCHANGED <<message, unread>> /\ active' = ~active /\ onceActive' = (onceActive \/ ~active)
      /\ active \in BOOLEAN /\ onceActive \in BOOLEAN /\ unread \in BOOLEAN /\ stored' = stored
  BY DEF SetActive, GateInv, cacheVars
<1>2. active' \in BOOLEAN /\ onceActive' \in BOOLEAN /\ (active' => onceActive')
  BY <1>1
<1>3. onceActive \/ unread => onceActive' \/ unread'
  BY <1>1
<1>4. Passed(message', stored', onceActive' \/ unread')
  BY <1>1, <1>3 DEF GateInv, Passed
<1>5. QED
  BY <1>1, <1>2, <1>4 DEF GateInv

\* Every check, every switch and every step of the cache keeps the invariant.
LEMMA GateInvKept == CacheInv /\ GateInv /\ [GateNext]_<<cacheVars, gateVars>> => GateInv'
<1> SUFFICES ASSUME CacheInv, GateInv, [GateNext]_<<cacheVars, gateVars>> PROVE GateInv'
  OBVIOUS
<1>1. CASE GateStep /\ UNCHANGED cacheVars
  <2>1. CASE Mail
    BY <2>1, QuitKeeps DEF Mail, GateInv
  <2>2. QED
    BY <1>1, <2>1, BeginKeeps, TenantKeeps, ConsentKeeps, GlobalKeeps, ListKeeps, SetActiveKeeps DEF GateStep
<1>2. CASE CacheNext /\ UNCHANGED gateVars
  BY <1>2, CacheKeepsGate
<1>3. CASE UNCHANGED <<cacheVars, gateVars>>
  BY <1>3, CacheKeepsGate
<1>4. QED
  BY <1>1, <1>2, <1>3 DEF GateNext

LEMMA GateTypesFollow == GateInv => GateTypeOK
BY DEF GateInv, GateTypeOK, Passed

-----------------------------------------------------------------------------
\* A message goes where test mode asked for it at some moment no earlier than the
\* newest switch by this process that was over when it asked for the settings; a
\* follow-up leaves for a tenant that was active, or could not be read.
THEOREM MailHonoursFlags == GateSpec => []FlagsHonoured
<1>1. CacheInit /\ GateInit => CacheInv /\ GateInv
  BY CacheInvHolds, GateInvHolds
<1>2. CacheInv /\ GateInv /\ [GateNext]_<<cacheVars, gateVars>> => (CacheInv /\ GateInv)'
  <2>1. [GateNext]_<<cacheVars, gateVars>> => [CacheNext]_cacheVars
    BY DEF GateNext
  <2>2. QED
    BY <2>1, CacheInvKept, GateInvKept
<1>3. GateInv => FlagsHonoured
  BY DEF GateInv, Passed, AskedFor, FlagsHonoured, At
<1>4. QED
  BY <1>1, <1>2, <1>3, PTL DEF GateSpec
=============================================================================
