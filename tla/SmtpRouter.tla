----------------------------- MODULE SmtpRouter -----------------------------
(***************************************************************************)
(* Daily budgets of the SMTP accounts: src/services/smtp-router.js, its    *)
(* callers in src/routes/cron.js, the midnight reset of src/index.js and   *)
(* the account pages of src/routes/settings.js (table smtp_accounts).      *)
(*                                                                         *)
(* An account is taken, with its sent_today, before the message is handed  *)
(* over; what happens to the message is known seconds or minutes later,    *)
(* after a midnight maybe.                                                 *)
(***************************************************************************)
EXTENDS Integers, FiniteSets

CONSTANTS
    Account,    \* rows of smtp_accounts
    NoAccount,  \* a caller that holds none
    Caller,     \* sendings under way, of the queue and of follow-ups
    Limits      \* values daily_limit may be given

ASSUME RouterConstants ==
    /\ IsFiniteSet(Account) /\ IsFiniteSet(Caller)
    /\ Limits \subseteq Nat /\ NoAccount \notin Account

VARIABLES
    account,  \* [on, used, limit, rr]: is_active, sent_today, daily_limit, rr_position
    caller,   \* [pc, holds, stale]
    sent,     \* history: messages of the account since the last reset
    peak,     \* history: the largest limit of the account since the last reset
    stray     \* history: messages and give-backs of accounts taken before it

routerVars == <<account, caller, sent, peak, stray>>

\* stale: the account was taken before the last reset (history).
RouterTypeOK ==
    /\ account \in [Account -> [on : BOOLEAN, used : Nat, limit : Nat, rr : Nat]]
    /\ caller \in [Caller -> [pc : {"idle", "warm", "pick", "held"},
                              holds : Account \cup {NoAccount}, stale : BOOLEAN]]
    /\ sent \in [Account -> Nat] /\ peak \in [Account -> Nat] /\ stray \in [Account -> Nat]
    /\ \A p \in Caller : caller[p].pc = "held" <=> caller[p].holds # NoAccount

Free == [pc |-> "idle", holds |-> NoAccount, stale |-> FALSE]

RouterInit ==
    /\ account \in [Account -> [on : {TRUE}, used : {0}, limit : Limits, rr : {0}]]
    /\ caller = [p \in Caller |-> Free]
    /\ sent = [a \in Account |-> 0] /\ stray = [a \in Account |-> 0]
    /\ peak = [a \in Account |-> account[a].limit]

-----------------------------------------------------------------------------
\* Mutated form of an operator below.
UsableAtLimit(a) == account[a].on /\ account[a].used <= account[a].limit

\* is_active = true AND sent_today < daily_limit
Usable(a) == account[a].on /\ account[a].used < account[a].limit

Active == {a \in Account : account[a].on}

\* GREATEST(sent_today - 1, 0)
GivenBack(n) == IF n > 0 THEN n - 1 ELSE 0

Larger(m, n) == IF m < n THEN n ELSE m

Held(a) == [pc |-> "held", holds |-> a, stale |-> FALSE]

-----------------------------------------------------------------------------
\* getSmtpForCampaign: the campaign's own account, ...
Dedicated(p, a) ==
    /\ caller[p].pc = "idle"
    /\ Usable(a)
    /\ account' = [account EXCEPT ![a].used = @ + 1]
    /\ caller' = [caller EXCEPT ![p] = Held(a)]
    /\ UNCHANGED <<sent, peak, stray>>

\* ... or, when there is none or it is spent, getNextSmtpAccount: ...
FallBack(p) ==
    /\ caller[p].pc = "idle"
    /\ caller' = [caller EXCEPT ![p].pc = "warm"]
    /\ UNCHANGED <<account, sent, peak, stray>>

\* ... the warming plan first, which may raise or lower a limit, ...
Warm(p, a, limit) ==
    /\ caller[p].pc = "warm"
    /\ account' = [account EXCEPT ![a].limit = limit]
    /\ peak' = [peak EXCEPT ![a] = Larger(@, limit)]
    /\ caller' = [caller EXCEPT ![p].pc = "pick"]
    /\ UNCHANGED <<sent, stray>>

NoWarming(p) ==
    /\ caller[p].pc = "warm"
    /\ caller' = [caller EXCEPT ![p].pc = "pick"]
    /\ UNCHANGED <<account, sent, peak, stray>>

\* ... then the usable account with the smallest rr_position, of those no
\* other statement has locked.
Pick(p, locked) ==
    LET open == {a \in Account \ locked : Usable(a)} IN
    /\ caller[p].pc = "pick"
    /\ IF open = {}
       THEN caller' = [caller EXCEPT ![p] = Free] /\ UNCHANGED account
       ELSE \E a \in open :
              /\ \A b \in open : account[a].rr <= account[b].rr
              /\ account' = [account EXCEPT
                     ![a] = [account[a] EXCEPT !.used = @ + 1, !.rr = (@ + 1) % Cardinality(Active)]]
              /\ caller' = [caller EXCEPT ![p] = Held(a)]
    /\ UNCHANGED <<sent, peak, stray>>

Strayed(p) ==
    IF caller[p].stale THEN [stray EXCEPT ![caller[p].holds] = @ + 1] ELSE stray

\* The message leaves.
Send(p) ==
    /\ caller[p].pc = "held"
    /\ sent' = [sent EXCEPT ![caller[p].holds] = @ + 1]
    /\ stray' = Strayed(p)
    /\ caller' = [caller EXCEPT ![p] = Free]
    /\ UNCHANGED <<account, peak>>

\* sendCampaignEmail has sent nothing: the queue gives the place back, on
\* whatever day it is by now.
GiveBack(p) ==
    /\ caller[p].pc = "held"
    /\ account' = [account EXCEPT ![caller[p].holds].used = GivenBack(@)]
    /\ stray' = Strayed(p)
    /\ caller' = [caller EXCEPT ![p] = Free]
    /\ UNCHANGED <<sent, peak>>

\* A follow-up that was not sent, an exception or a crash: the place is lost.
Lose(p) ==
    /\ caller[p].pc # "idle"
    /\ caller' = [caller EXCEPT ![p] = Free]
    /\ UNCHANGED <<account, sent, peak, stray>>

\* resetDailyCounts, at 00:01: active accounts only.
ResetDay ==
    /\ \E a \in Account : account[a].used > 0
    /\ account' = [a \in Account |-> IF account[a].on THEN [account[a] EXCEPT !.used = 0] ELSE account[a]]
    /\ caller' = [p \in Caller |-> [caller[p] EXCEPT !.stale = caller[p].pc = "held"]]
    /\ sent' = [a \in Account |-> 0] /\ stray' = [a \in Account |-> 0]
    /\ peak' = [a \in Account |-> IF account[a].on THEN account[a].limit ELSE peak[a]]

\* PATCH and DELETE of an account.
SetAccount(a, on, limit) ==
    /\ account[a].on # on \/ account[a].limit # limit
    /\ account' = [account EXCEPT ![a] = [@ EXCEPT !.on = on, !.limit = limit]]
    /\ peak' = [peak EXCEPT ![a] = Larger(@, limit)]
    /\ UNCHANGED <<caller, sent, stray>>

-----------------------------------------------------------------------------
RouterNext ==
    \/ \E p \in Caller, a \in Account : Dedicated(p, a)
    \/ \E p \in Caller, a \in Account, n \in Limits : Warm(p, a, n)
    \/ \E p \in Caller, locked \in SUBSET Account : Pick(p, locked)
    \/ \E p \in Caller : FallBack(p) \/ NoWarming(p) \/ Send(p) \/ GiveBack(p) \/ Lose(p)
    \/ ResetDay
    \/ \E a \in Account, on \in BOOLEAN, n \in Limits : SetAccount(a, on, n)

RouterSpec == RouterInit /\ [][RouterNext]_routerVars

-----------------------------------------------------------------------------
\* Between two midnights an account sends no more than the largest limit it
\* had, plus one message for each account taken before midnight whose message,
\* or whose returned place, fell into this day.
BudgetKept == \A a \in Account : sent[a] <= peak[a] + stray[a]
=============================================================================
