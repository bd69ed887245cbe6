------------------------------- MODULE Intake --------------------------------
(***************************************************************************)
(* The search for companies, municipality by municipality:                 *)
(* processMunicipalities of src/routes/cron.js, searchCompanies and its    *)
(* daily slots of src/services/serper.js (table daily_api_usage), the      *)
(* answers kept by src/services/cache.js, and the pages of                 *)
(* src/routes/municipalities.js that set eseguito.                         *)
(*                                                                         *)
(* An answer is told apart by what the loop makes of it: no place; places  *)
(* that are all skipped; a place with a web site that no check skips.  The *)
(* INSERT of such a place names no tenant_id, which migration 087 made     *)
(* NOT NULL: it is rejected, as an exception of the municipality.          *)
(***************************************************************************)
EXTENDS Naturals, FiniteSets

CONSTANTS
    Run,        \* calls of processMunicipalities
    Towns,      \* municipalities are 1..Towns, in id order
    TownBatch,  \* the 10 of LIMIT 10
    Strikes,    \* the 3 of error_count >= 3
    DailyLimits,\* values serper_daily_limit may be given
    MaxTrouble  \* bound: runs cut short and municipalities reopened

ASSUME IntakeConstants ==
    /\ IsFiniteSet(Run) /\ Towns \in Nat /\ TownBatch \in Nat \ {0} /\ Strikes \in Nat \ {0}
    /\ DailyLimits \subseteq Nat /\ MaxTrouble \in Nat

Town == 1..Towns
NoTown == 0
AnswerKind == {"none", "known", "new"}

VARIABLES
    town,       \* municipalities: [done, errors]
    run,        \* each call: [pc, todo, at, stale]
    kept,       \* response_cache: the answer for each town
    spent,      \* daily_api_usage of today
    dailyLimit, \* the setting
    topLimit,   \* history: its largest value today
    paid,       \* history: searches answered today
    drift,      \* history: slots of before midnight whose end fell into today
    trouble     \* history: how much of MaxTrouble has happened

intakeVars == <<town, run, kept, spent, dailyLimit, topLimit, paid, drift, trouble>>

\* pc "told": the answer is there.  stale: the slot was taken before midnight
\* (history).  errors is only compared with Strikes.
IntakeTypeOK ==
    /\ town \in [Town -> [done : BOOLEAN, errors : 0..Strikes]]
    /\ run \in [Run -> [pc : {"rest", "search", "call", "told", "strike", "weigh"}, todo : SUBSET Town,
                        at : Town \cup {NoTown}, answer : AnswerKind, stale : BOOLEAN]]
    /\ kept \in [Town -> AnswerKind \cup {"no"}]
    /\ spent \in Nat /\ paid \in Nat /\ drift \in Nat
    /\ dailyLimit \in DailyLimits /\ topLimit \in DailyLimits
    /\ trouble \in 0..MaxTrouble

AtRest == [pc |-> "rest", todo |-> {}, at |-> NoTown, answer |-> "none", stale |-> FALSE]

IntakeInit ==
    /\ town = [t \in Town |-> [done |-> FALSE, errors |-> 0]]
    /\ run = [w \in Run |-> AtRest]
    /\ kept = [t \in Town |-> "no"]
    /\ dailyLimit \in DailyLimits /\ topLimit = dailyLimit
    /\ spent = 0 /\ paid = 0 /\ drift = 0 /\ trouble = 0

-----------------------------------------------------------------------------
\* Mutated forms of the operators below.
SlotLeftAtLimit == spent <= dailyLimit
StruckFromZero(n) == 1

\* ON CONFLICT DO UPDATE ... WHERE count < $1; a limit of 0 refuses before.
SlotLeft == spent < dailyLimit

\* COALESCE(error_count, 0) + 1, and what it is compared with
Struck(n) == IF n < Strikes THEN n + 1 ELSE n
GivenUp(t) == town[t].errors >= Strikes

LeastOf(towns) == {t \in towns : \A u \in towns : t <= u}
FirstOf(towns) == {t \in towns : Cardinality({u \in towns : u < t}) < TownBatch}
Undone == {t \in Town : ~town[t].done}

\* What becomes of a slot after midnight falls into the new day.
Drifted(w) == IF run[w].stale THEN drift + 1 ELSE drift
Become(w, state) == run' = [run EXCEPT ![w] = state]
NextTown(w) == [AtRest EXCEPT !.pc = "search", !.todo = run[w].todo]

-----------------------------------------------------------------------------
\* SELECT ... LIMIT 10.  The lease keeps runs apart while it lasts.
StartSearch(w) ==
    /\ run[w].pc = "rest" /\ Undone # {}
    /\ Become(w, [AtRest EXCEPT !.pc = "search", !.todo = FirstOf(Undone)])
    /\ UNCHANGED <<town, kept, spent, dailyLimit, topLimit, paid, drift, trouble>>

EndSearch(w) ==
    /\ run[w].pc = "search" /\ run[w].todo = {}
    /\ Become(w, AtRest)
    /\ UNCHANGED <<town, kept, spent, dailyLimit, topLimit, paid, drift, trouble>>

\* An answer that is kept; a slot; or no slot, which counts against the
\* municipality as any exception does.
Search(w) ==
    \E t \in LeastOf(run[w].todo) :
        LET turn(pc) == [AtRest EXCEPT !.pc = pc, !.todo = run[w].todo \ {t}, !.at = t] IN
        /\ run[w].pc = "search"
        /\ IF kept[t] # "no"
           THEN Become(w, [turn("told") EXCEPT !.answer = kept[t]]) /\ UNCHANGED spent
           ELSE IF SlotLeft
           THEN Become(w, turn("call")) /\ spent' = spent + 1
           ELSE Become(w, turn("strike")) /\ UNCHANGED spent
        /\ UNCHANGED <<town, kept, dailyLimit, topLimit, paid, drift, trouble>>

\* The service answers, at the first or the second call; the answer is kept
\* and read, or cannot be kept, which is an exception.
Answered(w, answer, works) ==
    LET t == run[w].at IN
    /\ run[w].pc = "call"
    /\ kept' = IF works THEN [kept EXCEPT ![t] = answer] ELSE kept
    /\ paid' = paid + 1 /\ drift' = Drifted(w)
    /\ Become(w, [run[w] EXCEPT !.pc = IF works THEN "told" ELSE "strike", !.answer = answer, !.stale = FALSE])
    /\ UNCHANGED <<town, spent, dailyLimit, topLimit, trouble>>

\* Neither call is answered: the slot is given back to the day it is by now.
Refund(w) ==
    /\ run[w].pc = "call"
    /\ spent' = IF spent > 0 THEN spent - 1 ELSE spent
    /\ drift' = Drifted(w)
    /\ Become(w, [run[w] EXCEPT !.pc = "strike", !.stale = FALSE])
    /\ UNCHANGED <<town, kept, dailyLimit, topLimit, paid, trouble>>

\* All places skipped: done.  None, or one that is to be inserted: a strike.
Conclude(w) ==
    LET t == run[w].at IN
    /\ run[w].pc = "told"
    /\ IF run[w].answer = "known"
       THEN /\ town' = [town EXCEPT ![t] = [done |-> TRUE, errors |-> 0]]
            /\ Become(w, NextTown(w))
       ELSE Become(w, [run[w] EXCEPT !.pc = "strike"]) /\ UNCHANGED town
    /\ UNCHANGED <<kept, spent, dailyLimit, topLimit, paid, drift, trouble>>

\* UPDATE ... error_count + 1, ...
Strike(w) ==
    LET t == run[w].at IN
    /\ run[w].pc = "strike"
    /\ town' = [town EXCEPT ![t].errors = Struck(@)]
    /\ Become(w, [run[w] EXCEPT !.pc = "weigh"])
    /\ UNCHANGED <<kept, spent, dailyLimit, topLimit, paid, drift, trouble>>

\* ... then UPDATE ... eseguito = true WHERE ... >= 3.
Weigh(w) ==
    LET t == run[w].at IN
    /\ run[w].pc = "weigh"
    /\ town' = [town EXCEPT ![t].done = @ \/ GivenUp(t)]
    /\ Become(w, NextTown(w))
    /\ UNCHANGED <<kept, spent, dailyLimit, topLimit, paid, drift, trouble>>

\* The process dies, or a statement of the catch fails and ends the run.
CutShort(w) ==
    /\ run[w].pc # "rest" /\ trouble < MaxTrouble
    /\ Become(w, AtRest)
    /\ trouble' = trouble + 1
    /\ UNCHANGED <<town, kept, spent, dailyLimit, topLimit, paid, drift>>

\* PATCH .../municipalities/:id and bulk-mark: error_count is left as it is.
MarkTown(t, done) ==
    /\ town[t].done # done /\ (done \/ trouble < MaxTrouble)
    /\ town' = [town EXCEPT ![t].done = done]
    /\ trouble' = IF done THEN trouble ELSE trouble + 1
    /\ UNCHANGED <<run, kept, spent, dailyLimit, topLimit, paid, drift>>

\* Midnight in Rome: another row of daily_api_usage.
NewSearchDay ==
    /\ spent > 0 \/ paid > 0 \/ drift > 0
    /\ spent' = 0 /\ paid' = 0 /\ drift' = 0 /\ topLimit' = dailyLimit
    /\ run' = [w \in Run |-> [run[w] EXCEPT !.stale = run[w].pc = "call"]]
    /\ UNCHANGED <<town, kept, dailyLimit, trouble>>

\* expires_at passes.
Forget(t) ==
    /\ kept[t] # "no"
    /\ kept' = [kept EXCEPT ![t] = "no"]
    /\ UNCHANGED <<town, run, spent, dailyLimit, topLimit, paid, drift, trouble>>

SetDailyLimit(n) ==
    /\ n # dailyLimit
    /\ dailyLimit' = n /\ topLimit' = IF topLimit < n THEN n ELSE topLimit
    /\ UNCHANGED <<town, run, kept, spent, paid, drift, trouble>>

-----------------------------------------------------------------------------
RunStep(w) ==
    \/ Search(w) \/ Refund(w) \/ Conclude(w) \/ Strike(w) \/ Weigh(w) \/ EndSearch(w)
    \/ \E answer \in AnswerKind, works \in BOOLEAN : Answered(w, answer, works)

IntakeNext ==
    \/ \E w \in Run : StartSearch(w) \/ RunStep(w) \/ CutShort(w)
    \/ \E t \in Town, done \in BOOLEAN : MarkTown(t, done)
    \/ NewSearchDay
    \/ \E t \in Town : Forget(t)
    \/ \E n \in DailyLimits : SetDailyLimit(n)

IntakeSpec == IntakeInit /\ [][IntakeNext]_intakeVars

-----------------------------------------------------------------------------
\* On no day are more searches answered than the largest limit of the day
\* allows, plus one for each slot of the day before whose answer, or refund,
\* fell into it.
SearchesWithinBudget == paid <= topLimit + drift
=============================================================================
