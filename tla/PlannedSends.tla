---------------------------- MODULE PlannedSends -----------------------------
(***************************************************************************)
(* The planned main e-mail, step 0 of email_sequences: the schedule        *)
(* handlers of src/routes/campaigns.js and part (a) of processFollowUps    *)
(* in src/routes/cron.js, which moves what is due into email_queue by one  *)
(* INSERT and marks it sent by one UPDATE, each with a NOW() of its own.   *)
(*                                                                         *)
(* Companies do not interact here: the module follows one.                 *)
(***************************************************************************)
EXTENDS Naturals, FiniteSets

CONSTANTS
    Planner,    \* schedule requests being handled
    Plan        \* rows of email_sequences with step 0 the company may have

ASSUME PlanConstants == IsFiniteSet(Planner) /\ IsFiniteSet(Plan)

VARIABLES
    plan,     \* what became of each row
    lead,     \* [ready, marketing, sent, gone] of companies
    queued,   \* a row of the company is 'pending' or 'sending' in email_queue
    planner,  \* [pc, found, doomed] of each request: rows its DELETE saw, and locked
    job,      \* processFollowUps, between its two statements or not
    promoted, \* history: rows the INSERT of this job found due
    slipped   \* history: something became promotable between the statements

planVars == <<plan, lead, queued, planner, job, promoted, slipped>>

PlanTypeOK ==
    /\ plan \in [Plan -> {"none", "later", "due", "sent", "cancelled"}]
    /\ lead \in [ready : BOOLEAN, marketing : BOOLEAN, sent : BOOLEAN, gone : BOOLEAN]
    /\ queued \in BOOLEAN /\ slipped \in BOOLEAN
    /\ planner \in [Planner -> [pc : {"idle", "asked", "deleting", "deleted"},
                            found : SUBSET Plan, doomed : SUBSET Plan]]
    /\ promoted \subseteq Plan
    /\ job \in {"idle", "inserted"}

Unasked == [pc |-> "idle", found |-> {}, doomed |-> {}]

PlanInit ==
    /\ plan = [r \in Plan |-> "none"]
    /\ lead \in [ready : BOOLEAN, marketing : BOOLEAN, sent : {FALSE}, gone : {FALSE}]
    /\ queued = FALSE /\ slipped = FALSE
    /\ planner = [p \in Planner |-> Unasked]
    /\ promoted = {} /\ job = "idle"

-----------------------------------------------------------------------------
\* Mutated form of the operator below.
MarkedWithoutConsent(r) == plan[r] = "due" /\ lead.ready /\ ~lead.sent /\ ~lead.gone

\* The company's half of both statements, and the row's.
Eligible(company) == company.ready /\ company.marketing /\ ~company.sent /\ ~company.gone
Promotable(r) == plan[r] = "due" /\ Eligible(lead)
Markable(r) == plan[r] = "due" /\ Eligible(lead)

Stored == {r \in Plan : plan[r] # "none"}
Open == {r \in Plan : plan[r] \in {"later", "due"}}

\* No transaction under way holds one of the rows; a statement waits for it.
Unlocked(rows) == \A p \in Planner : planner[p].doomed \cap rows = {}

\* Whether the change of a row or of the company falls between the statements.
Slips(now) == slipped \/ (job = "inserted" /\ now)

-----------------------------------------------------------------------------
(* The schedule handlers *)

\* SELECT consent_status, ...
AskPlan(p) ==
    /\ planner[p].pc = "idle" /\ lead.marketing
    /\ planner' = [planner EXCEPT ![p].pc = "asked"]
    /\ UNCHANGED <<plan, lead, queued, job, promoted, slipped>>

\* ... then, in a transaction, DELETE the rows of step 0, also the sent and the
\* cancelled ones: it waits for the locks of others, and does not see what they
\* insert meanwhile, ...
StartDelete(p) ==
    /\ planner[p].pc = "asked"
    /\ planner' = [planner EXCEPT ![p].pc = "deleting", ![p].found = Stored]
    /\ UNCHANGED <<plan, lead, queued, job, promoted, slipped>>

DeletePlans(p) ==
    LET doomed == planner[p].found \cap Stored IN
    /\ planner[p].pc = "deleting" /\ Unlocked(doomed)
    /\ planner' = [planner EXCEPT ![p].pc = "deleted", ![p].doomed = doomed]
    /\ UNCHANGED <<plan, lead, queued, job, promoted, slipped>>

\* ... and INSERT one; the date asked for may be past.  There is no unique
\* index: two requests that overlap leave two rows.
StorePlan(p, r, date) ==
    LET doomed == planner[p].doomed IN
    /\ planner[p].pc = "deleted"
    /\ plan[r] = "none" /\ \A q \in Planner : r \notin planner[q].found
    /\ plan' = [s \in Plan |-> IF s = r THEN date ELSE IF s \in doomed THEN "none" ELSE plan[s]]
    /\ promoted' = promoted \ (doomed \cup {r})
    /\ slipped' = Slips(date = "due")
    /\ planner' = [planner EXCEPT ![p] = Unasked]
    /\ UNCHANGED <<lead, queued, job>>

DropPlan(p) ==
    /\ planner[p].pc # "idle"
    /\ planner' = [planner EXCEPT ![p] = Unasked]
    /\ UNCHANGED <<plan, lead, queued, job, promoted, slipped>>

\* POST .../schedule without a date.
ClearPlan ==
    /\ Stored # {} /\ Unlocked(Stored)
    /\ plan' = [r \in Plan |-> "none"]
    /\ promoted' = {}
    /\ UNCHANGED <<lead, queued, planner, job, slipped>>

FallsDue(r) ==
    /\ plan[r] = "later"
    /\ plan' = [plan EXCEPT ![r] = "due"]
    /\ slipped' = Slips(TRUE)
    /\ UNCHANGED <<lead, queued, planner, job, promoted>>

-----------------------------------------------------------------------------
(* The company meanwhile *)

\* A reply or a click cancels what is open.
CancelPlans ==
    /\ Open # {} /\ Unlocked(Open)
    /\ plan' = [r \in Plan |-> IF r \in Open THEN "cancelled" ELSE plan[r]]
    /\ UNCHANGED <<lead, queued, planner, job, promoted, slipped>>

\* The unsubscribe link withdraws the approval too and cancels the rows; the
\* agent's opt-out leaves them.
LeaveList(link) ==
    /\ ~lead.gone /\ (link => Unlocked(Open))
    /\ lead' = [lead EXCEPT !.gone = TRUE, !.ready = @ /\ ~link]
    /\ plan' = IF link THEN [r \in Plan |-> IF r \in Open THEN "cancelled" ELSE plan[r]] ELSE plan
    /\ UNCHANGED <<queued, planner, job, promoted, slipped>>

\* Approval given or withdrawn, consent given or withdrawn.
SetLead(ready, marketing) ==
    /\ lead' = [lead EXCEPT !.ready = ready, !.marketing = marketing]
    /\ slipped' = Slips(Eligible(lead') /\ ~Eligible(lead))
    /\ UNCHANGED <<plan, queued, planner, job, promoted>>

\* Any other way into the queue, and what the queue does of the row: sent, or
\* failed or removed.
Queue ==
    /\ ~queued /\ lead.ready /\ ~lead.sent
    /\ queued' = TRUE
    /\ UNCHANGED <<plan, lead, planner, job, promoted, slipped>>

Dequeue(sent) ==
    /\ queued
    /\ queued' = FALSE
    /\ lead' = [lead EXCEPT !.sent = sent]
    /\ UNCHANGED <<plan, planner, job, promoted, slipped>>

-----------------------------------------------------------------------------
(* processFollowUps, part (a) *)

\* A company that is in the queue already is not inserted again.
Promote ==
    /\ job = "idle"
    /\ job' = "inserted" /\ slipped' = FALSE
    /\ queued' = (queued \/ \E r \in Plan : Promotable(r))
    /\ promoted' = {r \in Plan : Promotable(r)}
    /\ UNCHANGED <<plan, lead, planner>>

MarkPromoted ==
    /\ job = "inserted" /\ Unlocked({r \in Plan : Markable(r)})
    /\ plan' = [r \in Plan |-> IF Markable(r) THEN "sent" ELSE plan[r]]
    /\ job' = "idle"
    /\ UNCHANGED <<lead, queued, planner, promoted, slipped>>

\* The process stops, or the second statement fails.
StopJob ==
    /\ job = "inserted"
    /\ job' = "idle"
    /\ UNCHANGED <<plan, lead, queued, planner, promoted, slipped>>

-----------------------------------------------------------------------------
PlanNext ==
    \/ \E p \in Planner : AskPlan(p) \/ StartDelete(p) \/ DeletePlans(p) \/ DropPlan(p)
    \/ \E p \in Planner, r \in Plan, date \in {"later", "due"} : StorePlan(p, r, date)
    \/ ClearPlan \/ \E r \in Plan : FallsDue(r)
    \/ CancelPlans \/ \E link \in BOOLEAN : LeaveList(link)
    \/ \E ready, marketing \in BOOLEAN : SetLead(ready, marketing)
    \/ Queue \/ \E sent \in BOOLEAN : Dequeue(sent)
    \/ Promote \/ MarkPromoted \/ StopJob

PlanSpec == PlanInit /\ [][PlanNext]_planVars

-----------------------------------------------------------------------------
\* A job that marks a planned sending as sent has put its company into the
\* queue, or found it there; only what became due or eligible between the two
\* statements is marked without being queued.
PlannedIsQueued ==
    [][\A r \in Plan : plan[r] # "sent" /\ plan'[r] = "sent" => r \in promoted \/ slipped]_planVars
=============================================================================
