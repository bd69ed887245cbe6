------------------------------ MODULE FollowUps ------------------------------
(***************************************************************************)
(* The follow-ups of a campaign: processFollowUps (steps >= 1) and         *)
(* generateFollowUpDrafts of src/routes/cron.js, sendFollowUpEmail of      *)
(* src/services/email-sender.js, and the handlers that approve, rewrite or *)
(* stop what those jobs send (email_sequences, company_followup_drafts,    *)
(* followup_sequences).                                                    *)
(*                                                                         *)
(* A batch copies its rows, with the draft and the state of the template,  *)
(* in one SELECT and then takes minutes to send them.  The order of        *)
(* scheduled_at is the order in which rows fall due: agenda, as a set of   *)
(* pairs.                                                                  *)
(***************************************************************************)
EXTENDS Naturals, SequencesExt

CONSTANTS
    Company,     \* rows of companies, all of one campaign
    Step,        \* step_order of the campaign's templates
    Sender,      \* calls of processFollowUps
    Writer,      \* calls of generateFollowUpDrafts
    BatchLimit,  \* the LIMIT 10 of a batch
    MaxTries,    \* the 3 of retryCount >= 3
    Fault,       \* which failures happen, see below
    Handler      \* which requests arrive, see below

\* "crash": the process dies.  "ambiguous": the server accepts the message and
\* the answer is lost.  "mark": the UPDATE after a sending fails.
\* "overrun": a batch outlives the 300 s lease of "followUp".
ASSUME FollowUpFaults == Fault \subseteq {"crash", "ambiguous", "mark", "overrun"}
ASSUME FollowUpBounds == BatchLimit \in Nat \ {0} /\ MaxTries \in Nat \ {0}

VARIABLES
    lead,       \* companies: [mailed, replied, unsub, marketing]
    template,   \* followup_sequences by step
    seq,        \* email_sequences by company and step
    agenda,     \* <<q, r>>: both are open and due, q is scheduled no later than r
    draft,      \* company_followup_drafts by company and step
    sender,     \* what each batch is doing
    writer,     \* rows each generator has read and not yet written
    approving,  \* approvals between their SELECT and their UPDATE
    tenantOn,   \* tenants.is_active
    delivered,  \* history: messages the server accepted, per row, up to 2
    unrecorded, \* history: rows mailed without sent_at being set
    mixed       \* history: rows whose draft two requests were changing at once

followUpVars == <<lead, template, seq, agenda, draft, sender, writer, approving,
                  tenantOn, delivered, unrecorded, mixed>>

-----------------------------------------------------------------------------
Row == Company \X Step
Of(r) == r[1]

\* A row as the batch read it.
Item == [row : Row, verdict : {"drop", "wait", "send"}, seen : BOOLEAN]

Idle == [pc |-> "idle", todo |-> <<>>, tries |-> 0, late |-> {}]

\* agenda orders the rows that are due from the first to the last.
Due == {r \in Row : <<r, r>> \in agenda}
InOrder ==
    \A p, q, r \in Due :
        /\ <<p, q>> \in agenda \/ <<q, p>> \in agenda
        /\ <<p, q>> \in agenda /\ <<q, p>> \in agenda => p = q
        /\ <<p, q>> \in agenda /\ <<q, r>> \in agenda => <<p, r>> \in agenda

\* todo: the row being dealt with and those still to do.
\* late: companies that withdrew after the batch was read (history).
\* seen: a person wrote or approved this very text (history).
SenderType == [pc : {"idle", "batch", "send", "mark", "failed", "count"},
               todo : Seq(Item), tries : 0..MaxTries, late : SUBSET Company]

\* Columns of the four tables and the local state of the jobs.
FollowUpTypeOK ==
    /\ lead \in [Company -> [mailed : BOOLEAN, replied : BOOLEAN, unsub : BOOLEAN, marketing : BOOLEAN]]
    /\ template \in [Step -> {"active", "inactive", "deleted"}]
    /\ seq \in [Row -> [there : BOOLEAN, sent : BOOLEAN, cancelled : BOOLEAN, tries : 0..MaxTries]]
    /\ agenda \subseteq Due \X Due /\ InOrder
    /\ draft \in [Row -> [made : BOOLEAN, ok : BOOLEAN, seen : BOOLEAN]]
    /\ sender \in [Sender -> SenderType]
    /\ writer \in [Writer -> SUBSET Row]
    /\ approving \in [Row -> {"no", "fresh", "stale"}]
    /\ tenantOn \in BOOLEAN
    /\ delivered \in [Row -> 0..2]
    /\ unrecorded \subseteq Row /\ mixed \subseteq Row

FollowUpInit ==
    /\ lead = [c \in Company |-> [mailed |-> FALSE, replied |-> FALSE, unsub |-> FALSE, marketing |-> TRUE]]
    /\ template = [s \in Step |-> "active"]
    /\ seq = [r \in Row |-> [there |-> FALSE, sent |-> FALSE, cancelled |-> FALSE, tries |-> 0]]
    /\ agenda = {}
    /\ draft = [r \in Row |-> [made |-> FALSE, ok |-> FALSE, seen |-> FALSE]]
    /\ sender = [j \in Sender |-> Idle]
    /\ writer = [g \in Writer |-> {}]
    /\ approving = [r \in Row |-> "no"]
    /\ tenantOn = TRUE
    /\ delivered = [r \in Row |-> 0]
    /\ unrecorded = {} /\ mixed = {}

-----------------------------------------------------------------------------
\* Mutated forms of the operators below.
HeardReplied(c) == ~lead[c].unsub /\ lead[c].marketing
VerdictUnapproved(r) == IF template[r[2]] # "active" THEN "drop" ELSE IF draft[r].made THEN "send" ELSE "wait"
SentOnlyInMail(r) == seq
ExhaustedLate(j) == sender[j].tries > MaxTries

-----------------------------------------------------------------------------
Open(r) == seq[r].there /\ ~seq[r].sent /\ ~seq[r].cancelled

\* The JOIN on companies of the batch's SELECT.
Heard(c) == ~lead[c].replied /\ ~lead[c].unsub /\ lead[c].marketing

\* A template turned off or removed drops the row; a draft that is not
\* written or not approved leaves it for the next tick.
Verdict(r) ==
    IF template[r[2]] # "active" THEN "drop"
    ELSE IF draft[r].made /\ draft[r].ok THEN "send" ELSE "wait"

Without(rows) == {p \in agenda : p[1] \notin rows /\ p[2] \notin rows}

\* UPDATE ... SET cancelled_at WHERE sent_at IS NULL AND cancelled_at IS NULL
Cancelled(rows) ==
    [r \in Row |-> IF r \in rows /\ Open(r) THEN [seq[r] EXCEPT !.cancelled = TRUE] ELSE seq[r]]
RowsOf(c) == {r \in Row : Of(r) = c}

\* UPDATE ... SET sent_at = NOW() WHERE id: cancelled rows too.
SentNow(r) == [seq EXCEPT ![r].sent = TRUE]

\* Every batch that is running has read c before this moment.
Withdrawn(c) == [j \in Sender |->
    IF sender[j].pc = "idle" THEN sender[j] ELSE [sender[j] EXCEPT !.late = @ \cup {c}]]

Delivered(r) == [delivered EXCEPT ![r] = IF @ < 2 THEN @ + 1 ELSE @]

\* retryCount >= 3
Exhausted(j) == sender[j].tries >= MaxTries

Current(j) == Head(sender[j].todo).row

\* The loop goes on with the next row.
GoesOn(j) == [sender EXCEPT ![j].pc = "batch", ![j].todo = Tail(@), ![j].tries = 0]

-----------------------------------------------------------------------------
(* processFollowUps *)

Listening == {r \in Due : Heard(Of(r))}

\* The SELECT of a batch: the first due rows of companies that still listen.
FirstDue ==
    {rows \in BoundedSeq(Listening, BatchLimit) \ {<<>>} :
        LET after(i) == Listening \ {rows[k] : k \in 1..(i - 1)} IN
        /\ \A i \in DOMAIN rows : rows[i] \in after(i) /\ \A q \in after(i) : <<rows[i], q>> \in agenda
        /\ Len(rows) = BatchLimit \/ after(Len(rows) + 1) = {}}

Batch(rows) == [i \in DOMAIN rows |->
    [row |-> rows[i], verdict |-> Verdict(rows[i]), seen |-> draft[rows[i]].seen]]

StartBatch(j) ==
    /\ sender[j].pc = "idle"
    /\ "overrun" \in Fault \/ \A k \in Sender : sender[k].pc = "idle"
    /\ \E rows \in FirstDue : sender' = [sender EXCEPT ![j] = [Idle EXCEPT !.pc = "batch", !.todo = Batch(rows)]]
    /\ UNCHANGED <<lead, template, seq, agenda, draft, writer, approving, tenantOn, delivered, unrecorded, mixed>>

EndBatch(j) ==
    /\ sender[j].pc = "batch" /\ sender[j].todo = <<>>
    /\ sender' = [sender EXCEPT ![j] = Idle]
    /\ UNCHANGED <<lead, template, seq, agenda, draft, writer, approving, tenantOn, delivered, unrecorded, mixed>>

AtRow(j, verdicts) ==
    sender[j].pc = "batch" /\ sender[j].todo # <<>> /\ Head(sender[j].todo).verdict \in verdicts

\* template_inactive, template_deleted, tenant_inactive: an UPDATE by id alone.
Drop(j) ==
    /\ AtRow(j, {"drop"}) \/ (AtRow(j, {"send"}) /\ ~tenantOn)
    /\ seq' = [seq EXCEPT ![Current(j)].cancelled = TRUE]
    /\ agenda' = Without({Current(j)})
    /\ sender' = GoesOn(j)
    /\ UNCHANGED <<lead, template, draft, writer, approving, tenantOn, delivered, unrecorded, mixed>>

\* Draft missing or not approved; or the tenant's quota is reached, the check
\* of the tenant fails, no SMTP account is left.
Skip(j) ==
    /\ AtRow(j, {"wait", "send"})
    /\ sender' = GoesOn(j)
    /\ UNCHANGED <<lead, template, seq, agenda, draft, writer, approving, tenantOn, delivered, unrecorded, mixed>>

Take(j) ==
    /\ AtRow(j, {"send"}) /\ tenantOn
    /\ sender' = [sender EXCEPT ![j].pc = "send"]
    /\ UNCHANGED <<lead, template, seq, agenda, draft, writer, approving, tenantOn, delivered, unrecorded, mixed>>

\* sendFollowUpEmail: transporter.sendMail resolves; ...
Deliver(j) ==
    /\ sender[j].pc = "send"
    /\ delivered' = Delivered(Current(j))
    /\ sender' = [sender EXCEPT ![j].pc = "mark"]
    /\ UNCHANGED <<lead, template, seq, agenda, draft, writer, approving, tenantOn, unrecorded, mixed>>

\* ... it rejects although the server took the message; ...
DeliverUnanswered(j) ==
    /\ "ambiguous" \in Fault
    /\ sender[j].pc = "send"
    /\ delivered' = Delivered(Current(j))
    /\ unrecorded' = unrecorded \cup {Current(j)}
    /\ sender' = [sender EXCEPT ![j].pc = "failed"]
    /\ UNCHANGED <<lead, template, seq, agenda, draft, writer, approving, tenantOn, mixed>>

\* ... nothing is sent: an SMTP error, test mode without a recipient.
Refuse(j) ==
    /\ sender[j].pc = "send"
    /\ sender' = [sender EXCEPT ![j].pc = "failed"]
    /\ UNCHANGED <<lead, template, seq, agenda, draft, writer, approving, tenantOn, delivered, unrecorded, mixed>>

Mark(j) ==
    /\ sender[j].pc = "mark"
    /\ seq' = SentNow(Current(j))
    /\ agenda' = Without({Current(j)})
    /\ sender' = GoesOn(j)
    /\ UNCHANGED <<lead, template, draft, writer, approving, tenantOn, delivered, unrecorded, mixed>>

\* The row's catch logs the error: the row stays due.
MarkFails(j) ==
    /\ "mark" \in Fault
    /\ sender[j].pc = "mark"
    /\ unrecorded' = unrecorded \cup {Current(j)}
    /\ sender' = GoesOn(j)
    /\ UNCHANGED <<lead, template, seq, agenda, draft, writer, approving, tenantOn, delivered, mixed>>

\* SELECT COALESCE(retry_count, 0), and ...
ReadTries(j) ==
    /\ sender[j].pc = "failed"
    /\ sender' = [sender EXCEPT ![j].pc = "count", ![j].tries = seq[Current(j)].tries + 1]
    /\ UNCHANGED <<lead, template, seq, agenda, draft, writer, approving, tenantOn, delivered, unrecorded, mixed>>

\* ... send_failed at the last try, or due again an hour later.
CountTry(j) ==
    LET r == Current(j) IN
    /\ sender[j].pc = "count"
    /\ seq' = IF Exhausted(j) THEN Cancelled({r})
              ELSE [seq EXCEPT ![r].tries = sender[j].tries]
    /\ agenda' = Without({r})
    /\ sender' = GoesOn(j)
    /\ UNCHANGED <<lead, template, draft, writer, approving, tenantOn, delivered, unrecorded, mixed>>

CrashBatch(j) ==
    /\ "crash" \in Fault
    /\ sender[j].pc # "idle"
    /\ unrecorded' = IF sender[j].pc = "mark" THEN unrecorded \cup {Current(j)} ELSE unrecorded
    /\ sender' = [sender EXCEPT ![j] = Idle]
    /\ UNCHANGED <<lead, template, seq, agenda, draft, writer, approving, tenantOn, delivered, mixed>>

\* scheduled_at is reached.
FallsDue(r) ==
    /\ Open(r) /\ r \notin Due
    /\ agenda' = agenda \cup (Due \cup {r}) \X {r}
    /\ UNCHANGED <<lead, template, seq, draft, sender, writer, approving, tenantOn, delivered, unrecorded, mixed>>

-----------------------------------------------------------------------------
(* generateFollowUpDrafts: the hourly call, the one after a main e-mail and *)
(* the ones of two routes hold no common lease.                             *)

Candidates ==
    {r \in Row : lead[Of(r)].mailed /\ ~lead[Of(r)].unsub /\ template[r[2]] = "active" /\ ~draft[r].made}

ReadCandidates(g, C) ==
    LET rows == {r \in Candidates : Of(r) \in C} IN
    /\ writer[g] = {} /\ rows # {}
    /\ writer' = [writer EXCEPT ![g] = rows]
    /\ mixed' = mixed \cup {r \in rows : \E h \in Writer : r \in writer[h]}
    /\ UNCHANGED <<lead, template, seq, agenda, draft, sender, approving, tenantOn, delivered, unrecorded>>

\* Approvals under way have read a text that is replaced or taken away.
Overtaken(rows) == [r \in Row |-> IF r \in rows /\ approving[r] = "fresh" THEN "stale" ELSE approving[r]]

\* INSERT ... ON CONFLICT DO UPDATE: an approval stays.
Written(r) == [draft EXCEPT ![r].made = TRUE, ![r].seen = FALSE]

WriteDraft(g, r) ==
    /\ r \in writer[g]
    /\ draft' = Written(r)
    /\ approving' = Overtaken({r})
    /\ writer' = [writer EXCEPT ![g] = @ \ {r}]
    /\ UNCHANGED <<lead, template, seq, agenda, sender, tenantOn, delivered, unrecorded, mixed>>

\* The model gives no usable answer, or the process dies.
SkipDraft(g, r) ==
    /\ r \in writer[g]
    /\ writer' = [writer EXCEPT ![g] = @ \ {r}]
    /\ UNCHANGED <<lead, template, seq, agenda, draft, sender, approving, tenantOn, delivered, unrecorded, mixed>>

-----------------------------------------------------------------------------
(* Requests about drafts *)

\* POST .../followup-drafts/:step/approve: the SELECT that wants generato, ...
AskApprove(r) ==
    /\ "approve" \in Handler
    /\ draft[r].made /\ approving[r] = "no"
    /\ approving' = [approving EXCEPT ![r] = "fresh"]
    /\ UNCHANGED <<lead, template, seq, agenda, draft, sender, writer, tenantOn, delivered, unrecorded, mixed>>

\* ... and the UPDATE, whatever the draft is by now.
Approve(r) ==
    /\ approving[r] # "no"
    /\ draft' = [draft EXCEPT ![r].ok = TRUE, ![r].seen = @ \/ approving[r] = "fresh"]
    /\ approving' = [approving EXCEPT ![r] = "no"]
    /\ UNCHANGED <<lead, template, seq, agenda, sender, writer, tenantOn, delivered, unrecorded, mixed>>

\* batch-followup-approve: one UPDATE ... AND generato = true, either way.
ApproveAll(C, ok) ==
    LET rows == {r \in Row : Of(r) \in C /\ draft[r].made} IN
    /\ "approve" \in Handler
    /\ \E r \in rows : draft[r].ok # ok
    /\ draft' = [r \in Row |->
           IF r \in rows THEN [made |-> TRUE, ok |-> ok, seen |-> draft[r].seen \/ ok] ELSE draft[r]]
    /\ UNCHANGED <<lead, template, seq, agenda, sender, writer, approving, tenantOn, delivered, unrecorded, mixed>>

\* PATCH .../followup-drafts/:step: a person's text; the approval stays.
Edit(r) ==
    /\ "edit" \in Handler
    /\ draft[r].made /\ ~draft[r].seen
    /\ draft' = [draft EXCEPT ![r].seen = TRUE]
    /\ UNCHANGED <<lead, template, seq, agenda, sender, writer, approving, tenantOn, delivered, unrecorded, mixed>>

\* generato = false, approvato = false; the generation a reset starts is one
\* more ReadCandidates.
ResetRows(rows) ==
    /\ "reset" \in Handler
    /\ \E r \in rows : draft[r].made \/ draft[r].ok
    /\ draft' = [r \in Row |-> IF r \in rows THEN [made |-> FALSE, ok |-> FALSE, seen |-> FALSE] ELSE draft[r]]
    /\ approving' = Overtaken(rows)
    /\ mixed' = mixed \cup {r \in rows : approving[r] # "no"}
    /\ UNCHANGED <<lead, template, seq, agenda, sender, writer, tenantOn, delivered, unrecorded>>

\* .../regenerate of one draft; generate-followup-drafts for companies that
\* are named, or for all that is not approved in the campaign.
Reset(r) == ResetRows({r})
ResetCompanies(C) == ResetRows({r \in Row : Of(r) \in C})
ResetOpen == ResetRows({r \in Row : ~draft[r].ok})

-----------------------------------------------------------------------------
(* Requests and events that start or stop a sequence *)

\* The transaction of processEmailQueue that records the main e-mail plans a
\* row for every active template.
MailMain(c) ==
    /\ ~lead[c].mailed
    /\ lead' = [lead EXCEPT ![c].mailed = TRUE]
    /\ seq' = [r \in Row |-> IF Of(r) = c /\ template[r[2]] = "active" THEN [seq[r] EXCEPT !.there = TRUE] ELSE seq[r]]
    /\ UNCHANGED <<template, agenda, draft, sender, writer, approving, tenantOn, delivered, unrecorded, mixed>>

\* GET /unsubscribe/:token, one transaction; the agent's POST .../optout
\* leaves the rows alone.
OptOut(c, cancels) ==
    /\ "optout" \in Handler
    /\ ~lead[c].unsub
    /\ lead' = [lead EXCEPT ![c].unsub = TRUE]
    /\ seq' = IF cancels THEN Cancelled(RowsOf(c)) ELSE seq
    /\ agenda' = IF cancels THEN Without(RowsOf(c)) ELSE agenda
    /\ sender' = Withdrawn(c)
    /\ UNCHANGED <<template, draft, writer, approving, tenantOn, delivered, unrecorded, mixed>>

\* GET /track/click/:trackingId
Click(c) ==
    /\ "click" \in Handler
    /\ \E r \in RowsOf(c) : Open(r)
    /\ seq' = Cancelled(RowsOf(c))
    /\ agenda' = Without(RowsOf(c))
    /\ sender' = Withdrawn(c)
    /\ UNCHANGED <<lead, template, draft, writer, approving, tenantOn, delivered, unrecorded, mixed>>

\* PUT /api/agent/companies/:id {consent_status}
SetMarketing(c, marketing) ==
    /\ "consent" \in Handler
    /\ lead[c].marketing # marketing
    /\ lead' = [lead EXCEPT ![c].marketing = marketing]
    /\ sender' = Withdrawn(c)
    /\ UNCHANGED <<template, seq, agenda, draft, writer, approving, tenantOn, delivered, unrecorded, mixed>>

\* POST, PUT and DELETE /api/followup-sequences
SetTemplate(s, state) ==
    /\ "template" \in Handler
    /\ template[s] # state
    /\ template' = [template EXCEPT ![s] = state]
    /\ UNCHANGED <<lead, seq, agenda, draft, sender, writer, approving, tenantOn, delivered, unrecorded, mixed>>

SetTenant ==
    /\ "tenant" \in Handler
    /\ tenantOn' = ~tenantOn
    /\ UNCHANGED <<lead, template, seq, agenda, draft, sender, writer, approving, delivered, unrecorded, mixed>>

-----------------------------------------------------------------------------
SenderStep(j) ==
    \/ EndBatch(j) \/ Drop(j) \/ Skip(j) \/ Take(j)
    \/ Deliver(j) \/ DeliverUnanswered(j) \/ Refuse(j)
    \/ Mark(j) \/ MarkFails(j) \/ ReadTries(j) \/ CountTry(j)

FollowUpNext ==
    \/ \E j \in Sender : StartBatch(j) \/ SenderStep(j) \/ CrashBatch(j)
    \/ \E r \in Row : FallsDue(r) \/ AskApprove(r) \/ Approve(r) \/ Edit(r) \/ Reset(r)
    \/ \E g \in Writer, C \in {{c} : c \in Company} \cup {Company} : ReadCandidates(g, C)
    \/ \E g \in Writer, r \in Row : WriteDraft(g, r) \/ SkipDraft(g, r)
    \/ \E c \in Company, ok \in BOOLEAN : ApproveAll({c}, ok) \/ OptOut(c, ok) \/ SetMarketing(c, ok)
    \/ \E c \in Company : MailMain(c) \/ Click(c) \/ ResetCompanies({c})
    \/ ResetOpen
    \/ \E s \in Step, state \in {"active", "inactive", "deleted"} : SetTemplate(s, state)
    \/ SetTenant

FollowUpSpec == FollowUpInit /\ [][FollowUpNext]_followUpVars

-----------------------------------------------------------------------------
\* A follow-up reaches its company at most once, unless a message left without
\* being recorded or two batches overlapped: no approval, withdrawal, template
\* or retry makes a batch send a row that was sent.
FollowUpOnceUnlessUnrecorded ==
    "overrun" \notin Fault => \A r \in Row : r \notin unrecorded => delivered[r] <= 1

\* A follow-up under way to a company that has replied, opted out or gone
\* cold, or whose row is cancelled (by nobody but another batch, when batches
\* overlap), was read by its batch before that.
WithdrawalHonoured ==
    \A j \in Sender : sender[j].pc = "send" =>
        LET r == Current(j) IN
        \/ Heard(Of(r)) /\ (~seq[r].cancelled \/ "overrun" \in Fault)
        \/ Of(r) \in sender[j].late

\* The text of a follow-up under way was written or approved by a person as it
\* stands, unless two generations, or a reset and an approval, were under way
\* for this draft at once.
OnlySeenTextIsSent ==
    \A j \in Sender : sender[j].pc = "send" =>
        Head(sender[j].todo).seen \/ Current(j) \in mixed
=============================================================================
