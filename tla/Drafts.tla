-------------------------------- MODULE Drafts --------------------------------
(***************************************************************************)
(* The main e-mail of a company from draft to sending: generateEmailDrafts *)
(* of src/routes/cron.js, the pages of src/routes/companies.js that edit,  *)
(* approve, restore or reject a draft, POST .../draft of                   *)
(* src/routes/agent.js, and the text processEmailQueue sends.              *)
(*                                                                         *)
(* Companies never interact here: the module follows one.  Texts are told  *)
(* apart by one thing, whether a person has written or approved them.      *)
(***************************************************************************)
EXTENDS Naturals, FiniteSets

CONSTANTS
    Generator,      \* calls of generateEmailDrafts
    GiveUpAfter,    \* the 3 of bozza_failed_count < 3
    MaxVersions     \* the 10 of company_email_versions

ASSUME DraftConstants ==
    IsFiniteSet(Generator) /\ GiveUpAfter \in Nat \ {0} /\ MaxVersions \in Nat \ {0}

VARIABLES
    co,          \* the company: see DraftTypeOK
    versions,    \* rows of company_email_versions
    generating,  \* generators that have read the company
    asking,      \* an approval between its SELECT and its UPDATE
    claim,       \* processEmailQueue: [pc, seen], seen of the text it copied
    raced        \* history: an approval overlapped the making of a new text

draftVars == <<co, versions, generating, asking, claim, raced>>

\* made, redo, ok, sent, unsub, failed: bozza_creata, bozza_rifai, approvato,
\* inviato, unsubscribed_at, bozza_failed_count.  text: there is one; seen: a
\* person wrote or approved it as it stands (history).
DraftTypeOK ==
    /\ co \in [made : BOOLEAN, redo : BOOLEAN, ok : BOOLEAN, sent : BOOLEAN, unsub : BOOLEAN,
               failed : 0..(GiveUpAfter + Cardinality(Generator) - 1), text : BOOLEAN, seen : BOOLEAN]
    /\ versions \in 0..(MaxVersions + 1)
    /\ generating \subseteq Generator
    /\ asking \in {"no", "fresh", "stale"}
    /\ claim \in [pc : {"idle", "claimed", "send"}, seen : BOOLEAN]
    /\ raced \in BOOLEAN

Unclaimed == [pc |-> "idle", seen |-> FALSE]

DraftInit ==
    /\ co = [made |-> FALSE, redo |-> FALSE, ok |-> FALSE, sent |-> FALSE, unsub |-> FALSE,
             failed |-> 0, text |-> FALSE, seen |-> FALSE]
    /\ versions = 0 /\ generating = {} /\ asking = "no" /\ claim = Unclaimed /\ raced = FALSE

-----------------------------------------------------------------------------
\* Mutated forms of the operators below.
WantedApproved == ~co.unsub /\ (~co.made \/ co.redo) /\ ~co.sent
MayTryOnce == co.failed <= GiveUpAfter

\* The SELECT of generateEmailDrafts.
Wanted == ~co.unsub /\ (~co.made \/ co.redo) /\ ~co.ok /\ ~co.sent
\* ... of the scheduled call; with ids given, the same test on the row read.
MayTry == co.failed < GiveUpAfter

\* bozza_failed_count + 1
Failed == [co EXCEPT !.failed = @ + 1]

\* The text is replaced by one of which a person knows or not.
Replaced(company, seen) == [company EXCEPT !.text = TRUE, !.seen = seen]
Stale == IF asking = "fresh" THEN "stale" ELSE asking

\* The version that is kept before a change; the oldest of ten goes, except
\* when a version is restored.
Kept == IF ~co.text THEN versions ELSE IF versions >= MaxVersions THEN MaxVersions ELSE versions + 1

-----------------------------------------------------------------------------
(* generateEmailDrafts *)

ReadCompany(g) ==
    /\ g \notin generating
    /\ Wanted /\ MayTry
    /\ generating' = generating \cup {g}
    /\ UNCHANGED <<co, versions, asking, claim, raced>>

\* The e-mail is written, is free of blacklisted words and is found valid:
\* stored by id, whatever the company is by now.
StoreDraft(g) ==
    /\ g \in generating
    /\ co' = Replaced([co EXCEPT !.made = TRUE, !.redo = FALSE, !.failed = 0], FALSE)
    /\ asking' = Stale
    /\ generating' = generating \ {g}
    /\ UNCHANGED <<versions, claim, raced>>

\* Poor data, no answer from the model, blacklist, exception; a draft found
\* invalid is not asked for again.
FailDraft(g, redo) ==
    /\ g \in generating
    /\ redo \in {co.redo, FALSE}
    /\ co' = [Failed EXCEPT !.redo = redo]
    /\ generating' = generating \ {g}
    /\ UNCHANGED <<versions, asking, claim, raced>>

\* No e-mail address after the extraction, no info_azienda, or the process
\* dies: nothing is counted.
LeaveDraft(g) ==
    /\ g \in generating
    /\ generating' = generating \ {g}
    /\ UNCHANGED <<co, versions, asking, claim, raced>>

-----------------------------------------------------------------------------
(* The company pages *)

\* PATCH .../approve: the SELECT that wants bozza_creata, ...
AskApproval ==
    /\ asking = "no" /\ co.made
    /\ asking' = "fresh"
    /\ UNCHANGED <<co, versions, generating, claim, raced>>

\* ... and the UPDATE.
GiveApproval ==
    /\ asking # "no"
    /\ co' = [co EXCEPT !.ok = TRUE, !.seen = @ \/ asking = "fresh"]
    /\ raced' = (raced \/ asking = "stale" \/ generating # {})
    /\ asking' = "no"
    /\ UNCHANGED <<versions, generating, claim>>

Revoke ==
    /\ co.ok
    /\ co' = [co EXCEPT !.ok = FALSE]
    /\ UNCHANGED <<versions, generating, asking, claim, raced>>

\* bulk-approve: one UPDATE with its conditions.
BulkApprove ==
    /\ co.made /\ ~co.sent /\ ~co.ok
    /\ co' = [co EXCEPT !.ok = TRUE, !.seen = TRUE]
    /\ raced' = (raced \/ generating # {})
    /\ UNCHANGED <<versions, generating, asking, claim>>

\* PATCH {bozza_email}: the approval stays, the text is a person's.
EditDraft ==
    /\ ~co.sent
    /\ co' = Replaced([co EXCEPT !.made = TRUE], TRUE)
    /\ versions' = Kept
    /\ UNCHANGED <<generating, asking, claim, raced>>

\* PATCH {bozza_rifai}; the text stays until there is a new one.
AskAgain ==
    /\ co' = [co EXCEPT !.made = FALSE, !.ok = FALSE, !.redo = TRUE]
    /\ versions' = Kept
    /\ UNCHANGED <<generating, asking, claim, raced>>

DoNotAskAgain ==
    /\ co.redo
    /\ co' = [co EXCEPT !.redo = FALSE]
    /\ UNCHANGED <<versions, generating, asking, claim, raced>>

\* POST .../restore-version: the approval stays; no limit on the versions.
RestoreVersion ==
    /\ versions \in 1..MaxVersions
    /\ co' = Replaced(co, TRUE)
    /\ versions' = IF co.text THEN versions + 1 ELSE versions
    /\ UNCHANGED <<generating, asking, claim, raced>>

\* POST .../reset-failed
ResetFailed ==
    /\ co' = [co EXCEPT !.failed = 0, !.redo = TRUE]
    /\ UNCHANGED <<versions, generating, asking, claim, raced>>

\* PATCH {inviato: true}
SetSent ==
    /\ ~co.sent
    /\ co' = [co EXCEPT !.sent = TRUE]
    /\ UNCHANGED <<versions, generating, asking, claim, raced>>

\* The link in the e-mail withdraws the approval, the agent's opt-out does not.
Unsubscribe(ok) ==
    /\ ~co.unsub /\ ok \in {co.ok, FALSE}
    /\ co' = [co EXCEPT !.unsub = TRUE, !.ok = ok]
    /\ UNCHANGED <<versions, generating, asking, claim, raced>>

-----------------------------------------------------------------------------
(* processEmailQueue, as far as the text goes *)

\* The claim copies the company, the text included.
CopyText ==
    /\ claim.pc = "idle"
    /\ co.made /\ co.ok /\ ~co.sent /\ ~co.unsub
    /\ claim' = [pc |-> "claimed", seen |-> co.seen]
    /\ UNCHANGED <<co, versions, generating, asking, raced>>

\* The fresh check reads the flags again and not the text.
CheckFresh ==
    /\ claim.pc = "claimed"
    /\ claim' = IF co.made /\ co.ok /\ ~co.sent /\ ~co.unsub THEN [claim EXCEPT !.pc = "send"] ELSE Unclaimed
    /\ UNCHANGED <<co, versions, generating, asking, raced>>

SendText(works) ==
    /\ claim.pc = "send"
    /\ co' = IF works THEN [co EXCEPT !.sent = TRUE] ELSE co
    /\ claim' = Unclaimed
    /\ UNCHANGED <<versions, generating, asking, raced>>

-----------------------------------------------------------------------------
DraftNext ==
    \/ \E g \in Generator : ReadCompany(g) \/ StoreDraft(g) \/ LeaveDraft(g)
    \/ \E g \in Generator, redo \in BOOLEAN : FailDraft(g, redo)
    \/ AskApproval \/ GiveApproval \/ Revoke \/ BulkApprove
    \/ EditDraft \/ AskAgain \/ DoNotAskAgain \/ RestoreVersion \/ ResetFailed
    \/ SetSent \/ \E ok \in BOOLEAN : Unsubscribe(ok)
    \/ CopyText \/ CheckFresh \/ \E works \in BOOLEAN : SendText(works)

DraftSpec == DraftInit /\ [][DraftNext]_draftVars

-----------------------------------------------------------------------------
\* The text that is sent, copied when the row was claimed, was written or
\* approved by a person as it stands, unless a new text was being generated
\* while an approval was given: no other order of generating, editing,
\* restoring, rejecting and approving gets an unread text out.
OnlyReadTextIsSent == claim.pc = "send" => claim.seen \/ raced
=============================================================================
