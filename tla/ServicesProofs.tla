---------------------------- MODULE ServicesProofs ----------------------------
(* Proofs about the services around the queue that have no module of proofs *)
(* of their own, and about all of them side by side, for every value of the *)
(* constants.                                                               *)
EXTENDS Services, SendingProofs, IntakeProofs, FiniteSetTheorems, TLAPS

(***************************************************************************)
(* The drafts                                                              *)
(***************************************************************************)

DraftType == [made : BOOLEAN, redo : BOOLEAN, ok : BOOLEAN, sent : BOOLEAN, unsub : BOOLEAN,
              failed : Nat, text : BOOLEAN, seen : BOOLEAN]

\* Every failure yet to come is of a generator that is still at it.
FailuresBounded ==
    co.failed + Cardinality(generating) <= GiveUpAfter + Cardinality(Generator) - 1

\* The strengthening: an approved company has no generator at work, and a text
\* a person knows, unless an approval overlapped the making of a text.
ApprovedIsRead == co.ok /\ ~raced => co.seen /\ generating = {}
ClaimedIsRead == claim.pc # "idle" => claim.seen \/ raced

DraftShape ==
    /\ co \in DraftType
    /\ versions \in 0..(MaxVersions + 1)
    /\ generating \subseteq Generator
    /\ asking \in {"no", "fresh", "stale"}
    /\ claim \in [pc : {"idle", "claimed", "send"}, seen : BOOLEAN]
    /\ raced \in BOOLEAN

DraftInv == DraftShape /\ FailuresBounded /\ ApprovedIsRead /\ ClaimedIsRead

\* The generators that are at work are counted by a number.
LEMMA GeneratorsAreFinite ==
    /\ Cardinality(Generator) \in Nat /\ GiveUpAfter \in Nat \ {0} /\ MaxVersions \in Nat \ {0}
    /\ \A S \in SUBSET Generator :
        /\ Cardinality(S) \in Nat /\ Cardinality(S) <= Cardinality(Generator)
        /\ \A g \in S : Cardinality(S \ {g}) = Cardinality(S) - 1
BY DraftConstants, FS_CardinalityType, FS_Subset, FS_RemoveElement

\* The type of the module follows: the failures of a company are bounded.
LEMMA DraftTypesFollow == DraftInv => DraftTypeOK
<1> SUFFICES ASSUME DraftInv PROVE DraftTypeOK
  OBVIOUS
<1>1. co \in DraftType /\ co.failed \in Nat
  BY DEF DraftInv, DraftShape, DraftType
<1>2. co.failed \in 0..(GiveUpAfter + Cardinality(Generator) - 1)
  BY <1>1, GeneratorsAreFinite DEF DraftInv, DraftShape, FailuresBounded
<1>3. QED
  BY <1>1, <1>2 DEF DraftInv, DraftShape, DraftType, DraftTypeOK

LEMMA DraftInvHolds == DraftInit => DraftInv
<1> SUFFICES ASSUME DraftInit PROVE DraftInv
  OBVIOUS
<1>1. Cardinality({}) = 0
  BY FS_EmptySet
<1>2. co \in DraftType /\ co.failed = 0 /\ ~co.ok /\ generating = {}
  BY DEF DraftInit, DraftType
<1>3. FailuresBounded
  BY <1>1, <1>2, GeneratorsAreFinite DEF FailuresBounded
<1>4. claim \in [pc : {"idle", "claimed", "send"}, seen : BOOLEAN] /\ claim.pc = "idle"
  BY DEF DraftInit, Unclaimed
<1>5. versions = 0 /\ asking = "no" /\ raced = FALSE
  BY DEF DraftInit
<1>6. 0 \in 0..(MaxVersions + 1)
  BY GeneratorsAreFinite
<1>7. DraftShape /\ ClaimedIsRead
  BY <1>2, <1>4, <1>5, <1>6 DEF DraftShape, ClaimedIsRead
<1>8. QED
  BY <1>2, <1>3, <1>7 DEF DraftInv, ApprovedIsRead

\* A step that changes the company only: no more failures, and approved only
\* when it was, with the text a person knows.
Milder(c, d) ==
    d \in DraftType /\ d.failed <= c.failed /\ (d.ok => c.ok /\ (c.seen => d.seen))

LEMMA CompanyStepKeeps ==
    ASSUME DraftInv, Milder(co, co'),
           versions' \in 0..(MaxVersions + 1), UNCHANGED <<generating, asking, claim, raced>>
    PROVE  DraftInv'
<1> USE DEF Milder
<1>1. co.failed \in Nat /\ co'.failed \in Nat
  BY DEF DraftInv, DraftShape, DraftType
<1>2. Cardinality(generating) \in Nat
  BY GeneratorsAreFinite DEF DraftInv, DraftShape
<1>3. FailuresBounded'
  BY <1>1, <1>2, GeneratorsAreFinite DEF DraftInv, FailuresBounded
<1>4. QED
  BY <1>3 DEF DraftInv, DraftShape, ApprovedIsRead, ClaimedIsRead

\* ... one that does not change the company, and starts no generator.
LEMMA QuietDraftStepKeeps ==
    ASSUME DraftInv, UNCHANGED <<co, versions, generating, raced>>,
           asking' \in {"no", "fresh", "stale"},
           claim' \in [pc : {"idle", "claimed", "send"}, seen : BOOLEAN],
           claim'.pc # "idle" => claim'.seen \/ raced
    PROVE  DraftInv'
BY DEF DraftInv, DraftShape, FailuresBounded, ApprovedIsRead, ClaimedIsRead

\* What is kept of old versions stays within the limit.
LEMMA KeptIsBounded == DraftInv => Kept \in 0..(MaxVersions + 1)
BY GeneratorsAreFinite DEF DraftInv, DraftShape, Kept

LEMMA GeneratorStepKeeps ==
    ASSUME DraftInv, NEW g \in Generator, NEW redo \in BOOLEAN,
           ReadCompany(g) \/ StoreDraft(g) \/ LeaveDraft(g) \/ FailDraft(g, redo)
    PROVE  DraftInv'
<1> USE DEF DraftInv
<1>0. /\ co \in DraftType /\ co.failed \in Nat /\ generating \subseteq Generator
      /\ Cardinality(generating) \in Nat
  BY GeneratorsAreFinite DEF DraftShape, DraftType
<1>1. CASE ReadCompany(g)
  <2>1. /\ generating' = generating \cup {g} /\ UNCHANGED <<co, versions, asking, claim, raced>>
        /\ ~co.ok /\ co.failed < GiveUpAfter
    BY <1>1 DEF ReadCompany, Wanted, MayTry
  <2>2. generating' \in SUBSET Generator
    BY <1>0, <2>1
  <2>3. Cardinality(generating') \in Nat /\ Cardinality(generating') <= Cardinality(Generator)
    BY <2>2, GeneratorsAreFinite
  <2>4. FailuresBounded'
    BY <1>0, <2>1, <2>3, GeneratorsAreFinite DEF FailuresBounded
  <2>5. QED
    BY <2>1, <2>2, <2>4 DEF DraftShape, ApprovedIsRead, ClaimedIsRead
<1>2. CASE StoreDraft(g) \/ LeaveDraft(g) \/ FailDraft(g, redo)
  <2>1. /\ g \in generating /\ generating' = generating \ {g}
        /\ UNCHANGED <<versions, claim, raced>>
    BY <1>2, Zenon DEF StoreDraft, LeaveDraft, FailDraft
  <2>2. generating' \subseteq Generator /\ Cardinality(generating') = Cardinality(generating) - 1
    BY <1>0, <2>1, GeneratorsAreFinite
  <2>3. co' \in DraftType /\ co'.ok = co.ok /\ co'.failed \in Nat /\ co'.failed <= co.failed + 1
    <3>1. CASE StoreDraft(g)
      <4>1. co' = [[co EXCEPT !.made = TRUE, !.redo = FALSE, !.failed = 0] EXCEPT !.text = TRUE, !.seen = FALSE]
        BY <3>1 DEF StoreDraft, Replaced
      <4>2. co' = [made |-> TRUE, redo |-> FALSE, ok |-> co.ok, sent |-> co.sent, unsub |-> co.unsub,
                   failed |-> 0, text |-> TRUE, seen |-> FALSE]
        BY <1>0, <4>1 DEF DraftType
      <4>3. QED
        BY <1>0, <4>2 DEF DraftType
    <3>2. CASE LeaveDraft(g)
      BY <1>0, <3>2 DEF LeaveDraft
    <3>3. CASE FailDraft(g, redo)
      <4>1. co' = [[co EXCEPT !.failed = co.failed + 1] EXCEPT !.redo = redo]
        BY <3>3 DEF FailDraft, Failed
      <4>2. co' = [made |-> co.made, redo |-> redo, ok |-> co.ok, sent |-> co.sent, unsub |-> co.unsub,
                   failed |-> co.failed + 1, text |-> co.text, seen |-> co.seen]
        BY <1>0, <4>1 DEF DraftType
      <4>3. QED
        BY <1>0, <4>2 DEF DraftType
    <3>4. QED
      BY <1>2, <3>1, <3>2, <3>3
  <2>4. asking' \in {"no", "fresh", "stale"}
    BY <1>2 DEF StoreDraft, LeaveDraft, FailDraft, Stale, DraftShape
  <2>5. FailuresBounded'
    BY <1>0, <2>2, <2>3, GeneratorsAreFinite DEF FailuresBounded
  \* An approved company has no generator at work, or the race is known.
  <2>6. ApprovedIsRead'
    BY <2>1, <2>3 DEF ApprovedIsRead
  <2>7. QED
    BY <2>1, <2>2, <2>3, <2>4, <2>5, <2>6 DEF DraftShape, ClaimedIsRead
<1>3. QED
  BY <1>1, <1>2

\* An approval: it is of a text the person has seen, or it raced.
LEMMA ApprovalKeeps ==
    ASSUME DraftInv, GiveApproval \/ BulkApprove
    PROVE  DraftInv'
<1> USE DEF DraftInv
<1>1. /\ co \in DraftType /\ raced \in BOOLEAN /\ asking \in {"no", "fresh", "stale"}
      /\ UNCHANGED <<versions, generating, claim>>
  BY DEF DraftShape, GiveApproval, BulkApprove
<1>2. CASE GiveApproval
  <2>1. /\ co' = [co EXCEPT !.ok = TRUE, !.seen = @ \/ asking = "fresh"]
        /\ raced' = (raced \/ asking = "stale" \/ generating # {})
        /\ asking' = "no" /\ asking # "no"
    BY <1>2 DEF GiveApproval
  <2>2. co' \in DraftType /\ co'.failed = co.failed /\ co'.seen = (co.seen \/ asking = "fresh")
    BY <1>1, <2>1 DEF DraftType
  <2>3. raced' \in BOOLEAN /\ (~raced' => asking = "fresh" /\ generating = {}) /\ (raced => raced')
    BY <1>1, <2>1
  <2>4. QED
    BY <1>1, <2>1, <2>2, <2>3 DEF DraftShape, FailuresBounded, ApprovedIsRead, ClaimedIsRead
<1>3. CASE BulkApprove
  <2>1. /\ co' = [co EXCEPT !.ok = TRUE, !.seen = TRUE]
        /\ raced' = (raced \/ generating # {}) /\ asking' = asking
    BY <1>3 DEF BulkApprove
  <2>2. co' \in DraftType /\ co'.failed = co.failed /\ co'.seen
    BY <1>1, <2>1 DEF DraftType
  <2>3. raced' \in BOOLEAN /\ (~raced' => generating = {}) /\ (raced => raced')
    BY <1>1, <2>1
  <2>4. QED
    BY <1>1, <2>1, <2>2, <2>3 DEF DraftShape, FailuresBounded, ApprovedIsRead, ClaimedIsRead
<1>4. QED
  BY <1>2, <1>3

\* What the pages of a company make of it.
Page(c, d, ok) ==
    \/ d = [c EXCEPT !.ok = FALSE]
    \/ d = [c EXCEPT !.made = FALSE, !.ok = FALSE, !.redo = TRUE]
    \/ d = [c EXCEPT !.redo = FALSE]
    \/ d = [c EXCEPT !.failed = 0, !.redo = TRUE]
    \/ d = [c EXCEPT !.sent = TRUE]
    \/ d = [[c EXCEPT !.made = TRUE] EXCEPT !.text = TRUE, !.seen = TRUE]
    \/ d = [c EXCEPT !.text = TRUE, !.seen = TRUE]
    \/ d = [c EXCEPT !.unsub = TRUE, !.ok = ok]

LEMMA PagesAreMilder ==
    ASSUME NEW c \in DraftType, NEW d, NEW ok \in {c.ok, FALSE}, Page(c, d, ok)
    PROVE  Milder(c, d)
<1>1. d \in DraftType
  <2> USE DEF DraftType
  <2>1. [c EXCEPT !.ok = FALSE] \in DraftType
    OBVIOUS
  <2>2. [c EXCEPT !.made = FALSE, !.ok = FALSE, !.redo = TRUE] \in DraftType
    OBVIOUS
  <2>3. [c EXCEPT !.redo = FALSE] \in DraftType
    OBVIOUS
  <2>4. [c EXCEPT !.failed = 0, !.redo = TRUE] \in DraftType
    OBVIOUS
  <2>5. [c EXCEPT !.sent = TRUE] \in DraftType
    OBVIOUS
  <2>6. [[c EXCEPT !.made = TRUE] EXCEPT !.text = TRUE, !.seen = TRUE] \in DraftType
    OBVIOUS
  <2>7. [c EXCEPT !.text = TRUE, !.seen = TRUE] \in DraftType
    OBVIOUS
  <2>8. [c EXCEPT !.unsub = TRUE, !.ok = ok] \in DraftType
    OBVIOUS
  <2>9. QED
    BY <2>1, <2>2, <2>3, <2>4, <2>5, <2>6, <2>7, <2>8, Zenon DEF Page
<1>2. d.failed <= c.failed
  <2>1. d.failed = c.failed \/ d.failed = 0
    BY DEF DraftType, Page
  <2>2. QED
    BY <2>1 DEF DraftType
<1>3. d.ok => c.ok
  BY DEF DraftType, Page
<1>4. c.seen => d.seen
  BY DEF DraftType, Page
<1>5. QED
  BY <1>1, <1>2, <1>3, <1>4 DEF Milder

LEMMA DraftInvKept == DraftInv /\ [DraftNext]_draftVars => DraftInv'
<1> SUFFICES ASSUME DraftInv, [DraftNext]_draftVars PROVE DraftInv'
  OBVIOUS
<1>0. /\ co \in DraftType /\ versions \in 0..(MaxVersions + 1)
      /\ claim \in [pc : {"idle", "claimed", "send"}, seen : BOOLEAN]
      /\ raced \in BOOLEAN /\ MaxVersions \in Nat
  BY GeneratorsAreFinite DEF DraftInv, DraftShape
<1>1. ASSUME Revoke \/ AskAgain \/ DoNotAskAgain \/ ResetFailed \/ SetSent \/ EditDraft \/ RestoreVersion
             \/ \E ok \in BOOLEAN : Unsubscribe(ok)
      PROVE DraftInv'
  <2>1. \E ok \in {co.ok, FALSE} : Page(co, co', ok)
    BY <1>1, Zenon DEF Revoke, AskAgain, DoNotAskAgain, ResetFailed, SetSent, EditDraft, RestoreVersion,
                       Unsubscribe, Replaced, Page
  <2>2. Milder(co, co')
    BY <1>0, <2>1, PagesAreMilder
  <2>3. versions' \in 0..(MaxVersions + 1)
    <3>1. \/ versions' \in {versions, Kept}
          \/ versions \in 1..MaxVersions /\ versions' = IF co.text THEN versions + 1 ELSE versions
      BY <1>1, Zenon
         DEF Revoke, AskAgain, DoNotAskAgain, ResetFailed, SetSent, EditDraft, RestoreVersion, Unsubscribe
    <3>2. QED
      BY <1>0, <3>1, KeptIsBounded
  <2>4. UNCHANGED <<generating, asking, claim, raced>>
    BY <1>1, Zenon
       DEF Revoke, AskAgain, DoNotAskAgain, ResetFailed, SetSent, EditDraft, RestoreVersion, Unsubscribe
  <2>5. QED
    BY <2>2, <2>3, <2>4, CompanyStepKeeps
<1>2. CASE AskApproval
  BY <1>0, <1>2, QuietDraftStepKeeps DEF AskApproval, DraftInv, ClaimedIsRead
<1>3. CASE CopyText
  <2>1. claim' = [pc |-> "claimed", seen |-> co.seen] /\ co.seen \in BOOLEAN /\ (co.seen \/ raced)
    BY <1>0, <1>3 DEF CopyText, DraftInv, DraftType, ApprovedIsRead
  <2>2. asking' \in {"no", "fresh", "stale"} /\ UNCHANGED <<co, versions, generating, raced>>
    BY <1>3 DEF CopyText, DraftInv, DraftShape
  <2>3. QED
    BY <2>1, <2>2, QuietDraftStepKeeps
<1>4. CASE CheckFresh
  BY <1>0, <1>4, QuietDraftStepKeeps DEF CheckFresh, Unclaimed, DraftInv, DraftShape, ClaimedIsRead
<1>5. ASSUME NEW works \in BOOLEAN, SendText(works) PROVE DraftInv'
  <2>1. co' = co \/ co' = [co EXCEPT !.sent = TRUE]
    BY <1>5 DEF SendText
  <2>2. co' \in DraftType /\ co'.failed = co.failed /\ co'.ok = co.ok /\ co'.seen = co.seen
    BY <1>0, <2>1 DEF DraftType
  <2>3. claim' = Unclaimed /\ UNCHANGED <<versions, generating, asking, raced>>
    BY <1>5 DEF SendText
  <2>4. QED
    BY <2>2, <2>3
       DEF Unclaimed, DraftInv, DraftShape, FailuresBounded, ApprovedIsRead, ClaimedIsRead
<1>6. CASE UNCHANGED draftVars
  BY <1>6, <1>0 DEF draftVars, DraftInv, DraftShape, FailuresBounded, ApprovedIsRead, ClaimedIsRead
<1>7. QED
  BY <1>1, <1>2, <1>3, <1>4, <1>5, <1>6, GeneratorStepKeeps, ApprovalKeeps DEF DraftNext

\* Nothing that a person has not written or approved as it stands is sent,
\* unless a text was being made while an approval was given.
THEOREM DraftsAreRead == DraftSpec => [](DraftTypeOK /\ OnlyReadTextIsSent)
<1>1. DraftInv => DraftTypeOK /\ OnlyReadTextIsSent
  BY DraftTypesFollow DEF DraftInv, ClaimedIsRead, OnlyReadTextIsSent
<1>2. QED
  BY <1>1, DraftInvHolds, DraftInvKept, PTL DEF DraftSpec

(***************************************************************************)
(* The planned sendings                                                    *)
(***************************************************************************)

LeadType == [ready : BOOLEAN, marketing : BOOLEAN, sent : BOOLEAN, gone : BOOLEAN]
PlannerType == [pc : {"idle", "asked", "deleting", "deleted"}, found : SUBSET Plan, doomed : SUBSET Plan]
PlanState == {"none", "later", "due", "sent", "cancelled"}

\* The strengthening: between the two statements of the job whatever can be
\* marked has been inserted, as long as nothing slipped in; and a company in
\* the queue has not been mailed.
DueIsPromoted == job = "inserted" /\ ~slipped => \A r \in Plan : Promotable(r) => r \in promoted
QueuedIsUnsent == queued => ~lead.sent

PlanInv == PlanTypeOK /\ DueIsPromoted /\ QueuedIsUnsent

LEMMA PlanInvHolds == PlanInit => PlanInv
<1> SUFFICES ASSUME PlanInit PROVE PlanInv
  OBVIOUS
<1>1. Unasked \in PlannerType
  BY DEF Unasked, PlannerType
<1>2. planner \in [Planner -> PlannerType] /\ plan \in [Plan -> PlanState] /\ lead \in LeadType
  BY <1>1 DEF PlanInit, PlanState, LeadType
<1>3. ~queued /\ job = "idle"
  BY DEF PlanInit
<1>4. PlanTypeOK
  BY <1>2 DEF PlanInit, PlanTypeOK, PlannerType, PlanState, LeadType
<1>5. QED
  BY <1>3, <1>4 DEF PlanInv, DueIsPromoted, QueuedIsUnsent

\* A request that goes on changes nothing but itself.
LEMMA PlannerKeeps ==
    ASSUME PlanInv, planner' \in [Planner -> PlannerType],
           UNCHANGED <<plan, lead, queued, job, promoted, slipped>>
    PROVE  PlanInv'
BY DEF PlanInv, PlanTypeOK, PlannerType, DueIsPromoted, Promotable, Eligible, QueuedIsUnsent

\* A change of rows, after which no row is due that was not, unless it slips.
LEMMA RowsKeep ==
    ASSUME PlanInv, plan' \in [Plan -> PlanState], promoted' \subseteq Plan,
           planner' \in [Planner -> PlannerType],
           slipped' \in BOOLEAN, job' \in {"idle", "inserted"}, job' = "inserted" => job = "inserted",
           UNCHANGED <<lead, queued>>,
           job = "inserted" /\ ~slipped' =>
               ~slipped /\ \A r \in Plan : plan'[r] = "due" => plan[r] = "due" /\ (r \in promoted => r \in promoted')
    PROVE  PlanInv'
<1>1. PlanTypeOK'
  BY DEF PlanInv, PlanTypeOK, PlannerType, PlanState
<1>2. DueIsPromoted'
  BY DEF PlanInv, DueIsPromoted, Promotable, Eligible
<1>3. QED
  BY <1>1, <1>2 DEF PlanInv, QueuedIsUnsent

\* A change of the company, after which it is not eligible if it was not,
\* unless it slips.
LEMMA LeadKeeps ==
    ASSUME PlanInv, lead' \in LeadType, queued' \in BOOLEAN, slipped' \in BOOLEAN,
           plan' \in [Plan -> PlanState], \A r \in Plan : plan'[r] = "due" => plan[r] = "due",
           UNCHANGED <<planner, job, promoted>>,
           queued' => ~lead'.sent,
           job = "inserted" /\ ~slipped' => ~slipped /\ (Eligible(lead') => Eligible(lead))
    PROVE  PlanInv'
<1>1. PlanTypeOK'
  BY DEF PlanInv, PlanTypeOK, LeadType, PlanState
<1>2. DueIsPromoted'
  BY DEF PlanInv, DueIsPromoted, Promotable
<1>3. QED
  BY <1>1, <1>2 DEF PlanInv, QueuedIsUnsent

\* What slips in, slips in between the two statements.
LEMMA SlipsIs ==
    ASSUME PlanInv, NEW now \in BOOLEAN, slipped' = Slips(now)
    PROVE  /\ slipped' \in BOOLEAN
           /\ ~slipped' => ~slipped /\ (job = "inserted" => ~now)
BY DEF Slips, PlanInv, PlanTypeOK

LEMMA PlanInvKept == PlanInv /\ [PlanNext]_planVars => PlanInv'
<1> SUFFICES ASSUME PlanInv, [PlanNext]_planVars PROVE PlanInv'
  OBVIOUS
<1>0. /\ plan \in [Plan -> PlanState] /\ lead \in LeadType /\ planner \in [Planner -> PlannerType]
      /\ queued \in BOOLEAN /\ slipped \in BOOLEAN /\ promoted \subseteq Plan
      /\ job \in {"idle", "inserted"} /\ (queued => ~lead.sent)
  BY DEF PlanInv, PlanTypeOK, PlanState, LeadType, PlannerType, QueuedIsUnsent
<1>1. ASSUME NEW p \in Planner, AskPlan(p) \/ StartDelete(p) \/ DeletePlans(p) \/ DropPlan(p)
      PROVE PlanInv'
  <2>1. UNCHANGED <<plan, lead, queued, job, promoted, slipped>>
    BY <1>1, Zenon DEF AskPlan, StartDelete, DeletePlans, DropPlan
  <2>2. PICK new : planner' = [planner EXCEPT ![p] = new] /\ new \in PlannerType
    <3>1. CASE AskPlan(p)
      <4>1. planner' = [planner EXCEPT ![p] = [planner[p] EXCEPT !.pc = "asked"]]
        BY <3>1 DEF AskPlan
      <4>2. [planner[p] EXCEPT !.pc = "asked"] \in PlannerType
        BY <1>0 DEF PlannerType
      <4>3. QED
        BY <4>1, <4>2
    <3>2. CASE StartDelete(p)
      <4>1. planner' = [planner EXCEPT ![p] = [[planner[p] EXCEPT !.pc = "deleting"] EXCEPT !.found = Stored]]
        BY <1>0, <3>2 DEF StartDelete, PlannerType
      <4>2. [[planner[p] EXCEPT !.pc = "deleting"] EXCEPT !.found = Stored] \in PlannerType
        BY <1>0 DEF PlannerType, Stored
      <4>3. QED
        BY <4>1, <4>2
    <3>3. CASE DeletePlans(p)
      <4>1. PICK doomed \in SUBSET Plan :
               planner' = [planner EXCEPT ![p].pc = "deleted", ![p].doomed = doomed]
        BY <1>0, <3>3 DEF DeletePlans, PlannerType
      <4>2. planner' = [planner EXCEPT ![p] = [[planner[p] EXCEPT !.pc = "deleted"] EXCEPT !.doomed = doomed]]
        BY <1>0, <4>1 DEF PlannerType
      <4>3. [[planner[p] EXCEPT !.pc = "deleted"] EXCEPT !.doomed = doomed] \in PlannerType
        BY <1>0 DEF PlannerType
      <4>4. QED
        BY <4>2, <4>3
    <3>4. CASE DropPlan(p)
      <4>1. Unasked \in PlannerType
        BY DEF Unasked, PlannerType
      <4>2. QED
        BY <3>4, <4>1 DEF DropPlan
    <3>5. QED
      BY <1>1, <3>1, <3>2, <3>3, <3>4
  <2>3. planner' \in [Planner -> PlannerType]
    BY <1>0, <2>2
  <2>4. QED
    BY <2>1, <2>3, PlannerKeeps
<1>2. ASSUME NEW p \in Planner, NEW r \in Plan, NEW date \in {"later", "due"}, StorePlan(p, r, date)
      PROVE PlanInv'
  <2>1. PICK doomed \in SUBSET Plan :
           /\ plan' = [s \in Plan |-> IF s = r THEN date ELSE IF s \in doomed THEN "none" ELSE plan[s]]
           /\ promoted' = promoted \ (doomed \cup {r})
           /\ slipped' = Slips(date = "due")
           /\ planner' = [planner EXCEPT ![p] = Unasked]
           /\ UNCHANGED <<lead, queued, job>>
    BY <1>0, <1>2 DEF StorePlan, PlannerType
  <2>2. plan' \in [Plan -> PlanState] /\ promoted' \subseteq Plan
    BY <1>0, <2>1 DEF PlanState
  <2>3. planner' \in [Planner -> PlannerType]
    BY <1>0, <2>1 DEF Unasked, PlannerType
  <2>4. slipped' \in BOOLEAN /\ (~slipped' => ~slipped /\ (job = "inserted" => date # "due"))
    BY <2>1, SlipsIs
  <2>5. job = "inserted" /\ ~slipped' =>
            \A s \in Plan : plan'[s] = "due" => plan[s] = "due" /\ (s \in promoted => s \in promoted')
    BY <2>1, <2>4
  <2>6. QED
    BY <1>0, <2>1, <2>2, <2>3, <2>4, <2>5, RowsKeep
<1>3. CASE ClearPlan \/ CancelPlans \/ MarkPromoted \/ StopJob
  <2>1. plan' \in [Plan -> PlanState] /\ \A r \in Plan : plan'[r] = "due" => plan[r] = "due" /\ promoted' = promoted
    BY <1>0, <1>3 DEF ClearPlan, CancelPlans, MarkPromoted, StopJob, PlanState
  <2>2. /\ promoted' \subseteq Plan /\ planner' = planner /\ slipped' = slipped /\ UNCHANGED <<lead, queued>>
        /\ job' \in {"idle", "inserted"} /\ (job' = "inserted" => job = "inserted")
    BY <1>0, <1>3 DEF ClearPlan, CancelPlans, MarkPromoted, StopJob
  <2>3. QED
    BY <1>0, <2>1, <2>2, RowsKeep
<1>4. ASSUME NEW r \in Plan, FallsDue(r) PROVE PlanInv'
  <2>1. slipped' = Slips(TRUE)
    BY <1>4 DEF FallsDue
  <2>2. slipped' \in BOOLEAN /\ (~slipped' => job # "inserted")
    BY <2>1, SlipsIs
  <2>3. plan' \in [Plan -> PlanState]
    BY <1>0, <1>4 DEF FallsDue, PlanState
  <2>4. QED
    BY <1>0, <1>4, <2>2, <2>3, RowsKeep DEF FallsDue
<1>5. ASSUME NEW clicked \in BOOLEAN, LeaveList(clicked) PROVE PlanInv'
  <2>1. lead' = [lead EXCEPT !.gone = TRUE, !.ready = lead.ready /\ ~clicked]
    BY <1>5 DEF LeaveList
  <2>2. lead' \in LeadType /\ lead'.sent = lead.sent /\ lead'.gone
    BY <1>0, <2>1 DEF LeadType
  <2>3. plan' \in [Plan -> PlanState] /\ \A r \in Plan : plan'[r] = "due" => plan[r] = "due"
    BY <1>0, <1>5 DEF LeaveList, PlanState
  <2>4. QED
    BY <1>0, <1>5, <2>2, <2>3, LeadKeeps DEF LeaveList, Eligible
<1>6. ASSUME NEW ready \in BOOLEAN, NEW marketing \in BOOLEAN, SetLead(ready, marketing) PROVE PlanInv'
  <2>1. lead' = [lead EXCEPT !.ready = ready, !.marketing = marketing]
    BY <1>6 DEF SetLead
  <2>2. lead' \in LeadType /\ lead'.sent = lead.sent
    BY <1>0, <2>1 DEF LeadType
  <2>3. (Eligible(lead') /\ ~Eligible(lead)) \in BOOLEAN
    BY <1>0, <2>2 DEF Eligible, LeadType
  <2>4. /\ slipped' \in BOOLEAN
        /\ ~slipped' => ~slipped /\ (job = "inserted" => ~(Eligible(lead') /\ ~Eligible(lead)))
    BY <1>6, <2>3, SlipsIs DEF SetLead
  <2>5. QED
    BY <1>0, <1>6, <2>2, <2>4, LeadKeeps DEF SetLead
<1>7. CASE Queue
  BY <1>0, <1>7, LeadKeeps DEF Queue
<1>8. ASSUME NEW gone \in BOOLEAN, Dequeue(gone) PROVE PlanInv'
  <2>1. lead' = [lead EXCEPT !.sent = gone] /\ queued /\ ~queued'
    BY <1>8 DEF Dequeue
  <2>2. lead' \in LeadType /\ (Eligible(lead') => Eligible(lead))
    BY <1>0, <2>1 DEF LeadType, Eligible
  <2>3. QED
    BY <1>0, <1>8, <2>1, <2>2, LeadKeeps DEF Dequeue
<1>9. CASE Promote
  <2>1. /\ promoted' = {r \in Plan : Promotable(r)} /\ UNCHANGED <<plan, lead, planner>>
        /\ job' = "inserted" /\ slipped' = FALSE
        /\ queued' = (queued \/ \E r \in Plan : Promotable(r))
    BY <1>9 DEF Promote
  <2>2. queued' \in BOOLEAN /\ (queued' => ~lead.sent)
    BY <1>0, <2>1 DEF Promotable, Eligible
  <2>3. DueIsPromoted'
    BY <2>1 DEF DueIsPromoted, Promotable
  <2>4. PlanTypeOK'
    BY <1>0, <2>1, <2>2 DEF PlanTypeOK, PlanState, LeadType, PlannerType
  <2>5. QED
    BY <2>1, <2>2, <2>3, <2>4 DEF PlanInv, QueuedIsUnsent
<1>10. CASE UNCHANGED planVars
  BY <1>10 DEF planVars, PlanInv, PlanTypeOK, DueIsPromoted, Promotable, QueuedIsUnsent
<1>11. QED
  BY <1>1, <1>2, <1>3, <1>4, <1>5, <1>6, <1>7, <1>8, <1>9, <1>10 DEF PlanNext

LEMMA PlanTypes == PlanSpec => []PlanTypeOK
<1>1. PlanInv => PlanTypeOK
  BY DEF PlanInv
<1>2. QED
  BY <1>1, PlanInvHolds, PlanInvKept, PTL DEF PlanSpec

\* A planned sending is marked as sent only when its company was put into the
\* queue, or found there, or when it slipped in between the two statements.
THEOREM MarkedWasQueued == PlanSpec => PlannedIsQueued
<1>1. PlanInv /\ [PlanNext]_planVars =>
        [\A r \in Plan : plan[r] # "sent" /\ plan'[r] = "sent" => r \in promoted \/ slipped]_planVars
  <2> SUFFICES ASSUME PlanInv, PlanNext, NEW r \in Plan, plan[r] # "sent", plan'[r] = "sent"
               PROVE  r \in promoted \/ slipped
    OBVIOUS
  <2>0. plan \in [Plan -> PlanState]
    BY DEF PlanInv, PlanTypeOK, PlanState
  <2>1. MarkPromoted
    BY <2>0 DEF PlanNext, AskPlan, StartDelete, DeletePlans, DropPlan, StorePlan, ClearPlan, FallsDue,
                CancelPlans, LeaveList, SetLead, Queue, Dequeue, Promote, StopJob
  <2>2. job = "inserted" /\ Markable(r)
    BY <2>1 DEF MarkPromoted
  <2>3. QED
    BY <2>2 DEF PlanInv, DueIsPromoted, Markable, Promotable
<1>2. QED
  BY <1>1, PlanInvHolds, PlanInvKept, PTL DEF PlanSpec, PlannedIsQueued

(***************************************************************************)
(* The spreading over business days                                        *)
(***************************************************************************)

\* The Monday after is no weekend, not before, and later for a later day.
LEMMA ToMondayIs ==
    /\ \A d \in Nat : ToMonday(d) \in Nat /\ ToMonday(d) >= d /\ ~Weekend(ToMonday(d))
    /\ \A d, e \in Nat : d <= e => ToMonday(d) <= ToMonday(e)
<1>1. \A d \in Nat : ToMonday(d) \in Nat /\ ToMonday(d) >= d /\ ~Weekend(ToMonday(d))
  BY DEF ToMonday, Weekend, DayOfWeek
<1>2. \A d, e \in Nat : d <= e => ToMonday(d) <= ToMonday(e)
  BY DEF ToMonday, Weekend, DayOfWeek
<1>3. QED
  BY <1>1, <1>2

\* More business days are more days.
LEMMA WeeksAreDays ==
    /\ \A n \in Nat : (n \div 5) * 7 + (n % 5) \in Nat
    /\ \A n, m \in Nat : n <= m => (n \div 5) * 7 + (n % 5) <= (m \div 5) * 7 + (m % 5)
<1>1. \A n \in Nat : (n \div 5) * 7 + (n % 5) \in Nat
  OBVIOUS
<1>2. \A n, m \in Nat : n <= m => (n \div 5) * 7 + (n % 5) <= (m \div 5) * 7 + (m % 5)
  OBVIOUS
<1>3. QED
  BY <1>1, <1>2

LEMMA AddBusinessDaysIs ==
    ASSUME NEW d \in Nat
    PROVE  /\ \A n \in Nat : /\ AddBusinessDays(d, n) \in Nat /\ AddBusinessDays(d, n) >= d
                             /\ ~Weekend(AddBusinessDays(d, n))
           /\ \A n, m \in Nat : n <= m => AddBusinessDays(d, n) <= AddBusinessDays(d, m)
<1> DEFINE days(n) == (n \div 5) * 7 + (n % 5)
           base == ToMonday(d)
<1>1. base \in Nat /\ base >= d
  BY ToMondayIs
<1>2. \A n \in Nat : days(n) \in Nat
  BY WeeksAreDays
<1>3. \A n, m \in Nat : n <= m => days(n) <= days(m)
  BY WeeksAreDays
<1>4. \A n \in Nat : AddBusinessDays(d, n) = ToMonday(base + days(n))
  BY <1>1 DEF AddBusinessDays
<1> HIDE DEF days, base
<1>5. ASSUME NEW n \in Nat
      PROVE  /\ AddBusinessDays(d, n) \in Nat /\ AddBusinessDays(d, n) >= d
             /\ ~Weekend(AddBusinessDays(d, n))
  <2>1. base + days(n) \in Nat /\ base + days(n) >= d
    BY <1>1, <1>2
  <2>2. ToMonday(base + days(n)) \in Nat /\ ToMonday(base + days(n)) >= base + days(n)
        /\ ~Weekend(ToMonday(base + days(n)))
    BY <2>1, ToMondayIs
  <2>3. QED
    BY <1>4, <2>1, <2>2
<1>6. ASSUME NEW n \in Nat, NEW m \in Nat, n <= m
      PROVE  AddBusinessDays(d, n) <= AddBusinessDays(d, m)
  <2>1. base + days(n) \in Nat /\ base + days(m) \in Nat /\ base + days(n) <= base + days(m)
    BY <1>1, <1>2, <1>3, <1>6
  <2>2. ToMonday(base + days(n)) <= ToMonday(base + days(m))
    BY <2>1, ToMondayIs
  <2>3. QED
    BY <1>4, <2>2
<1>7. QED
  BY <1>5, <1>6

LEMMA OffsetIs ==
    ASSUME NEW p \in Nat \ {0}
    PROVE  /\ \A i \in Nat : OffsetOf(i, p) \in Nat
           /\ \A i, j \in Nat : i <= j => OffsetOf(i, p) <= OffsetOf(j, p)
<1>1. \A i \in Nat : i \div p \in Nat
  OBVIOUS
<1>2. \A i, j \in Nat : i <= j => i \div p <= j \div p
  OBVIOUS
<1>3. QED
  BY <1>1, <1>2 DEF OffsetOf

\* The plan is the answer to the request it belongs to.
SpreadInv ==
    /\ batch \in [start : Starts, count : Counts, perDay : Paces]
    /\ planned = Answer(batch.start, batch.count, batch.perDay)

LEMMA SpreadInvKept == SpreadInv /\ [SpreadNext]_spreadVars => SpreadInv'
<1> SUFFICES ASSUME SpreadInv, [SpreadNext]_spreadVars PROVE SpreadInv'
  OBVIOUS
<1>1. CASE SpreadNext
  BY <1>1 DEF SpreadNext, SpreadInv
<1>2. CASE UNCHANGED spreadVars
  BY <1>2 DEF spreadVars, SpreadInv
<1>3. QED
  BY <1>1, <1>2

LEMMA SpreadFollows == SpreadInv => SpreadTypeOK /\ BusinessDaysInOrder
<1> SUFFICES ASSUME SpreadInv PROVE SpreadTypeOK /\ BusinessDaysInOrder
  OBVIOUS
<1>1. batch.start \in Nat /\ batch.count \in Nat /\ batch.perDay \in Nat \ {0}
  BY SpreadConstants DEF SpreadInv
<1> DEFINE places == 0..(batch.count - 1)
<1>2. \A i \in places : i \in Nat /\ OffsetOf(i, batch.perDay) \in Nat
  <2>1. \A i \in places : i \in Nat
    BY <1>1
  <2>2. \A i \in Nat : OffsetOf(i, batch.perDay) \in Nat
    BY <1>1, OffsetIs
  <2>3. QED
    BY <2>1, <2>2
<1>3. /\ planned = [i \in places |-> AddBusinessDays(batch.start, OffsetOf(i, batch.perDay))]
      /\ DOMAIN planned = places
  BY DEF SpreadInv, Answer
<1> HIDE DEF places
<1>4. \A i \in places : planned[i] \in Nat /\ planned[i] >= batch.start /\ ~Weekend(planned[i])
  <2> TAKE i \in places
  <2>1. OffsetOf(i, batch.perDay) \in Nat /\ batch.start \in Nat
    BY <1>1, <1>2
  <2>2. planned[i] = AddBusinessDays(batch.start, OffsetOf(i, batch.perDay))
    BY <1>3
  <2>3. QED
    BY <2>1, <2>2, AddBusinessDaysIs
<1>5. ASSUME NEW i \in places, NEW j \in places, i <= j PROVE planned[i] <= planned[j]
  <2>1. OffsetOf(i, batch.perDay) <= OffsetOf(j, batch.perDay)
    BY <1>1, <1>2, <1>5, OffsetIs
  <2>2. QED
    BY <1>1, <1>2, <1>3, <2>1, AddBusinessDaysIs
<1>6. SpreadTypeOK
  BY <1>3, <1>4 DEF SpreadInv, SpreadTypeOK, places
<1>7. QED
  BY <1>3, <1>4, <1>5, <1>6 DEF BusinessDaysInOrder

\* For any start, number of companies and pace, none is planned on a weekend or
\* before the start, and the days follow the order of the list.
THEOREM SpreadKeepsOrder == SpreadSpec => [](SpreadTypeOK /\ BusinessDaysInOrder)
<1>1. SpreadInit => SpreadInv
  BY DEF SpreadInit, SpreadInv
<1>2. QED
  BY <1>1, SpreadInvKept, SpreadFollows, PTL DEF SpreadSpec

\* The n-th business day of the weeks that begin on the Monday b.
DayAt(b, n) == b + (n \div 5) * 7 + (n % 5)

\* From a Monday on these are the days that are no weekend, in their order.
LEMMA DaysOfWeeks ==
    ASSUME NEW b \in Nat, DayOfWeek(b) = 1
    PROVE  /\ \A n \in Nat : DayAt(b, n) \in Nat /\ DayAt(b, n) >= b /\ ~Weekend(DayAt(b, n))
           /\ \A n, m \in Nat : n < m => DayAt(b, n) < DayAt(b, m)
           /\ \A x \in Nat : x >= b /\ ~Weekend(x) => \E n \in Nat : x = DayAt(b, n)
<1>1. ASSUME NEW n \in Nat
      PROVE  DayAt(b, n) \in Nat /\ DayAt(b, n) >= b /\ ~Weekend(DayAt(b, n))
  <2>1. PICK k \in Nat, r \in 0..4 : n = 5 * k + r /\ n \div 5 = k /\ n % 5 = r
    OBVIOUS
  <2>2. DayAt(b, n) = b + k * 7 + r
    BY <2>1 DEF DayAt
  <2>3. PICK j \in Nat : b = 7 * j + 1
    BY DEF DayOfWeek
  <2>4. DayAt(b, n) = 7 * (j + k) + (r + 1) /\ j + k \in Nat /\ r + 1 \in 1..5
    BY <2>2, <2>3
  <2>5. QED
    BY <2>2, <2>4 DEF Weekend, DayOfWeek
<1>2. \A n, m \in Nat : n < m => DayAt(b, n) < DayAt(b, m)
  BY DEF DayAt
<1>3. ASSUME NEW x \in Nat, x >= b, ~Weekend(x)
      PROVE  \E n \in Nat : x = DayAt(b, n)
  <2>1. PICK k \in Nat, r \in 0..6 : x - b = 7 * k + r
    <3>1. ASSUME NEW y \in Nat PROVE \E k \in Nat, r \in 0..6 : y = 7 * k + r
      <4>1. y \div 7 \in Nat /\ y % 7 \in 0..6
        OBVIOUS
      <4>2. y = 7 * (y \div 7) + (y % 7)
        OBVIOUS
      <4>3. QED
        BY <4>1, <4>2
    <3>2. x - b \in Nat
      BY <1>3
    <3>3. QED
      BY <3>1, <3>2
  <2>2. r \in 0..4
    BY <1>3, <2>1 DEF Weekend, DayOfWeek
  <2>3. 5 * k + r \in Nat /\ (5 * k + r) \div 5 = k /\ (5 * k + r) % 5 = r
    BY <2>2
  <2>4. x = DayAt(b, 5 * k + r)
    BY <2>1, <2>2, <2>3 DEF DayAt
  <2>5. QED
    BY <2>3, <2>4
<1>4. QED
  BY <1>1, <1>2, <1>3

\* Up to the n-th one there are n + 1 of them, counted from day d on when there
\* is only a weekend between d and the Monday.
LEMMA DaysAreCounted ==
    ASSUME NEW b \in Nat, DayOfWeek(b) = 1, NEW d \in Nat, d <= b,
           \A x \in d..(b - 1) : Weekend(x),
           NEW n \in Nat
    PROVE  Cardinality({x \in d..DayAt(b, n) : ~Weekend(x)}) = n + 1
<1> DEFINE days == {x \in d..DayAt(b, n) : ~Weekend(x)}
           f == [i \in 1..(n + 1) |-> DayAt(b, i - 1)]
<1>1. \A i \in 1..(n + 1) : i - 1 \in Nat /\ i - 1 <= n
  OBVIOUS
<1>2. \A m \in Nat : m <= n => DayAt(b, m) \in days
  <2>1. ASSUME NEW m \in Nat, m <= n PROVE DayAt(b, m) <= DayAt(b, n)
    <3>1. m = n \/ m < n
      BY <2>1
    <3>2. DayAt(b, m) \in Nat /\ DayAt(b, n) \in Nat
      BY DaysOfWeeks
    <3>3. QED
      BY <3>1, <3>2, DaysOfWeeks
  <2>2. \A m \in Nat : DayAt(b, m) \in Nat /\ DayAt(b, m) >= b /\ ~Weekend(DayAt(b, m))
    BY DaysOfWeeks
  <2>3. QED
    BY <2>1, <2>2
<1>3. f \in [1..(n + 1) -> days]
  BY <1>1, <1>2
<1>4. ASSUME NEW i \in 1..(n + 1), NEW j \in 1..(n + 1), f[i] = f[j] PROVE i = j
  <2>1. DayAt(b, i - 1) = DayAt(b, j - 1)
    BY <1>4
  <2>2. DayAt(b, i - 1) \in Nat /\ DayAt(b, j - 1) \in Nat
    BY <1>1, DaysOfWeeks
  <2>3. ~(i - 1 < j - 1) /\ ~(j - 1 < i - 1)
    BY <1>1, <2>1, <2>2, DaysOfWeeks
  <2>4. QED
    BY <2>3
<1>5. ASSUME NEW x \in days PROVE \E i \in 1..(n + 1) : f[i] = x
  <2>1. DayAt(b, n) \in Nat
    BY DaysOfWeeks
  <2>2. x \in Nat /\ x >= d /\ x <= DayAt(b, n) /\ ~Weekend(x)
    BY <2>1
  <2>3. x >= b
    BY <2>2
  <2>4. PICK m \in Nat : x = DayAt(b, m)
    BY <2>2, <2>3, DaysOfWeeks
  <2>5. ~(n < m)
    BY <2>1, <2>2, <2>4, DaysOfWeeks
  <2>6. m + 1 \in 1..(n + 1) /\ (m + 1) - 1 = m
    BY <2>5
  <2>7. QED
    BY <2>4, <2>6
<1>6. f \in Bijection(1..(n + 1), days)
  <2> HIDE DEF f, days
  <2> QED
    BY <1>3, <1>4, <1>5 DEF Bijection, Injection, Surjection, IsInjective
<1>7. QED
  <2> HIDE DEF f, days
  <2>1. n + 1 \in Nat /\ ExistsBijection(1..(n + 1), days)
    BY <1>6 DEF ExistsBijection
  <2>2. Cardinality(days) = n + 1
    BY <2>1, FS_CountingElements
  <2>3. QED
    BY <2>2 DEF days

\* The weeks and the remainder are what counting finds, from a Monday or from
\* the weekend before it.
LEMMA CountingFinds ==
    ASSUME NEW d \in Nat, DayOfWeek(ToMonday(d)) = 1, NEW n \in Nat
    PROVE  AddBusinessDays(d, n) = NthBusinessDay(d, n)
<1> DEFINE b == ToMonday(d)
<1>1. b \in Nat /\ d <= b /\ b <= d + 2 /\ DayOfWeek(b) = 1 /\ \A x \in d..(b - 1) : Weekend(x)
  BY DEF ToMonday, DayOfWeek, Weekend
<1> HIDE DEF b
<1>2. AddBusinessDays(d, n) = DayAt(b, n)
  <2>1. DayAt(b, n) \in Nat /\ ~Weekend(DayAt(b, n))
    BY <1>1, DaysOfWeeks
  <2>2. ToMonday(DayAt(b, n)) = DayAt(b, n)
    BY <2>1 DEF ToMonday, Weekend
  <2>3. QED
    BY <2>2 DEF AddBusinessDays, DayAt, b
<1> DEFINE Nth(e) == ~Weekend(e) /\ Cardinality({x \in d..e : ~Weekend(x)}) = n + 1
<1>3. DayAt(b, n) \in d..(d + 2 * n + 4) /\ Nth(DayAt(b, n))
  <2>1. DayAt(b, n) \in Nat /\ DayAt(b, n) >= b /\ ~Weekend(DayAt(b, n))
    BY <1>1, DaysOfWeeks
  <2>2. DayAt(b, n) <= b + 2 * n
    BY <1>1 DEF DayAt
  <2>3. Cardinality({x \in d..DayAt(b, n) : ~Weekend(x)}) = n + 1
    BY <1>1, DaysAreCounted
  <2>4. DayAt(b, n) \in d..(d + 2 * n + 4)
    BY <1>1, <2>1, <2>2
  <2>5. QED
    BY <2>1, <2>3, <2>4
<1>4. ASSUME NEW e \in d..(d + 2 * n + 4), Nth(e) PROVE e = DayAt(b, n)
  <2>1. e \in Nat /\ e >= d /\ ~Weekend(e)
    BY <1>4
  <2>2. e >= b
    BY <1>1, <2>1
  <2>3. PICK m \in Nat : e = DayAt(b, m)
    BY <1>1, <2>1, <2>2, DaysOfWeeks
  <2>4. Cardinality({x \in d..e : ~Weekend(x)}) = m + 1
    BY <1>1, <2>3, DaysAreCounted
  <2>5. m + 1 = n + 1
    BY <1>4, <2>4
  <2>6. m = n
    BY <2>5
  <2>7. QED
    BY <2>3, <2>6
<1>5. (CHOOSE e \in d..(d + 2 * n + 4) : Nth(e)) = DayAt(b, n)
  <2> HIDE DEF Nth
  <2> QED
    BY <1>3, <1>4
<1>6. QED
  BY <1>2, <1>5 DEF NthBusinessDay

\* For any start that is a Monday or on a weekend, any number of companies and
\* any pace, each company is planned on the business day that counting finds.
THEOREM SpreadFromMonday == SpreadSpec => []MondayCounted
<1>1. SpreadInit => SpreadInv
  BY DEF SpreadInit, SpreadInv
<1>2. SpreadInv => MondayCounted
  <2> SUFFICES ASSUME SpreadInv, DayOfWeek(ToMonday(batch.start)) = 1, NEW i \in DOMAIN planned
               PROVE  planned[i] = NthBusinessDay(batch.start, OffsetOf(i, batch.perDay))
    BY DEF MondayCounted
  <2>1. batch.start \in Nat /\ batch.count \in Nat /\ batch.perDay \in Nat \ {0}
    BY SpreadConstants DEF SpreadInv
  <2>2. i \in 0..(batch.count - 1) /\ planned[i] = AddBusinessDays(batch.start, OffsetOf(i, batch.perDay))
    BY DEF SpreadInv, Answer
  <2>3. i \in Nat
    BY <2>1, <2>2
  <2>4. \A n \in Nat : OffsetOf(n, batch.perDay) \in Nat
    BY <2>1, OffsetIs
  <2>5. OffsetOf(i, batch.perDay) \in Nat
    BY <2>3, <2>4
  <2>6. QED
    BY <2>1, <2>2, <2>5, CountingFinds
<1>3. QED
  BY <1>1, <1>2, SpreadInvKept, PTL DEF SpreadSpec

(***************************************************************************)
(* The funnel                                                              *)
(***************************************************************************)

\* Where each stage stands in FUNNEL_STAGES.
LEMMA Stages ==
    /\ StageName = {"prospect", "contacted", "called", "booked", "demo", "won", "lost"}
    /\ IndexOf("prospect") = 1 /\ IndexOf("contacted") = 2 /\ IndexOf("called") = 3
    /\ IndexOf("booked") = 4 /\ IndexOf("demo") = 5 /\ IndexOf("won") = 6 /\ IndexOf("lost") = 7
    /\ Len(FUNNEL_STAGES) = 7
<1>1. DOMAIN FUNNEL_STAGES = 1..7 /\ Len(FUNNEL_STAGES) = 7
  BY DEF FUNNEL_STAGES
<1>2. /\ FUNNEL_STAGES[1] = "prospect" /\ FUNNEL_STAGES[2] = "contacted" /\ FUNNEL_STAGES[3] = "called"
      /\ FUNNEL_STAGES[4] = "booked" /\ FUNNEL_STAGES[5] = "demo" /\ FUNNEL_STAGES[6] = "won"
      /\ FUNNEL_STAGES[7] = "lost"
  BY DEF FUNNEL_STAGES
<1>3. \A i \in 1..7 : i \in {1, 2, 3, 4, 5, 6, 7}
  OBVIOUS
<1>4. StageName = {"prospect", "contacted", "called", "booked", "demo", "won", "lost"}
  BY <1>1, <1>2, <1>3 DEF StageName
<1>5. \A n \in 1..7 : IndexOf(FUNNEL_STAGES[n]) = n
  <2> TAKE n \in 1..7
  <2>1. \A i \in 1..7 : FUNNEL_STAGES[i] = FUNNEL_STAGES[n] => i = n
    BY <1>2, <1>3
  <2>2. QED
    BY <1>1, <2>1 DEF IndexOf
<1>6. QED
  BY <1>1, <1>2, <1>4, <1>5

\* Advanced goes to the later of two stages.
LEMMA AdvancedIsFurther ==
    ASSUME NEW s \in StageName, NEW target \in StageName
    PROVE  /\ Advanced(s, target) \in StageName
           /\ IndexOf(s) \in 1..7 /\ IndexOf(Advanced(s, target)) \in 1..7
           /\ IndexOf(Advanced(s, target)) >= IndexOf(s)
           /\ IndexOf(Advanced(s, target)) >= IndexOf(target)
           /\ Advanced(s, target) = s \/ IndexOf(s) < IndexOf(target)
  BY Stages DEF Advanced

\* What an outcome makes of the stage that was read: a stage, not an earlier
\* one, and "won" stays "won"; a booking and a demo reach their stage.
LEMMA NewStageIs ==
    ASSUME NEW kind \in Kind, NEW s \in StageName
    PROVE  /\ NewStage(kind, s) \in StageName
           /\ IndexOf(NewStage(kind, s)) >= IndexOf(s)
           /\ s = "won" => NewStage(kind, s) = s
           /\ kind = "prenotato" => IndexOf(NewStage(kind, s)) >= IndexOf("booked")
           /\ kind = "effettuata" => IndexOf(NewStage(kind, s)) >= IndexOf("demo")
<1> USE Stages DEF NewStage
<1>1. CASE kind = "not_interested"
  BY <1>1
<1>2. CASE kind \in {"interested", "other_call"}
  BY <1>2, AdvancedIsFurther
<1>3. CASE kind = "send"
  BY <1>3
<1>4. CASE kind = "no_show"
  BY <1>4
<1>5. CASE kind = "prenotato"
  <2>1. StageByStatus(kind) = "booked"
    BY <1>5 DEF StageByStatus
  <2>2. NewStage(kind, s) = Advanced(s, "booked")
    BY <1>5, <2>1
  <2>3. QED
    BY <1>5, <2>2, AdvancedIsFurther
<1>6. CASE kind = "effettuata"
  <2>1. StageByStatus(kind) = "demo"
    BY <1>6 DEF StageByStatus
  <2>2. NewStage(kind, s) = Advanced(s, "demo")
    BY <1>6, <2>1
  <2>3. QED
    BY <1>6, <2>2, AdvancedIsFurther
<1>7. QED
  BY <1>1, <1>2, <1>3, <1>4, <1>5, <1>6 DEF Kind

\* The strengthening: a request that is to tell the CMS of a booking or a demo
\* has taken the company that far.
HasReached(kind, n) ==
    /\ kind = "prenotato" => n >= IndexOf("booked")
    /\ kind = "effettuata" => n >= IndexOf("demo")

FunnelInv ==
    /\ FunnelTypeOK /\ OpportunityBacked
    /\ \A a \in Agent : request[a].pc = "written" => HasReached(request[a].kind, furthest)

\* Whatever a step does to the stage, the furthest one is not forgotten.
LEMMA FurtherKeeps ==
    ASSUME NEW s \in StageName, NEW n \in 1..7
    PROVE  /\ Further(n, s) \in IndexOf(s)..7
           /\ Further(n, s) >= n
  BY Stages DEF Further

LEMMA FunnelInvHolds == FunnelInit => FunnelInv
  BY Stages DEF FunnelInit, FunnelInv, FunnelTypeOK, OpportunityBacked, Waiting, Kind

\* ... so that what was reached stays reached.
LEMMA StillReached ==
    ASSUME FunnelInv, furthest' \in Nat, furthest' >= furthest
    PROVE  /\ \A kind : HasReached(kind, furthest) => HasReached(kind, furthest')
           /\ opportunity' = opportunity => OpportunityBacked'
  BY Stages DEF FunnelInv, FunnelTypeOK, HasReached, OpportunityBacked

LEMMA FunnelInvKept == FunnelInv /\ [FunnelNext]_funnelVars => FunnelInv'
<1> SUFFICES ASSUME FunnelInv, [FunnelNext]_funnelVars PROVE FunnelInv'
  OBVIOUS
<1>0. /\ stage \in StageName /\ furthest \in 1..7 /\ furthest \in IndexOf(stage)..7
      /\ request \in [Agent -> [pc : {"idle", "read", "written"}, kind : Kind, read : StageName]]
      /\ Waiting \in [pc : {"idle", "read", "written"}, kind : Kind, read : StageName]
      /\ Waiting.pc = "idle"
  BY Stages DEF FunnelInv, FunnelTypeOK, Waiting, Kind
<1>1. ASSUME NEW a \in Agent, NEW kind \in Kind, ReadStage(a, kind) PROVE FunnelInv'
  <2>1. FunnelTypeOK'
    BY <1>0, <1>1 DEF ReadStage, FunnelInv, FunnelTypeOK
  <2>2. \A b \in Agent : request'[b].pc = "written" => request'[b] = request[b]
    BY <1>0, <1>1 DEF ReadStage
  <2>3. QED
    BY <1>1, <2>1, <2>2 DEF ReadStage, FunnelInv, OpportunityBacked, HasReached
<1>2. ASSUME NEW a \in Agent, WriteStage(a) PROVE FunnelInv'
  <2> DEFINE r == request[a]
             new == NewStage(r.kind, r.read)
  <2>1. r.kind \in Kind /\ r.read \in StageName
    BY <1>0
  <2>2. /\ new \in StageName
        /\ r.kind = "prenotato" => IndexOf(new) >= IndexOf("booked")
        /\ r.kind = "effettuata" => IndexOf(new) >= IndexOf("demo")
    BY <2>1, NewStageIs
  <2>3. stage' = IF r.kind = "send" /\ r.read # "prospect" THEN stage ELSE new
    BY <1>2 DEF WriteStage
  <2>4. furthest' = Further(furthest, stage') /\ opportunity' = opportunity
    BY <1>2 DEF WriteStage
  <2>5. request' = [request EXCEPT ![a] = IF StageKey(r.kind) = "none" THEN Waiting
                                          ELSE [Waiting EXCEPT !.pc = "written", !.kind = r.kind]]
    BY <1>2 DEF WriteStage
  <2>6. [Waiting EXCEPT !.pc = "written", !.kind = r.kind]
            \in [pc : {"idle", "read", "written"}, kind : Kind, read : StageName]
    BY <2>1, Stages DEF Waiting
  <2>7. [Waiting EXCEPT !.pc = "written", !.kind = r.kind].kind = r.kind
    BY DEF Waiting
  <2> HIDE DEF r, new
  <2>8. stage' \in StageName
    BY <1>0, <2>2, <2>3
  <2>9. furthest' \in IndexOf(stage')..7 /\ furthest' >= furthest /\ furthest' \in Nat
    BY <1>0, <2>4, <2>8, FurtherKeeps, Stages
  <2>10. FunnelTypeOK'
    BY <1>0, <2>4, <2>5, <2>6, <2>8, <2>9, Stages DEF FunnelInv, FunnelTypeOK
  <2>11. OpportunityBacked' /\ \A kind : HasReached(kind, furthest) => HasReached(kind, furthest')
    BY <2>4, <2>9, StillReached
  <2>12. HasReached(r.kind, furthest')
    BY <2>2, <2>3, <2>8, <2>9, Stages DEF HasReached
  <2>13. \A b \in Agent : b # a => request'[b] = request[b]
    BY <2>5, <1>0
  <2>14. request'[a].pc = "written" => request'[a].kind = r.kind
    BY <2>5, <2>7, <1>0
  <2>15. \A b \in Agent : request'[b].pc = "written" => HasReached(request'[b].kind, furthest')
    BY <2>11, <2>12, <2>13, <2>14 DEF FunnelInv
  <2>16. QED
    BY <2>10, <2>11, <2>15 DEF FunnelInv
<1>3. ASSUME NEW a \in Agent, NEW works \in BOOLEAN, PostOpportunity(a, works) PROVE FunnelInv'
  <2>1. /\ request[a].pc = "written" /\ request[a].kind \in Kind /\ HasReached(request[a].kind, furthest)
        /\ opportunity' = IF works THEN StageKey(request[a].kind) ELSE opportunity
        /\ stage' = stage /\ furthest' = furthest
        /\ request' = [request EXCEPT ![a] = Waiting]
    BY <1>0, <1>3 DEF PostOpportunity, FunnelInv
  <2>2. \A kind \in Kind : /\ StageKey(kind) \in {"none", "interessato", "booked", "demo"}
                           /\ StageKey(kind) = "booked" => kind = "prenotato"
                           /\ StageKey(kind) = "demo" => kind = "effettuata"
    BY DEF StageKey, Kind
  <2>3. FunnelTypeOK'
    BY <1>0, <2>1, <2>2 DEF FunnelInv, FunnelTypeOK
  <2>4. OpportunityBacked'
    BY <2>1, <2>2 DEF FunnelInv, OpportunityBacked, HasReached
  <2>5. \A b \in Agent : request'[b].pc = "written" => request'[b] = request[b]
    BY <1>0, <2>1
  <2>6. QED
    BY <2>1, <2>3, <2>4, <2>5 DEF FunnelInv, HasReached
<1>4. ASSUME NEW a \in Agent, AbandonRequest(a) PROVE FunnelInv'
  <2>1. FunnelTypeOK'
    BY <1>0, <1>4 DEF AbandonRequest, FunnelInv, FunnelTypeOK
  <2>2. \A b \in Agent : request'[b].pc = "written" => request'[b] = request[b]
    BY <1>0, <1>4 DEF AbandonRequest
  <2>3. QED
    BY <1>4, <2>1, <2>2 DEF AbandonRequest, FunnelInv, OpportunityBacked, HasReached
<1>5. ASSUME NEW s \in StageName, SetStage(s) PROVE FunnelInv'
  <2>1. furthest' \in IndexOf(s)..7 /\ furthest' >= furthest /\ furthest' \in Nat
    BY <1>0, <1>5, FurtherKeeps, Stages DEF SetStage
  <2>2. FunnelTypeOK'
    BY <1>0, <1>5, <2>1, Stages DEF SetStage, FunnelInv, FunnelTypeOK
  <2>3. QED
    BY <1>5, <2>1, <2>2, StillReached DEF SetStage, FunnelInv
<1>6. CASE ReplyOpportunity
  BY <1>6, Stages DEF ReplyOpportunity, FunnelInv, FunnelTypeOK, OpportunityBacked, HasReached
<1>7. CASE UNCHANGED funnelVars
  BY <1>7 DEF funnelVars, FunnelInv, FunnelTypeOK, OpportunityBacked, HasReached
<1>8. QED
  BY <1>1, <1>2, <1>3, <1>4, <1>5, <1>6, <1>7 DEF FunnelNext

\* The CMS is never told of a booking or a demo that the company has not had.
THEOREM CmsIsNotAhead == FunnelSpec => [](FunnelTypeOK /\ OpportunityBacked)
<1>1. FunnelInv => FunnelTypeOK /\ OpportunityBacked
  BY DEF FunnelInv
<1>2. QED
  BY <1>1, FunnelInvHolds, FunnelInvKept, PTL DEF FunnelSpec

\* A stage goes back, or leaves "won", by the explicit request only, or by one
\* that overwrites another stage than it has read.
THEOREM StageGoesForward == FunnelSpec => StageMovesForward
<1>1. FunnelInv /\ [FunnelNext]_funnelVars =>
        [stage' # stage /\ (IndexOf(stage') < IndexOf(stage) \/ stage = "won") =>
          \/ \E s \in StageName : SetStage(s)
          \/ \E a \in Agent : WriteStage(a) /\ request[a].read # stage]_funnelVars
  <2> SUFFICES ASSUME FunnelInv, FunnelNext,
                      stage' # stage, IndexOf(stage') < IndexOf(stage) \/ stage = "won",
                      ~\E s \in StageName : SetStage(s)
               PROVE  \E a \in Agent : WriteStage(a) /\ request[a].read # stage
    OBVIOUS
  <2>1. PICK a \in Agent : WriteStage(a)
    BY Zenon DEF FunnelNext, ReadStage, PostOpportunity, AbandonRequest, ReplyOpportunity
  <2>2. request[a].kind \in Kind /\ request[a].read \in StageName
    BY DEF FunnelInv, FunnelTypeOK
  <2>3. stage' = NewStage(request[a].kind, request[a].read)
    BY <2>1 DEF WriteStage
  <2>4. request[a].read # stage
    BY <2>2, <2>3, NewStageIs, Stages
  <2>5. QED
    BY <2>1, <2>4
<1>2. QED
  BY <1>1, FunnelInvHolds, FunnelInvKept, PTL DEF FunnelSpec, StageMovesForward

(***************************************************************************)
(* The access                                                              *)
(***************************************************************************)

LoginType == [pc : {"idle", "found", "clearing", "cleared"}, doomed : SUBSET Link, since : SUBSET Link]

\* The strengthening of ServedWhileActive: of the requests that have come and
\* are not refused, those that found the user active are remembered; and so
\* are all of them while the user is active.
SeenActive ==
    /\ \A v \in Visit : visit[v] \in {"checked", "served"} => v \in wasActive
    /\ IsActive => \A v \in Visit : visit[v] # "idle" => v \in wasActive

\* ... and of OneLinkWorks: what a request is to delete is all that works of
\* the links it has seen.
ClearedIsDoomed ==
    \A v \in Visit : login[v].pc = "cleared" =>
        \A n \in Unused : n \in login[v].since => n \in login[v].doomed

SeenIsSent == \A v \in Visit : login[v].since \subseteq Sent

AccessShape ==
    /\ AccessTypeOK
    /\ login \in [Visit -> LoginType]

AccessInv == AccessShape /\ SeenActive /\ SeenIsSent /\ ClearedIsDoomed /\ OneLinkWorks

LEMMA AccessInvHolds == AccessInit => AccessInv
<1> SUFFICES ASSUME AccessInit PROVE AccessInv
  OBVIOUS
<1>1. NotAsking \in LoginType /\ NotAsking.pc = "idle" /\ NotAsking.since = {}
  BY DEF NotAsking, LoginType
<1>2. login \in [Visit -> LoginType] /\ \A v \in Visit : login[v].pc = "idle" /\ login[v].since = {}
  BY <1>1 DEF AccessInit
<1>3. AccessTypeOK
  BY <1>2 DEF AccessInit, AccessTypeOK, LoginType
<1>4. Unused = {}
  BY DEF AccessInit, Unused
<1>5. SeenActive
  BY DEF AccessInit, SeenActive
<1>6. QED
  BY <1>2, <1>3, <1>4, <1>5 DEF AccessInv, AccessShape, SeenIsSent, ClearedIsDoomed, OneLinkWorks

\* Links of which none begins to work, and none is forgotten.
NoLinkBegins ==
    /\ \A n \in Link : link'[n] = "unused" => link[n] = "unused"
    /\ \A n \in Link : link'[n] = "none" => link[n] = "none"

LEMMA LinksKeep ==
    ASSUME AccessInv, AccessShape', SeenActive', NoLinkBegins, UNCHANGED <<login, overlap>>
    PROVE  AccessInv'
<1>1. \A n \in Unused' : n \in Unused
  BY DEF Unused, NoLinkBegins
<1>2. ClearedIsDoomed'
  BY <1>1 DEF AccessInv, ClearedIsDoomed
<1>3. OneLinkWorks'
  BY <1>1 DEF AccessInv, OneLinkWorks
<1>4. SeenIsSent'
  BY DEF AccessInv, SeenIsSent, Sent, NoLinkBegins
<1>5. QED
  BY <1>2, <1>3, <1>4 DEF AccessInv

\* What the requests that sign somebody in do.
LEMMA LoginKeeps ==
    ASSUME AccessInv, NEW v \in Visit,
           AskLink(v) \/ StartClear(v) \/ ClearLinks(v) \/ DropLogin(v) \/ \E n \in Link : StoreLink(v, n)
    PROVE  AccessInv'
<1>0. /\ login \in [Visit -> LoginType] /\ login[v] \in LoginType /\ NotAsking \in LoginType
      /\ link \in [Link -> {"none", "unused", "used", "over"}]
  <2>1. NotAsking \in LoginType
    BY DEF NotAsking, LoginType
  <2>2. QED
    BY <2>1 DEF AccessInv, AccessShape, AccessTypeOK
<1>1. UNCHANGED <<user, audited, signed, token, known, visit, wasActive>>
  BY Zenon DEF AskLink, StartClear, ClearLinks, DropLogin, StoreLink
<1>2. SeenActive'
  BY <1>1 DEF AccessInv, SeenActive, IsActive
<1>3. ASSUME UNCHANGED <<link, overlap>>, NEW new \in LoginType, login' = [login EXCEPT ![v] = new],
             new.since \subseteq Sent,
             new.pc = "cleared" => \A n \in Unused : n \in new.since => n \in new.doomed
      PROVE AccessInv'
  <2>1. AccessShape'
    BY <1>0, <1>1, <1>3 DEF AccessInv, AccessShape, AccessTypeOK, LoginType
  <2>2. Unused' = Unused
    BY <1>3 DEF Unused
  <2>3. ClearedIsDoomed'
    BY <1>0, <1>3, <2>2 DEF AccessInv, ClearedIsDoomed
  <2>4. SeenIsSent'
    BY <1>0, <1>3 DEF AccessInv, SeenIsSent, Sent
  <2>5. QED
    BY <1>2, <1>3, <2>1, <2>2, <2>3, <2>4 DEF AccessInv, OneLinkWorks
<1>4. CASE AskLink(v)
  <2>1. login' = [login EXCEPT ![v] = [login[v] EXCEPT !.pc = "found"]] /\ UNCHANGED <<link, overlap>>
    BY <1>0, <1>4 DEF AskLink
  <2>2. [login[v] EXCEPT !.pc = "found"] \in LoginType
    BY <1>0 DEF LoginType
  <2>3. /\ [login[v] EXCEPT !.pc = "found"].pc # "cleared"
        /\ [login[v] EXCEPT !.pc = "found"].since \subseteq Sent
    BY <1>0 DEF LoginType, AccessInv, SeenIsSent
  <2>4. QED
    BY <1>3, <2>1, <2>2, <2>3
<1>5. CASE StartClear(v)
  <2> DEFINE new == [NotAsking EXCEPT !.pc = "clearing", !.since = Sent]
  <2>1. login' = [login EXCEPT ![v] = new] /\ UNCHANGED <<link, overlap>>
    BY <1>5 DEF StartClear
  <2>2. new \in LoginType /\ new.pc # "cleared" /\ new.since = Sent
    BY DEF NotAsking, LoginType, Sent
  <2>3. QED
    BY <1>3, <2>1, <2>2
<1>6. CASE ClearLinks(v)
  <2>1. PICK doomed : /\ doomed = login[v].since \cap Unused
                      /\ login' = [login EXCEPT ![v].pc = "cleared", ![v].doomed = doomed]
                      /\ UNCHANGED <<link, overlap>>
    BY <1>6 DEF ClearLinks, Superseded
  <2> DEFINE new == [[login[v] EXCEPT !.pc = "cleared"] EXCEPT !.doomed = doomed]
  <2>2. login' = [login EXCEPT ![v] = new]
    BY <1>0, <2>1 DEF LoginType
  <2>3. new \in LoginType
    BY <1>0, <2>1 DEF LoginType, Unused
  <2>4. new.since = login[v].since /\ new.doomed = doomed
    BY <1>0 DEF LoginType
  <2> HIDE DEF new
  <2>5. new.since \subseteq Sent
    BY <2>4 DEF AccessInv, SeenIsSent
  <2>6. QED
    BY <1>3, <2>1, <2>2, <2>3, <2>4, <2>5
<1>7. CASE DropLogin(v)
  <2>1. NotAsking.pc # "cleared" /\ NotAsking.since \subseteq Sent
    BY DEF NotAsking
  <2>2. QED
    BY <1>0, <1>3, <1>7, <2>1 DEF DropLogin
<1>8. ASSUME NEW n \in Link, StoreLink(v, n) PROVE AccessInv'
  <2>1. PICK others :
           /\ others = Sent \ login[v].since
           /\ login[v].pc = "cleared" /\ link[n] = "none"
           /\ link' = [m \in Link |-> IF m = n THEN "unused" ELSE IF m \in login[v].doomed THEN "over" ELSE link[m]]
           /\ overlap' = overlap \cup IF others = {} THEN {} ELSE others \cup {n}
           /\ login' = [login EXCEPT ![v] = NotAsking]
    BY <1>8, Zenon DEF StoreLink
  <2>2. NotAsking.pc # "cleared" /\ NotAsking.since = {}
    BY DEF NotAsking
  <2>3. /\ login' \in [Visit -> LoginType] /\ login'[v].pc # "cleared" /\ login'[v].since = {}
        /\ \A w \in Visit : w # v => login'[w] = login[w]
    BY <1>0, <2>1, <2>2
  <2>4. link' \in [Link -> {"none", "unused", "used", "over"}]
    BY <1>0, <2>1
  <2>5. overlap' \subseteq Link /\ overlap \subseteq overlap' /\ (others # {} => n \in overlap' /\ others \subseteq overlap')
    BY <2>1 DEF AccessInv, AccessShape, AccessTypeOK, Sent
  <2>6. AccessShape'
    BY <1>1, <2>3, <2>4, <2>5 DEF AccessInv, AccessShape, AccessTypeOK, LoginType
  \* What works besides the new link was not seen: it overlaps.
  <2>7. \A m \in Unused' : m = n \/ (m \in Unused /\ m \in others)
    <3> SUFFICES ASSUME NEW m \in Link, link'[m] = "unused", m # n
                 PROVE  m \in Unused /\ m \in others
      BY DEF Unused
    <3>1. link[m] = "unused" /\ m \notin login[v].doomed
      BY <2>1
    <3>2. m \in Unused /\ m \in Sent
      BY <3>1 DEF Unused, Sent
    <3>3. QED
      BY <2>1, <3>1, <3>2 DEF AccessInv, ClearedIsDoomed
  <2>8. OneLinkWorks'
    <3> SUFFICES ASSUME NEW m \in Unused', NEW k \in Unused', m # k
                 PROVE  m \in overlap' /\ k \in overlap'
      BY DEF OneLinkWorks
    <3>1. CASE m = n \/ k = n
      BY <2>5, <2>7, <3>1
    <3>2. CASE m # n /\ k # n
      BY <2>5, <2>7, <3>2 DEF AccessInv, OneLinkWorks
    <3>3. QED
      BY <3>1, <3>2
  \* A link that was not there when a request looked is none it has seen.
  <2>9. ClearedIsDoomed'
    <3> SUFFICES ASSUME NEW w \in Visit, login'[w].pc = "cleared", NEW m \in Unused', m \in login'[w].since
                 PROVE  m \in login'[w].doomed
      BY DEF ClearedIsDoomed
    <3>1. w # v /\ login'[w] = login[w]
      BY <2>3
    <3>2. m # n
      BY <3>1, <2>1 DEF AccessInv, SeenIsSent, Sent
    <3>3. QED
      BY <2>7, <3>1, <3>2 DEF AccessInv, ClearedIsDoomed
  <2>10. SeenIsSent'
    <3>1. Sent \subseteq Sent'
      BY <2>1 DEF Sent
    <3>2. QED
      BY <2>3, <3>1 DEF AccessInv, SeenIsSent
  <2>11. QED
    BY <1>2, <2>6, <2>8, <2>9, <2>10 DEF AccessInv
<1>9. QED
  BY <1>4, <1>5, <1>6, <1>7, <1>8

\* The requests that are served, and what becomes of the user meanwhile.
LEMMA VisitKeeps ==
    ASSUME AccessInv, UNCHANGED <<login, overlap>>, NoLinkBegins, SeenActive', AccessTypeOK'
    PROVE  AccessInv'
<1>1. AccessShape'
  BY DEF AccessInv, AccessShape
<1>2. QED
  BY <1>1, LinksKeep

LEMMA AccessInvKept == AccessInv /\ [AccessNext]_accessVars => AccessInv'
<1> SUFFICES ASSUME AccessInv, [AccessNext]_accessVars PROVE AccessInv'
  OBVIOUS
<1>0. AccessTypeOK /\ SeenActive
  BY DEF AccessInv, AccessShape
<1>1. ASSUME NEW n \in Link, UseLink(n) \/ LinkExpires(n) PROVE AccessInv'
  <2>1. NoLinkBegins /\ UNCHANGED <<login, overlap>>
    BY <1>0, <1>1 DEF UseLink, LinkExpires, NoLinkBegins, AccessTypeOK
  <2>2. AccessTypeOK'
    BY <1>0, <1>1 DEF UseLink, LinkExpires, AccessTypeOK
  <2>3. SeenActive'
    BY <1>0, <1>1 DEF UseLink, LinkExpires, SeenActive, IsActive
  <2>4. QED
    BY <2>1, <2>2, <2>3, VisitKeeps
<1>2. CASE SignOut \/ ForgetUser \/ MakeToken \/ EndToken
  <2>1. NoLinkBegins /\ UNCHANGED <<login, overlap>>
    BY <1>2 DEF SignOut, ForgetUser, MakeToken, EndToken, NoLinkBegins
  <2>2. AccessTypeOK'
    BY <1>0, <1>2 DEF SignOut, ForgetUser, MakeToken, EndToken, AccessTypeOK
  <2>3. SeenActive'
    BY <1>0, <1>2 DEF SignOut, ForgetUser, MakeToken, EndToken, SeenActive, IsActive
  <2>4. QED
    BY <2>1, <2>2, <2>3, VisitKeeps
<1>3. ASSUME NEW v \in Visit, NEW way \in {"web", "agent"}, Arrive(v, way) PROVE AccessInv'
  <2>1. NoLinkBegins /\ UNCHANGED <<login, overlap>>
    BY <1>3 DEF Arrive, NoLinkBegins
  <2>2. AccessTypeOK'
    BY <1>0, <1>3 DEF Arrive, AccessTypeOK
  <2>3. SeenActive'
    BY <1>0, <1>3 DEF Arrive, SeenActive, IsActive, AccessTypeOK
  <2>4. QED
    BY <2>1, <2>2, <2>3, VisitKeeps
<1>4. ASSUME NEW v \in Visit, CheckUser(v) \/ CheckAgain(v) \/ CheckAgent(v) \/ Leave(v) PROVE AccessInv'
  <2>1. NoLinkBegins /\ UNCHANGED <<login, overlap>>
    BY <1>4 DEF CheckUser, CheckAgain, CheckAgent, Leave, NoLinkBegins
  <2>2. AccessTypeOK'
    BY <1>0, <1>4 DEF CheckUser, CheckAgain, CheckAgent, Leave, AccessTypeOK, IsActive
  <2>3. SeenActive'
    BY <1>0, <1>4 DEF CheckUser, CheckAgain, CheckAgent, Leave, SeenActive, FirstCheck, IsActive, AccessTypeOK
  <2>4. QED
    BY <2>1, <2>2, <2>3, VisitKeeps
<1>5. ASSUME NEW status \in {"active", "disabled"}, SetStatus(status) PROVE AccessInv'
  <2>1. NoLinkBegins /\ UNCHANGED <<login, overlap>>
    BY <1>5 DEF SetStatus, NoLinkBegins
  <2>2. AccessTypeOK'
    BY <1>0, <1>5 DEF SetStatus, AccessTypeOK
  <2>3. SeenActive'
    BY <1>0, <1>5 DEF SetStatus, SeenActive, IsActive, AccessTypeOK
  <2>4. QED
    BY <2>1, <2>2, <2>3, VisitKeeps
<1>6. CASE DeleteUser
  <2>1. NoLinkBegins /\ UNCHANGED <<login, overlap>>
    BY <1>6 DEF DeleteUser, NoLinkBegins
  <2>2. AccessTypeOK'
    BY <1>0, <1>6 DEF DeleteUser, AccessTypeOK
  <2>3. SeenActive'
    BY <1>0, <1>6 DEF DeleteUser, SeenActive, IsActive
  <2>4. QED
    BY <2>1, <2>2, <2>3, VisitKeeps
<1>7. CASE UNCHANGED accessVars
  BY <1>7 DEF accessVars, AccessInv, AccessShape, AccessTypeOK, SeenActive, IsActive, SeenIsSent, Sent,
              ClearedIsDoomed, Unused, OneLinkWorks
<1>8. QED
  BY <1>1, <1>2, <1>3, <1>4, <1>5, <1>6, <1>7, LoginKeeps DEF AccessNext

\* Nobody is served who was not active while the request was being checked.
THEOREM AccessIsGuarded == AccessSpec => [](AccessTypeOK /\ ServedWhileActive)
<1>1. AccessInv => AccessTypeOK /\ ServedWhileActive
  BY DEF AccessInv, AccessShape, SeenActive, ServedWhileActive
<1>2. QED
  BY <1>1, AccessInvHolds, AccessInvKept, PTL DEF AccessSpec

\* Of the links sent to a user at most one works, unless login requests
\* overlapped.
THEOREM OneLinkIsLeft == AccessSpec => []OneLinkWorks
<1>1. AccessInv => OneLinkWorks
  BY DEF AccessInv
<1>2. QED
  BY <1>1, AccessInvHolds, AccessInvKept, PTL DEF AccessSpec

(***************************************************************************)
(* The services side by side                                               *)
(***************************************************************************)

\* A step of one of them leaves the others alone.
LEMMA OneServiceSteps ==
    [ServicesNext]_serviceVars =>
        /\ focus' = focus
        /\ [RouterNext]_routerVars /\ [DraftNext]_draftVars /\ [PlanNext]_planVars
        /\ [SpreadNext]_spreadVars /\ [CacheNext]_cacheVars /\ [GateNext]_<<cacheVars, gateVars>>
        /\ [FunnelNext]_funnelVars /\ [PoolNext]_poolVars /\ [IntakeNext]_intakeVars
        /\ [AccessNext]_accessVars
<1> SUFFICES ASSUME [ServicesNext]_serviceVars
             PROVE  /\ focus' = focus
                    /\ [RouterNext]_routerVars /\ [DraftNext]_draftVars /\ [PlanNext]_planVars
                    /\ [SpreadNext]_spreadVars /\ [CacheNext]_cacheVars /\ [GateNext]_<<cacheVars, gateVars>>
                    /\ [FunnelNext]_funnelVars /\ [PoolNext]_poolVars /\ [IntakeNext]_intakeVars
                    /\ [AccessNext]_accessVars
  OBVIOUS
<1>1. CASE AloneRouter /\ RouterNext
  BY <1>1 DEF AloneRouter
<1>2. CASE AloneDrafts /\ DraftNext
  BY <1>2 DEF AloneDrafts
<1>3. CASE AlonePlans /\ PlanNext
  BY <1>3 DEF AlonePlans
<1>4. CASE AloneSpread /\ SpreadNext
  BY <1>4 DEF AloneSpread
<1>5. CASE AloneCaches /\ CacheNext
  BY <1>5 DEF AloneCaches, GateNext
<1>6. CASE AloneGate /\ GateNext
  BY <1>6 DEF AloneGate, GateNext
<1>7. CASE AloneFunnel /\ FunnelNext
  BY <1>7 DEF AloneFunnel
<1>8. CASE AlonePool /\ PoolNext
  BY <1>8 DEF AlonePool
<1>9. CASE AloneIntake /\ IntakeNext
  BY <1>9 DEF AloneIntake
<1>10. CASE AloneAccess /\ AccessNext
  BY <1>10 DEF AloneAccess
<1>11. CASE UNCHANGED serviceVars
  BY <1>11 DEF serviceVars
<1>12. QED
  BY <1>1, <1>2, <1>3, <1>4, <1>5, <1>6, <1>7, <1>8, <1>9, <1>10, <1>11 DEF ServicesNext

\* Each service, seen by itself, behaves as its own specification says, so
\* that whatever is proved of one holds of them together.
THEOREM EachServiceAlone ==
    ServicesSpec => /\ RouterSpec /\ DraftSpec /\ PlanSpec /\ SpreadSpec /\ CacheSpec
                    /\ GateSpec /\ FunnelSpec /\ PoolSpec /\ IntakeSpec /\ AccessSpec
<1>1. ServicesInit => /\ RouterInit /\ DraftInit /\ PlanInit /\ SpreadInit /\ CacheInit
                      /\ GateInit /\ FunnelInit /\ PoolInit /\ IntakeInit /\ AccessInit
  BY DEF ServicesInit
<1>2. QED
  BY <1>1, OneServiceSteps, PTL
     DEF ServicesSpec, RouterSpec, DraftSpec, PlanSpec, SpreadSpec, CacheSpec, GateSpec,
         FunnelSpec, PoolSpec, IntakeSpec, AccessSpec

\* The type invariant of the services together.
THEOREM ServicesAreTyped == ServicesSpec => []ServicesTypeOK
<1> DEFINE Inv == /\ focus \in Focus
                  /\ RouterInv /\ DraftInv /\ PlanInv /\ SpreadInv /\ CacheInv /\ GateInv
                  /\ FunnelInv /\ PoolInv /\ IntakeInv /\ AccessInv
<1>1. ServicesInit => Inv
  <2>1. ServicesInit => /\ focus \in Focus
                        /\ RouterInit /\ DraftInit /\ PlanInit /\ SpreadInit /\ CacheInit
                        /\ GateInit /\ FunnelInit /\ PoolInit /\ IntakeInit /\ AccessInit
    BY DEF ServicesInit
  <2>2. SpreadInit => SpreadInv
    BY DEF SpreadInit, SpreadInv
  <2>3. QED
    BY <2>1, <2>2, RouterInvHolds, DraftInvHolds, PlanInvHolds, CacheInvHolds, GateInvHolds,
       FunnelInvHolds, PoolInvHolds, IntakeInvHolds, AccessInvHolds
<1>2. Inv /\ [ServicesNext]_serviceVars => Inv'
  BY OneServiceSteps, RouterInvKept, DraftInvKept, PlanInvKept, SpreadInvKept, CacheInvKept,
     GateInvKept, FunnelInvKept, PoolInvKept, IntakeInvKept, AccessInvKept
<1>3. Inv => ServicesTypeOK
  <2> SUFFICES ASSUME Inv PROVE ServicesTypeOK
    OBVIOUS
  <2>1. /\ RouterTypeOK /\ PlanTypeOK /\ CacheTypeOK /\ FunnelTypeOK /\ PoolTypeOK /\ IntakeTypeOK
        /\ AccessTypeOK
    BY DEF RouterInv, PlanInv, CacheInv, FunnelInv, PoolInv, IntakeInv, AccessInv, AccessShape
  <2>2. DraftTypeOK /\ SpreadTypeOK /\ GateTypeOK
    BY DraftTypesFollow, SpreadFollows, GateTypesFollow
  <2>3. QED
    BY <2>1, <2>2 DEF ServicesTypeOK
<1>4. QED
  BY <1>1, <1>2, <1>3, PTL DEF ServicesSpec
=============================================================================
