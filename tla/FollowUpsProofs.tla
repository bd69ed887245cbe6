--------------------------- MODULE FollowUpsProofs ---------------------------
(***************************************************************************)
(* The invariants of FollowUps and ReplyChecker, for every number of       *)
(* companies, steps, batches, generators and checks.                       *)
(***************************************************************************)
EXTENDS ReplyChecker, SequenceTheorems, TLAPS

LeadRecord == [mailed : BOOLEAN, replied : BOOLEAN, unsub : BOOLEAN, marketing : BOOLEAN]
SeqRecord == [there : BOOLEAN, sent : BOOLEAN, cancelled : BOOLEAN, tries : 0..MaxTries]
DraftRecord == [made : BOOLEAN, ok : BOOLEAN, seen : BOOLEAN]
CheckRecord == [pc : {"idle", "seed", "read", "store", "cancel"}, at : Uid, upto : Uid, found : SUBSET Company]
Ordered == agenda \subseteq Due \X Due /\ InOrder

\* A batch deals with a row or has ended, the tries counted never reach the
\* limit, and a check that stores a reply has a message before it: without
\* these the types are not inductive.
AtWork == \A j \in Sender :
    /\ sender[j].pc \in {"send", "mark", "failed", "count"} => sender[j].todo # <<>>
    /\ sender[j].pc = "idle" => sender[j].todo = <<>>
TriesLeft == \A r \in Row : seq[r].tries < MaxTries
MessageAhead == \A k \in Checker : checker[k].pc \in {"store", "cancel"} => checker[k].at < checker[k].upto

TypeInv == TypeOK /\ AtWork /\ TriesLeft /\ MessageAhead

-----------------------------------------------------------------------------
(* What the operators of FollowUps return.                                  *)

\* Rows that are taken off the agenda leave the others in their order.
LEMMA WithoutOrders ==
  ASSUME Ordered, NEW rows, agenda' = Without(rows)
  PROVE  Ordered' /\ Due' = Due \ rows
<1>1. \A q, r \in Row : <<q, r>> \in agenda' <=> <<q, r>> \in agenda /\ q \notin rows /\ r \notin rows
  BY DEF Without
<1>2. Due' = Due \ rows
  BY <1>1 DEF Due
<1>3. agenda' \subseteq Due' \X Due'
  BY <1>1, <1>2 DEF Ordered, Without, Due
<1>4. InOrder'
  <2> SUFFICES ASSUME NEW p \in Due', NEW q \in Due', NEW r \in Due'
               PROVE  /\ <<p, q>> \in agenda' \/ <<q, p>> \in agenda'
                      /\ <<p, q>> \in agenda' /\ <<q, p>> \in agenda' => p = q
                      /\ <<p, q>> \in agenda' /\ <<q, r>> \in agenda' => <<p, r>> \in agenda'
    BY DEF InOrder
  <2>1. {p, q, r} \subseteq Due \ rows /\ {p, q, r} \subseteq Row
    BY <1>2 DEF Due
  <2>2. /\ <<p, q>> \in agenda \/ <<q, p>> \in agenda
        /\ <<p, q>> \in agenda /\ <<q, p>> \in agenda => p = q
        /\ <<p, q>> \in agenda /\ <<q, r>> \in agenda => <<p, r>> \in agenda
    BY <2>1 DEF Ordered, InOrder
  <2> QED
    BY <1>1, <2>1, <2>2
<1> QED
  BY <1>2, <1>3, <1>4 DEF Ordered

\* A row that falls due comes last.
LEMMA FallsDueOrders ==
  ASSUME Ordered, NEW r \in Row, FallsDue(r)
  PROVE  Ordered' /\ Due' = Due \cup {r}
<1>0. Due \subseteq Row /\ r \notin Due /\ agenda \subseteq Due \X Due
  BY DEF FallsDue, Due, Ordered
<1>1. \A p, q \in Row : <<p, q>> \in agenda' <=> <<p, q>> \in agenda \/ (p \in Due \cup {r} /\ q = r)
  BY DEF FallsDue
<1>2. Due' = Due \cup {r}
  BY <1>0, <1>1 DEF Due
<1>3. agenda' \subseteq Due' \X Due'
  BY <1>0, <1>2 DEF FallsDue
<1>4. InOrder'
  <2> SUFFICES ASSUME NEW p \in Due', NEW q \in Due', NEW s \in Due'
               PROVE  /\ <<p, q>> \in agenda' \/ <<q, p>> \in agenda'
                      /\ <<p, q>> \in agenda' /\ <<q, p>> \in agenda' => p = q
                      /\ <<p, q>> \in agenda' /\ <<q, s>> \in agenda' => <<p, s>> \in agenda'
    BY DEF InOrder
  <2>1. \A u \in {p, q, s} : u \in Row /\ (u = r \/ u \in Due)
    BY <1>0, <1>2
  <2>2. \A u \in Due : <<u, r>> \notin agenda /\ <<r, u>> \notin agenda
    BY <1>0
  <2>3. \A u, v, w \in Due :
          /\ <<u, v>> \in agenda \/ <<v, u>> \in agenda
          /\ <<u, v>> \in agenda /\ <<v, u>> \in agenda => u = v
          /\ <<u, v>> \in agenda /\ <<v, w>> \in agenda => <<u, w>> \in agenda
    BY DEF Ordered, InOrder
  <2>4. \A u, v \in {p, q, s} :
          <<u, v>> \in agenda' <=> v = r \/ (u # r /\ v # r /\ <<u, v>> \in agenda)
    BY <1>0, <1>1, <2>1, <2>2
  <2>5. <<p, q>> \in agenda' \/ <<q, p>> \in agenda'
    BY <2>1, <2>3, <2>4
  <2>6. <<p, q>> \in agenda' /\ <<q, p>> \in agenda' => p = q
    BY <2>1, <2>3, <2>4
  <2>7. <<p, q>> \in agenda' /\ <<q, s>> \in agenda' => <<p, s>> \in agenda'
    BY <2>1, <2>3, <2>4
  <2> QED
    BY <2>5, <2>6, <2>7
<1> QED
  BY <1>2, <1>3, <1>4 DEF Ordered

\* Cancelling changes one column of some of the open rows.
LEMMA CancelledFields ==
  ASSUME seq \in [Row -> SeqRecord], NEW rows
  PROVE  /\ Cancelled(rows) \in [Row -> SeqRecord]
         /\ \A r \in Row :
              /\ Cancelled(rows)[r].there = seq[r].there
              /\ Cancelled(rows)[r].sent = seq[r].sent
              /\ Cancelled(rows)[r].tries = seq[r].tries
              /\ Cancelled(rows)[r].cancelled <=> seq[r].cancelled \/ (r \in rows /\ Open(r))
BY DEF Cancelled, SeqRecord

\* A withdrawal is noted at every batch under way and changes nothing else.
LEMMA WithdrawnFields ==
  ASSUME sender \in [Sender -> SenderType], NEW c \in Company
  PROVE  /\ Withdrawn(c) \in [Sender -> SenderType]
         /\ \A j \in Sender :
              /\ Withdrawn(c)[j].pc = sender[j].pc
              /\ Withdrawn(c)[j].todo = sender[j].todo
              /\ Withdrawn(c)[j].tries = sender[j].tries
              /\ Withdrawn(c)[j].late = IF sender[j].pc = "idle" THEN sender[j].late ELSE sender[j].late \cup {c}
<1> SUFFICES ASSUME NEW j \in Sender
             PROVE  /\ Withdrawn(c)[j] \in SenderType
                    /\ Withdrawn(c)[j].pc = sender[j].pc
                    /\ Withdrawn(c)[j].todo = sender[j].todo
                    /\ Withdrawn(c)[j].tries = sender[j].tries
                    /\ Withdrawn(c)[j].late = IF sender[j].pc = "idle" THEN sender[j].late ELSE sender[j].late \cup {c}
  BY DEF Withdrawn
<1>1. sender[j] \in SenderType
  OBVIOUS
<1> QED
  BY <1>1 DEF Withdrawn, SenderType

\* The loop drops the row it has dealt with.
LEMMA GoesOnFields ==
  ASSUME sender \in [Sender -> SenderType], NEW j \in Sender, sender[j].todo # <<>>
  PROVE  /\ GoesOn(j) \in [Sender -> SenderType]
         /\ GoesOn(j)[j].pc = "batch"
         /\ GoesOn(j)[j].todo = Tail(sender[j].todo)
         /\ GoesOn(j)[j].late = sender[j].late
         /\ \A k \in Sender \ {j} : GoesOn(j)[k] = sender[k]
<1>1. sender[j] \in SenderType /\ sender[j].todo \in Seq(Item)
  BY DEF SenderType
<1>2. Tail(sender[j].todo) \in Seq(Item)
  BY <1>1, HeadTailProperties
<1>3. 0 \in 0..MaxTries
  BY FollowUpBounds
<1>4. GoesOn(j) = [sender EXCEPT ![j] = [sender[j] EXCEPT !.pc = "batch", !.todo = Tail(@), !.tries = 0]]
  BY DEF GoesOn
<1>5. [sender[j] EXCEPT !.pc = "batch", !.todo = Tail(@), !.tries = 0] \in SenderType
  BY <1>1, <1>2, <1>3 DEF SenderType
<1>6. /\ [sender[j] EXCEPT !.pc = "batch", !.todo = Tail(@), !.tries = 0].pc = "batch"
      /\ [sender[j] EXCEPT !.pc = "batch", !.todo = Tail(@), !.tries = 0].todo = Tail(sender[j].todo)
      /\ [sender[j] EXCEPT !.pc = "batch", !.todo = Tail(@), !.tries = 0].late = sender[j].late
  BY <1>1 DEF SenderType
<1> QED
  BY <1>4, <1>5, <1>6

\* A row that is being dealt with is a row.
LEMMA CurrentIsRow ==
  ASSUME sender \in [Sender -> SenderType], NEW j \in Sender, sender[j].todo # <<>>
  PROVE  Current(j) \in Row /\ Head(sender[j].todo) \in Item /\ Head(sender[j].todo) = sender[j].todo[1]
<1>1. sender[j].todo \in Seq(Item)
  BY DEF SenderType
<1>2. Head(sender[j].todo) \in Item
  BY <1>1, HeadTailProperties
<1> QED
  BY <1>1, <1>2 DEF Current, Item

\* The rows a batch reads are due, their companies listen, and none comes twice.
LEMMA BatchRows ==
  ASSUME NEW rows \in FirstDue
  PROVE  /\ rows \in Seq(Listening) /\ rows # <<>>
         /\ \A i, k \in 1..Len(rows) : rows[i] = rows[k] => i = k
<1>0. rows \in BoundedSeq(Listening, BatchLimit)
  BY DEF FirstDue
<1>1. PICK n \in 0..BatchLimit : rows \in [1..n -> Listening]
  BY <1>0 DEF BoundedSeq, SeqOf
<1>2. rows \in Seq(Listening) /\ Len(rows) = n /\ DOMAIN rows = 1..n
  BY <1>1, FollowUpBounds, IsASeq
<1>3. \A i \in 1..n : rows[i] \notin {rows[k] : k \in 1..(i - 1)}
  BY <1>1, <1>2 DEF FirstDue
<1>4. ASSUME NEW i \in 1..n, NEW k \in 1..n, rows[i] = rows[k] PROVE i = k
  <2>1. ~(i < k) /\ ~(k < i)
    BY <1>3, <1>4, <1>1, FollowUpBounds
  <2> QED
    BY <2>1, <1>1, FollowUpBounds
<1> QED
  BY <1>2, <1>4 DEF FirstDue

\* What a batch reads, item by item.
LEMMA BatchItems ==
  ASSUME NEW rows \in FirstDue, draft \in [Row -> DraftRecord]
  PROVE  /\ Batch(rows) \in Seq(Item) /\ Len(Batch(rows)) = Len(rows) /\ Batch(rows) # <<>>
         /\ \A i \in 1..Len(rows) :
              /\ Batch(rows)[i].row = rows[i]
              /\ Batch(rows)[i].verdict = Verdict(rows[i])
              /\ Batch(rows)[i].seen = draft[rows[i]].seen
<1>1. rows \in Seq(Listening) /\ rows # <<>>
  BY BatchRows
<1>0. Listening \subseteq Row
  BY DEF Listening, Due
<1>2. Len(rows) \in Nat /\ DOMAIN rows = 1..Len(rows) /\ \A i \in 1..Len(rows) : rows[i] \in Row
  BY <1>0, <1>1
<1>3. \A r \in Row : Verdict(r) \in {"drop", "wait", "send"} /\ draft[r].seen \in BOOLEAN
  BY DEF Verdict, DraftRecord
<1>4. Batch(rows) \in [1..Len(rows) -> Item]
  BY <1>2, <1>3 DEF Batch, Item
<1>5. Batch(rows) \in Seq(Item) /\ Len(Batch(rows)) = Len(rows)
  BY <1>2, <1>4, IsASeq
<1> QED
  BY <1>1, <1>2, <1>5 DEF Batch

-----------------------------------------------------------------------------
(* Who changes a variable, read off the actions once.                        *)

ChangesLead == \E c \in Company :
    \/ MailMain(c)
    \/ \E b \in BOOLEAN : OptOut(c, b) \/ SetMarketing(c, b)
    \/ \E k \in Checker : StoreReply(k, c)
ChangesTemplate == \E s \in Step, state \in {"active", "inactive", "deleted"} : SetTemplate(s, state)
ChangesSeq ==
    \/ \E j \in Sender : Drop(j) \/ Mark(j) \/ CountTry(j)
    \/ \E c \in Company : MailMain(c) \/ Click(c) \/ \E b \in BOOLEAN : OptOut(c, b)
    \/ \E k \in Checker : CancelReplied(k)
ChangesAgenda == (\E r \in Row : FallsDue(r)) \/ (\E rows : agenda' = Without(rows))
\* draft, the generators, the approvals under way and mixed.
ChangesText ==
    \/ \E r \in Row : AskApprove(r) \/ Approve(r) \/ Edit(r) \/ (\E g \in Writer : WriteDraft(g, r) \/ SkipDraft(g, r))
    \/ \E c \in Company, b \in BOOLEAN : ApproveAll({c}, b)
    \/ \E rows \in SUBSET Row : ResetRows(rows)
    \/ \E g \in Writer, C \in {{c} : c \in Company} \cup {Company} : ReadCandidates(g, C)
\* A batch begins or ends, goes on with the next row or with this one, or
\* learns that a company withdrew.
Busy(j) == sender[j].pc \in {"send", "mark", "failed", "count"}
Moves(j, from, to) == Busy(j) /\ sender[j].pc = from /\ sender' = [sender EXCEPT ![j].pc = to]
Proceeds(j) ==
    \/ StartBatch(j) \/ Take(j) \/ ReadTries(j)
    \/ \E to \in {"mark", "failed"} : Moves(j, "send", to)
    \/ (Busy(j) \/ AtRow(j, {"drop", "wait", "send"})) /\ sender' = GoesOn(j)
    \/ sender' = [sender EXCEPT ![j] = Idle]
ChangesSender ==
    \/ \E j \in Sender : Proceeds(j)
    \/ \E c \in Company : sender' = Withdrawn(c)
ChangesDelivered == \E j \in Sender : Deliver(j) \/ DeliverUnanswered(j)
ChangesUnrecorded == \E j \in Sender : DeliverUnanswered(j) \/ MarkFails(j) \/ CrashBatch(j)
ChangesInbox == \E a \in Address, reply \in BOOLEAN : Arrive(a, reply)
ChangesLastUid == \E k \in Checker : Seed(k) \/ SaveUid(k)
ChangesPassed == \E k \in Checker : Seed(k)
ChangesChecker == \E k \in Checker :
    \/ \E uid \in Uid : StartCheck(k, uid)
    \/ ReadMessage(k) \/ CancelReplied(k) \/ \E c \in Company : StoreReply(k, c)
    \/ checker' = [checker EXCEPT ![k] = Away]

USE DEF Next, FollowUpNext, SenderStep, CheckerStep, AnyCheck, vars, followUpVars, checkerVars,
   StartBatch, EndBatch, Drop, Skip, Take, Deliver, DeliverUnanswered, Refuse, Mark, MarkFails, ReadTries,
   CountTry, CrashBatch, FallsDue, ReadCandidates, WriteDraft, SkipDraft, AskApprove, Approve, ApproveAll,
   Edit, ResetRows, Reset, ResetCompanies, ResetOpen, MailMain, OptOut, Click, SetMarketing, SetTemplate,
   SetTenant, Arrive, StartCheck, Seed, ReadMessage, StoreReply, CancelReplied, SaveUid, RejectReply,
   BreakOff

LEMMA LeadChanges == ASSUME [Next]_vars PROVE lead' = lead \/ ChangesLead
BY ZenonT(60) DEF ChangesLead
LEMMA TemplateChanges == ASSUME [Next]_vars PROVE template' = template \/ ChangesTemplate
BY ZenonT(60) DEF ChangesTemplate
LEMMA SeqChanges == ASSUME [Next]_vars PROVE seq' = seq \/ ChangesSeq
BY ZenonT(60) DEF ChangesSeq
LEMMA AgendaChanges == ASSUME [Next]_vars PROVE agenda' = agenda \/ ChangesAgenda
BY ZenonT(60) DEF ChangesAgenda
LEMMA TextChanges ==
  ASSUME [Next]_vars
  PROVE  ChangesText \/ (draft' = draft /\ writer' = writer /\ approving' = approving /\ mixed' = mixed)
<1>1. draft' = draft \/ ChangesText
  BY ZenonT(60) DEF ChangesText
<1>2. writer' = writer \/ ChangesText
  BY ZenonT(60) DEF ChangesText
<1>3. approving' = approving \/ ChangesText
  BY ZenonT(60) DEF ChangesText
<1>4. mixed' = mixed \/ ChangesText
  BY ZenonT(60) DEF ChangesText
<1> QED
  BY <1>1, <1>2, <1>3, <1>4
LEMMA SenderChanges == ASSUME [Next]_vars PROVE sender' = sender \/ ChangesSender
BY ZenonT(60) DEF ChangesSender, Proceeds, AtRow, Moves, Busy
LEMMA TenantChanges == ASSUME [Next]_vars PROVE tenantOn' = tenantOn \/ tenantOn' = ~tenantOn
BY ZenonT(60)
LEMMA DeliveredChanges == ASSUME [Next]_vars PROVE delivered' = delivered \/ ChangesDelivered
BY ZenonT(60) DEF ChangesDelivered
LEMMA UnrecordedChanges == ASSUME [Next]_vars PROVE unrecorded' = unrecorded \/ ChangesUnrecorded
BY ZenonT(60) DEF ChangesUnrecorded
LEMMA InboxChanges == ASSUME [Next]_vars PROVE inbox' = inbox \/ ChangesInbox
BY ZenonT(60) DEF ChangesInbox
LEMMA LastUidChanges == ASSUME [Next]_vars PROVE lastUid' = lastUid \/ ChangesLastUid
BY ZenonT(60) DEF ChangesLastUid
LEMMA PassedChanges == ASSUME [Next]_vars PROVE passed' = passed \/ ChangesPassed
BY ZenonT(60) DEF ChangesPassed
LEMMA CheckerChanges == ASSUME [Next]_vars PROVE checker' = checker \/ ChangesChecker
BY ZenonT(60) DEF ChangesChecker

LEMMA HandlingChanges ==
  ASSUME [Next]_vars, NEW j \in Sender, sender[j].pc = "mark"
  PROVE  \/ sender' = sender \/ (\E k \in Sender \ {j} : Proceeds(k)) \/ (\E c \in Company : sender' = Withdrawn(c))
         \/ Mark(j) \/ MarkFails(j) \/ CrashBatch(j)
<1>1. ASSUME NEW k \in Sender, StartBatch(k) \/ SenderStep(k) \/ CrashBatch(k), k # j PROVE Proceeds(k)
  BY <1>1, ZenonT(60) DEF Proceeds, AtRow, Moves, Busy
<1>2. ASSUME StartBatch(j) \/ SenderStep(j) \/ CrashBatch(j) PROVE Mark(j) \/ MarkFails(j) \/ CrashBatch(j)
  BY <1>2, ZenonT(60) DEF AtRow
<1>3. \/ \E k \in Sender : StartBatch(k) \/ SenderStep(k) \/ CrashBatch(k)
      \/ sender' = sender \/ \E c \in Company : sender' = Withdrawn(c)
  BY ZenonT(60)
<1> HIDE DEF StartBatch, SenderStep, CrashBatch, Mark, MarkFails
<1> QED
  BY <1>1, <1>2, <1>3

HIDE DEF Next, FollowUpNext, SenderStep, CheckerStep, AnyCheck, vars, followUpVars, checkerVars,
   StartBatch, EndBatch, Drop, Skip, Take, Deliver, DeliverUnanswered, Refuse, Mark, MarkFails, ReadTries,
   CountTry, CrashBatch, FallsDue, ReadCandidates, WriteDraft, SkipDraft, AskApprove, Approve, ApproveAll,
   Edit, ResetRows, Reset, ResetCompanies, ResetOpen, MailMain, OptOut, Click, SetMarketing, SetTemplate,
   SetTenant, Arrive, StartCheck, Seed, ReadMessage, StoreReply, CancelReplied, SaveUid, RejectReply,
   BreakOff

-----------------------------------------------------------------------------
(* Types, variable by variable.                                              *)

LEMMA TypeFacts ==
  ASSUME TypeInv
  PROVE  /\ lead \in [Company -> LeadRecord] /\ seq \in [Row -> SeqRecord] /\ draft \in [Row -> DraftRecord]
         /\ sender \in [Sender -> SenderType] /\ checker \in [Checker -> CheckRecord] /\ Ordered
BY DEF TypeInv, TypeOK, FollowUpTypeOK, LeadRecord, SeqRecord, DraftRecord, CheckRecord, Ordered

LEMMA LeadStep == ASSUME TypeInv, [Next]_vars PROVE lead' \in [Company -> LeadRecord]
<1>0. lead \in [Company -> LeadRecord]
  BY TypeFacts
<1>1. ASSUME NEW c \in Company, MailMain(c) PROVE lead' \in [Company -> LeadRecord]
  BY <1>0, <1>1 DEF MailMain, LeadRecord
<1>2. ASSUME NEW c \in Company, NEW b \in BOOLEAN, OptOut(c, b) \/ SetMarketing(c, b)
      PROVE  lead' \in [Company -> LeadRecord]
  BY <1>0, <1>2 DEF OptOut, SetMarketing, LeadRecord
<1>3. ASSUME NEW c \in Company, NEW k \in Checker, StoreReply(k, c) PROVE lead' \in [Company -> LeadRecord]
  BY <1>0, <1>3 DEF StoreReply, LeadRecord
<1> QED
  BY <1>0, <1>1, <1>2, <1>3, LeadChanges DEF ChangesLead

\* tries stays below the limit: the last try cancels the row instead.
LEMMA SeqStep ==
  ASSUME TypeInv, [Next]_vars
  PROVE  seq' \in [Row -> SeqRecord] /\ TriesLeft'
<1>0. seq \in [Row -> SeqRecord] /\ TriesLeft /\ sender \in [Sender -> SenderType] /\ AtWork
  BY TypeFacts DEF TypeInv
<1>a. ASSUME NEW j \in Sender, sender[j].todo # <<>> PROVE Current(j) \in Row
  BY <1>0, <1>a, CurrentIsRow
<1>b. ASSUME NEW rows, seq' = Cancelled(rows) PROVE seq' \in [Row -> SeqRecord] /\ TriesLeft'
  BY <1>0, <1>b, CancelledFields DEF TriesLeft
<1>1. ASSUME NEW j \in Sender, Drop(j) \/ Mark(j) PROVE seq' \in [Row -> SeqRecord] /\ TriesLeft'
  <2>1. Current(j) \in Row
    BY <1>0, <1>a, <1>1 DEF Drop, Mark, AtRow, AtWork
  <2>2. \/ seq' = [seq EXCEPT ![Current(j)].cancelled = TRUE]
        \/ seq' = [seq EXCEPT ![Current(j)].sent = TRUE]
    BY <1>1 DEF Drop, Mark, SentNow
  <2>3. seq' \in [Row -> SeqRecord]
    BY <1>0, <2>1, <2>2 DEF SeqRecord
  <2>4. \A r \in Row : seq'[r].tries = seq[r].tries
    BY <1>0, <2>1, <2>2 DEF SeqRecord
  <2> QED
    BY <1>0, <2>3, <2>4 DEF TriesLeft
<1>2. ASSUME NEW j \in Sender, CountTry(j) PROVE seq' \in [Row -> SeqRecord] /\ TriesLeft'
  <2>1. Current(j) \in Row /\ sender[j].tries \in 0..MaxTries
    BY <1>0, <1>a, <1>2 DEF CountTry, AtWork, SenderType
  <2>2. CASE seq' = Cancelled({Current(j)})
    BY <1>b, <2>2
  <2>3. CASE seq' = [seq EXCEPT ![Current(j)].tries = sender[j].tries] /\ ~Exhausted(j)
    <3>1. sender[j].tries < MaxTries
      BY <2>1, <2>3, FollowUpBounds DEF Exhausted
    <3>2. seq' \in [Row -> SeqRecord]
      BY <1>0, <2>1, <2>3 DEF SeqRecord
    <3>3. \A r \in Row : seq'[r].tries = IF r = Current(j) THEN sender[j].tries ELSE seq[r].tries
      BY <1>0, <2>1, <2>3 DEF SeqRecord
    <3> QED
      BY <1>0, <3>1, <3>2, <3>3 DEF TriesLeft
  <2> QED
    BY <1>2, <2>2, <2>3 DEF CountTry
<1>3. ASSUME NEW c \in Company, MailMain(c) PROVE seq' \in [Row -> SeqRecord] /\ TriesLeft'
  <2>1. seq' \in [Row -> SeqRecord] /\ \A r \in Row : seq'[r].tries = seq[r].tries
    BY <1>0, <1>3 DEF MailMain, SeqRecord
  <2> QED
    BY <1>0, <2>1 DEF TriesLeft
<1>4. CASE seq' = seq
  BY <1>0, <1>4 DEF TriesLeft
<1> QED
  BY <1>b, <1>1, <1>2, <1>3, <1>4, SeqChanges DEF ChangesSeq, OptOut, Click, CancelReplied

LEMMA AgendaStep == ASSUME TypeInv, [Next]_vars PROVE Ordered'
<1>0. Ordered
  BY TypeFacts
<1>1. CASE agenda' = agenda
  BY <1>0, <1>1 DEF Ordered, InOrder, Due
<1> QED
  BY <1>0, <1>1, AgendaChanges, FallsDueOrders, WithoutOrders DEF ChangesAgenda

LEMMA DraftStep == ASSUME TypeInv, [Next]_vars PROVE draft' \in [Row -> DraftRecord]
<1>0. draft \in [Row -> DraftRecord]
  BY TypeFacts
<1>1. ASSUME NEW r \in Row, Approve(r) \/ Edit(r) PROVE draft' \in [Row -> DraftRecord]
  <2>1. \A s \in Row \ {r} : draft'[s] = draft[s]
    BY <1>0, <1>1 DEF Approve, Edit
  <2>2. draft'[r] \in DraftRecord
    <3>1. CASE Edit(r)
      BY <1>0, <3>1 DEF Edit, DraftRecord
    <3>2. CASE Approve(r)
      <4> DEFINE seen == draft[r].seen \/ approving[r] = "fresh"
      <4>1. seen \in BOOLEAN
        OBVIOUS
      <4>2. draft'[r] = [draft[r] EXCEPT !.ok = TRUE, !.seen = seen]
        BY <1>0, <3>2 DEF Approve
      <4> HIDE DEF seen
      <4> QED
        BY <1>0, <4>1, <4>2 DEF DraftRecord
    <3> QED
      BY <1>1, <3>1, <3>2
  <2>3. DOMAIN draft' = Row /\ draft' = [s \in Row |-> draft'[s]]
    BY <1>0, <1>1 DEF Approve, Edit
  <2> QED
    BY <1>0, <2>1, <2>2, <2>3
<1>2. ASSUME NEW r \in Row, NEW g \in Writer, WriteDraft(g, r) PROVE draft' \in [Row -> DraftRecord]
  <2>1. draft' = [draft EXCEPT ![r] = [draft[r] EXCEPT !.made = TRUE, !.seen = FALSE]]
    BY <1>0, <1>2 DEF WriteDraft, Written
  <2>2. [draft[r] EXCEPT !.made = TRUE, !.seen = FALSE] \in DraftRecord
    BY <1>0 DEF DraftRecord
  <2> QED
    BY <1>0, <2>1, <2>2
<1>3. ASSUME NEW c \in Company, NEW b \in BOOLEAN, ApproveAll({c}, b) PROVE draft' \in [Row -> DraftRecord]
  BY <1>0, <1>3 DEF ApproveAll, DraftRecord
<1>4. ASSUME NEW rows \in SUBSET Row, ResetRows(rows) PROVE draft' \in [Row -> DraftRecord]
  BY <1>0, <1>4 DEF ResetRows, DraftRecord
<1> QED
  BY <1>0, <1>1, <1>2, <1>3, <1>4, TextChanges DEF ChangesText, AskApprove, SkipDraft, ReadCandidates

\* A batch that only moves within a row keeps the row.
LEMMA MovesFields ==
  ASSUME sender \in [Sender -> SenderType], NEW j \in Sender,
         NEW to \in {"send", "mark", "failed", "count"}, NEW tries \in 0..MaxTries
  PROVE  /\ [sender[j] EXCEPT !.pc = to, !.tries = tries] \in SenderType
         /\ [sender[j] EXCEPT !.pc = to, !.tries = tries].pc = to
         /\ [sender[j] EXCEPT !.pc = to, !.tries = tries].todo = sender[j].todo
         /\ [sender[j] EXCEPT !.pc = to, !.tries = tries].late = sender[j].late
<1>1. sender[j] \in SenderType
  OBVIOUS
<1> QED
  BY <1>1 DEF SenderType

\* What a step does to one batch: a new one begins, or what is left of the
\* rows is left as it was read, from the current row on or from the next.
Begins(j) ==
    /\ StartBatch(j) /\ sender'[j].pc = "batch"
    /\ \E rows \in FirstDue : sender'[j].todo = Batch(rows)
LeftFrom(j, d) ==
    /\ \A i \in 1..Len(sender'[j].todo) :
          i + d \in 1..Len(sender[j].todo) /\ sender'[j].todo[i] = sender[j].todo[i + d]
    /\ sender'[j].pc # "idle" => sender[j].pc # "idle" /\ sender[j].late \subseteq sender'[j].late
Continues(j) == LeftFrom(j, 0) \/ LeftFrom(j, 1)

LEMMA SameIsLeft ==
  ASSUME sender \in [Sender -> SenderType], NEW j \in Sender, sender'[j].todo = sender[j].todo,
         sender'[j].pc # "idle" => sender[j].pc # "idle" /\ sender[j].late \subseteq sender'[j].late
  PROVE  LeftFrom(j, 0)
<1>1. sender[j].todo \in Seq(Item) /\ Len(sender[j].todo) \in Nat
  BY DEF SenderType
<1> QED
  BY <1>1 DEF LeftFrom

LEMMA SenderSteps ==
  ASSUME TypeInv, [Next]_vars
  PROVE  /\ sender' \in [Sender -> SenderType] /\ AtWork'
         /\ \A j \in Sender : Begins(j) \/ Continues(j)
<1> DEFINE Fine == /\ sender' \in [Sender -> SenderType] /\ AtWork'
                   /\ \A j \in Sender : Begins(j) \/ Continues(j)
<1> HIDE DEF Fine
<1>0. sender \in [Sender -> SenderType] /\ AtWork /\ seq \in [Row -> SeqRecord] /\ draft \in [Row -> DraftRecord]
  BY TypeFacts DEF TypeInv
\* One batch j changes, to new.
<1>a. ASSUME NEW j \in Sender, NEW new \in SenderType, sender' = [sender EXCEPT ![j] = new],
             new.pc \in {"send", "mark", "failed", "count"} => new.todo # <<>>,
             new.pc = "idle" => new.todo = <<>>,
             Begins(j) \/ Continues(j)
      PROVE  Fine
  <2>1. \A k \in Sender : sender'[k] = IF k = j THEN new ELSE sender[k]
    BY <1>0, <1>a
  <2>2. sender' \in [Sender -> SenderType]
    BY <1>0, <1>a
  <2>3. AtWork'
    BY <1>0, <1>a, <2>1 DEF AtWork
  <2>4. \A k \in Sender \ {j} : Continues(k)
    BY <1>0, <2>1, SameIsLeft DEF Continues
  <2> QED
    BY <1>a, <2>2, <2>3, <2>4 DEF Fine
\* ... and goes on with its row.
<1>b. ASSUME NEW j \in Sender, NEW to \in {"send", "mark", "failed", "count"}, NEW tries \in 0..MaxTries,
             sender[j].pc # "idle", sender[j].todo # <<>>,
             sender' = [sender EXCEPT ![j] = [sender[j] EXCEPT !.pc = to, !.tries = tries]]
      PROVE  Fine
  <2> DEFINE new == [sender[j] EXCEPT !.pc = to, !.tries = tries]
  <2>a. sender[j] \in SenderType
    BY <1>0
  <2>1. new \in SenderType /\ new.pc = to /\ new.todo = sender[j].todo /\ new.late = sender[j].late
    BY <1>b, <2>a DEF SenderType
  <2>2. sender' = [sender EXCEPT ![j] = new]
    BY <1>b
  <2> HIDE DEF new
  <2>3. Continues(j)
    BY <1>0, <1>b, <2>1, <2>2, SameIsLeft DEF Continues
  <2> QED
    BY <1>a, <1>b, <2>1, <2>2, <2>3
<1>1. ASSUME NEW j \in Sender, StartBatch(j) PROVE Fine
  <2>1. PICK rows \in FirstDue : sender' = [sender EXCEPT ![j] = [Idle EXCEPT !.pc = "batch", !.todo = Batch(rows)]]
    BY <1>1 DEF StartBatch
  <2> DEFINE new == [Idle EXCEPT !.pc = "batch", !.todo = Batch(rows)]
  <2>2. Batch(rows) \in Seq(Item)
    BY <1>0, BatchItems
  <2>3. Idle \in SenderType
    BY FollowUpBounds DEF Idle, SenderType
  <2>4. new \in SenderType /\ new.pc = "batch" /\ new.todo = Batch(rows)
    BY <2>2, <2>3 DEF SenderType
  <2>5. sender' = [sender EXCEPT ![j] = new]
    BY <2>1
  <2>6. new.todo # <<>> /\ new.pc # "idle"
    BY <1>0, <2>4, BatchItems
  <2> HIDE DEF new
  <2>7. Begins(j)
    BY <1>0, <1>1, <2>4, <2>5 DEF StartBatch, Begins
  <2> QED
    BY <1>a, <2>4, <2>5, <2>6, <2>7
<1>2. ASSUME NEW j \in Sender, Take(j) PROVE Fine
  <2>1. sender[j].pc = "batch" /\ sender[j].todo # <<>> /\ sender' = [sender EXCEPT ![j].pc = "send"]
    BY <1>2 DEF Take, AtRow
  <2>2. sender' = [sender EXCEPT ![j] = [sender[j] EXCEPT !.pc = "send", !.tries = sender[j].tries]]
    BY <1>0, <2>1 DEF SenderType
  <2>3. sender[j].tries \in 0..MaxTries
    BY <1>0 DEF SenderType
  <2> QED
    BY <1>b, <2>1, <2>2, <2>3
<1>3. ASSUME NEW j \in Sender, NEW to \in {"mark", "failed"}, Moves(j, "send", to) PROVE Fine
  <2>1. sender[j].pc = "send" /\ sender[j].todo # <<>> /\ sender' = [sender EXCEPT ![j].pc = to]
    BY <1>0, <1>3 DEF Moves, AtWork
  <2>2. sender' = [sender EXCEPT ![j] = [sender[j] EXCEPT !.pc = to, !.tries = sender[j].tries]]
    BY <1>0, <2>1 DEF SenderType
  <2>3. sender[j].tries \in 0..MaxTries
    BY <1>0 DEF SenderType
  <2> QED
    BY <1>b, <2>1, <2>2, <2>3
<1>4. ASSUME NEW j \in Sender, ReadTries(j) PROVE Fine
  <2> DEFINE n == seq[Current(j)].tries + 1
  <2>1. sender[j].pc = "failed" /\ sender[j].todo # <<>>
    BY <1>0, <1>4 DEF ReadTries, AtWork
  <2>2. Current(j) \in Row
    BY <1>0, <2>1, CurrentIsRow
  <2>3. seq[Current(j)].tries \in 0..MaxTries /\ seq[Current(j)].tries < MaxTries
    BY <1>0, <2>2 DEF TypeInv, TriesLeft, SeqRecord
  <2>4. n \in 0..MaxTries
    BY <2>3, FollowUpBounds
  <2>5. sender' = [sender EXCEPT ![j].pc = "count", ![j].tries = n]
    BY <1>4 DEF ReadTries
  <2> HIDE DEF n
  <2>6. sender' = [sender EXCEPT ![j] = [sender[j] EXCEPT !.pc = "count", !.tries = n]]
    BY <1>0, <2>5 DEF SenderType
  <2> QED
    BY <1>b, <2>1, <2>4, <2>6
<1>5. ASSUME NEW j \in Sender, Busy(j) \/ AtRow(j, {"drop", "wait", "send"}), sender' = GoesOn(j) PROVE Fine
  <2>1. sender[j].pc # "idle" /\ sender[j].todo # <<>>
    BY <1>0, <1>5 DEF Busy, AtRow, AtWork
  <2>2. /\ GoesOn(j) \in [Sender -> SenderType]
        /\ GoesOn(j)[j].pc = "batch"
        /\ GoesOn(j)[j].todo = Tail(sender[j].todo)
        /\ GoesOn(j)[j].late = sender[j].late
        /\ \A k \in Sender \ {j} : GoesOn(j)[k] = sender[k]
    BY <1>0, <2>1, GoesOnFields
  <2>3. sender' = [sender EXCEPT ![j] = sender'[j]] /\ sender'[j] \in SenderType
    BY <1>0, <1>5, <2>2
  <2>4. sender[j].todo \in Seq(Item)
    BY <1>0 DEF SenderType
  <2>5. /\ Tail(sender[j].todo) \in Seq(Item) /\ Len(Tail(sender[j].todo)) = Len(sender[j].todo) - 1
        /\ \A i \in 1..Len(Tail(sender[j].todo)) : Tail(sender[j].todo)[i] = sender[j].todo[i + 1]
    BY <2>1, <2>4, HeadTailProperties
  <2>6. LeftFrom(j, 1)
    BY <1>5, <2>1, <2>2, <2>4, <2>5 DEF LeftFrom
  <2> QED
    BY <1>a, <1>5, <2>2, <2>3, <2>6 DEF Continues
<1>6. ASSUME NEW j \in Sender, sender' = [sender EXCEPT ![j] = Idle] PROVE Fine
  <2>1. Idle \in SenderType /\ Idle.pc = "idle" /\ Idle.todo = <<>>
    BY FollowUpBounds DEF Idle, SenderType
  <2>2. Continues(j)
    BY <1>0, <1>6, <2>1 DEF Continues, LeftFrom
  <2> QED
    BY <1>a, <1>6, <2>1, <2>2
<1>7. ASSUME NEW c \in Company, sender' = Withdrawn(c) PROVE Fine
  <2>1. /\ sender' \in [Sender -> SenderType]
        /\ \A j \in Sender :
              /\ sender'[j].pc = sender[j].pc /\ sender'[j].todo = sender[j].todo
              /\ sender[j].late \subseteq sender'[j].late
    BY <1>0, <1>7, WithdrawnFields
  <2>2. AtWork'
    BY <1>0, <2>1 DEF AtWork
  <2>3. \A j \in Sender : Continues(j)
    BY <1>0, <2>1, SameIsLeft DEF Continues
  <2> QED
    BY <2>1, <2>2, <2>3 DEF Fine
<1>8. ASSUME sender' = sender PROVE Fine
  <2>1. sender' \in [Sender -> SenderType] /\ AtWork'
    BY <1>0, <1>8 DEF AtWork
  <2>2. \A j \in Sender : Continues(j)
    BY <1>0, <1>8, SameIsLeft DEF Continues
  <2> QED
    BY <2>1, <2>2 DEF Fine
<1>9. ASSUME NEW j \in Sender, Proceeds(j) PROVE Fine
  <2>1. CASE StartBatch(j) \/ Take(j) \/ ReadTries(j)
    BY <1>1, <1>2, <1>4, <2>1
  <2>2. CASE \E to \in {"mark", "failed"} : Moves(j, "send", to)
    BY <1>3, <2>2
  <2>3. CASE (Busy(j) \/ AtRow(j, {"drop", "wait", "send"})) /\ sender' = GoesOn(j)
    BY <1>5, <2>3
  <2>4. CASE sender' = [sender EXCEPT ![j] = Idle]
    BY <1>6, <2>4
  <2> QED
    BY <1>9, <2>1, <2>2, <2>3, <2>4 DEF Proceeds
<1>10. sender' = sender \/ ChangesSender
  BY SenderChanges
<1>11. ASSUME \E j \in Sender : Proceeds(j) PROVE Fine
  BY <1>9, <1>11
<1>12. ASSUME \E c \in Company : sender' = Withdrawn(c) PROVE Fine
  BY <1>7, <1>12
<1>13. Fine
  BY <1>8, <1>10, <1>11, <1>12 DEF ChangesSender
<1> QED
  BY <1>13 DEF Fine

LEMMA WriterStep ==
  ASSUME TypeInv, [Next]_vars
  PROVE  /\ writer' \in [Writer -> SUBSET Row] /\ approving' \in [Row -> {"no", "fresh", "stale"}]
         /\ mixed' \subseteq Row
<1>0. writer \in [Writer -> SUBSET Row] /\ approving \in [Row -> {"no", "fresh", "stale"}] /\ mixed \subseteq Row
  BY DEF TypeInv, TypeOK, FollowUpTypeOK
<1> DEFINE Fine == /\ writer' \in [Writer -> SUBSET Row]
                   /\ approving' \in [Row -> {"no", "fresh", "stale"}] /\ mixed' \subseteq Row
<1>1. ASSUME NEW r \in Row, AskApprove(r) \/ Approve(r) \/ Edit(r) PROVE Fine
  BY <1>0, <1>1 DEF AskApprove, Approve, Edit
<1>2. ASSUME NEW r \in Row, NEW g \in Writer, WriteDraft(g, r) \/ SkipDraft(g, r) PROVE Fine
  BY <1>0, <1>2 DEF WriteDraft, SkipDraft, Overtaken
<1>3. ASSUME NEW c \in Company, NEW b \in BOOLEAN, ApproveAll({c}, b) PROVE Fine
  BY <1>0, <1>3 DEF ApproveAll
<1>4. ASSUME NEW rows \in SUBSET Row, ResetRows(rows) PROVE Fine
  BY <1>0, <1>4 DEF ResetRows, Overtaken
<1>5. ASSUME NEW g \in Writer, NEW C, ReadCandidates(g, C) PROVE Fine
  BY <1>0, <1>5 DEF ReadCandidates, Candidates
<1>6. ASSUME draft' = draft /\ writer' = writer /\ approving' = approving /\ mixed' = mixed PROVE Fine
  BY <1>0, <1>6
<1> HIDE DEF Fine
<1>7. Fine
  BY <1>1, <1>2, <1>3, <1>4, <1>5, <1>6, TextChanges DEF ChangesText
<1> QED
  BY <1>7 DEF Fine

LEMMA HistoryStep ==
  ASSUME TypeInv, [Next]_vars
  PROVE  /\ delivered' \in [Row -> 0..2] /\ unrecorded' \subseteq Row
         /\ template' \in [Step -> {"active", "inactive", "deleted"}] /\ tenantOn' \in BOOLEAN
<1>0. /\ delivered \in [Row -> 0..2] /\ unrecorded \subseteq Row
      /\ template \in [Step -> {"active", "inactive", "deleted"}] /\ tenantOn \in BOOLEAN
      /\ sender \in [Sender -> SenderType] /\ AtWork
  BY TypeFacts DEF TypeInv, TypeOK, FollowUpTypeOK
<1>a. ASSUME NEW j \in Sender, sender[j].pc \in {"send", "mark"} PROVE Current(j) \in Row
  BY <1>0, <1>a, CurrentIsRow DEF AtWork
<1>1. ASSUME NEW r \in Row PROVE Delivered(r) \in [Row -> 0..2]
  BY <1>0 DEF Delivered
<1>2. delivered' \in [Row -> 0..2]
  BY <1>0, <1>a, <1>1, DeliveredChanges DEF ChangesDelivered, Deliver, DeliverUnanswered
<1>3. unrecorded' \subseteq Row
  BY <1>0, <1>a, UnrecordedChanges DEF ChangesUnrecorded, DeliverUnanswered, MarkFails, CrashBatch
<1>4. template' \in [Step -> {"active", "inactive", "deleted"}] /\ tenantOn' \in BOOLEAN
  BY <1>0, TemplateChanges, TenantChanges DEF ChangesTemplate, SetTemplate
<1> QED
  BY <1>2, <1>3, <1>4

LEMMA InboxStep ==
  ASSUME TypeInv, [Next]_vars
  PROVE  /\ inbox' \in Seq([from : Address, reply : BOOLEAN]) /\ Len(inbox') <= MaxMessages
         /\ Len(inbox) <= Len(inbox') /\ \A uid \in 1..Len(inbox) : inbox'[uid] = inbox[uid]
<1>0. inbox \in Seq([from : Address, reply : BOOLEAN]) /\ Len(inbox) <= MaxMessages /\ Len(inbox) \in Nat
  BY DEF TypeInv, TypeOK
<1>1. ASSUME NEW a \in Address, NEW reply \in BOOLEAN, Arrive(a, reply)
      PROVE  /\ inbox' \in Seq([from : Address, reply : BOOLEAN]) /\ Len(inbox') = Len(inbox) + 1
             /\ \A uid \in 1..Len(inbox) : inbox'[uid] = inbox[uid]
  <2> DEFINE Message == [from : Address, reply : BOOLEAN]
             new == [from |-> a, reply |-> reply]
  <2>1. new \in Message
    OBVIOUS
  <2>2. inbox' = Append(inbox, new)
    BY <1>1 DEF Arrive
  <2>3. inbox \in Seq(Message)
    BY <1>0
  <2> HIDE DEF Message, new
  <2>4. inbox' \in Seq(Message) /\ Len(inbox') = Len(inbox) + 1 /\ \A uid \in 1..Len(inbox) : inbox'[uid] = inbox[uid]
    BY <2>1, <2>2, <2>3, AppendProperties
  <2> QED
    BY <2>4 DEF Message
<1>2. ASSUME NEW a \in Address, NEW reply \in BOOLEAN, Arrive(a, reply) PROVE Len(inbox) < MaxMessages
  BY <1>2 DEF Arrive
<1>3. CASE ChangesInbox
  <2>1. PICK a \in Address, reply \in BOOLEAN : Arrive(a, reply)
    BY <1>3 DEF ChangesInbox
  <2>2. /\ inbox' \in Seq([from : Address, reply : BOOLEAN]) /\ Len(inbox') = Len(inbox) + 1
        /\ \A uid \in 1..Len(inbox) : inbox'[uid] = inbox[uid]
    BY <1>1, <2>1
  <2>3. Len(inbox) < MaxMessages
    BY <1>2, <2>1
  <2> QED
    BY <1>0, <2>2, <2>3, CheckerConstants
<1>4. CASE inbox' = inbox
  BY <1>0, <1>4
<1> QED
  BY <1>3, <1>4, InboxChanges

LEMMA CheckerTypes ==
  ASSUME TypeInv, [Next]_vars
  PROVE  /\ checker' \in [Checker -> CheckRecord] /\ MessageAhead'
         /\ lastUid' \in Uid /\ passed' \in Uid
<1>0. /\ checker \in [Checker -> CheckRecord] /\ MessageAhead /\ lastUid \in Uid /\ passed \in Uid
      /\ Len(inbox) \in Uid
  BY TypeFacts, CheckerConstants DEF TypeInv, TypeOK, Uid
<1>a. 0 \in Uid
  BY CheckerConstants DEF Uid
<1>b. ASSUME NEW k \in Checker, NEW new \in CheckRecord, checker' = [checker EXCEPT ![k] = new],
             new.pc \in {"store", "cancel"} => new.at < new.upto
      PROVE  checker' \in [Checker -> CheckRecord] /\ MessageAhead'
  BY <1>0, <1>b DEF MessageAhead
<1>1. ASSUME NEW k \in Checker, NEW uid \in Uid, StartCheck(k, uid)
      PROVE  checker' \in [Checker -> CheckRecord] /\ MessageAhead'
  <2> DEFINE new == [Away EXCEPT !.pc = IF uid = 0 THEN "seed" ELSE "read", !.at = uid, !.upto = Len(inbox)]
  <2>1. new \in CheckRecord /\ new.pc \in {"seed", "read"}
    BY <1>0, <1>a DEF Away, CheckRecord
  <2>2. checker' = [checker EXCEPT ![k] = new]
    BY <1>1 DEF StartCheck
  <2> HIDE DEF new
  <2> QED
    BY <1>b, <2>1, <2>2
<1>2. ASSUME NEW k \in Checker, ReadMessage(k) PROVE checker' \in [Checker -> CheckRecord] /\ MessageAhead'
  <2> DEFINE next == checker[k].at + 1
             from == IF inbox[next].reply THEN Unanswered(inbox[next].from) ELSE {}
             new == [checker[k] EXCEPT !.at = IF from = {} THEN next ELSE @,
                                       !.pc = IF from = {} THEN "read" ELSE "store", !.found = from]
  <2>1. checker[k] \in CheckRecord /\ checker[k].at < checker[k].upto /\ checker[k].at \in Uid /\ checker[k].upto \in Uid
    BY <1>0, <1>2 DEF ReadMessage, CheckRecord
  <2>2. next \in Uid
    BY <2>1, CheckerConstants DEF Uid
  <2>3. from \subseteq Company
    BY DEF Unanswered
  <2>4. checker' = [checker EXCEPT ![k].at = IF from = {} THEN next ELSE @,
                                   ![k].pc = IF from = {} THEN "read" ELSE "store", ![k].found = from]
    BY <1>2 DEF ReadMessage
  <2> HIDE DEF from, next
  <2>5. checker' = [checker EXCEPT ![k] = new]
    BY <1>0, <2>4
  <2>6. new \in CheckRecord
    BY <2>1, <2>2, <2>3 DEF CheckRecord
  <2>7. new.pc = "store" => new.at = checker[k].at /\ new.upto = checker[k].upto
    BY <2>1 DEF CheckRecord
  <2>8. new.pc # "cancel"
    BY <2>1 DEF CheckRecord
  <2> HIDE DEF new
  <2> QED
    BY <1>b, <2>1, <2>5, <2>6, <2>7, <2>8
<1>3. ASSUME NEW k \in Checker, CancelReplied(k) PROVE checker' \in [Checker -> CheckRecord] /\ MessageAhead'
  <2> DEFINE next == checker[k].at + 1
             new == [checker[k] EXCEPT !.pc = "read", !.at = next, !.found = {}]
  <2>1. checker[k] \in CheckRecord /\ checker[k].at < checker[k].upto /\ checker[k].at \in Uid /\ checker[k].upto \in Uid
    BY <1>0, <1>3 DEF CancelReplied, CheckRecord, MessageAhead
  <2>2. next \in Uid
    BY <2>1, CheckerConstants DEF Uid
  <2>3. checker' = [checker EXCEPT ![k].pc = "read", ![k].at = next, ![k].found = {}]
    BY <1>3 DEF CancelReplied
  <2> HIDE DEF next
  <2>4. checker' = [checker EXCEPT ![k] = new]
    BY <1>0, <2>3
  <2>5. new \in CheckRecord /\ new.pc = "read"
    BY <2>1, <2>2 DEF CheckRecord
  <2> HIDE DEF new
  <2> QED
    BY <1>b, <2>4, <2>5
<1>4. ASSUME NEW k \in Checker, NEW c \in Company, StoreReply(k, c)
      PROVE  checker' \in [Checker -> CheckRecord] /\ MessageAhead'
  <2> DEFINE new == [checker[k] EXCEPT !.pc = "cancel", !.found = {c}]
  <2>1. checker[k] \in CheckRecord /\ checker[k].at < checker[k].upto
    BY <1>0, <1>4 DEF StoreReply, CheckRecord, MessageAhead
  <2>2. checker' = [checker EXCEPT ![k] = new]
    BY <1>0, <1>4 DEF StoreReply
  <2>3. new \in CheckRecord /\ new.at = checker[k].at /\ new.upto = checker[k].upto
    BY <2>1 DEF CheckRecord
  <2> HIDE DEF new
  <2> QED
    BY <1>b, <2>1, <2>2, <2>3
<1>5. ASSUME NEW k \in Checker, checker' = [checker EXCEPT ![k] = Away]
      PROVE  checker' \in [Checker -> CheckRecord] /\ MessageAhead'
  <2>1. Away \in CheckRecord /\ Away.pc = "idle"
    BY <1>a DEF Away, CheckRecord
  <2> QED
    BY <1>b, <1>5, <2>1
<1>6. ASSUME checker' = checker PROVE checker' \in [Checker -> CheckRecord] /\ MessageAhead'
  BY <1>0, <1>6 DEF MessageAhead
<1>7. checker' \in [Checker -> CheckRecord] /\ MessageAhead'
  BY <1>1, <1>2, <1>3, <1>4, <1>5, <1>6, CheckerChanges DEF ChangesChecker
<1>8. \A k \in Checker : checker[k].at \in Uid /\ checker[k].upto \in Uid
  BY <1>0 DEF CheckRecord
<1>9. lastUid' \in Uid
  BY <1>0, <1>8, LastUidChanges DEF ChangesLastUid, Seed, SaveUid, Reached
<1>10. passed' \in Uid
  BY <1>0, <1>8, PassedChanges DEF ChangesPassed, Seed
<1> QED
  BY <1>7, <1>9, <1>10

LEMMA InitTypes == ASSUME Init PROVE TypeInv
<1>1. FollowUpTypeOK
  <2>1. Idle \in SenderType
    BY FollowUpBounds DEF Idle, SenderType
  <2>2. Ordered
    BY DEF Init, FollowUpInit, Ordered, InOrder, Due
  <2>3. seq \in [Row -> SeqRecord]
    BY FollowUpBounds DEF Init, FollowUpInit, SeqRecord
  <2> QED
    BY <2>1, <2>2, <2>3 DEF Init, FollowUpInit, FollowUpTypeOK, Ordered, SeqRecord
<1>2. inbox \in Seq([from : Address, reply : BOOLEAN]) /\ Len(inbox) = OldMessages
  <2> DEFINE Old == [from : Address, reply : {FALSE}]
             Message == [from : Address, reply : BOOLEAN]
  <2>1. inbox \in [1..OldMessages -> Old]
    BY DEF Init
  <2>a. ASSUME NEW m \in Old PROVE m \in Message
    <3>1. m = [from |-> m.from, reply |-> m.reply] /\ m.from \in Address /\ m.reply = FALSE
      OBVIOUS
    <3>2. [from |-> m.from, reply |-> FALSE] \in Message
      BY <3>1
    <3> QED
      BY <3>1, <3>2
  <2> HIDE DEF Old, Message
  <2>2. Old \subseteq Message /\ OldMessages \in Nat
    BY <2>a, CheckerConstants
  <2>3. inbox \in [1..OldMessages -> Message]
    BY <2>1, <2>2
  <2>4. inbox \in Seq(Message) /\ Len(inbox) = OldMessages
    BY <2>2, <2>3, IsASeq
  <2> QED
    BY <2>4 DEF Message
<1>3. Away \in CheckRecord /\ Away.pc = "idle"
  BY CheckerConstants DEF Away, CheckRecord, Uid
<1>4. checker \in [Checker -> CheckRecord] /\ MessageAhead /\ lastUid \in Uid /\ passed \in Uid
  BY <1>3, CheckerConstants DEF Init, MessageAhead, Uid
<1>5. AtWork /\ TriesLeft
  BY FollowUpBounds DEF Init, FollowUpInit, AtWork, TriesLeft, Idle
<1> QED
  BY <1>1, <1>2, <1>4, <1>5, CheckerConstants DEF TypeInv, TypeOK, CheckRecord

LEMMA NextTypes == ASSUME TypeInv, [Next]_vars PROVE TypeInv'
<1>1. FollowUpTypeOK'
  BY LeadStep, SeqStep, AgendaStep, DraftStep, SenderSteps, WriterStep, HistoryStep
     DEF FollowUpTypeOK, LeadRecord, SeqRecord, DraftRecord, Ordered
<1>2. AtWork' /\ TriesLeft' /\ MessageAhead'
  BY SenderSteps, SeqStep, CheckerTypes
<1>3. TypeOK'
  BY <1>1, InboxStep, CheckerTypes DEF TypeOK, CheckRecord
<1> QED
  BY <1>2, <1>3 DEF TypeInv

LEMMA TypeInvHolds == Spec => []TypeInv
BY InitTypes, NextTypes, PTL DEF Spec

\* The tables and the jobs of the follow-ups and of the reply checker keep
\* their types: the order of the rows that are due stays an order, and no try
\* is counted beyond the last (processFollowUps, checkReplies).
THEOREM TypesAreKept == Spec => []TypeOK
<1>1. TypeInv => TypeOK
  BY DEF TypeInv
<1> QED
  BY <1>1, TypeInvHolds, PTL

-----------------------------------------------------------------------------
(* NoReplyPassedOver: what holds up to last_uid holds up to where each check *)
(* is, and a check that is storing a reply has found whose it is.            *)

Stored(uid) ==
    uid > passed /\ inbox[uid].reply /\ inbox[uid].from \in {AddressOf[c] : c \in Company} =>
        \E c \in Company : AddressOf[c] = inbox[uid].from /\ lead[c].replied

UpTo(n) == n <= Len(inbox) /\ \A uid \in 1..n : Stored(uid)
SenderOfNext(k) == inbox[checker[k].at + 1].from

CheckKnows(k) ==
    /\ UpTo(checker[k].at)
    /\ checker[k].upto <= Len(inbox)
    /\ checker[k].pc = "store" => \A c \in checker[k].found : AddressOf[c] = SenderOfNext(k)
    /\ checker[k].pc = "cancel" =>
          /\ checker[k].found # {}
          /\ \A c \in checker[k].found : AddressOf[c] = SenderOfNext(k) /\ lead[c].replied

ReplyInv == UpTo(lastUid) /\ \A k \in Checker : CheckKnows(k)

\* A company that has replied stays so, and no first run gives back messages.
LEMMA RepliesStay ==
  ASSUME TypeInv, [Next]_vars
  PROVE  passed <= passed' /\ \A c \in Company : lead[c].replied => lead'[c].replied
<1>0. lead \in [Company -> LeadRecord] /\ passed \in Nat /\ \A k \in Checker : checker[k].upto \in Nat
  BY TypeFacts, CheckerConstants DEF TypeInv, TypeOK, Uid, CheckRecord
<1>1. passed <= passed'
  BY <1>0, PassedChanges DEF ChangesPassed, Seed
<1>2. ASSUME NEW c \in Company, MailMain(c) PROVE \A d \in Company : lead[d].replied => lead'[d].replied
  BY <1>0, <1>2 DEF MailMain, LeadRecord
<1>3. ASSUME NEW c \in Company, NEW b \in BOOLEAN, OptOut(c, b) \/ SetMarketing(c, b)
      PROVE  \A d \in Company : lead[d].replied => lead'[d].replied
  BY <1>0, <1>3 DEF OptOut, SetMarketing, LeadRecord
<1>4. ASSUME NEW c \in Company, NEW k \in Checker, StoreReply(k, c)
      PROVE  \A d \in Company : lead[d].replied => lead'[d].replied
  BY <1>0, <1>4 DEF StoreReply, LeadRecord
<1>5. \A c \in Company : lead[c].replied => lead'[c].replied
  BY <1>2, <1>3, <1>4, LeadChanges DEF ChangesLead
<1> QED
  BY <1>1, <1>5

\* So what was stored stays stored.
LEMMA StoredStays ==
  ASSUME TypeInv, [Next]_vars, NEW n \in Nat, UpTo(n)
  PROVE  UpTo(n)'
<1>0. /\ Len(inbox) \in Nat /\ Len(inbox') \in Nat /\ Len(inbox) <= Len(inbox')
      /\ \A uid \in 1..Len(inbox) : inbox'[uid] = inbox[uid]
  BY InboxStep DEF TypeInv, TypeOK
<1>1. passed \in Nat /\ passed' \in Nat /\ passed <= passed' /\ \A c \in Company : lead[c].replied => lead'[c].replied
  BY RepliesStay, CheckerTypes, CheckerConstants DEF TypeInv, TypeOK, Uid
<1>2. ASSUME NEW uid \in 1..n PROVE Stored(uid)'
  <2>1. uid \in 1..Len(inbox) /\ Stored(uid)
    BY <1>0, <1>2 DEF UpTo
  <2>2. inbox'[uid] = inbox[uid] /\ (uid > passed' => uid > passed)
    BY <1>0, <1>1, <2>1
  <2> QED
    BY <1>1, <2>1, <2>2 DEF Stored
<1> QED
  BY <1>0, <1>2 DEF UpTo

\* A check that is left alone knows what it knew.
LEMMA KnowsStays ==
  ASSUME TypeInv, [Next]_vars, NEW k \in Checker, CheckKnows(k), checker'[k] = checker[k]
  PROVE  CheckKnows(k)'
<1>0. /\ checker[k] \in CheckRecord /\ checker[k].at \in Nat /\ checker[k].upto \in Nat
      /\ checker[k].pc \in {"store", "cancel"} => checker[k].at < checker[k].upto
  BY TypeFacts, CheckerConstants DEF TypeInv, MessageAhead, CheckRecord, Uid
<1>1. UpTo(checker[k].at)'
  <2>1. PICK n \in Nat : checker[k].at = n
    BY <1>0
  <2>2. UpTo(n)'
    BY <2>1, StoredStays DEF CheckKnows
  <2> QED
    BY <2>1, <2>2 DEF UpTo
<1>2. /\ Len(inbox) \in Nat /\ Len(inbox') \in Nat /\ Len(inbox) <= Len(inbox')
      /\ \A uid \in 1..Len(inbox) : inbox'[uid] = inbox[uid]
  BY InboxStep DEF TypeInv, TypeOK
<1>3. checker[k].pc \in {"store", "cancel"} => SenderOfNext(k)' = SenderOfNext(k)
  <2> SUFFICES ASSUME checker[k].pc \in {"store", "cancel"} PROVE SenderOfNext(k)' = SenderOfNext(k)
    OBVIOUS
  <2>1. checker[k].at + 1 \in 1..Len(inbox)
    BY <1>0, <1>2 DEF CheckKnows
  <2> QED
    BY <1>2, <2>1 DEF SenderOfNext
<1>4. \A c \in checker[k].found : c \in Company /\ (lead[c].replied => lead'[c].replied)
  BY <1>0, RepliesStay DEF CheckRecord
<1> QED
  BY <1>0, <1>1, <1>2, <1>3, <1>4 DEF CheckKnows

\* The other checks know what they knew when one check changes.
LEMMA OneCheckChanges ==
  ASSUME TypeInv, ReplyInv, [Next]_vars, NEW k \in Checker, NEW new, checker' = [checker EXCEPT ![k] = new],
         CheckKnows(k)'
  PROVE  \A j \in Checker : CheckKnows(j)'
<1>1. ASSUME NEW j \in Checker, j # k PROVE CheckKnows(j)'
  BY <1>1, KnowsStays, TypeFacts DEF ReplyInv
<1> QED
  BY <1>1

LEMMA CheckersKnow == ASSUME TypeInv, ReplyInv, [Next]_vars PROVE \A j \in Checker : CheckKnows(j)'
<1> DEFINE Fine == \A j \in Checker : CheckKnows(j)'
<1> HIDE DEF Fine
<1>0. /\ \A k \in Checker : /\ checker[k] \in CheckRecord /\ checker[k].at \in Nat /\ checker[k].upto \in Nat
                            /\ checker[k].pc \in {"store", "cancel"} => checker[k].at < checker[k].upto
                            /\ CheckKnows(k)
      /\ checker \in [Checker -> CheckRecord] /\ lastUid \in Nat /\ UpTo(lastUid)
  BY TypeFacts, CheckerConstants DEF TypeInv, TypeOK, MessageAhead, CheckRecord, Uid, ReplyInv
<1>a. /\ Len(inbox) \in Nat /\ Len(inbox') \in Nat /\ Len(inbox) <= Len(inbox')
      /\ \A uid \in 1..Len(inbox) : inbox'[uid] = inbox[uid]
  BY InboxStep DEF TypeInv, TypeOK
<1>1. ASSUME NEW k \in Checker, NEW uid \in Uid, StartCheck(k, uid) PROVE Fine
  <2> DEFINE new == [Away EXCEPT !.pc = IF uid = 0 THEN "seed" ELSE "read", !.at = uid, !.upto = Len(inbox)]
  <2>1. new.pc \in {"seed", "read"} /\ new.at = uid /\ new.upto = Len(inbox)
    BY DEF Away
  <2>2. checker' = [checker EXCEPT ![k] = new]
    BY <1>1 DEF StartCheck
  <2> HIDE DEF new
  <2>3. checker'[k] = new
    BY <1>0, <2>2
  <2>4. uid \in Nat /\ UpTo(uid)
    <3>1. uid \in Nat
      BY CheckerConstants DEF Uid
    <3>2. CASE uid = lastUid
      BY <1>0, <3>1, <3>2
    <3>3. CASE uid = 0
      BY <1>a, <3>1, <3>3 DEF UpTo
    <3> QED
      BY <1>1, <3>1, <3>2, <3>3 DEF StartCheck
  <2>5. UpTo(uid)'
    BY <2>4, StoredStays
  <2>6. CheckKnows(k)'
    BY <1>a, <2>1, <2>3, <2>5 DEF CheckKnows, UpTo
  <2> QED
    BY <2>2, <2>6, OneCheckChanges DEF Fine
<1>2. ASSUME NEW k \in Checker, ReadMessage(k) PROVE Fine
  <2>1. PICK n \in Nat : checker[k].at = n /\ checker[k].upto \in Nat /\ n < checker[k].upto
    BY <1>0, <1>2 DEF ReadMessage
  <2> DEFINE from == IF inbox[n + 1].reply THEN Unanswered(inbox[n + 1].from) ELSE {}
  <2>2. checker' = [checker EXCEPT ![k] =
            [checker[k] EXCEPT !.at = IF from = {} THEN n + 1 ELSE n,
                               !.pc = IF from = {} THEN "read" ELSE "store", !.found = from]]
    <3>1. checker' = [checker EXCEPT ![k].at = IF from = {} THEN n + 1 ELSE @,
                                     ![k].pc = IF from = {} THEN "read" ELSE "store", ![k].found = from]
      BY <1>2, <2>1 DEF ReadMessage
    <3> HIDE DEF from
    <3> QED
      BY <1>0, <2>1, <3>1
  <2>3. \A c \in from : AddressOf[c] = inbox[n + 1].from
    BY DEF Unanswered
  <2>4. from = {} => Stored(n + 1)
    <3> SUFFICES ASSUME from = {}, inbox[n + 1].reply, NEW c \in Company, AddressOf[c] = inbox[n + 1].from
                 PROVE  lead[c].replied
      BY DEF Stored
    <3> QED
      BY DEF Unanswered
  <2> HIDE DEF from
  <2>5. /\ checker'[k].at = IF from = {} THEN n + 1 ELSE n
        /\ checker'[k].pc = IF from = {} THEN "read" ELSE "store"
        /\ checker'[k].found = from /\ checker'[k].upto = checker[k].upto
    BY <1>0, <2>2 DEF CheckRecord
  <2>6. UpTo(n) /\ checker[k].upto <= Len(inbox)
    BY <1>0, <2>1 DEF CheckKnows
  <2>7. UpTo(n)' /\ (from = {} => UpTo(n + 1)')
    <3>1. from = {} => UpTo(n + 1)
      BY <1>a, <2>1, <2>4, <2>6 DEF UpTo
    <3> QED
      BY <2>6, <3>1, StoredStays
  <2>8. CheckKnows(k)'
    <3>1. UpTo(checker[k].at)'
      BY <2>5, <2>7 DEF UpTo
    <3>2. checker'[k].upto <= Len(inbox')
      BY <1>a, <2>1, <2>5, <2>6
    <3>3. inbox'[n + 1] = inbox[n + 1]
      BY <1>a, <2>1, <2>6
    <3> QED
      BY <2>3, <2>5, <3>1, <3>2, <3>3 DEF CheckKnows, SenderOfNext
  <2> QED
    BY <2>2, <2>8, OneCheckChanges DEF Fine
<1>3. ASSUME NEW k \in Checker, CancelReplied(k) PROVE Fine
  <2>1. PICK n \in Nat : checker[k].at = n /\ checker[k].upto \in Nat /\ n < checker[k].upto
    BY <1>0, <1>3 DEF CancelReplied
  <2>2. checker' = [checker EXCEPT ![k] = [checker[k] EXCEPT !.pc = "read", !.at = n + 1, !.found = {}]]
    BY <1>0, <1>3, <2>1 DEF CancelReplied
  <2>3. checker'[k].pc = "read" /\ checker'[k].at = n + 1 /\ checker'[k].upto = checker[k].upto
    BY <1>0, <2>2 DEF CheckRecord
  <2>4. UpTo(n) /\ checker[k].upto <= Len(inbox)
    BY <1>0, <2>1 DEF CheckKnows
  <2>5. Stored(n + 1)
    <3>1. checker[k].found \subseteq Company
      BY <1>0 DEF CheckRecord
    <3>2. \E c \in checker[k].found : AddressOf[c] = inbox[n + 1].from /\ lead[c].replied
      BY <1>0, <1>3, <2>1 DEF CancelReplied, CheckKnows, SenderOfNext
    <3> QED
      BY <3>1, <3>2 DEF Stored
  <2>6. UpTo(n + 1)
    BY <1>a, <2>1, <2>4, <2>5 DEF UpTo
  <2>7. UpTo(n + 1)'
    BY <2>6, StoredStays
  <2>8. CheckKnows(k)'
    BY <1>a, <2>1, <2>3, <2>4, <2>7 DEF CheckKnows, UpTo
  <2> QED
    BY <2>2, <2>8, OneCheckChanges DEF Fine
<1>4. ASSUME NEW k \in Checker, NEW c \in Company, StoreReply(k, c) PROVE Fine
  <2>1. PICK n \in Nat : checker[k].at = n /\ checker[k].upto \in Nat /\ n < checker[k].upto
    BY <1>0, <1>4 DEF StoreReply
  <2>2. checker' = [checker EXCEPT ![k] = [checker[k] EXCEPT !.pc = "cancel", !.found = {c}]]
    BY <1>0, <1>4 DEF StoreReply
  <2>3. checker'[k].pc = "cancel" /\ checker'[k].at = n /\ checker'[k].upto = checker[k].upto /\ checker'[k].found = {c}
    BY <1>0, <2>1, <2>2 DEF CheckRecord
  <2>4. UpTo(n) /\ checker[k].upto <= Len(inbox) /\ AddressOf[c] = inbox[n + 1].from
    BY <1>0, <1>4, <2>1 DEF CheckKnows, StoreReply, SenderOfNext
  <2>5. lead'[c].replied
    BY <1>4, TypeFacts DEF StoreReply, LeadRecord
  <2>6. UpTo(n)'
    BY <2>4, StoredStays
  <2>7. CheckKnows(k)'
    <3>1. UpTo(checker[k].at)'
      BY <2>3, <2>6 DEF UpTo
    <3>2. checker'[k].upto <= Len(inbox')
      BY <1>a, <2>1, <2>3, <2>4
    <3>3. inbox'[n + 1] = inbox[n + 1]
      BY <1>a, <2>1, <2>4
    <3> QED
      BY <2>3, <2>4, <2>5, <3>1, <3>2, <3>3 DEF CheckKnows, SenderOfNext
  <2> QED
    BY <2>2, <2>7, OneCheckChanges DEF Fine
<1>5. ASSUME NEW k \in Checker, checker' = [checker EXCEPT ![k] = Away] PROVE Fine
  <2>1. checker'[k].pc = "idle" /\ checker'[k].at = 0 /\ checker'[k].upto = 0
    BY <1>0, <1>5 DEF Away
  <2>2. CheckKnows(k)'
    BY <1>a, <2>1 DEF CheckKnows, UpTo
  <2> QED
    BY <1>5, <2>2, OneCheckChanges DEF Fine
<1>6. ASSUME checker' = checker PROVE Fine
  BY <1>0, <1>6, KnowsStays DEF Fine
<1>7. Fine
  BY <1>1, <1>2, <1>3, <1>4, <1>5, <1>6, CheckerChanges DEF ChangesChecker
<1> QED
  BY <1>7 DEF Fine

\* The position is saved by a check that is there, or by a first run, which
\* exempts the messages it skips.
LEMMA PositionKept == ASSUME TypeInv, ReplyInv, [Next]_vars PROVE UpTo(lastUid)'
<1>0. /\ \A k \in Checker : checker[k].at \in Nat /\ checker[k].upto \in Nat /\ CheckKnows(k)
      /\ lastUid \in Nat /\ UpTo(lastUid) /\ passed \in Nat
  BY TypeFacts, CheckerConstants DEF TypeInv, TypeOK, CheckRecord, Uid, ReplyInv
<1>1. CASE lastUid' = lastUid
  <2>1. PICK n \in Nat : lastUid = n
    BY <1>0
  <2> QED
    BY <1>0, <1>1, <2>1, StoredStays DEF UpTo
<1>2. ASSUME NEW k \in Checker, Seed(k), lastUid' # lastUid PROVE UpTo(lastUid)'
  <2>1. lastUid' = checker[k].upto /\ checker[k].upto <= passed' /\ inbox' = inbox
    BY <1>0, <1>2 DEF Seed
  <2>2. \A uid \in 1..lastUid' : ~(uid > passed')
    BY <1>0, <2>1, CheckerTypes, CheckerConstants DEF Uid
  <2> QED
    BY <1>0, <2>1, <2>2 DEF UpTo, Stored, CheckKnows
<1>3. ASSUME NEW k \in Checker, SaveUid(k), lastUid' # lastUid PROVE UpTo(lastUid)'
  <2>1. PICK n \in Nat : checker[k].at = n
    BY <1>0
  <2>2. lastUid' = n /\ UpTo(n)
    BY <1>0, <1>3, <2>1 DEF SaveUid, Reached, CheckKnows
  <2> QED
    BY <2>2, StoredStays DEF UpTo
<1> QED
  BY <1>1, <1>2, <1>3, LastUidChanges DEF ChangesLastUid

LEMMA InitReplies == ASSUME Init PROVE ReplyInv
<1>1. Len(inbox) = OldMessages /\ OldMessages \in Nat
  BY CheckerConstants DEF Init
<1>2. UpTo(lastUid) /\ UpTo(0)
  BY <1>1 DEF Init, UpTo, Stored
<1> QED
  BY <1>1, <1>2 DEF Init, ReplyInv, CheckKnows, Away

LEMMA ReplyInvHolds == Spec => []ReplyInv
<1>1. TypeInv /\ ReplyInv /\ [Next]_vars => ReplyInv'
  BY CheckersKnow, PositionKept DEF ReplyInv
<1> QED
  BY <1>1, InitReplies, TypeInvHolds, PTL DEF Spec

\* A reply that last_uid has passed is in has_replied of a company with the
\* sender's address: checks that overlap, break off or fail to read or save
\* the position pass over no reply (checkReplies, saveLastUid, loadLastUid).
THEOREM RepliesAreReached == Spec => []NoReplyPassedOver
<1>1. ReplyInv => NoReplyPassedOver
  BY DEF ReplyInv, UpTo, Stored, NoReplyPassedOver
<1> QED
  BY <1>1, ReplyInvHolds, PTL

-----------------------------------------------------------------------------
(* OnlySeenTextIsSent: while no two requests overlap on a draft, an approval *)
(* concerns the text that is there, a generator has read only drafts that    *)
(* are not made, and so an approved text is one that a person has seen.      *)

DraftSeen(r) ==
    /\ draft[r].ok => draft[r].made /\ draft[r].seen
    /\ approving[r] # "no" => approving[r] = "fresh" /\ draft[r].made
    /\ \A g \in Writer : r \in writer[g] => ~draft[r].made
    /\ \A g, h \in Writer : r \in writer[g] /\ r \in writer[h] => g = h

ReadSeen(j) ==
    /\ \A i \in 1..Len(sender[j].todo) : LET item == sender[j].todo[i] IN
          item.verdict = "send" => item.seen \/ item.row \in mixed
    /\ sender[j].pc = "send" => Head(sender[j].todo).verdict = "send"

SeenInv == (\A r \in Row : r \notin mixed => DraftSeen(r)) /\ (\A j \in Sender : ReadSeen(j))

LEMMA MixedStays == ASSUME [Next]_vars PROVE mixed \subseteq mixed'
BY TextChanges DEF ChangesText, AskApprove, Approve, Edit, WriteDraft, SkipDraft, ApproveAll, ReadCandidates, ResetRows

LEMMA DraftsSeen ==
  ASSUME TypeInv, SeenInv, [Next]_vars, NEW r \in Row, r \notin mixed'
  PROVE  DraftSeen(r)'
<1> DEFINE Fine == DraftSeen(r)'
<1> HIDE DEF Fine
<1>0. /\ draft \in [Row -> DraftRecord] /\ writer \in [Writer -> SUBSET Row]
      /\ approving \in [Row -> {"no", "fresh", "stale"}]
      /\ r \notin mixed /\ DraftSeen(r)
  BY TypeFacts, MixedStays DEF TypeInv, TypeOK, FollowUpTypeOK, SeenInv
<1>1. ASSUME NEW s \in Row, AskApprove(s) PROVE Fine
  BY <1>0, <1>1 DEF AskApprove, DraftSeen, Fine
<1>2. ASSUME NEW s \in Row, Approve(s) PROVE Fine
  <2>1. /\ draft'[r].ok = (draft[r].ok \/ r = s) /\ draft'[r].made = draft[r].made
        /\ draft'[r].seen = (draft[r].seen \/ (r = s /\ approving[s] = "fresh"))
    BY <1>0, <1>2 DEF Approve, DraftRecord
  <2>2. /\ r # s => approving'[r] = approving[r]
        /\ approving'[s] = "no" /\ approving[s] # "no" /\ writer' = writer
    BY <1>0, <1>2 DEF Approve
  <2> QED
    BY <1>0, <2>1, <2>2 DEF DraftSeen, Fine
<1>3. ASSUME NEW s \in Row, Edit(s) PROVE Fine
  <2>1. draft'[r].ok = draft[r].ok /\ draft'[r].made = draft[r].made /\ (draft[r].seen => draft'[r].seen)
    BY <1>0, <1>3 DEF Edit, DraftRecord
  <2>2. approving' = approving /\ writer' = writer
    BY <1>3 DEF Edit
  <2> QED
    BY <1>0, <2>1, <2>2 DEF DraftSeen, Fine
<1>4. ASSUME NEW s \in Row, NEW g \in Writer, WriteDraft(g, s) PROVE Fine
  <2>1. /\ draft'[r].ok = draft[r].ok /\ draft'[r].made = (draft[r].made \/ r = s)
        /\ r # s => draft'[r].seen = draft[r].seen
    BY <1>0, <1>4 DEF WriteDraft, Written, DraftRecord
  <2>2. /\ s \in writer[g] /\ \A h \in Writer : writer'[h] = IF h = g THEN writer[g] \ {s} ELSE writer[h]
        /\ r # s => approving'[r] = approving[r]
    BY <1>0, <1>4 DEF WriteDraft, Overtaken
  <2>3. CASE r # s
    BY <1>0, <2>1, <2>2, <2>3 DEF DraftSeen, Fine
  <2>4. CASE r = s
    <3>1. ~draft[r].made /\ ~draft[r].ok /\ approving[r] = "no"
      BY <1>0, <2>2, <2>4 DEF DraftSeen
    <3>2. approving'[r] = "no"
      BY <1>0, <1>4, <3>1 DEF WriteDraft, Overtaken
    <3>3. \A h \in Writer : r \notin writer'[h]
      BY <1>0, <2>2, <2>4 DEF DraftSeen
    <3> QED
      BY <2>1, <3>1, <3>2, <3>3 DEF DraftSeen, Fine
  <2> QED
    BY <2>3, <2>4
<1>5. ASSUME NEW s \in Row, NEW g \in Writer, SkipDraft(g, s) PROVE Fine
  <2>1. draft' = draft /\ approving' = approving /\ \A h \in Writer : writer'[h] \subseteq writer[h]
    BY <1>0, <1>5 DEF SkipDraft
  <2> QED
    BY <1>0, <2>1 DEF DraftSeen, Fine
<1>6. ASSUME NEW c \in Company, NEW b \in BOOLEAN, ApproveAll({c}, b) PROVE Fine
  <2>1. \/ draft'[r] = draft[r]
        \/ draft'[r].made /\ draft[r].made /\ (draft'[r].ok => draft'[r].seen)
    BY <1>0, <1>6 DEF ApproveAll
  <2>2. approving' = approving /\ writer' = writer
    BY <1>6 DEF ApproveAll
  <2> QED
    BY <1>0, <2>1, <2>2 DEF DraftSeen, Fine
<1>7. ASSUME NEW rows \in SUBSET Row, ResetRows(rows) PROVE Fine
  <2>1. /\ r \in rows => ~draft'[r].ok /\ ~draft'[r].made /\ approving[r] = "no"
        /\ r \notin rows => draft'[r] = draft[r]
    BY <1>0, <1>7 DEF ResetRows
  <2>2. writer' = writer /\ (approving[r] = "no" => approving'[r] = "no")
        /\ (r \notin rows => approving'[r] = approving[r])
    BY <1>0, <1>7 DEF ResetRows, Overtaken
  <2> QED
    BY <1>0, <2>1, <2>2 DEF DraftSeen, Fine
<1>8. ASSUME NEW g \in Writer, NEW C, ReadCandidates(g, C) PROVE Fine
  <2>1. draft' = draft /\ approving' = approving
    BY <1>8 DEF ReadCandidates
  <2>2. \A h \in Writer \ {g} : writer'[h] = writer[h]
    BY <1>0, <1>8 DEF ReadCandidates
  <2>3. r \in writer'[g] => ~draft[r].made /\ \A h \in Writer : r \notin writer[h]
    BY <1>0, <1>8 DEF ReadCandidates, Candidates
  <2> QED
    BY <1>0, <2>1, <2>2, <2>3 DEF DraftSeen, Fine
<1>9. ASSUME draft' = draft /\ writer' = writer /\ approving' = approving /\ mixed' = mixed PROVE Fine
  BY <1>0, <1>9 DEF DraftSeen, Fine
<1>10. Fine
  BY <1>1, <1>2, <1>3, <1>4, <1>5, <1>6, <1>7, <1>8, <1>9, TextChanges DEF ChangesText
<1> QED
  BY <1>10 DEF Fine

\* A batch that is sending, or has sent, deals with the row it dealt with.
LEMMA SameRow ==
  ASSUME TypeInv, [Next]_vars, NEW j \in Sender, sender'[j].pc \in {"send", "mark"}
  PROVE  /\ sender'[j].todo = sender[j].todo /\ sender[j].pc \in {"batch", "send", "mark"}
         /\ sender'[j].pc = sender[j].pc \/ (Take(j) /\ sender'[j].pc = "send")
                                         \/ (sender[j].pc = "send" /\ sender'[j].pc = "mark")
<1> DEFINE Fine == /\ sender'[j].todo = sender[j].todo /\ sender[j].pc \in {"batch", "send", "mark"}
                   /\ sender'[j].pc = sender[j].pc \/ (Take(j) /\ sender'[j].pc = "send")
                                                   \/ (sender[j].pc = "send" /\ sender'[j].pc = "mark")
<1>0. sender \in [Sender -> SenderType] /\ AtWork /\ draft \in [Row -> DraftRecord]
  BY TypeFacts DEF TypeInv
<1>1. ASSUME NEW k \in Sender, StartBatch(k) PROVE Fine
  <2>1. k # j => sender'[j] = sender[j]
    BY <1>0, <1>1 DEF StartBatch
  <2>2. k # j
    BY <1>0, <1>1 DEF StartBatch, Idle
  <2> QED
    BY <2>1, <2>2
<1>2. ASSUME NEW k \in Sender, Take(k) PROVE Fine
  <2>1. sender' = [sender EXCEPT ![k].pc = "send"] /\ sender[k].pc = "batch"
    BY <1>2 DEF Take, AtRow
  <2> QED
    BY <1>0, <1>2, <2>1 DEF SenderType
<1>3. ASSUME NEW k \in Sender, ReadTries(k) PROVE Fine
  <2>1. k # j => sender'[j] = sender[j]
    BY <1>0, <1>3 DEF ReadTries
  <2>2. sender'[k].pc = "count"
    BY <1>0, <1>3 DEF ReadTries, SenderType
  <2> QED
    BY <2>1, <2>2
<1>4. ASSUME NEW k \in Sender, NEW to \in {"mark", "failed"}, Moves(k, "send", to) PROVE Fine
  <2>1. sender' = [sender EXCEPT ![k].pc = to] /\ sender[k].pc = "send"
    BY <1>4 DEF Moves
  <2> QED
    BY <1>0, <2>1 DEF SenderType
<1>5. ASSUME NEW k \in Sender, Busy(k) \/ AtRow(k, {"drop", "wait", "send"}), sender' = GoesOn(k) PROVE Fine
  <2>1. sender[k].todo # <<>>
    BY <1>0, <1>5 DEF Busy, AtRow, AtWork
  <2>2. sender'[k].pc = "batch" /\ \A l \in Sender \ {k} : sender'[l] = sender[l]
    BY <1>0, <1>5, <2>1, GoesOnFields
  <2> QED
    BY <2>2
<1>6. ASSUME NEW k \in Sender, sender' = [sender EXCEPT ![k] = Idle] PROVE Fine
  BY <1>0, <1>6 DEF Idle
<1>7. ASSUME NEW c \in Company, sender' = Withdrawn(c) PROVE Fine
  BY <1>0, <1>7, WithdrawnFields
<1>8. ASSUME sender' = sender PROVE Fine
  BY <1>8
<1> HIDE DEF Fine
<1>9. ASSUME NEW k \in Sender, Proceeds(k) PROVE Fine
  BY <1>1, <1>2, <1>3, <1>4, <1>5, <1>6, <1>9 DEF Proceeds
<1>10. Fine
  BY <1>7, <1>8, <1>9, SenderChanges DEF ChangesSender
<1> QED
  BY <1>10 DEF Fine

LEMMA OthersStay ==
  ASSUME TypeInv, NEW j \in Sender, NEW k \in Sender \ {j}, Proceeds(k)
  PROVE  sender'[j] = sender[j]
<1>0. sender \in [Sender -> SenderType] /\ AtWork
  BY TypeFacts DEF TypeInv
<1>1. CASE (Busy(k) \/ AtRow(k, {"drop", "wait", "send"})) /\ sender' = GoesOn(k)
  <2>1. sender[k].todo # <<>>
    BY <1>0, <1>1 DEF Busy, AtRow, AtWork
  <2> QED
    BY <1>0, <1>1, <2>1, GoesOnFields
<1>2. CASE StartBatch(k) \/ Take(k) \/ ReadTries(k)
  BY <1>0, <1>2 DEF StartBatch, Take, ReadTries
<1>3. CASE \E to \in {"mark", "failed"} : Moves(k, "send", to)
  BY <1>0, <1>3 DEF Moves
<1>4. CASE sender' = [sender EXCEPT ![k] = Idle]
  BY <1>0, <1>4
<1> QED
  BY <1>1, <1>2, <1>3, <1>4 DEF Proceeds

LEMMA BatchesSeen == ASSUME TypeInv, SeenInv, [Next]_vars, NEW j \in Sender PROVE ReadSeen(j)'
<1>0. /\ sender \in [Sender -> SenderType] /\ draft \in [Row -> DraftRecord] /\ AtWork
      /\ mixed \subseteq mixed' /\ ReadSeen(j)
  BY TypeFacts, MixedStays DEF SeenInv, TypeInv
<1> DEFINE Seen(item) == item.verdict = "send" => item.seen \/ item.row \in mixed'
<1>1. \A i \in 1..Len(sender'[j].todo) : Seen(sender'[j].todo[i])
  <2>1. ASSUME NEW i \in 1..Len(sender'[j].todo), Begins(j) PROVE Seen(sender'[j].todo[i])
    <3>1. PICK rows \in FirstDue : sender'[j].todo = Batch(rows)
      BY <2>1 DEF Begins
    <3>2. /\ i \in 1..Len(rows) /\ Batch(rows)[i].row = rows[i]
          /\ Batch(rows)[i].verdict = Verdict(rows[i]) /\ Batch(rows)[i].seen = draft[rows[i]].seen
      BY <1>0, <2>1, <3>1, BatchItems
    <3>3. rows[i] \in Row
      <4>1. rows \in Seq(Listening) /\ Listening \subseteq Row
        BY BatchRows DEF Listening, Due
      <4> QED
        BY <3>2, <4>1
    <3>4. Verdict(rows[i]) = "send" => draft[rows[i]].ok
      BY DEF Verdict
    <3>5. draft[rows[i]].ok => draft[rows[i]].seen \/ rows[i] \in mixed
      BY <3>3 DEF SeenInv, DraftSeen
    <3> QED
      BY <1>0, <3>1, <3>2, <3>4, <3>5
  <2>2. ASSUME NEW i \in 1..Len(sender'[j].todo), NEW d \in {0, 1}, LeftFrom(j, d) PROVE Seen(sender'[j].todo[i])
    <3>1. i + d \in 1..Len(sender[j].todo) /\ sender'[j].todo[i] = sender[j].todo[i + d]
      BY <2>2 DEF LeftFrom
    <3> QED
      BY <1>0, <3>1 DEF ReadSeen
  <2> QED
    BY <2>1, <2>2, SenderSteps DEF Continues
<1>2. sender'[j].pc = "send" => Head(sender'[j].todo).verdict = "send"
  <2> SUFFICES ASSUME sender'[j].pc = "send" PROVE Head(sender'[j].todo).verdict = "send"
    OBVIOUS
  <2>1. sender'[j].todo = sender[j].todo /\ (sender[j].pc = "send" \/ Take(j))
    BY SameRow
  <2>2. Take(j) => Head(sender[j].todo).verdict = "send"
    BY DEF Take, AtRow
  <2> QED
    BY <1>0, <2>1, <2>2 DEF ReadSeen
<1> QED
  BY <1>1, <1>2 DEF ReadSeen

LEMMA InitSeen == ASSUME Init PROVE SeenInv
BY DEF Init, FollowUpInit, SeenInv, DraftSeen, ReadSeen, Idle

\* A follow-up that processFollowUps is sending carries a text that a person
\* wrote or approved as it stands, unless requests overlapped on its draft
\* (generateFollowUpDrafts and the handlers that approve, rewrite and reset).
THEOREM FollowUpsAreRead == Spec => []OnlySeenTextIsSent
<1>1. ASSUME TypeInv, SeenInv PROVE OnlySeenTextIsSent
  <2> SUFFICES ASSUME NEW j \in Sender, sender[j].pc = "send"
               PROVE  Head(sender[j].todo).seen \/ Current(j) \in mixed
    BY DEF OnlySeenTextIsSent
  <2>1. sender[j].todo \in Seq(Item) /\ sender[j].todo # <<>> /\ ReadSeen(j)
    BY <1>1, TypeFacts DEF TypeInv, AtWork, SenderType, SeenInv
  <2>2. 1 \in 1..Len(sender[j].todo) /\ Head(sender[j].todo) = sender[j].todo[1]
    BY <2>1
  <2> QED
    BY <2>1, <2>2 DEF ReadSeen, Current
<1>2. TypeInv /\ SeenInv /\ [Next]_vars => SeenInv'
  BY DraftsSeen, BatchesSeen DEF SeenInv
<1> QED
  BY <1>1, <1>2, InitSeen, TypeInvHolds, PTL DEF Spec

-----------------------------------------------------------------------------
(* FollowUpOnceUnlessUnrecorded: the rows of a batch differ, none of them is *)
(* sent, and a delivered row is sent or is about to be marked.               *)

DueIsOpen == \A r \in Due : Open(r)
RowsDiffer(j) ==
    \A i, k \in 1..Len(sender[j].todo) : sender[j].todo[i].row = sender[j].todo[k].row => i = k
OneBatch == \A j, k \in Sender : sender[j].pc # "idle" /\ sender[k].pc # "idle" => j = k
NotYetSent == \A j \in Sender : \A i \in 1..Len(sender[j].todo) : ~seq[sender[j].todo[i].row].sent
Marking(r) == \E j \in Sender : sender[j].pc = "mark" /\ Current(j) = r
SentOnce(r) == delivered[r] <= 1 /\ (delivered[r] > 0 => seq[r].sent \/ Marking(r))

BatchInv == DueIsOpen /\ \A j \in Sender : RowsDiffer(j)
OnceInv == "overrun" \notin Fault =>
    OneBatch /\ NotYetSent /\ \A r \in Row : r \notin unrecorded => SentOnce(r)

\* An item that a batch has read is a row, and the batch is not idle.
LEMMA ItemIsRow ==
  ASSUME TypeInv, NEW j \in Sender, NEW i \in 1..Len(sender[j].todo)
  PROVE  /\ sender[j].todo[i].row \in Row /\ sender[j].pc # "idle" /\ sender[j].todo \in Seq(Item)
         /\ 1 \in 1..Len(sender[j].todo) /\ Current(j) = sender[j].todo[1].row
<1>1. sender[j].todo \in Seq(Item) /\ (sender[j].pc = "idle" => sender[j].todo = <<>>)
  BY TypeFacts DEF TypeInv, AtWork, SenderType
<1>2. sender[j].todo[i] \in Item /\ sender[j].todo # <<>>
  BY <1>1
<1>3. Head(sender[j].todo) = sender[j].todo[1] /\ 1 \in 1..Len(sender[j].todo)
  BY <1>1, <1>2
<1> QED
  BY <1>1, <1>2, <1>3 DEF Item, Current

\* Who cancels a row and who marks it sent.
LEMMA SeqEffects ==
  ASSUME TypeInv, [Next]_vars, NEW r \in Row
  PROVE  /\ seq[r].sent => seq'[r].sent
         /\ seq'[r].sent => seq[r].sent \/ \E j \in Sender : Mark(j) /\ r = Current(j)
         /\ seq'[r].cancelled =>
              \/ seq[r].cancelled
              \/ \E j \in Sender : (Drop(j) \/ CountTry(j)) /\ r = Current(j)
              \/ sender' = Withdrawn(Of(r))
              \/ \E k \in Checker : CancelReplied(k) /\ Of(r) \in checker[k].found
<1> DEFINE Fine == /\ seq[r].sent => seq'[r].sent
                   /\ seq'[r].sent => seq[r].sent \/ \E j \in Sender : Mark(j) /\ r = Current(j)
                   /\ seq'[r].cancelled =>
                        \/ seq[r].cancelled
                        \/ \E j \in Sender : (Drop(j) \/ CountTry(j)) /\ r = Current(j)
                        \/ sender' = Withdrawn(Of(r))
                        \/ \E k \in Checker : CancelReplied(k) /\ Of(r) \in checker[k].found
<1>0. seq \in [Row -> SeqRecord] /\ sender \in [Sender -> SenderType] /\ AtWork
  BY TypeFacts DEF TypeInv
<1>a. ASSUME NEW j \in Sender, sender[j].todo # <<>> PROVE Current(j) \in Row
  BY <1>0, <1>a, CurrentIsRow
<1>1. ASSUME NEW j \in Sender, Drop(j) PROVE Fine
  <2>1. seq'[r].sent = seq[r].sent /\ (seq'[r].cancelled => seq[r].cancelled \/ r = Current(j))
    BY <1>0, <1>a, <1>1 DEF Drop, AtRow, SeqRecord
  <2> QED
    BY <1>1, <2>1
<1>2. ASSUME NEW j \in Sender, Mark(j) PROVE Fine
  <2>1. /\ seq'[r].cancelled = seq[r].cancelled
        /\ seq'[r].sent = (seq[r].sent \/ r = Current(j))
    BY <1>0, <1>a, <1>2 DEF Mark, SentNow, AtWork, SeqRecord
  <2> QED
    BY <1>2, <2>1
<1>3. ASSUME NEW j \in Sender, CountTry(j) PROVE Fine
  <2>1. CASE seq' = Cancelled({Current(j)})
    BY <1>0, <1>3, <2>1, CancelledFields
  <2>2. CASE seq' = [seq EXCEPT ![Current(j)].tries = sender[j].tries]
    <3>1. seq'[r].sent = seq[r].sent /\ seq'[r].cancelled = seq[r].cancelled
      BY <1>0, <2>2 DEF SeqRecord
    <3> QED
      BY <3>1
  <2> QED
    BY <1>3, <2>1, <2>2 DEF CountTry
<1>4. ASSUME NEW c \in Company, MailMain(c) PROVE Fine
  <2>1. seq'[r].sent = seq[r].sent /\ seq'[r].cancelled = seq[r].cancelled
    BY <1>0, <1>4 DEF MailMain, SeqRecord
  <2> QED
    BY <2>1
<1>5. ASSUME NEW c \in Company, seq' = Cancelled(RowsOf(c)), sender' = Withdrawn(c) PROVE Fine
  BY <1>0, <1>5, CancelledFields DEF RowsOf
<1>6. ASSUME NEW k \in Checker, CancelReplied(k) PROVE Fine
  <2> DEFINE rows == UNION {RowsOf(c) : c \in checker[k].found}
  <2>1. seq' = Cancelled(rows)
    BY <1>6 DEF CancelReplied
  <2>2. r \in rows => Of(r) \in checker[k].found
    BY DEF RowsOf
  <2> HIDE DEF rows
  <2>3. seq'[r].sent = seq[r].sent /\ (seq'[r].cancelled => seq[r].cancelled \/ r \in rows)
    BY <1>0, <2>1, CancelledFields
  <2> QED
    BY <1>6, <2>2, <2>3
<1>7. ASSUME seq' = seq PROVE Fine
  BY <1>7
<1> HIDE DEF Fine
<1>8. ASSUME NEW c \in Company, NEW b \in BOOLEAN, OptOut(c, b) \/ Click(c) PROVE Fine
  BY <1>5, <1>7, <1>8 DEF OptOut, Click
<1>9. Fine
  BY <1>1, <1>2, <1>3, <1>4, <1>6, <1>7, <1>8, SeqChanges DEF ChangesSeq
<1> QED
  BY <1>9 DEF Fine

\* What is cancelled, sent or put off leaves the agenda with the same statement.
LEMMA DueStaysOpen == ASSUME TypeInv, DueIsOpen, [Next]_vars PROVE DueIsOpen'
<1>0. /\ seq \in [Row -> SeqRecord] /\ sender \in [Sender -> SenderType] /\ Ordered /\ AtWork
      /\ Due \subseteq Row /\ \A r \in Due : Open(r)
  BY TypeFacts DEF TypeInv, DueIsOpen, Due
<1>a. ASSUME NEW rows, agenda' = Without(rows), \A r \in Row \ rows : Open(r) => Open(r)' PROVE DueIsOpen'
  BY <1>0, <1>a, WithoutOrders DEF DueIsOpen
<1>b. ASSUME NEW rows, agenda' = Without(rows), seq' = Cancelled(rows) PROVE DueIsOpen'
  <2>1. \A r \in Row \ rows : Open(r) => Open(r)'
    BY <1>0, <1>b, CancelledFields DEF Open
  <2> QED
    BY <1>a, <1>b, <2>1
<1>1. ASSUME NEW j \in Sender, Drop(j) \/ Mark(j) \/ CountTry(j) PROVE DueIsOpen'
  <2> DEFINE r == Current(j)
  <2>1. agenda' = Without({r})
    BY <1>1 DEF Drop, Mark, CountTry
  <2>2. \/ seq' = [seq EXCEPT ![r].cancelled = TRUE] \/ seq' = [seq EXCEPT ![r].sent = TRUE]
        \/ seq' = [seq EXCEPT ![r].tries = sender[j].tries] \/ seq' = Cancelled({r})
    BY <1>1 DEF Drop, Mark, CountTry, SentNow
  <2> HIDE DEF r
  <2>3. CASE seq' = Cancelled({r})
    BY <1>b, <2>1, <2>3
  <2>4. ASSUME ~(seq' = Cancelled({r})), NEW s \in Row \ {r} PROVE seq'[s] = seq[s]
    BY <1>0, <2>2, <2>4
  <2>5. CASE ~(seq' = Cancelled({r}))
    BY <1>a, <2>1, <2>4, <2>5 DEF Open
  <2> QED
    BY <2>3, <2>5
<1>2. ASSUME NEW c \in Company, MailMain(c) PROVE DueIsOpen'
  <2>1. agenda' = agenda /\ Due' = Due
    BY <1>2 DEF MailMain, Due
  <2>2. \A r \in Row : Open(r) => Open(r)'
    BY <1>0, <1>2 DEF MailMain, Open, SeqRecord
  <2> QED
    BY <1>0, <2>1, <2>2 DEF DueIsOpen
<1>3. ASSUME NEW k \in Checker, CancelReplied(k) PROVE DueIsOpen'
  BY <1>b, <1>3 DEF CancelReplied
<1>4. ASSUME seq' = seq PROVE DueIsOpen'
  <2>1. \A r : Open(r) => Open(r)'
    BY <1>4 DEF Open
  <2>2. CASE agenda' = agenda
    BY <1>0, <2>1, <2>2 DEF DueIsOpen, Due
  <2>3. ASSUME NEW r \in Row, FallsDue(r) PROVE DueIsOpen'
    <3>1. Due' = Due \cup {r} /\ Open(r)
      BY <1>0, <2>3, FallsDueOrders DEF FallsDue
    <3> QED
      BY <1>0, <2>1, <3>1 DEF DueIsOpen
  <2> QED
    BY <1>a, <2>1, <2>2, <2>3, AgendaChanges DEF ChangesAgenda
<1>5. ASSUME NEW c \in Company, NEW b \in BOOLEAN, OptOut(c, b) \/ Click(c) PROVE DueIsOpen'
  BY <1>b, <1>4, <1>5 DEF OptOut, Click
<1> QED
  BY <1>1, <1>2, <1>3, <1>4, <1>5, SeqChanges DEF ChangesSeq

LEMMA RowsStayDifferent ==
  ASSUME TypeInv, [Next]_vars, NEW j \in Sender, RowsDiffer(j)
  PROVE  RowsDiffer(j)'
<1>0. draft \in [Row -> DraftRecord]
  BY TypeFacts
<1>1. ASSUME NEW rows \in FirstDue, sender'[j].todo = Batch(rows) PROVE RowsDiffer(j)'
  BY <1>0, <1>1, BatchRows, BatchItems DEF RowsDiffer
<1>2. ASSUME NEW d \in {0, 1}, LeftFrom(j, d) PROVE RowsDiffer(j)'
  <2> SUFFICES ASSUME NEW i \in 1..Len(sender'[j].todo), NEW k \in 1..Len(sender'[j].todo),
                      sender'[j].todo[i].row = sender'[j].todo[k].row
               PROVE  i = k
    BY DEF RowsDiffer
  <2>1. i + d \in 1..Len(sender[j].todo) /\ k + d \in 1..Len(sender[j].todo)
    BY <1>2 DEF LeftFrom
  <2>2. sender[j].todo[i + d].row = sender[j].todo[k + d].row
    BY <1>2 DEF LeftFrom
  <2>3. i + d = k + d
    BY <2>1, <2>2 DEF RowsDiffer
  <2>4. sender'[j].todo \in Seq(Item)
    BY SenderSteps DEF SenderType
  <2> QED
    BY <2>3, <2>4
<1> QED
  BY <1>1, <1>2, SenderSteps DEF Begins, Continues

LEMMA NextBatch == ASSUME TypeInv, BatchInv, [Next]_vars PROVE BatchInv'
BY DueStaysOpen, RowsStayDifferent DEF BatchInv

\* A batch begins only when none is running, unless batches may overrun.
LEMMA BatchStaysAlone ==
  ASSUME TypeInv, OneBatch, "overrun" \notin Fault, [Next]_vars
  PROVE  OneBatch'
<1>0. sender \in [Sender -> SenderType]
  BY TypeFacts
<1>1. ASSUME NEW j \in Sender, StartBatch(j) PROVE OneBatch'
  <2>1. \A k \in Sender \ {j} : sender[k].pc = "idle" /\ sender'[k] = sender[k]
    BY <1>0, <1>1 DEF StartBatch
  <2> QED
    BY <2>1 DEF OneBatch
<1>2. ASSUME \A j \in Sender : Continues(j) PROVE OneBatch'
  <2>1. \A j \in Sender : sender'[j].pc # "idle" => sender[j].pc # "idle"
    BY <1>2 DEF Continues, LeftFrom
  <2> QED
    BY <2>1 DEF OneBatch
<1> QED
  BY <1>1, <1>2, SenderSteps DEF Begins

\* Marking a row takes it out of the only batch there is.
LEMMA UnsentStay ==
  ASSUME TypeInv, BatchInv, OneBatch, NotYetSent, [Next]_vars
  PROVE  NotYetSent'
<1> SUFFICES ASSUME NEW j \in Sender, NEW i \in 1..Len(sender'[j].todo)
             PROVE  ~seq'[sender'[j].todo[i].row].sent
  BY DEF NotYetSent
<1>0. /\ sender \in [Sender -> SenderType] /\ draft \in [Row -> DraftRecord] /\ seq \in [Row -> SeqRecord]
      /\ AtWork /\ \A k \in Sender : sender[k].todo \in Seq(Item)
  BY TypeFacts DEF TypeInv, SenderType
<1>1. CASE Begins(j)
  <2>1. PICK rows \in FirstDue : sender'[j].todo = Batch(rows)
    BY <1>1 DEF Begins
  <2>2. i \in 1..Len(rows) /\ sender'[j].todo[i].row = rows[i]
    BY <1>0, <2>1, BatchItems
  <2>3. rows[i] \in Due
    <3>1. rows \in Seq(Listening) /\ Listening \subseteq Due
      BY BatchRows DEF Listening
    <3> QED
      BY <2>2, <3>1
  <2> QED
    BY <1>1, <2>2, <2>3 DEF BatchInv, DueIsOpen, Open, Begins, StartBatch
<1>2. ASSUME NEW d \in {0, 1}, LeftFrom(j, d), NEW k \in Sender, Mark(k)
      PROVE  ~seq'[sender'[j].todo[i].row].sent
  <2>1. i + d \in 1..Len(sender[j].todo)
    BY <1>2 DEF LeftFrom
  <2>2. sender[j].pc # "idle" /\ sender[k].pc = "mark"
    BY <1>2, <2>1, ItemIsRow DEF Mark
  <2>3. k = j
    BY <2>2 DEF OneBatch
  <2>4. sender[j].todo # <<>> /\ sender' = GoesOn(j) /\ sender'[j].todo = Tail(sender[j].todo)
    BY <1>0, <1>2, <2>2, <2>3, GoesOnFields DEF Mark, AtWork
  <2>5. /\ i + 1 \in 1..Len(sender[j].todo) /\ 1 \in 1..Len(sender[j].todo) /\ i + 1 # 1
        /\ sender'[j].todo[i] = sender[j].todo[i + 1]
    BY <1>0, <2>4, HeadTailProperties
  <2>6. sender[j].todo[i + 1].row # Current(j) /\ sender[j].todo[i + 1].row \in Row
    BY <2>5, ItemIsRow DEF BatchInv, RowsDiffer
  <2>7. seq'[sender[j].todo[i + 1].row] = seq[sender[j].todo[i + 1].row]
    BY <1>0, <1>2, <2>3, <2>6 DEF Mark, SentNow
  <2> QED
    BY <2>5, <2>7 DEF NotYetSent
<1>3. ASSUME NEW d \in {0, 1}, LeftFrom(j, d), ~\E k \in Sender : Mark(k)
      PROVE  ~seq'[sender'[j].todo[i].row].sent
  <2>1. i + d \in 1..Len(sender[j].todo) /\ sender'[j].todo[i] = sender[j].todo[i + d]
    BY <1>3 DEF LeftFrom
  <2>2. sender[j].todo[i + d].row \in Row /\ ~seq[sender[j].todo[i + d].row].sent
    BY <2>1, ItemIsRow DEF NotYetSent
  <2> QED
    BY <1>3, <2>1, <2>2, SeqEffects
<1> QED
  BY <1>1, <1>2, <1>3, SenderSteps DEF Continues

\* The row a batch is about to mark is marked next, or noted as unrecorded.
LEMMA MarkingEnds ==
  ASSUME TypeInv, [Next]_vars, NEW j \in Sender, sender[j].pc = "mark"
  PROVE  \/ sender'[j].pc = "mark" /\ Current(j)' = Current(j)
         \/ Current(j) \in Row /\ seq'[Current(j)].sent
         \/ Current(j) \in unrecorded'
<1>0. sender \in [Sender -> SenderType] /\ seq \in [Row -> SeqRecord] /\ sender[j].todo # <<>>
  BY TypeFacts DEF TypeInv, AtWork
<1>1. Current(j) \in Row
  BY <1>0, CurrentIsRow
<1>2. CASE Mark(j)
  BY <1>0, <1>1, <1>2 DEF Mark, SentNow, SeqRecord
<1>3. CASE MarkFails(j) \/ CrashBatch(j)
  BY <1>3 DEF MarkFails, CrashBatch
<1>4. CASE \E k \in Sender \ {j} : Proceeds(k)
  BY <1>4, OthersStay DEF Current
<1>5. CASE \E c \in Company : sender' = Withdrawn(c)
  BY <1>0, <1>5, WithdrawnFields DEF Current
<1>6. CASE sender' = sender
  BY <1>6 DEF Current
<1> QED
  BY <1>2, <1>3, <1>4, <1>5, <1>6, HandlingChanges

LEMMA OnceStays ==
  ASSUME TypeInv, BatchInv, OneBatch, NotYetSent, [Next]_vars,
         NEW r \in Row, r \notin unrecorded', r \notin unrecorded => SentOnce(r)
  PROVE  SentOnce(r)'
<1>0. /\ sender \in [Sender -> SenderType] /\ AtWork /\ delivered \in [Row -> 0..2] /\ delivered' \in [Row -> 0..2]
      /\ seq[r].sent => seq'[r].sent
  BY TypeFacts, SeqEffects, HistoryStep DEF TypeInv, TypeOK, FollowUpTypeOK
<1>1. unrecorded \subseteq unrecorded'
  BY UnrecordedChanges DEF ChangesUnrecorded, DeliverUnanswered, MarkFails, CrashBatch
<1>2. SentOnce(r)
  BY <1>1
<1>3. Marking(r) => Marking(r)' \/ seq'[r].sent
  BY MarkingEnds DEF Marking
<1>4. CASE delivered' = delivered
  BY <1>0, <1>2, <1>3, <1>4 DEF SentOnce
<1>5. ASSUME NEW j \in Sender, Deliver(j) \/ DeliverUnanswered(j) PROVE SentOnce(r)'
  <2>1. sender[j].pc = "send" /\ sender[j].todo # <<>> /\ sender[j].todo \in Seq(Item)
    BY <1>0, <1>5 DEF Deliver, DeliverUnanswered, AtWork, SenderType
  <2>2. 1 \in 1..Len(sender[j].todo) /\ Current(j) = sender[j].todo[1].row /\ Current(j) \in Row
    BY <2>1, ItemIsRow
  <2>3. ~seq[Current(j)].sent
    BY <2>2 DEF NotYetSent
  <2>4. ~Marking(r)
    BY <2>1 DEF Marking, OneBatch
  <2>5. delivered' = Delivered(Current(j))
    BY <1>5 DEF Deliver, DeliverUnanswered
  <2>6. CASE r # Current(j)
    <3>1. delivered'[r] = delivered[r]
      BY <1>0, <2>2, <2>5, <2>6 DEF Delivered
    <3> QED
      BY <1>0, <1>2, <2>4, <3>1 DEF SentOnce
  <2>7. CASE r = Current(j)
    <3>1. delivered[r] = 0
      BY <1>0, <1>2, <2>3, <2>4, <2>7 DEF SentOnce
    <3>2. delivered'[r] = 1
      BY <1>0, <2>2, <2>5, <2>7, <3>1 DEF Delivered
    <3>3. Deliver(j)
      BY <1>5, <2>7 DEF DeliverUnanswered
    <3>4. sender'[j].pc = "mark" /\ sender'[j].todo = sender[j].todo
      BY <1>0, <3>3 DEF Deliver, SenderType
    <3>5. Marking(r)'
      BY <2>7, <3>4 DEF Marking, Current
    <3> QED
      BY <3>2, <3>5 DEF SentOnce
  <2> QED
    BY <2>6, <2>7
<1> QED
  BY <1>4, <1>5, DeliveredChanges DEF ChangesDelivered

LEMMA NextOnce == ASSUME TypeInv, BatchInv, OnceInv, [Next]_vars PROVE OnceInv'
<1> SUFFICES ASSUME "overrun" \notin Fault
             PROVE  /\ OneBatch' /\ NotYetSent'
                    /\ \A r \in Row : r \notin unrecorded' => SentOnce(r)'
  BY DEF OnceInv
<1>1. OneBatch /\ NotYetSent /\ \A r \in Row : r \notin unrecorded => SentOnce(r)
  BY DEF OnceInv
<1> QED
  BY <1>1, BatchStaysAlone, UnsentStay, OnceStays

LEMMA InitOnce == ASSUME Init PROVE BatchInv /\ OnceInv
<1>1. \A j \in Sender : sender[j] = Idle
  BY DEF Init, FollowUpInit
<1>2. \A j \in Sender : sender[j].pc = "idle" /\ sender[j].todo = <<>>
  BY <1>1 DEF Idle
<1>3. BatchInv
  BY <1>2 DEF Init, FollowUpInit, BatchInv, DueIsOpen, Due, RowsDiffer
<1>4. OneBatch /\ NotYetSent /\ \A r \in Row : SentOnce(r)
  BY <1>2 DEF Init, FollowUpInit, OneBatch, NotYetSent, SentOnce
<1> QED
  BY <1>3, <1>4 DEF OnceInv

LEMMA OnceInvHolds == Spec => [](BatchInv /\ OnceInv)
BY InitOnce, NextBatch, NextOnce, TypeInvHolds, PTL DEF Spec

\* A follow-up reaches its company at most once unless a message left without
\* being recorded: however drafts, templates, consents and replies change
\* meanwhile, processFollowUps sends no row that it has sent.
THEOREM FollowUpsAreSentOnce == Spec => []FollowUpOnceUnlessUnrecorded
<1>1. OnceInv => FollowUpOnceUnlessUnrecorded
  BY DEF OnceInv, SentOnce, FollowUpOnceUnlessUnrecorded
<1> QED
  BY <1>1, OnceInvHolds, PTL

-----------------------------------------------------------------------------
(* WithdrawalHonoured: a row in a batch was heard and open when it was read, *)
(* and whatever takes the company off the list is noted at the batch.        *)

RowHonoured(j, i) == LET r == sender[j].todo[i].row IN
    \/ Heard(Of(r)) /\ (seq[r].cancelled => "overrun" \in Fault)
    \/ Of(r) \in sender[j].late
HeardInv == \A j \in Sender : \A i \in 1..Len(sender[j].todo) : RowHonoured(j, i)

\* A company that ceases to listen withdraws from every batch under way.
LEMMA CeasesToListen ==
  ASSUME TypeInv, [Next]_vars, NEW c \in Company, Heard(c), ~Heard(c)'
  PROVE  sender' = Withdrawn(c)
<1>0. lead \in [Company -> LeadRecord]
  BY TypeFacts
<1>1. lead' # lead
  BY DEF Heard
<1>2. ASSUME NEW d \in Company, MailMain(d) PROVE FALSE
  <2>1. lead'[c].replied = lead[c].replied /\ lead'[c].unsub = lead[c].unsub /\ lead'[c].marketing = lead[c].marketing
    BY <1>0, <1>2 DEF MailMain, LeadRecord
  <2> QED
    BY <2>1 DEF Heard
<1>3. ASSUME NEW d \in Company, NEW b \in BOOLEAN, OptOut(d, b) \/ SetMarketing(d, b)
      PROVE  sender' = Withdrawn(c)
  <2>1. sender' = Withdrawn(d) /\ (d # c => lead'[c] = lead[c])
    BY <1>0, <1>3 DEF OptOut, SetMarketing
  <2> QED
    BY <2>1 DEF Heard
<1>4. ASSUME NEW d \in Company, NEW k \in Checker, StoreReply(k, d) PROVE sender' = Withdrawn(c)
  <2>1. sender' = Withdrawn(d) /\ (d # c => lead'[c] = lead[c])
    BY <1>0, <1>4 DEF StoreReply
  <2> QED
    BY <2>1 DEF Heard
<1> QED
  BY <1>1, <1>2, <1>3, <1>4, LeadChanges DEF ChangesLead

\* A batch that cancels a row has done with it.
LEMMA CancelledRowIsLeft ==
  ASSUME TypeInv, BatchInv, OneBatch, NEW j \in Sender, NEW k \in Sender, Drop(k) \/ CountTry(k),
         NEW i \in 1..Len(sender'[j].todo), sender[j].pc # "idle"
  PROVE  sender'[j].todo[i].row # Current(k)
<1>0. sender \in [Sender -> SenderType] /\ sender[j].todo \in Seq(Item)
  BY TypeFacts DEF SenderType
<1>1. sender[k].pc # "idle" /\ sender[k].todo # <<>> /\ sender' = GoesOn(k)
  BY TypeFacts DEF Drop, CountTry, AtRow, TypeInv, AtWork
<1>2. k = j
  BY <1>1 DEF OneBatch
<1>3. sender[j].todo # <<>> /\ sender'[j].todo = Tail(sender[j].todo)
  BY <1>0, <1>1, <1>2, GoesOnFields
<1>4. /\ i + 1 \in 1..Len(sender[j].todo) /\ 1 \in 1..Len(sender[j].todo) /\ i + 1 # 1
      /\ sender'[j].todo[i] = sender[j].todo[i + 1]
  BY <1>0, <1>3, HeadTailProperties
<1> QED
  BY <1>2, <1>4, ItemIsRow DEF BatchInv, RowsDiffer

LEMMA NextHeard ==
  ASSUME TypeInv, BatchInv, OnceInv, ReplyInv, HeardInv, [Next]_vars
  PROVE  HeardInv'
<1> SUFFICES ASSUME NEW j \in Sender, NEW i \in 1..Len(sender'[j].todo)
             PROVE  RowHonoured(j, i)'
  BY DEF HeardInv
<1>0. /\ sender \in [Sender -> SenderType] /\ draft \in [Row -> DraftRecord] /\ lead \in [Company -> LeadRecord]
      /\ sender'[j].pc # "idle"
  BY TypeFacts, SenderSteps DEF TypeInv, AtWork
<1>1. ASSUME NEW rows \in FirstDue, StartBatch(j), sender'[j].todo = Batch(rows)
      PROVE  RowHonoured(j, i)'
  <2>1. i \in 1..Len(rows) /\ sender'[j].todo[i].row = rows[i]
    BY <1>0, <1>1, BatchItems
  <2>2. rows \in Seq(Listening)
    BY BatchRows
  <2>3. rows[i] \in Listening
    BY <2>1, <2>2
  <2>4. Heard(Of(rows[i])) /\ ~seq[rows[i]].cancelled
    BY <2>3 DEF Listening, BatchInv, DueIsOpen, Open
  <2>5. lead' = lead /\ seq' = seq
    BY <1>1 DEF StartBatch
  <2>6. Heard(Of(rows[i]))' /\ ~seq'[rows[i]].cancelled
    BY <2>4, <2>5 DEF Heard
  <2> QED
    BY <2>1, <2>6 DEF RowHonoured, Heard
<1>2. ASSUME NEW d \in {0, 1}, LeftFrom(j, d) PROVE RowHonoured(j, i)'
  <2>1. /\ i + d \in 1..Len(sender[j].todo) /\ sender'[j].todo[i] = sender[j].todo[i + d]
        /\ sender[j].pc # "idle" /\ sender[j].late \subseteq sender'[j].late
    BY <1>0, <1>2 DEF LeftFrom
  <2>2. PICK r \in Row : r = sender[j].todo[i + d].row /\ r = sender'[j].todo[i].row
    BY <2>1, ItemIsRow
  <2>3. \/ Heard(Of(r)) /\ (seq[r].cancelled => "overrun" \in Fault)
        \/ Of(r) \in sender[j].late
    BY <2>1, <2>2 DEF HeardInv, RowHonoured
  <2>4. Of(r) \in Company
    BY DEF Row, Of
  <2>5. sender' = Withdrawn(Of(r)) => Of(r) \in sender'[j].late
    BY <1>0, <2>1, <2>4, WithdrawnFields
  <2>6. Of(r) \in sender'[j].late => RowHonoured(j, i)'
    BY <2>2 DEF RowHonoured
  <2>7. Heard(Of(r)) => Heard(Of(r))' \/ Of(r) \in sender'[j].late
    <3>1. PICK c \in Company : c = Of(r)
      BY <2>4
    <3>2. Heard(c) => Heard(c)' \/ sender' = Withdrawn(c)
      BY CeasesToListen
    <3> QED
      BY <2>5, <3>1, <3>2 DEF Heard
  <2>8. Heard(Of(r)) /\ seq'[r].cancelled /\ "overrun" \notin Fault => seq[r].cancelled \/ Of(r) \in sender'[j].late
    <3> SUFFICES ASSUME seq'[r].cancelled, "overrun" \notin Fault, Heard(Of(r))
                 PROVE  seq[r].cancelled \/ Of(r) \in sender'[j].late
      OBVIOUS
    <3>1. ~\E k \in Sender : (Drop(k) \/ CountTry(k)) /\ r = Current(k)
      BY <2>1, <2>2, CancelledRowIsLeft DEF OnceInv
    <3>2. ~\E k \in Checker : CancelReplied(k) /\ Of(r) \in checker[k].found
      BY DEF ReplyInv, CheckKnows, CancelReplied, Heard
    <3> QED
      BY <2>5, <3>1, <3>2, SeqEffects
  <2>9. Heard(Of(r))' /\ (seq'[r].cancelled => "overrun" \in Fault) => RowHonoured(j, i)'
    BY <2>2 DEF RowHonoured, Heard
  <2> QED
    BY <2>1, <2>3, <2>6, <2>7, <2>8, <2>9
<1> QED
  BY <1>1, <1>2, SenderSteps DEF Begins, Continues

LEMMA InitHeard == ASSUME Init PROVE HeardInv
BY DEF Init, FollowUpInit, HeardInv, Idle

\* A reply, an opt-out, a consent withdrawn or a click stops every follow-up of
\* the company that a batch has not read already (checkReplies, the two routes
\* of the opt-out and the click against processFollowUps).
THEOREM WithdrawalsAreHonoured == Spec => []WithdrawalHonoured
<1>1. ASSUME TypeInv, HeardInv PROVE WithdrawalHonoured
  <2> SUFFICES ASSUME NEW j \in Sender, sender[j].pc = "send"
               PROVE  \/ Heard(Of(Current(j))) /\ (~seq[Current(j)].cancelled \/ "overrun" \in Fault)
                      \/ Of(Current(j)) \in sender[j].late
    BY DEF WithdrawalHonoured
  <2>1. sender[j].todo \in Seq(Item) /\ sender[j].todo # <<>>
    BY <1>1, TypeFacts DEF TypeInv, AtWork, SenderType
  <2>2. 1 \in 1..Len(sender[j].todo)
    BY <2>1
  <2>3. Current(j) = sender[j].todo[1].row
    BY <1>1, <2>2, ItemIsRow
  <2> QED
    BY <1>1, <2>2, <2>3 DEF HeardInv, RowHonoured
<1>2. TypeInv /\ BatchInv /\ OnceInv /\ ReplyInv /\ HeardInv /\ [Next]_vars => HeardInv'
  BY NextHeard
<1> QED
  BY <1>1, <1>2, InitHeard, TypeInvHolds, OnceInvHolds, ReplyInvHolds, PTL DEF Spec
=============================================================================
