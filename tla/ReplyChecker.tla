---------------------------- MODULE ReplyChecker ----------------------------
(***************************************************************************)
(* The reply checker, src/services/imap-checker.js and its job in          *)
(* src/index.js, and with it the whole life of a follow-up: what the       *)
(* checker stores is what processFollowUps reads.                          *)
(*                                                                         *)
(* One mailbox; the uid of a message is its position.  No lease covers the *)
(* job: the checks of two processes may overlap.                           *)
(***************************************************************************)
EXTENDS FollowUps

CONSTANTS
    Checker,          \* calls of checkReplies
    Address,          \* e-mail addresses
    AddressOf,        \* companies.email
    OldMessages,      \* messages a first run has skipped already
    MaxMessages,      \* bound: messages that ever arrive, the old ones included
    ReplySaveAborts,  \* TRUE: the UPDATE that stores a reply is always rejected
    CheckerFault      \* which failures happen, see below

\* "load": reading last_uid fails and gives 0.  "save": writing it fails
\* and is swallowed.  "reject": the UPDATE that stores a reply may be rejected.
\* "break": the connection, or the process, goes.
ASSUME CheckerFaults == CheckerFault \subseteq {"load", "save", "reject", "break"}
ASSUME CheckerConstants ==
    /\ AddressOf \in [Company -> Address]
    /\ MaxMessages \in Nat /\ OldMessages \in 0..MaxMessages /\ ReplySaveAborts \in BOOLEAN

VARIABLES
    inbox,      \* the messages of INBOX: [from, reply]
    lastUid,    \* imap_state.last_uid, 0 when there is no row
    checker,    \* what each check is doing
    passed      \* history: the largest uid a first run has skipped

checkerVars == <<inbox, lastUid, checker, passed>>
vars == <<followUpVars, checkerVars>>

Uid == 0..MaxMessages
Away == [pc |-> "idle", at |-> 0, upto |-> 0, found |-> {}]

\* reply: in-reply-to or references, and no sign of an automatic answer.
\* at: the last message dealt with; found: the company being stored.
TypeOK ==
    /\ FollowUpTypeOK
    /\ inbox \in Seq([from : Address, reply : BOOLEAN]) /\ Len(inbox) <= MaxMessages
    /\ lastUid \in Uid /\ passed \in Uid
    /\ checker \in [Checker -> [pc : {"idle", "seed", "read", "store", "cancel"},
                                at : Uid, upto : Uid, found : SUBSET Company]]

Init ==
    /\ FollowUpInit
    /\ inbox \in [1..OldMessages -> [from : Address, reply : {FALSE}]]
    /\ lastUid = OldMessages /\ passed = OldMessages
    /\ checker = [k \in Checker |-> Away]

-----------------------------------------------------------------------------
\* Mutated forms of the operators below.
ReachedUidNext(k) == Len(inbox)

\* Companies the SELECT by sender finds: LOWER(email) = ... AND has_replied = false.
Unanswered(a) == {c \in Company : AddressOf[c] = a /\ ~lead[c].replied}

\* maxUid once the check has dealt with the message at.
Reached(k) == checker[k].at

-----------------------------------------------------------------------------
Arrive(a, reply) ==
    /\ Len(inbox) < MaxMessages
    /\ inbox' = Append(inbox, [from |-> a, reply |-> reply])
    /\ UNCHANGED <<followUpVars, lastUid, checker, passed>>

\* loadLastUid, with or without an error, and the range of the FETCH.
StartCheck(k, uid) ==
    /\ checker[k].pc = "idle"
    /\ uid = lastUid \/ ("load" \in CheckerFault /\ uid = 0)
    /\ checker' = [checker EXCEPT ![k] =
           [Away EXCEPT !.pc = IF uid = 0 THEN "seed" ELSE "read", !.at = uid, !.upto = Len(inbox)]]
    /\ uid > 0 => Len(inbox) > uid
    /\ UNCHANGED <<followUpVars, inbox, lastUid, passed>>

\* The first run saves the largest uid; nothing is saved for an empty mailbox.
Seed(k) ==
    /\ checker[k].pc = "seed"
    /\ \/ lastUid' = IF checker[k].upto > 0 THEN checker[k].upto ELSE lastUid
       \/ "save" \in CheckerFault /\ UNCHANGED lastUid
    /\ passed' = IF passed < checker[k].upto THEN checker[k].upto ELSE passed
    /\ checker' = [checker EXCEPT ![k] = Away]
    /\ UNCHANGED <<followUpVars, inbox>>

\* The next message: an automatic one, or one from nobody, is passed over.
ReadMessage(k) ==
    LET uid == checker[k].at + 1
        from == IF inbox[uid].reply THEN Unanswered(inbox[uid].from) ELSE {}
    IN  /\ checker[k].pc = "read" /\ checker[k].at < checker[k].upto
        /\ checker' = [checker EXCEPT ![k].at = IF from = {} THEN uid ELSE @,
                                      ![k].pc = IF from = {} THEN "read" ELSE "store",
                                      ![k].found = from]
        /\ UNCHANGED <<followUpVars, inbox, lastUid, passed>>

\* UPDATE companies SET has_replied = true: of those found the LIMIT 1 took one.
\* As shipped the parenthesis of "tenant_id =$3)" has no partner and the
\* statement is rejected every time (ReplySaveAborts): this action is the
\* statement once it is accepted.
StoreReply(k, c) ==
    /\ checker[k].pc = "store" /\ c \in checker[k].found
    /\ ~ReplySaveAborts
    /\ lead' = [lead EXCEPT ![c].replied = TRUE]
    /\ sender' = Withdrawn(c)
    /\ checker' = [checker EXCEPT ![k].pc = "cancel", ![k].found = {c}]
    /\ UNCHANGED <<template, seq, agenda, draft, writer, approving, tenantOn, delivered, unrecorded, mixed,
                   inbox, lastUid, passed>>

\* The pending follow-ups of the company are cancelled; the CRM is told if it
\* answers.
CancelReplied(k) ==
    LET rows == UNION {RowsOf(c) : c \in checker[k].found} IN
    /\ checker[k].pc = "cancel"
    /\ seq' = Cancelled(rows)
    /\ agenda' = Without(rows)
    /\ checker' = [checker EXCEPT ![k].pc = "read", ![k].at = @ + 1, ![k].found = {}]
    /\ UNCHANGED <<lead, template, draft, sender, writer, approving, tenantOn, delivered, unrecorded, mixed,
                   inbox, lastUid, passed>>

\* saveLastUid, after the last message only.
SaveUid(k) ==
    /\ checker[k].pc = "read" /\ checker[k].at = checker[k].upto
    /\ lastUid' = Reached(k) \/ ("save" \in CheckerFault /\ UNCHANGED lastUid)
    /\ checker' = [checker EXCEPT ![k] = Away]
    /\ UNCHANGED <<followUpVars, inbox, passed>>

\* The database rejects it: checkReplies throws, the position stays where it was
\* and the next check meets the same message first.
RejectReply(k) ==
    /\ checker[k].pc = "store"
    /\ ReplySaveAborts \/ "reject" \in CheckerFault
    /\ checker' = [checker EXCEPT ![k] = Away]
    /\ UNCHANGED <<followUpVars, inbox, lastUid, passed>>

\* Another statement or the connection fails, to the same effect.
BreakOff(k) ==
    /\ "break" \in CheckerFault /\ checker[k].pc # "idle"
    /\ checker' = [checker EXCEPT ![k] = Away]
    /\ UNCHANGED <<followUpVars, inbox, lastUid, passed>>

-----------------------------------------------------------------------------
CheckerStep(k) ==
    \/ Seed(k) \/ ReadMessage(k) \/ CancelReplied(k) \/ SaveUid(k) \/ RejectReply(k)
    \/ \E c \in Company : StoreReply(k, c)

AnyCheck == \E k \in Checker, uid \in Uid : StartCheck(k, uid)

Next ==
    \/ FollowUpNext /\ UNCHANGED checkerVars
    \/ \E a \in Address, reply \in BOOLEAN : Arrive(a, reply)
    \/ AnyCheck
    \/ \E k \in Checker : CheckerStep(k) \/ BreakOff(k)

Spec == Init /\ [][Next]_vars

\* The job is started every ten minutes and goes on, without the read of
\* last_uid having to fail; from some moment on connections hold until a check
\* is over.  What the database makes of a statement is not up to fairness.
FairSpec ==
    /\ Spec
    /\ \A k \in Checker :
        WF_vars(StartCheck(k, lastUid)) /\ WF_vars(CheckerStep(k))
    /\ <>[][~\E k \in Checker : BreakOff(k)]_vars

-----------------------------------------------------------------------------
\* A reply the saved position has passed was stored: some company with the
\* sender's address is marked.  Only what a first run skipped is exempt,
\* whatever overlaps, fails or is cut short.
NoReplyPassedOver ==
    \A uid \in 1..lastUid :
        uid > passed /\ inbox[uid].reply /\ inbox[uid].from \in {AddressOf[c] : c \in Company} =>
            \E c \in Company : AddressOf[c] = inbox[uid].from /\ lead[c].replied

\* imap-checker.js:92: at the first sign of interest (has_replied) the lead goes
\* into the CRM.  For that a reply must be stored in the end, once connections
\* hold; has_replied is also what stops the follow-ups.
ReplyIsStored ==
    \A uid \in 1..MaxMessages, a \in Address :
        (uid <= Len(inbox) /\ inbox[uid] = [from |-> a, reply |-> TRUE] /\ uid > passed)
            ~> (uid <= passed \/ \E c \in Company : AddressOf[c] = a /\ lead[c].replied)
=============================================================================
