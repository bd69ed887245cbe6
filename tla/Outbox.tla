------------------------------- MODULE Outbox --------------------------------
(***************************************************************************)
(* What the e-mail queue promises to the companies, whatever rows, batches,*)
(* retries and dead letters do it: a message is begun only for a company   *)
(* that has not opted out and has not been mailed, save when the mail it   *)
(* had was forgotten; only a message that was begun is mailed, once.       *)
(***************************************************************************)
EXTENDS Naturals

CONSTANT Company

VARIABLES
    out,        \* companies that have opted out
    begun,      \* companies with a message on its way to the server
    mailed,     \* messages each company has had, counted up to 2
    forgotten   \* companies mailed without a record of it

outboxVars == <<out, begun, mailed, forgotten>>

OutboxInit ==
    /\ out = {} /\ begun = {} /\ forgotten = {}
    /\ mailed = [c \in Company |-> 0]

\* One more message, up to 2.
Counted(c) == [mailed EXCEPT ![c] = IF @ < 2 THEN @ + 1 ELSE @]

\* No second message, save after a forgotten one.
MayBegin(c) == c \notin out /\ (mailed[c] = 0 \/ c \in forgotten)

Begin(c) ==
    /\ MayBegin(c)
    /\ begun' = begun \cup {c}
    /\ UNCHANGED <<out, mailed, forgotten>>

GiveUp(c) ==
    /\ c \in begun
    /\ begun' = begun \ {c}
    /\ UNCHANGED <<out, mailed, forgotten>>

\* The server accepts the message, ...
Mail(c) ==
    /\ c \in begun
    /\ begun' = begun \ {c} /\ mailed' = Counted(c)
    /\ UNCHANGED <<out, forgotten>>

\* ... and its answer is lost, ...
MailUnheard(c) ==
    /\ c \in begun
    /\ begun' = begun \ {c} /\ mailed' = Counted(c)
    /\ forgotten' = forgotten \cup {c}
    /\ UNCHANGED out

\* ... or what is written of it is.
Forget(c) ==
    /\ mailed[c] > 0
    /\ forgotten' = forgotten \cup {c}
    /\ UNCHANGED <<out, begun, mailed>>

OptOut(c) ==
    /\ out' = out \cup {c}
    /\ UNCHANGED <<begun, mailed, forgotten>>

OutboxNext ==
    \E c \in Company : Begin(c) \/ GiveUp(c) \/ Mail(c) \/ MailUnheard(c) \/ Forget(c) \/ OptOut(c)

OutboxSpec == OutboxInit /\ [][OutboxNext]_outboxVars
=============================================================================
