----------------------------- MODULE QueueOutbox -----------------------------
(***************************************************************************)
(* The e-mail queue keeps the promise of Outbox.  A message is begun when  *)
(* the fresh check of processEmailQueue has passed, and is on its way until*)
(* sendCampaignEmail has an answer.                                        *)
(***************************************************************************)
EXTENDS EmailQueue

\* Companies with a message on its way.
UnderWay == {Target(w) : w \in {v \in Worker : worker[v].pc = "send"}}

OptedOut == {c \in Company : company[c].unsub}

Box == INSTANCE Outbox
    WITH out <- OptedOut, begun <- UnderWay, mailed <- delivered, forgotten <- unrecorded

\* While batches do not overlap, every step of the queue, of its retries, of
\* its crashes and of the handlers is a step of Outbox, or none.
KeepsPromise == Box!OutboxSpec
=============================================================================
