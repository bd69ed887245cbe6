------------------------------- MODULE Funnel --------------------------------
(***************************************************************************)
(* The funnel stage of a company: the handlers of src/routes/agent.js that *)
(* read it, wait, and write it back, and what they tell the CMS through    *)
(* src/services/cms.js.  call_status, booking_status and the notes are     *)
(* recorded and not read again: they are left out.                         *)
(***************************************************************************)
EXTENDS Naturals, Sequences, FiniteSets

CONSTANT Agent      \* requests being handled

ASSUME FunnelConstants == IsFiniteSet(Agent)

VARIABLES
    stage,       \* companies.funnel_stage
    request,     \* [pc, kind, read, result] of each request
    opportunity, \* the stage key last written to the opportunity in the CMS
    furthest     \* history: index of the furthest stage the company has had

funnelVars == <<stage, request, opportunity, furthest>>

FUNNEL_STAGES == <<"prospect", "contacted", "called", "booked", "demo", "won", "lost">>
StageName == {FUNNEL_STAGES[i] : i \in DOMAIN FUNNEL_STAGES}
IndexOf(s) == CHOOSE i \in DOMAIN FUNNEL_STAGES : FUNNEL_STAGES[i] = s

Further(n, s) == IF n < IndexOf(s) THEN IndexOf(s) ELSE n

\* The outcomes that matter to the stage: of a call, of a booking, of a
\* sending, of a message that was answered.
Kind == {"not_interested", "interested", "other_call", "prenotato", "effettuata", "no_show", "send"}

FunnelTypeOK ==
    /\ stage \in StageName /\ furthest \in IndexOf(stage)..Len(FUNNEL_STAGES)
    /\ request \in [Agent -> [pc : {"idle", "read", "written"}, kind : Kind, read : StageName]]
    /\ opportunity \in {"none", "replied", "interessato", "booked", "demo"}

Waiting == [pc |-> "idle", kind |-> "send", read |-> "prospect"]

FunnelInit ==
    /\ stage = "prospect" /\ furthest = 1
    /\ request = [a \in Agent |-> Waiting]
    /\ opportunity = "none"

-----------------------------------------------------------------------------
\* Mutated forms of the operators below.
MovedTo(s, target) == target
DemoForgotten(kind) == IF kind \in {"prenotato", "effettuata"} THEN "booked" ELSE "none"

\* FUNNEL_STAGES.indexOf(stage) < FUNNEL_STAGES.indexOf(target)
Advanced(s, target) == IF IndexOf(s) < IndexOf(target) THEN target ELSE s

\* stageByStatus; the stage key of the booking's opportunity is the same.
StageByStatus(kind) ==
    CASE kind = "prenotato" -> "booked" [] kind = "effettuata" -> "demo" [] OTHER -> "none"

\* newFunnelStage
NewStage(kind, s) ==
    CASE kind = "not_interested" -> IF s = "won" THEN s ELSE "lost"
      [] kind \in {"interested", "other_call"} -> Advanced(s, "called")
      [] kind = "send" -> IF s = "prospect" THEN "contacted" ELSE s
      [] kind = "no_show" -> s
      [] OTHER -> Advanced(s, StageByStatus(kind))

\* ensureOpportunityForStage: which outcomes make an opportunity.
StageKey(kind) ==
    CASE kind = "interested" -> "interessato" [] kind = "prenotato" -> "booked"
      [] kind = "effettuata" -> "demo" [] OTHER -> "none"

-----------------------------------------------------------------------------
\* SELECT * FROM companies, the first half of call-outcome, booking and send.
ReadStage(a, kind) ==
    /\ request[a].pc = "idle"
    /\ request' = [request EXCEPT ![a] = [pc |-> "read", kind |-> kind, read |-> stage]]
    /\ UNCHANGED <<stage, opportunity, furthest>>

\* The UPDATE writes the stage computed from what was read, changed or not;
\* send writes only when it read "prospect".
WriteStage(a) ==
    LET r == request[a]  new == NewStage(r.kind, r.read) IN
    /\ r.pc = "read"
    /\ stage' = IF r.kind = "send" /\ r.read # "prospect" THEN stage ELSE new
    /\ furthest' = Further(furthest, stage')
    /\ request' = [request EXCEPT ![a] = IF StageKey(r.kind) = "none" THEN Waiting
                                          ELSE [Waiting EXCEPT !.pc = "written", !.kind = r.kind]]
    /\ UNCHANGED opportunity

\* The opportunity follows, when the CMS is configured and answers.
PostOpportunity(a, works) ==
    /\ request[a].pc = "written"
    /\ opportunity' = IF works THEN StageKey(request[a].kind) ELSE opportunity
    /\ request' = [request EXCEPT ![a] = Waiting]
    /\ UNCHANGED <<stage, furthest>>

\* The request dies between its statements, or is refused.
AbandonRequest(a) ==
    /\ request[a].pc # "idle"
    /\ request' = [request EXCEPT ![a] = Waiting]
    /\ UNCHANGED <<stage, opportunity, furthest>>

\* PUT .../funnel-stage
SetStage(s) ==
    /\ s # stage
    /\ stage' = s /\ furthest' = Further(furthest, s)
    /\ UNCHANGED <<request, opportunity>>

\* ensureOpportunityForReply, of POST .../cms-sync: the opportunity is set to
\* "replied" however far the company is.
ReplyOpportunity ==
    /\ opportunity # "replied"
    /\ opportunity' = "replied"
    /\ UNCHANGED <<stage, request, furthest>>

FunnelNext ==
    \/ \E a \in Agent, kind \in Kind : ReadStage(a, kind)
    \/ \E a \in Agent : WriteStage(a) \/ AbandonRequest(a)
    \/ \E a \in Agent, works \in BOOLEAN : PostOpportunity(a, works)
    \/ \E s \in StageName : SetStage(s)
    \/ ReplyOpportunity

FunnelSpec == FunnelInit /\ [][FunnelNext]_funnelVars

-----------------------------------------------------------------------------
\* agent.js:201: an automatic update may advance the stage "senza mai
\* retrocedere".  It goes back, or leaves "won", by the explicit PUT only, or
\* by a request that had read another stage than the one it overwrites.
StageMovesForward ==
    [][stage' # stage /\ (IndexOf(stage') < IndexOf(stage) \/ stage = "won") =>
          \/ \E s \in StageName : SetStage(s)
          \/ \E a \in Agent : WriteStage(a) /\ request[a].read # stage]_funnelVars

\* The CMS is never told of a booking or a demo the company has not reached,
\* or gone past.
OpportunityBacked ==
    /\ opportunity = "booked" => furthest >= IndexOf("booked")
    /\ opportunity = "demo" => furthest >= IndexOf("demo")
=============================================================================
