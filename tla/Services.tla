------------------------------- MODULE Services -------------------------------
(***************************************************************************)
(* The services around the queue, side by side: the SMTP router, the       *)
(* drafts, the planned sendings, their spreading over days, the caches,    *)
(* the send gate, the funnel, the browser pool, the intake and the access. *)
(* The gate reads the settings through their cache; apart from that they   *)
(* share no state, so a behaviour is about one of them, its focus.         *)
(***************************************************************************)
EXTENDS SmtpRouter, Drafts, PlannedSends, Spread, SendGate, Funnel, BrowserPool,
        Intake, Access

CONSTANT Focus      \* the services that are looked at

VARIABLE focus      \* the one this behaviour is about

serviceVars == <<focus, routerVars, draftVars, planVars, spreadVars, cacheVars, gateVars,
                 funnelVars, poolVars, intakeVars, accessVars>>

ServicesTypeOK ==
    /\ focus \in Focus
    /\ RouterTypeOK /\ DraftTypeOK /\ PlanTypeOK /\ SpreadTypeOK /\ CacheTypeOK /\ GateTypeOK
    /\ FunnelTypeOK /\ PoolTypeOK /\ IntakeTypeOK /\ AccessTypeOK

\* A service out of focus starts in one of its initial states, always the same.
Pinned(name, value, values) == focus = name \/ value = CHOOSE v \in values : TRUE

ServicesInit ==
    /\ focus \in Focus
    /\ RouterInit /\ Pinned("router", [a \in Account |-> account[a].limit], [Account -> Limits])
    /\ DraftInit
    /\ PlanInit /\ Pinned("plans", <<lead.ready, lead.marketing>>, BOOLEAN \X BOOLEAN)
    /\ SpreadInit /\ Pinned("spread", <<batch.start, batch.count, batch.perDay>>, Starts \X Counts \X Paces)
    /\ CacheInit
    /\ focus = "caches" \/ table = "settings"
    /\ focus \in {"caches", "gate"} \/ loaded
    /\ GateInit /\ Pinned("gate", active, BOOLEAN)
    /\ FunnelInit /\ PoolInit
    /\ IntakeInit /\ Pinned("intake", dailyLimit, DailyLimits)
    /\ AccessInit /\ Pinned("access", audited, BOOLEAN)

\* A service takes a step, the others none; the gate and its cache are one.
AloneRouter ==
    /\ focus = "router"
    /\ UNCHANGED <<focus, draftVars, planVars, spreadVars, cacheVars, gateVars,
                   funnelVars, poolVars, intakeVars, accessVars>>
AloneDrafts ==
    /\ focus = "drafts"
    /\ UNCHANGED <<focus, routerVars, planVars, spreadVars, cacheVars, gateVars,
                   funnelVars, poolVars, intakeVars, accessVars>>
AlonePlans ==
    /\ focus = "plans"
    /\ UNCHANGED <<focus, routerVars, draftVars, spreadVars, cacheVars, gateVars,
                   funnelVars, poolVars, intakeVars, accessVars>>
AloneSpread ==
    /\ focus = "spread"
    /\ UNCHANGED <<focus, routerVars, draftVars, planVars, cacheVars, gateVars,
                   funnelVars, poolVars, intakeVars, accessVars>>
AloneCaches ==
    /\ focus = "caches"
    /\ UNCHANGED <<focus, routerVars, draftVars, planVars, spreadVars, gateVars,
                   funnelVars, poolVars, intakeVars, accessVars>>
AloneGate ==
    /\ focus = "gate"
    /\ UNCHANGED <<focus, routerVars, draftVars, planVars, spreadVars,
                   funnelVars, poolVars, intakeVars, accessVars>>
AloneFunnel ==
    /\ focus = "funnel"
    /\ UNCHANGED <<focus, routerVars, draftVars, planVars, spreadVars, cacheVars,
                   gateVars, poolVars, intakeVars, accessVars>>
AlonePool ==
    /\ focus = "pool"
    /\ UNCHANGED <<focus, routerVars, draftVars, planVars, spreadVars, cacheVars,
                   gateVars, funnelVars, intakeVars, accessVars>>
AloneIntake ==
    /\ focus = "intake"
    /\ UNCHANGED <<focus, routerVars, draftVars, planVars, spreadVars, cacheVars,
                   gateVars, funnelVars, poolVars, accessVars>>
AloneAccess ==
    /\ focus = "access"
    /\ UNCHANGED <<focus, routerVars, draftVars, planVars, spreadVars, cacheVars,
                   gateVars, funnelVars, poolVars, intakeVars>>

ServicesNext ==
    \/ AloneRouter /\ RouterNext
    \/ AloneDrafts /\ DraftNext
    \/ AlonePlans /\ PlanNext
    \/ AloneSpread /\ SpreadNext
    \/ AloneCaches /\ CacheNext
    \/ AloneGate /\ GateNext
    \/ AloneFunnel /\ FunnelNext
    \/ AlonePool /\ PoolNext
    \/ AloneIntake /\ IntakeNext
    \/ AloneAccess /\ AccessNext

ServicesSpec == ServicesInit /\ [][ServicesNext]_serviceVars

\* The database answers, each call of a function goes on, timers run out, and
\* somebody asks for a setting again; the municipality job is started every
\* three minutes for ever, and a run of it goes on.
CacheFairness ==
    /\ \A r \in Reader : WF_serviceVars(AloneCaches /\ (AnswerLoad(r) \/ FinishLoad(r) \/ FailLoad(r)))
    /\ WF_serviceVars(AloneCaches /\ \E r \in Reader : StartLoad(r))
    /\ WF_serviceVars(AloneCaches /\ Expire)
    /\ WF_serviceVars(AloneCaches /\ \E n \in 1..MaxWrites : TouchCache(n))

IntakeFairness ==
    /\ \A w \in Run : WF_serviceVars(AloneIntake /\ RunStep(w))
    /\ WF_serviceVars(AloneIntake /\ \E w \in Run : StartSearch(w))

FairServices == ServicesSpec /\ CacheFairness /\ IntakeFairness

-----------------------------------------------------------------------------
\* Every municipality is done some day: the ten of the SELECT are never the
\* same ten for ever, whatever the search service answers, and whether the
\* daily slots last or not.
TownsAreFinished ==
    \A t \in Town : focus = "intake" /\ ~town[t].done ~> town[t].done
=============================================================================
