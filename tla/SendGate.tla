------------------------------ MODULE SendGate -------------------------------
(***************************************************************************)
(* The last checks a message passes: its tenant (src/routes/cron.js,       *)
(* src/services/tenants.js) and test mode (src/services/test-mode.js),     *)
(* while administrators switch both.                                       *)
(*                                                                         *)
(* The global test mode is a setting, and the process that sends knows it  *)
(* through its cache: a message is followed in the behaviours of Caches    *)
(* that are about the settings, with test_mode as the value, on after an   *)
(* odd number of writes.  The tenant is read from its table.  Both consent *)
(* gates are Admits of EmailQueue; here they are one more place at which a *)
(* message may end.                                                        *)
(*                                                                         *)
(* Neither SELECT hands a tenant to the sender (company.tenant_id is       *)
(* undefined), so the test mode of a tenant is never asked for, and its    *)
(* activation only in the loop of the follow-ups.                          *)
(***************************************************************************)
EXTENDS Caches

VARIABLES
    active,     \* tenants.is_active
    message,    \* the message under way: see GateTypeOK
    onceActive, \* history: the tenant was active at some moment since it began
    unread      \* history: the tenant could not be read

gateVars == <<active, message, onceActive, unread>>

\* followUp: with the tenant its row names; a message of the queue has none.
\* to: the real address, a test recipient, nobody.  floor: history, the floor
\* (least) of the setting the process knew, Missing when it knew none.
Message == [pc : {"none", "tenant", "consent", "global", "list", "mail"},
            followUp : BOOLEAN, to : {"nobody", "real", "test"}, floor : Missing..MaxWrites]

GateTypeOK ==
    /\ active \in BOOLEAN
    /\ message \in Message
    /\ onceActive \in BOOLEAN /\ unread \in BOOLEAN

NoMessage == [pc |-> "none", followUp |-> FALSE, to |-> "nobody", floor |-> Missing]

GateInit ==
    /\ active \in BOOLEAN
    /\ message = NoMessage
    /\ onceActive = active /\ unread = FALSE

-----------------------------------------------------------------------------
\* Mutated form of the operator below.
RealWithoutTest(found) == IF found THEN "test" ELSE "real"

\* isTestModeEnabled: a setting the process has not got counts as off, the
\* environment naming none.
TestModeOn(n) == n # Missing /\ n % 2 = 1

\* resolveTestRecipient in test mode: the oldest of test_recipients, of whatever
\* tenant; blocked when there is none, and when the list cannot be read.
Diverted(found) == IF found THEN "test" ELSE "nobody"

-----------------------------------------------------------------------------
At(pc) == message.pc = pc
GoOn(pc) == message' = [message EXCEPT !.pc = pc]
Quit == message' = NoMessage

Begin(followUp) ==
    /\ At("none") /\ table = "settings"
    /\ message' = [NoMessage EXCEPT !.pc = "tenant", !.followUp = followUp]
    /\ onceActive' = active /\ unread' = FALSE
    /\ UNCHANGED active

\* isTenantActive: a tenant that cannot be read is active.  The quotas and the
\* accounts put a message off for reasons of their own.
PassTenant(readable) ==
    /\ At("tenant")
    /\ \/ (message.followUp /\ readable => active) /\ GoOn("consent")
       \/ Quit
    /\ unread' = (message.followUp /\ ~readable)
    /\ UNCHANGED <<active, onceActive>>

\* enforceConsent
PassConsent ==
    /\ At("consent")
    /\ GoOn("global") \/ Quit
    /\ UNCHANGED <<active, onceActive, unread>>

\* getSetting serves what the process has, of whatever age.
ReadGlobal ==
    /\ At("global")
    /\ message' = [message EXCEPT !.pc = IF TestModeOn(cached) THEN "list" ELSE "mail",
                                  !.to = IF TestModeOn(cached) THEN @ ELSE "real",
                                  !.floor = IF cached = Missing THEN Missing ELSE least]
    /\ UNCHANGED <<active, onceActive, unread>>

ReadRecipients(found) ==
    /\ At("list")
    /\ IF Diverted(found) = "nobody" THEN Quit
       ELSE message' = [message EXCEPT !.pc = "mail", !.to = Diverted(found)]
    /\ UNCHANGED <<active, onceActive, unread>>

Mail ==
    /\ At("mail")
    /\ Quit
    /\ UNCHANGED <<active, onceActive, unread>>

\* The toggle of a tenant.
SetActive ==
    /\ active' = ~active
    /\ onceActive' = (onceActive \/ ~active)
    /\ UNCHANGED <<message, unread>>

-----------------------------------------------------------------------------
GateStep ==
    \/ \E followUp \in BOOLEAN : Begin(followUp)
    \/ \E b \in BOOLEAN : PassTenant(b) \/ ReadRecipients(b)
    \/ PassConsent \/ ReadGlobal \/ Mail \/ SetActive

\* The cache goes on meanwhile.
GateNext ==
    \/ GateStep /\ UNCHANGED cacheVars
    \/ CacheNext /\ UNCHANGED gateVars

GateSpec == CacheInit /\ GateInit /\ [][GateNext]_<<cacheVars, gateVars>>

-----------------------------------------------------------------------------
\* mcp-tools.js:314, test-mode.js:5: with test mode on every sending is diverted
\* or blocked.  What the code keeps of it: where a message goes, to the real
\* address or to a test recipient, is what test mode asked for at some moment no
\* earlier than the newest switch by this process that was over when it asked for
\* the settings (any moment, for a process that has not got them); switches by
\* other processes bind it from its next load.  And a follow-up leaves only when
\* its tenant was active at some moment since it was looked at, or unreadable.
FlagsHonoured ==
    At("mail") =>
        /\ \E n \in message.floor..stored : message.to = IF TestModeOn(n) THEN "test" ELSE "real"
        /\ message.followUp => onceActive \/ unread
=============================================================================
