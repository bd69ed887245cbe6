------------------------------- MODULE Access --------------------------------
(***************************************************************************)
(* Signing in and staying in: the links of src/services/magic-link.js      *)
(* (table magic_links), /api/auth/verify of src/routes/auth.js, the check  *)
(* of every request in src/middleware/auth.js with its cache of users, the *)
(* agents' tokens of src/services/api-tokens.js, and the administrators'   *)
(* pages of src/routes/users.js and src/routes/api-tokens-admin.js.        *)
(*                                                                         *)
(* Users do not interact here: the module follows one.                     *)
(***************************************************************************)
EXTENDS Naturals, FiniteSets

CONSTANTS
    Visit,      \* login requests, and then requests, being handled
    Link        \* rows of magic_links the user may have, in the order of sending

ASSUME AccessConstants == IsFiniteSet(Visit) /\ IsFiniteSet(Link) /\ Link \subseteq Nat

VARIABLES
    user,       \* users.status, or "deleted"
    audited,    \* the user is named in audit_log
    link,       \* what became of each link
    signed,     \* the user holds a JWT that has not expired
    token,      \* the user's agent token: none, good, or not any more
    known,      \* userStatusCache holds the user as active
    login,      \* login requests: [pc, doomed]
    visit,      \* other requests: where each one stands
    wasActive,  \* history: visits during which the user was active once
    overlap     \* history: links stored by requests that overlapped

accessVars == <<user, audited, link, signed, token, known, login, visit, wasActive, overlap>>

AccessTypeOK ==
    /\ user \in {"active", "disabled", "deleted"} /\ audited \in BOOLEAN
    /\ link \in [Link -> {"none", "unused", "used", "over"}]
    /\ signed \in BOOLEAN /\ token \in {"none", "good", "over"} /\ known \in BOOLEAN
    /\ login \in [Visit -> [pc : {"idle", "found", "clearing", "cleared"}, doomed : SUBSET Link, since : SUBSET Link]]
    /\ visit \in [Visit -> {"idle", "web", "checked", "agent", "served"}]
    /\ wasActive \subseteq Visit /\ overlap \subseteq Link

NotAsking == [pc |-> "idle", doomed |-> {}, since |-> {}]

AccessInit ==
    /\ user = "active" /\ audited \in BOOLEAN
    /\ link = [n \in Link |-> "none"]
    /\ signed = FALSE /\ token = "none" /\ known = FALSE
    /\ login = [v \in Visit |-> NotAsking] /\ visit = [v \in Visit |-> "idle"]
    /\ wasActive = {} /\ overlap = {}

-----------------------------------------------------------------------------
\* DELETE ... WHERE used_at IS NULL; expired ones too, which is not told apart.
Unused == {n \in Link : link[n] = "unused"}

IsActive == user = "active"

\* Mutated forms of the operators below.
CachedFirst == known \/ IsActive
UsedUp == {n \in Link : link[n] = "used"}

\* What the first check of requireAuth asks, before it looks at the cache.
FirstCheck == IsActive

\* What a login request deletes.
Superseded == Unused

Sent == {n \in Link : link[n] # "none"}
Locked(links) == \E v \in Visit : login[v].doomed \cap links # {}

-----------------------------------------------------------------------------
(* Signing in *)

\* generateAndSend: the user is looked for, ...
AskLink(v) ==
    /\ login[v].pc = "idle" /\ IsActive
    /\ login' = [login EXCEPT ![v].pc = "found"]
    /\ UNCHANGED <<user, audited, link, signed, token, known, visit, wasActive, overlap>>

\* ... links that were not used are deleted, in a transaction: a DELETE that
\* waits for another one's locks does not see what that one then inserts, ...
StartClear(v) ==
    /\ login[v].pc = "found"
    /\ login' = [login EXCEPT ![v] = [NotAsking EXCEPT !.pc = "clearing", !.since = Sent]]
    /\ UNCHANGED <<user, audited, link, signed, token, known, visit, wasActive, overlap>>

ClearLinks(v) ==
    LET doomed == login[v].since \cap Superseded IN
    /\ login[v].pc = "clearing" /\ ~Locked(doomed)
    /\ login' = [login EXCEPT ![v].pc = "cleared", ![v].doomed = doomed]
    /\ UNCHANGED <<user, audited, link, signed, token, known, visit, wasActive, overlap>>

\* ... and one is stored and sent.  It overlaps the ones stored since.
StoreLink(v, n) ==
    LET others == Sent \ login[v].since IN
    /\ login[v].pc = "cleared"
    /\ link[n] = "none" /\ \A m \in Link : m < n => link[m] # "none"
    /\ user # "deleted"
    /\ link' = [m \in Link |-> IF m = n THEN "unused" ELSE IF m \in login[v].doomed THEN "over" ELSE link[m]]
    /\ overlap' = overlap \cup IF others = {} THEN {} ELSE others \cup {n}
    /\ login' = [login EXCEPT ![v] = NotAsking]
    /\ UNCHANGED <<user, audited, signed, token, known, visit, wasActive>>

DropLogin(v) ==
    /\ login[v].pc # "idle"
    /\ login' = [login EXCEPT ![v] = NotAsking]
    /\ UNCHANGED <<user, audited, link, signed, token, known, visit, wasActive, overlap>>

\* verify: one UPDATE with its conditions; then the JWT and the audit row.
UseLink(n) ==
    /\ link[n] = "unused" /\ IsActive /\ ~Locked({n})
    /\ link' = [link EXCEPT ![n] = "used"]
    /\ signed' = TRUE /\ audited' = TRUE
    /\ UNCHANGED <<user, token, known, login, visit, wasActive, overlap>>

LinkExpires(n) ==
    /\ link[n] = "unused" /\ ~Locked({n})
    /\ link' = [link EXCEPT ![n] = "over"]
    /\ UNCHANGED <<user, audited, signed, token, known, login, visit, wasActive, overlap>>

\* Logout, or jwtExpiresIn.
SignOut ==
    /\ signed
    /\ signed' = FALSE
    /\ UNCHANGED <<user, audited, link, token, known, login, visit, wasActive, overlap>>

-----------------------------------------------------------------------------
(* Requests *)

\* The JWT, or the row of the token, is good.
Arrive(v, way) ==
    /\ visit[v] = "idle"
    /\ IF way = "web" THEN signed ELSE token = "good"
    /\ visit' = [visit EXCEPT ![v] = way]
    /\ wasActive' = IF IsActive THEN wasActive \cup {v} ELSE wasActive
    /\ UNCHANGED <<user, audited, link, signed, token, known, login, overlap>>

\* requireAuth: the first SELECT; without a cached status, a second one.
CheckUser(v) ==
    /\ visit[v] = "web"
    /\ visit' = [visit EXCEPT ![v] = IF ~FirstCheck THEN "idle" ELSE IF known THEN "served" ELSE "checked"]
    /\ wasActive' = IF FirstCheck THEN wasActive ELSE wasActive \ {v}
    /\ UNCHANGED <<user, audited, link, signed, token, known, login, overlap>>

CheckAgain(v) ==
    /\ visit[v] = "checked"
    /\ visit' = [visit EXCEPT ![v] = IF IsActive THEN "served" ELSE "idle"]
    /\ known' = (known \/ IsActive)
    /\ wasActive' = IF IsActive THEN wasActive ELSE wasActive \ {v}
    /\ UNCHANGED <<user, audited, link, signed, token, login, overlap>>

\* verifyApiToken: the user of the token.
CheckAgent(v) ==
    /\ visit[v] = "agent"
    /\ visit' = [visit EXCEPT ![v] = IF IsActive THEN "served" ELSE "idle"]
    /\ wasActive' = IF IsActive THEN wasActive ELSE wasActive \ {v}
    /\ UNCHANGED <<user, audited, link, signed, token, known, login, overlap>>

Leave(v) ==
    /\ visit[v] # "idle"
    /\ visit' = [visit EXCEPT ![v] = "idle"]
    /\ wasActive' = wasActive \ {v}
    /\ UNCHANGED <<user, audited, link, signed, token, known, login, overlap>>

\* USER_CACHE_TTL, or another process.
ForgetUser ==
    /\ known
    /\ known' = FALSE
    /\ UNCHANGED <<user, audited, link, signed, token, login, visit, wasActive, overlap>>

-----------------------------------------------------------------------------
(* Administrators *)

\* PATCH /api/users/:id: the cache entry of this process goes, that of another
\* stays.
SetStatus(status) ==
    /\ user # "deleted" /\ user # status
    /\ user' = status /\ known' \in {FALSE, known}
    /\ wasActive' = IF status = "active" THEN {v \in Visit : visit[v] # "idle"} ELSE wasActive
    /\ UNCHANGED <<audited, link, signed, token, login, visit, overlap>>

\* DELETE /api/users/:id: refused while audit_log names the user; the cached
\* status stays.
DeleteUser ==
    /\ user # "deleted" /\ ~audited
    /\ user' = "deleted"
    /\ link' = [n \in Link |-> IF link[n] = "none" THEN "none" ELSE "over"]
    /\ token' = IF token = "none" THEN "none" ELSE "over"
    /\ UNCHANGED <<audited, signed, known, login, visit, wasActive, overlap>>

MakeToken ==
    /\ token # "good" /\ user # "deleted"
    /\ token' = "good"
    /\ UNCHANGED <<user, audited, link, signed, known, login, visit, wasActive, overlap>>

\* revokeApiTokenById, or expires_at.
EndToken ==
    /\ token = "good"
    /\ token' = "over"
    /\ UNCHANGED <<user, audited, link, signed, known, login, visit, wasActive, overlap>>

AccessNext ==
    \/ \E v \in Visit : AskLink(v) \/ StartClear(v) \/ ClearLinks(v) \/ DropLogin(v)
    \/ \E v \in Visit, n \in Link : StoreLink(v, n)
    \/ \E n \in Link : UseLink(n) \/ LinkExpires(n)
    \/ SignOut
    \/ \E v \in Visit, way \in {"web", "agent"} : Arrive(v, way)
    \/ \E v \in Visit : CheckUser(v) \/ CheckAgain(v) \/ CheckAgent(v) \/ Leave(v)
    \/ ForgetUser
    \/ \E status \in {"active", "disabled"} : SetStatus(status)
    \/ DeleteUser \/ MakeToken \/ EndToken

AccessSpec == AccessInit /\ [][AccessNext]_accessVars

-----------------------------------------------------------------------------
\* A request is served only when the user was active at some moment while it
\* was being checked: neither the cache nor a JWT lets a disabled or deleted
\* user in for the rest of their life.
ServedWhileActive == \A v \in Visit : visit[v] = "served" => v \in wasActive

\* At most one link works, the last one sent, unless login requests overlapped.
OneLinkWorks == \A m, n \in Unused : m = n \/ {m, n} \subseteq overlap
=============================================================================
