----------------------------- MODULE IntakeProofs -----------------------------
(* Proofs about Intake, for any number of runs and municipalities, any      *)
(* limits, and midnights, crashes and refunds at any moment; and about the  *)
(* browser pool its scraping uses, for any number of scrapings, any limit,  *)
(* and failures, double releases and deaths of the browser at any moment.   *)
EXTENDS Intake, BrowserPool, FiniteSetTheorems, TLAPS

(***************************************************************************)
(* The municipality search                                                 *)
(***************************************************************************)
RunType == [pc : {"rest", "search", "call", "told", "strike", "weigh"}, todo : SUBSET Town,
            at : Town \cup {NoTown}, answer : AnswerKind, stale : BOOLEAN]
TownType == [done : BOOLEAN, errors : 0..Strikes]

\* Searches that took a slot of today and have no answer yet.
Calling == {w \in Run : run[w].pc = "call" /\ ~run[w].stale}

\* Each search answered today, and each that may still be, has its slot, or
\* drifted into this day.
SlotsSound ==
    /\ paid + Cardinality(Calling) <= spent + drift
    /\ spent <= topLimit
    /\ dailyLimit <= topLimit

IntakeInv == IntakeTypeOK /\ SlotsSound

Typed == town \in [Town -> TownType] /\ run \in [Run -> RunType] /\ kept \in [Town -> AnswerKind \cup {"no"}]

-----------------------------------------------------------------------------
LEMMA Types ==
    /\ IntakeTypeOK <=> /\ Typed
                        /\ spent \in Nat /\ paid \in Nat /\ drift \in Nat
                        /\ dailyLimit \in DailyLimits /\ topLimit \in DailyLimits
                        /\ trouble \in 0..MaxTrouble
    /\ DailyLimits \subseteq Nat
    /\ AtRest \in RunType
BY IntakeConstants DEF IntakeTypeOK, Typed, RunType, TownType, AtRest, AnswerKind

LEMMA CallingIsFinite == IsFiniteSet(Calling) /\ Cardinality(Calling) \in Nat
BY IntakeConstants, FS_Subset, FS_CardinalityType DEF Calling

\* Run w is among them.
Holds(w) == run[w].pc = "call" /\ ~run[w].stale

\* A run turns to something else.
LEMMA TurnAway ==
    ASSUME Typed, NEW w \in Run, NEW s \in RunType, s.pc # "call", Become(w, s)
    PROVE  /\ Holds(w) => Cardinality(Calling) = Cardinality(Calling') + 1
           /\ ~Holds(w) => Cardinality(Calling) = Cardinality(Calling') + 0
           /\ Cardinality(Calling') \in Nat
<1>1. Calling' = Calling \ {w}
  BY DEF Calling, Become, Typed
<1>2. w \in Calling <=> Holds(w)
  BY DEF Calling, Holds
<1>3. IsFiniteSet(Calling') /\ Cardinality(Calling') = IF w \in Calling THEN Cardinality(Calling) - 1
                                                       ELSE Cardinality(Calling)
  BY <1>1, CallingIsFinite, FS_RemoveElement
<1>4. Cardinality(Calling') \in Nat
  BY <1>3, FS_CardinalityType
<1>5. QED
  BY <1>2, <1>3, <1>4, CallingIsFinite

\* A run turns to a search.
LEMMA TurnToCall ==
    ASSUME Typed, NEW w \in Run, NEW s \in RunType, s.pc = "call", ~s.stale, run[w].pc # "call", Become(w, s)
    PROVE  Cardinality(Calling') = Cardinality(Calling) + 1
<1>1. Calling' = Calling \cup {w} /\ w \notin Calling
  BY DEF Calling, Become, Typed
<1>2. QED
  BY <1>1, CallingIsFinite, FS_AddElement

\* The slots left after a step: `missing' fewer than before, or more.
LeftBut(missing) == spent + drift + paid' <= spent' + drift' + paid + missing

\* The account after a step that ends n of the open searches.
LEMMA Accounted ==
    ASSUME NEW b \in Nat, NEW n \in Nat, NEW p \in Nat, NEW q \in Nat,
           NEW s \in Nat, NEW t \in Nat, NEW d \in Nat, NEW e \in Nat,
           p + (b + n) <= s + d, s + d + q <= t + e + p + n
    PROVE  q + b <= t + e
OBVIOUS

LEMMA AccountKept ==
    ASSUME spent \in Nat, paid \in Nat, drift \in Nat, spent' \in Nat, paid' \in Nat, drift' \in Nat,
           NEW b \in Nat, NEW n \in Nat, paid + (b + n) <= spent + drift, LeftBut(n)
    PROVE  paid' + b <= spent' + drift'
<1>1. PICK p \in Nat, q \in Nat, s \in Nat, t \in Nat, d \in Nat, e \in Nat :
         p = paid /\ q = paid' /\ s = spent /\ t = spent' /\ d = drift /\ e = drift'
  OBVIOUS
<1>2. p + (b + n) <= s + d /\ s + d + q <= t + e + p + n
  BY <1>1, Zenon DEF LeftBut
<1>3. q + b <= t + e
  BY <1>2, Accounted
<1>4. QED
  BY <1>1, <1>3, Zenon

\* A step after which at most the slot in hand is missing keeps the account.
LEMMA AwayKeeps ==
    ASSUME IntakeInv, NEW w \in Run, NEW s \in RunType, s.pc # "call", Become(w, s), IntakeTypeOK',
           UNCHANGED <<dailyLimit, topLimit>>, spent' <= spent,
           Holds(w) => LeftBut(1), ~Holds(w) => LeftBut(0)
    PROVE  IntakeInv'
<1>1. \/ Cardinality(Calling) = Cardinality(Calling') + 1 /\ LeftBut(1)
      \/ Cardinality(Calling) = Cardinality(Calling') + 0 /\ LeftBut(0)
  BY TurnAway, Types DEF IntakeInv
<1>2. /\ spent \in Nat /\ paid \in Nat /\ drift \in Nat /\ dailyLimit \in Nat /\ topLimit \in Nat
      /\ spent' \in Nat /\ paid' \in Nat /\ drift' \in Nat
  BY Types DEF IntakeInv, IntakeTypeOK
<1>3. SlotsSound /\ Cardinality(Calling) \in Nat /\ Cardinality(Calling') \in Nat
  BY CallingIsFinite, TurnAway, Types DEF IntakeInv
<1>4. paid' + Cardinality(Calling') <= spent' + drift'
  <2>1. PICK a \in Nat, b \in Nat : a = Cardinality(Calling) /\ b = Cardinality(Calling')
    BY <1>3
  <2>2. paid + a <= spent + drift
    BY <1>3, <2>1 DEF SlotsSound
  <2>3. PICK n \in Nat : a = b + n /\ LeftBut(n)
    BY <1>1, <2>1
  <2>4. paid + (b + n) <= spent + drift
    BY <2>2, <2>3, Zenon
  <2>5. paid' + b <= spent' + drift'
    BY <1>2, <2>3, <2>4, AccountKept
  <2>6. QED
    BY <2>1, <2>5
<1>5. spent' <= topLimit' /\ dailyLimit' <= topLimit'
  BY <1>2, <1>3 DEF SlotsSound
<1>6. QED
  BY <1>4, <1>5 DEF IntakeInv, SlotsSound

\* A step of no run that leaves the slots alone.
LEMMA AsideKeeps ==
    ASSUME IntakeInv, UNCHANGED <<run, spent, dailyLimit, topLimit, paid, drift>>,
           town' \in [Town -> TownType], kept' \in [Town -> AnswerKind \cup {"no"}], trouble' \in 0..MaxTrouble
    PROVE  IntakeInv'
BY DEF IntakeInv, IntakeTypeOK, SlotsSound, Calling, TownType

-----------------------------------------------------------------------------
LEMMA IntakeInvHolds == IntakeInit => IntakeInv
<1> SUFFICES ASSUME IntakeInit PROVE IntakeInv
  OBVIOUS
<1>1. Typed
  BY Types, IntakeConstants DEF IntakeInit, Typed, TownType
<1>2. spent = 0 /\ paid = 0 /\ drift = 0 /\ trouble = 0 /\ dailyLimit \in DailyLimits /\ topLimit = dailyLimit
  BY DEF IntakeInit
<1>3. IntakeTypeOK
  BY <1>1, <1>2, Types, IntakeConstants
<1>4. Calling = {}
  BY DEF IntakeInit, Calling, AtRest
<1>5. topLimit \in Nat
  BY <1>2, Types
<1>6. SlotsSound
  BY <1>2, <1>4, <1>5, FS_EmptySet DEF SlotsSound
<1>7. QED
  BY <1>3, <1>6 DEF IntakeInv

\* What the steps of a run have in common.
LEMMA Common ==
    IntakeInv => /\ Typed /\ spent \in Nat /\ paid \in Nat /\ drift \in Nat /\ dailyLimit \in DailyLimits
                 /\ topLimit \in DailyLimits /\ trouble \in 0..MaxTrouble
BY Types DEF IntakeInv

\* A run turns away without a word about slots.
LEMMA QuietKeeps ==
    ASSUME IntakeInv, NEW w \in Run, NEW s \in RunType, s.pc # "call", Become(w, s),
           town' \in [Town -> TownType], UNCHANGED <<kept, spent, dailyLimit, topLimit, paid, drift>>,
           trouble' \in 0..MaxTrouble
    PROVE  IntakeInv'
<1>1. IntakeTypeOK'
  BY Common DEF IntakeTypeOK, TownType, RunType, Typed, Become
<1>2. LeftBut(1) /\ LeftBut(0)
  BY Common DEF LeftBut
<1>3. QED
  BY <1>1, <1>2, AwayKeeps, Common

LEMMA StartSearchKeeps == ASSUME IntakeInv, NEW w \in Run, StartSearch(w) PROVE IntakeInv'
<1> DEFINE s == [AtRest EXCEPT !.pc = "search", !.todo = FirstOf(Undone)]
<1>1. FirstOf(Undone) \subseteq Town
  BY DEF FirstOf, Undone
<1>2. s \in RunType /\ s.pc # "call"
  BY <1>1, Types DEF RunType, AtRest
<1> HIDE DEF s
<1>3. QED
  BY <1>2, Common, QuietKeeps DEF StartSearch, Typed, s

LEMMA EndSearchKeeps == ASSUME IntakeInv, NEW w \in Run, EndSearch(w) \/ CutShort(w) PROVE IntakeInv'
<1>1. AtRest \in RunType /\ AtRest.pc # "call"
  BY Types DEF AtRest
<1>2. trouble' \in 0..MaxTrouble
  BY Common, IntakeConstants DEF EndSearch, CutShort
<1>3. QED
  BY <1>1, <1>2, Common, QuietKeeps DEF EndSearch, CutShort, Typed

LEMMA NextTownTyped ==
    ASSUME IntakeInv, NEW w \in Run PROVE NextTown(w) \in RunType /\ NextTown(w).pc # "call"
<1>1. run[w].todo \in SUBSET Town
  BY Common DEF Typed, RunType
<1>2. QED
  BY <1>1, Types DEF NextTown, RunType, AtRest

\* A turn of run w with another pc.
LEMMA Elsewhere ==
    ASSUME IntakeInv, NEW w \in Run, NEW pc \in {"told", "strike", "weigh"}
    PROVE  LET s == [run[w] EXCEPT !.pc = pc] IN s \in RunType /\ s.pc # "call"
<1>1. run[w] \in RunType
  BY Common DEF Typed
<1>2. QED
  BY <1>1 DEF RunType

LEMMA ConcludeKeeps == ASSUME IntakeInv, NEW w \in Run, Conclude(w) PROVE IntakeInv'
<1>1. UNCHANGED <<kept, spent, dailyLimit, topLimit, paid, drift, trouble>>
  BY DEF Conclude
<1>2. CASE run[w].answer = "known"
  <2>1. [done |-> TRUE, errors |-> 0] \in TownType
    BY IntakeConstants DEF TownType
  <2>2. town' = [town EXCEPT ![run[w].at] = [done |-> TRUE, errors |-> 0]] /\ Become(w, NextTown(w))
    BY <1>2 DEF Conclude
  <2>3. town' \in [Town -> TownType]
    BY <2>1, <2>2, Common DEF Typed
  <2>4. QED
    BY <1>1, <2>2, <2>3, Common, NextTownTyped, QuietKeeps
<1>3. CASE run[w].answer # "known"
  <2>1. town' \in [Town -> TownType] /\ Become(w, [run[w] EXCEPT !.pc = "strike"])
    BY <1>3, Common DEF Conclude, Typed
  <2>2. QED
    BY <1>1, <2>1, Common, Elsewhere, QuietKeeps
<1>4. QED
  BY <1>2, <1>3

LEMMA StrikeKeeps == ASSUME IntakeInv, NEW w \in Run, Strike(w) PROVE IntakeInv'
<1>1. \A n \in 0..Strikes : Struck(n) \in 0..Strikes
  BY IntakeConstants DEF Struck
<1>2. town' = [town EXCEPT ![run[w].at].errors = Struck(town[run[w].at].errors)]
  BY DEF Strike
<1>3. town' \in [Town -> TownType]
  BY <1>1, <1>2, Common DEF Typed, TownType
<1>4. QED
  BY <1>3, Common, Elsewhere, QuietKeeps DEF Strike

LEMMA WeighKeeps == ASSUME IntakeInv, NEW w \in Run, Weigh(w) PROVE IntakeInv'
<1>1. town' = [town EXCEPT ![run[w].at].done = town[run[w].at].done \/ GivenUp(run[w].at)]
  BY DEF Weigh
<1>2. town' \in [Town -> TownType]
  <2>1. \A t \in Town : (town[t].done \/ GivenUp(t)) \in BOOLEAN
    BY DEF GivenUp
  <2>2. QED
    BY <1>1, <2>1, Common DEF Typed, TownType
<1>3. QED
  BY <1>2, Common, NextTownTyped, QuietKeeps DEF Weigh

-----------------------------------------------------------------------------
(* Steps that touch slots. *)

\* A search: with a kept answer or without a slot quiet, else one slot more
\* and one search more.
LEMMA SearchKeeps == ASSUME IntakeInv, NEW w \in Run, Search(w) PROVE IntakeInv'
<1> DEFINE turn(t, pc) == [AtRest EXCEPT !.pc = pc, !.todo = run[w].todo \ {t}, !.at = t]
<1>1. PICK t \in LeastOf(run[w].todo) :
         /\ run[w].pc = "search"
         /\ IF kept[t] # "no"
            THEN Become(w, [turn(t, "told") EXCEPT !.answer = kept[t]]) /\ UNCHANGED spent
            ELSE IF SlotLeft
            THEN Become(w, turn(t, "call")) /\ spent' = spent + 1
            ELSE Become(w, turn(t, "strike")) /\ UNCHANGED spent
         /\ UNCHANGED <<town, kept, dailyLimit, topLimit, paid, drift, trouble>>
  BY DEF Search
<1>2. run[w] \in RunType /\ run[w].todo \subseteq Town /\ t \in Town
  BY Common DEF LeastOf, Typed, RunType
<1>3. ASSUME NEW pc \in {"told", "call", "strike"}
      PROVE  turn(t, pc) \in RunType /\ turn(t, pc).pc = pc /\ turn(t, pc).stale = FALSE
  BY <1>2 DEF RunType, AtRest, AnswerKind
<1>4. CASE kept[t] # "no"
  <2>1. kept[t] \in AnswerKind
    BY <1>2, <1>4, Common DEF Typed
  <2>2. turn(t, "told") \in RunType /\ turn(t, "told").pc = "told"
    BY <1>3
  <2> DEFINE s == [turn(t, "told") EXCEPT !.answer = kept[t]]
  <2>3. Become(w, s)
    BY <1>1, <1>4
  <2> HIDE DEF turn
  <2>4. s \in RunType /\ s.pc = "told"
    BY <2>1, <2>2 DEF RunType
  <2> HIDE DEF s
  <2>5. QED
    BY <1>1, <1>4, <2>3, <2>4, Common, QuietKeeps DEF Typed
<1>5. CASE kept[t] = "no" /\ ~SlotLeft
  <2>1. turn(t, "strike") \in RunType /\ turn(t, "strike").pc = "strike" /\ Become(w, turn(t, "strike"))
    BY <1>1, <1>3, <1>5
  <2> HIDE DEF turn
  <2>2. QED
    BY <1>1, <1>5, <2>1, Common, QuietKeeps DEF Typed
<1>6. CASE kept[t] = "no" /\ SlotLeft
  <2> DEFINE s == turn(t, "call")
  <2>1. s \in RunType /\ s.pc = "call" /\ ~s.stale
    BY <1>3
  <2>2. Become(w, s) /\ spent' = spent + 1 /\ UNCHANGED <<town, kept, dailyLimit, topLimit, paid, drift, trouble>>
    BY <1>1, <1>6
  <2> HIDE DEF s
  <2>3. Cardinality(Calling') = Cardinality(Calling) + 1
    BY <1>1, <2>1, <2>2, Common, TurnToCall
  <2>4. IntakeTypeOK'
    BY <2>1, <2>2, Common DEF IntakeTypeOK, TownType, RunType, Typed, Become
  <2>5. spent < dailyLimit /\ SlotsSound /\ Cardinality(Calling) \in Nat /\ dailyLimit \in Nat /\ topLimit \in Nat
    BY <1>6, CallingIsFinite, Common, Types DEF SlotLeft, IntakeInv
  <2>6. SlotsSound'
    BY <2>2, <2>3, <2>5, Common DEF SlotsSound
  <2>7. QED
    BY <2>4, <2>6 DEF IntakeInv
<1>7. QED
  BY <1>4, <1>5, <1>6

LEMMA DriftedIs ==
    ASSUME IntakeInv, NEW w \in Run
    PROVE  /\ Drifted(w) \in Nat
           /\ Drifted(w) = IF run[w].stale THEN drift + 1 ELSE drift
BY Common DEF Drifted

LEMMA AnsweredKeeps ==
    ASSUME IntakeInv, NEW w \in Run, NEW answer \in AnswerKind, NEW works \in BOOLEAN, Answered(w, answer, works)
    PROVE  IntakeInv'
<1> DEFINE s == [run[w] EXCEPT !.pc = IF works THEN "told" ELSE "strike", !.answer = answer, !.stale = FALSE]
<1>1. run[w] \in RunType /\ run[w].pc = "call"
  BY Common DEF Typed, Answered
<1>2. s \in RunType /\ s.pc # "call" /\ Become(w, s)
  BY <1>1 DEF RunType, Answered
<1> HIDE DEF s
<1>3. /\ paid' = paid + 1 /\ drift' = Drifted(w) /\ UNCHANGED <<town, spent, dailyLimit, topLimit, trouble>>
      /\ kept' = IF works THEN [kept EXCEPT ![run[w].at] = answer] ELSE kept
  BY DEF Answered
<1>4. kept' \in [Town -> AnswerKind \cup {"no"}]
  BY <1>3, Common DEF Typed
<1>5. IntakeTypeOK'
  BY <1>2, <1>3, <1>4, Common, DriftedIs DEF IntakeTypeOK, TownType, RunType, Typed, Become
<1>6. (Holds(w) => LeftBut(1)) /\ (~Holds(w) => LeftBut(0))
  BY <1>1, <1>3, Common, DriftedIs DEF LeftBut, Holds
<1>7. spent' <= spent
  BY <1>3, Common
<1>8. QED
  BY <1>2, <1>3, <1>5, <1>6, <1>7, AwayKeeps

LEMMA RefundKeeps == ASSUME IntakeInv, NEW w \in Run, Refund(w) PROVE IntakeInv'
<1> DEFINE s == [run[w] EXCEPT !.pc = "strike", !.stale = FALSE]
<1>1. run[w] \in RunType /\ run[w].pc = "call"
  BY Common DEF Typed, Refund
<1>2. s \in RunType /\ s.pc # "call" /\ Become(w, s)
  BY <1>1 DEF RunType, Refund
<1> HIDE DEF s
<1>3. /\ spent' = (IF spent > 0 THEN spent - 1 ELSE spent)
      /\ drift' = Drifted(w) /\ UNCHANGED <<town, kept, dailyLimit, topLimit, paid, trouble>>
  BY DEF Refund
<1>4. spent' \in Nat /\ spent' <= spent /\ spent' >= spent - 1
  BY <1>3, Common
<1>5. IntakeTypeOK'
  BY <1>2, <1>3, <1>4, Common, DriftedIs DEF IntakeTypeOK, TownType, RunType, Typed, Become
<1>6. (Holds(w) => LeftBut(1)) /\ (~Holds(w) => LeftBut(0))
  BY <1>1, <1>3, <1>4, Common, DriftedIs DEF LeftBut, Holds
<1>7. QED
  BY <1>2, <1>3, <1>4, <1>5, <1>6, AwayKeeps

\* At midnight every search in hand becomes one of yesterday.
LEMMA NewDayKeeps == ASSUME IntakeInv, NewSearchDay PROVE IntakeInv'
<1>1. run' = [w \in Run |-> [run[w] EXCEPT !.stale = run[w].pc = "call"]]
  BY DEF NewSearchDay
<1>2. run' \in [Run -> RunType]
  <2>1. ASSUME NEW w \in Run PROVE [run[w] EXCEPT !.stale = run[w].pc = "call"] \in RunType
    <3>1. run[w] \in RunType
      BY Common DEF Typed
    <3>2. (run[w].pc = "call") \in BOOLEAN
      OBVIOUS
    <3>3. QED
      BY <3>1, <3>2 DEF RunType
  <2>2. QED
    BY <1>1, <2>1
<1>3. Calling' = {}
  BY <1>1, Common DEF Typed, RunType, Calling
<1>4. /\ spent' = 0 /\ paid' = 0 /\ drift' = 0 /\ topLimit' = dailyLimit
      /\ UNCHANGED <<town, kept, dailyLimit, trouble>>
  BY DEF NewSearchDay
<1>5. IntakeTypeOK'
  BY <1>2, <1>4, Common DEF IntakeTypeOK, TownType, RunType, Typed
<1>6. dailyLimit \in Nat
  BY Common, Types
<1>7. SlotsSound'
  BY <1>3, <1>4, <1>6, FS_EmptySet DEF SlotsSound
<1>8. QED
  BY <1>5, <1>7 DEF IntakeInv

LEMMA SetLimitKeeps == ASSUME IntakeInv, NEW n \in DailyLimits, SetDailyLimit(n) PROVE IntakeInv'
<1>1. /\ dailyLimit' = n /\ topLimit' = (IF topLimit < n THEN n ELSE topLimit)
      /\ UNCHANGED <<town, run, kept, spent, paid, drift, trouble>>
  BY DEF SetDailyLimit
<1>2. n \in Nat /\ topLimit \in Nat
  BY Common, Types
<1>3. IntakeTypeOK'
  BY <1>1, Common DEF IntakeTypeOK, TownType, RunType, Typed
<1>4. SlotsSound'
  BY <1>1, <1>2, Common DEF IntakeInv, SlotsSound, Calling
<1>5. QED
  BY <1>3, <1>4 DEF IntakeInv

LEMMA PagesKeep ==
    ASSUME IntakeInv, NEW t \in Town, NEW done \in BOOLEAN, MarkTown(t, done) \/ Forget(t)
    PROVE  IntakeInv'
<1>1. UNCHANGED <<run, spent, dailyLimit, topLimit, paid, drift>>
  BY DEF MarkTown, Forget
<1>2. town' \in [Town -> TownType]
  BY Common DEF MarkTown, Forget, Typed, TownType
<1>3. kept' \in [Town -> AnswerKind \cup {"no"}]
  BY Common DEF MarkTown, Forget, Typed
<1>4. trouble' \in 0..MaxTrouble
  BY Common, IntakeConstants DEF MarkTown, Forget
<1>5. QED
  BY <1>1, <1>2, <1>3, <1>4, AsideKeeps

-----------------------------------------------------------------------------
LEMMA IntakeInvKept == IntakeInv /\ [IntakeNext]_intakeVars => IntakeInv'
<1> SUFFICES ASSUME IntakeInv, [IntakeNext]_intakeVars PROVE IntakeInv'
  OBVIOUS
<1>1. CASE \E w \in Run : StartSearch(w) \/ CutShort(w)
  BY <1>1, StartSearchKeeps, EndSearchKeeps
<1>2. CASE \E w \in Run : RunStep(w)
  BY <1>2, SearchKeeps, RefundKeeps, ConcludeKeeps, StrikeKeeps, WeighKeeps, EndSearchKeeps, AnsweredKeeps
     DEF RunStep
<1>3. CASE \E t \in Town, done \in BOOLEAN : MarkTown(t, done)
  BY <1>3, PagesKeep
<1>4. CASE \E t \in Town : Forget(t)
  BY <1>4, PagesKeep
<1>5. CASE NewSearchDay
  BY <1>5, NewDayKeeps
<1>6. CASE \E n \in DailyLimits : SetDailyLimit(n)
  BY <1>6, SetLimitKeeps
<1>7. CASE UNCHANGED intakeVars
  BY <1>7 DEF intakeVars, IntakeInv, IntakeTypeOK, SlotsSound, Calling
<1>8. QED
  BY <1>1, <1>2, <1>3, <1>4, <1>5, <1>6, <1>7 DEF IntakeNext

\* No day sees more answered searches than its largest limit, plus the slots
\* of the day before that end in it, for overlapping runs too.
THEOREM SearchesAreBudgeted == IntakeSpec => []SearchesWithinBudget
<1>1. IntakeInv => SearchesWithinBudget
  <2> SUFFICES ASSUME IntakeInv PROVE paid <= topLimit + drift
    BY DEF SearchesWithinBudget
  <2>1. SlotsSound /\ Cardinality(Calling) \in Nat /\ topLimit \in Nat
    BY CallingIsFinite, Common, Types DEF IntakeInv
  <2>2. QED
    BY <2>1, Common DEF SlotsSound
<1>2. QED
  BY IntakeInvHolds, IntakeInvKept, <1>1, PTL DEF IntakeSpec

(***************************************************************************)
(* The browser pool                                                        *)
(***************************************************************************)

ScrapeState == {"idle", "waiting", "turn", "launched", "context", "page", "read", "done"}

\* The scrapings that hold a page, those with a release under way, and those
\* with two.
Holding == {s \in Scrape : scrape[s] = "page"}
Closing1 == {s \in Scrape : closing[s] >= 1}
Closing2 == {s \in Scrape : closing[s] >= 2}

\* What the counter counts: pages held and releases under way, less the
\* releases that were called twice.
CounterExact ==
    counter + twice = Cardinality(Holding) + Cardinality(Closing1) + Cardinality(Closing2)

\* One scraping at most is inside the lock, and found room when it went in.
RoomInside ==
    /\ \A s, t \in Scrape : scrape[s] \in Inside /\ scrape[t] \in Inside => s = t
    /\ counter <= MaxPages
    /\ \A s \in Scrape : scrape[s] \in Inside => counter < MaxPages

\* A context is open for a page that is held, released or about to be made.
OpenIsUsed == \A s \in open : scrape[s] = "context" \/ scrape[s] = "page" \/ closing[s] >= 1

ReleasesFit ==
    \A s \in Scrape :
        /\ scrape[s] \notin {"read", "done"} => closing[s] = 0
        /\ scrape[s] = "read" => closing[s] <= 1

PoolInv == PoolTypeOK /\ CounterExact /\ RoomInside /\ OpenIsUsed /\ ReleasesFit

\* Sets of scrapings are counted by numbers, also when one comes or goes.
LEMMA ScrapesAreCounted ==
    /\ MaxPages \in Nat \ {0} /\ MaxTwice \in Nat
    /\ \A S \in SUBSET Scrape :
        /\ IsFiniteSet(S) /\ Cardinality(S) \in Nat
        /\ \A s \in S : Cardinality(S \ {s}) = Cardinality(S) - 1
        /\ \A s \in Scrape \ S : Cardinality(S \cup {s}) = Cardinality(S) + 1
BY PoolConstants, FS_CardinalityType, FS_Subset, FS_RemoveElement, FS_AddElement

\* A set that gains or loses one scraping, or stays.
Gains(new, former, s) == s \notin former /\ new = former \cup {s}
Loses(new, former, s) == s \in former /\ new = former \ {s}

LEMMA GainsAndLosses ==
    ASSUME NEW former \in SUBSET Scrape, NEW new \in SUBSET Scrape, NEW s \in Scrape
    PROVE  /\ Cardinality(former) \in Nat /\ Cardinality(new) \in Nat
           /\ Gains(new, former, s) => Cardinality(new) = Cardinality(former) + 1
           /\ Loses(new, former, s) => Cardinality(new) = Cardinality(former) - 1
BY ScrapesAreCounted DEF Gains, Loses

LEMMA CountedSets ==
    /\ Holding \in SUBSET Scrape /\ Closing1 \in SUBSET Scrape /\ Closing2 \in SUBSET Scrape
    /\ Holding' \in SUBSET Scrape /\ Closing1' \in SUBSET Scrape /\ Closing2' \in SUBSET Scrape
BY DEF Holding, Closing1, Closing2

\* Both sides of a sum grow, or shrink, alike.
LEMMA SumsMove ==
    \A c, t, h, k, l \in Int :
        c + t = h + k + l => (c + 1) + t = (h + 1) + k + l /\ c + t = (h - 1) + (k + 1) + l
OBVIOUS

LEMMA TwoSumsMove ==
    \A c, t, h, k, l, m, n \in Int :
        c + t = h + k + l => /\ m + n = k + l + 1 => c + (t + 1) = h + m + n
                             /\ m + n = k + l - 1 => (c - 1) + t = h + m + n
OBVIOUS

\* A union is no larger than its parts together.
LEMMA UnionIsBounded ==
    ASSUME NEW S, NEW T, IsFiniteSet(S), IsFiniteSet(T)
    PROVE  /\ IsFiniteSet(S \cup T)
           /\ Cardinality(S \cup T) <= Cardinality(S) + Cardinality(T)
<1>1. /\ IsFiniteSet(S \cup T)
      /\ Cardinality(S \cup T) = Cardinality(S) + Cardinality(T) - Cardinality(S \cap T)
  BY FS_Union
<1>2. IsFiniteSet(S \cap T)
  BY FS_Intersection
<1>3. Cardinality(S) \in Nat /\ Cardinality(T) \in Nat /\ Cardinality(S \cap T) \in Nat
  BY <1>2, FS_CardinalityType
<1>4. QED
  BY <1>1, <1>3

LEMMA PoolInvHolds == PoolInit => PoolInv
<1> SUFFICES ASSUME PoolInit PROVE PoolInv
  OBVIOUS
<1>1. Holding = {} /\ Closing1 = {} /\ Closing2 = {}
  BY DEF PoolInit, Holding, Closing1, Closing2
<1>2. CounterExact
  BY <1>1, FS_EmptySet DEF PoolInit, CounterExact
<1>3. 0 \in 0..MaxTwice /\ 0 <= MaxPages
  BY ScrapesAreCounted
<1>4. PoolTypeOK
  <2>1. scrape \in [Scrape -> ScrapeState] /\ closing \in [Scrape -> 0..2]
    BY DEF PoolInit, ScrapeState
  <2>2. browser = FALSE /\ counter = 0 /\ open = {} /\ twice = 0
    BY DEF PoolInit
  <2>3. browser \in BOOLEAN /\ open \subseteq Scrape
    BY <2>2
  <2>4. counter \in Int /\ twice \in 0..MaxTwice
    BY <1>3, <2>2
  <2>5. QED
    BY <2>1, <2>3, <2>4 DEF PoolTypeOK, ScrapeState
<1>5. RoomInside /\ OpenIsUsed /\ ReleasesFit
  BY <1>3 DEF PoolInit, RoomInside, OpenIsUsed, ReleasesFit, Inside
<1>6. QED
  BY <1>2, <1>4, <1>5 DEF PoolInv

\* A scraping that moves without a page being made or released.
LEMMA MoveKeepsCounter ==
    ASSUME PoolInv, PoolTypeOK', NEW s \in Scrape, NEW to \in ScrapeState, Goes(s, to),
           scrape[s] # "page", to # "page", UNCHANGED <<counter, closing, twice>>
    PROVE  CounterExact'
<1>1. Holding' = Holding
  BY DEF PoolInv, PoolTypeOK, Goes, Holding
<1>2. Closing1' = Closing1 /\ Closing2' = Closing2
  BY DEF Closing1, Closing2
<1>3. QED
  BY <1>1, <1>2 DEF PoolInv, CounterExact

LEMMA PoolInvKept == PoolInv /\ [PoolNext]_poolVars => PoolInv'
<1> SUFFICES ASSUME PoolInv, [PoolNext]_poolVars PROVE PoolInv'
  OBVIOUS
<1>0. /\ scrape \in [Scrape -> ScrapeState] /\ closing \in [Scrape -> 0..2] /\ counter \in Int
      /\ twice \in 0..MaxTwice /\ open \subseteq Scrape /\ browser \in BOOLEAN
  BY DEF PoolInv, PoolTypeOK, ScrapeState
<1>1. ASSUME NEW s \in Scrape, NEW to \in ScrapeState, Goes(s, to)
      PROVE  /\ scrape' \in [Scrape -> ScrapeState]
             /\ scrape'[s] = to /\ \A t \in Scrape : t # s => scrape'[t] = scrape[t]
  BY <1>0, <1>1 DEF Goes
<1>2. ASSUME NEW s \in Scrape,
             Ask(s) \/ EnterLock(s) \/ GetBrowser(s) \/ NewContext(s) \/ AcquireFails(s) \/ Return(s)
      PROVE PoolInv'
  <2>1. PICK to \in ScrapeState : /\ Goes(s, to) /\ to \notin {"page", "read"}
                                  /\ to \in Inside => scrape[s] \in Inside \/
                                         ((\A t \in Scrape : scrape[t] \notin Inside) /\ Room)
    BY <1>2 DEF Ask, EnterLock, GetBrowser, NewContext, AcquireFails, Return, ScrapeState, Inside
  <2>2. UNCHANGED <<counter, closing, twice>> /\ browser' \in BOOLEAN
    BY <1>0, <1>2 DEF Ask, EnterLock, GetBrowser, NewContext, AcquireFails, Return
  <2>3. /\ open' \subseteq Scrape
        /\ \A t \in open' : t # s => t \in open
        /\ s \in open' => to = "context" \/ (s \in open /\ scrape[s] \in {"idle", "waiting", "turn", "done"})
    BY <1>0, <1>2, <2>1 DEF Ask, EnterLock, GetBrowser, NewContext, AcquireFails, Return, Goes
  <2>4. closing[s] = 0 /\ scrape[s] # "page"
    BY <1>2 DEF Ask, EnterLock, GetBrowser, NewContext, AcquireFails, Return, PoolInv, ReleasesFit, Inside
  <2>5. /\ scrape' \in [Scrape -> ScrapeState]
        /\ scrape'[s] = to /\ \A t \in Scrape : t # s => scrape'[t] = scrape[t]
    BY <1>1, <2>1
  <2>6. PoolTypeOK'
    BY <1>0, <2>2, <2>3, <2>5 DEF PoolTypeOK, ScrapeState
  <2>7. CounterExact'
    BY <2>1, <2>2, <2>4, <2>6, MoveKeepsCounter
  <2>8. RoomInside'
    BY <1>0, <2>1, <2>2, <2>5 DEF PoolInv, RoomInside, Room
  <2>9. OpenIsUsed'
    BY <1>0, <2>2, <2>3, <2>4, <2>5 DEF PoolInv, OpenIsUsed
  <2>10. ReleasesFit'
    BY <2>1, <2>2, <2>4, <2>5 DEF PoolInv, ReleasesFit
  <2>11. QED
    BY <2>6, <2>7, <2>8, <2>9, <2>10 DEF PoolInv
<1>3. ASSUME NEW s \in Scrape, NewPage(s) PROVE PoolInv'
  <2>1. /\ scrape[s] = "context" /\ counter' = counter + 1 /\ Goes(s, "page")
        /\ UNCHANGED <<browser, closing, open, twice>>
    BY <1>3 DEF NewPage
  <2>2. /\ scrape' \in [Scrape -> ScrapeState]
        /\ scrape'[s] = "page" /\ \A t \in Scrape : t # s => scrape'[t] = scrape[t]
    BY <1>1, <2>1 DEF ScrapeState
  <2>3. PoolTypeOK'
    BY <1>0, <2>1, <2>2 DEF PoolTypeOK, ScrapeState
  <2>4. Gains(Holding', Holding, s) /\ Closing1' = Closing1 /\ Closing2' = Closing2
    BY <2>1, <2>2 DEF Gains, Holding, Closing1, Closing2
  <2>5. Cardinality(Holding') = Cardinality(Holding) + 1
    BY <2>4, CountedSets, GainsAndLosses
  <2>6. CounterExact'
    <3>1. /\ Cardinality(Holding) \in Nat /\ Cardinality(Closing1) \in Nat /\ Cardinality(Closing2) \in Nat
          /\ twice \in Nat
      BY <1>0, CountedSets, ScrapesAreCounted
    <3>2. counter + twice = Cardinality(Holding) + Cardinality(Closing1) + Cardinality(Closing2)
      BY DEF PoolInv, CounterExact
    <3>3. (counter + 1) + twice = (Cardinality(Holding) + 1) + Cardinality(Closing1) + Cardinality(Closing2)
      <4>1. counter \in Int /\ twice \in Int /\ Cardinality(Holding) \in Int
            /\ Cardinality(Closing1) \in Int /\ Cardinality(Closing2) \in Int
        BY <1>0, <3>1
      <4>2. QED
        BY <3>2, <4>1, SumsMove
    <3>4. QED
      BY <2>1, <2>4, <2>5, <3>3, Zenon DEF CounterExact
  <2>7. counter < MaxPages /\ \A t \in Scrape : t # s => scrape[t] \notin Inside
    BY <2>1 DEF PoolInv, RoomInside, Inside
  <2>8. RoomInside'
    BY <1>0, <2>1, <2>2, <2>7, ScrapesAreCounted DEF RoomInside, Inside
  <2>9. OpenIsUsed' /\ ReleasesFit'
    BY <1>0, <2>1, <2>2 DEF PoolInv, OpenIsUsed, ReleasesFit
  <2>10. QED
    BY <2>3, <2>6, <2>8, <2>9 DEF PoolInv
<1>4. ASSUME NEW s \in Scrape, NEW works \in BOOLEAN, Release(s, works) PROVE PoolInv'
  <2>1. PICK to \in {"read", "done"} :
           /\ Goes(s, to) /\ scrape[s] = "page" /\ closing' = [closing EXCEPT ![s] = closing[s] + 1]
           /\ UNCHANGED <<browser, counter, open, twice>>
    BY <1>4 DEF Release
  <2>2. /\ scrape' \in [Scrape -> ScrapeState]
        /\ scrape'[s] = to /\ \A t \in Scrape : t # s => scrape'[t] = scrape[t]
    BY <1>1, <2>1 DEF ScrapeState
  <2>3. closing[s] = 0 /\ closing'[s] = 1 /\ \A t \in Scrape : t # s => closing'[t] = closing[t]
    BY <1>0, <2>1 DEF PoolInv, ReleasesFit
  <2>4. PoolTypeOK'
    <3>1. closing' \in [Scrape -> 0..2]
      BY <1>0, <2>1, <2>3
    <3>2. QED
      BY <1>0, <2>1, <2>2, <3>1 DEF PoolTypeOK, ScrapeState
  <2>5. Loses(Holding', Holding, s) /\ Gains(Closing1', Closing1, s) /\ Closing2' = Closing2
    BY <2>1, <2>2, <2>3 DEF Gains, Loses, Holding, Closing1, Closing2
  <2>6. CounterExact'
    <3>1. /\ Cardinality(Holding') = Cardinality(Holding) - 1 /\ Cardinality(Holding) \in Nat
          /\ Cardinality(Closing1') = Cardinality(Closing1) + 1 /\ Cardinality(Closing1) \in Nat
      BY <2>5, CountedSets, GainsAndLosses
    <3>2. Cardinality(Closing2) \in Nat /\ twice \in Nat
      BY <1>0, CountedSets, ScrapesAreCounted
    <3>3. counter + twice = Cardinality(Holding) + Cardinality(Closing1) + Cardinality(Closing2)
      BY DEF PoolInv, CounterExact
    <3>4. counter + twice
             = (Cardinality(Holding) - 1) + (Cardinality(Closing1) + 1) + Cardinality(Closing2)
      BY <1>0, <3>1, <3>2, <3>3, SumsMove
    <3>5. QED
      BY <2>1, <2>5, <3>1, <3>4, Zenon DEF CounterExact
  <2>7. RoomInside'
    BY <1>0, <2>1, <2>2 DEF PoolInv, RoomInside, Inside
  <2>8. OpenIsUsed' /\ ReleasesFit'
    BY <1>0, <2>1, <2>2, <2>3 DEF PoolInv, OpenIsUsed, ReleasesFit
  <2>9. QED
    BY <2>4, <2>6, <2>7, <2>8 DEF PoolInv
<1>5. ASSUME NEW s \in Scrape, NEW works \in BOOLEAN, Convert(s, works) PROVE PoolInv'
  <2>1. /\ scrape[s] = "read" /\ Goes(s, "done") /\ UNCHANGED <<browser, counter, open>>
        /\ closing[s] <= 1 /\ (works \/ twice < MaxTwice)
    BY <1>5 DEF Convert, PoolInv, ReleasesFit
  <2>2. /\ scrape' \in [Scrape -> ScrapeState]
        /\ scrape'[s] = "done" /\ \A t \in Scrape : t # s => scrape'[t] = scrape[t]
    BY <1>1, <2>1 DEF ScrapeState
  <2>3. RoomInside'
    BY <1>0, <2>1, <2>2 DEF PoolInv, RoomInside, Inside
  <2>4. CASE works
    <3>1. closing' = closing /\ twice' = twice
      BY <1>5, <2>4 DEF Convert
    <3>2. PoolTypeOK'
      BY <1>0, <2>1, <2>2, <3>1 DEF PoolTypeOK, ScrapeState
    <3>3. CounterExact'
      BY <2>1, <3>1, <3>2, MoveKeepsCounter DEF ScrapeState
    <3>4. OpenIsUsed' /\ ReleasesFit'
      BY <1>0, <2>1, <2>2, <3>1 DEF PoolInv, OpenIsUsed, ReleasesFit
    <3>5. QED
      BY <2>3, <3>2, <3>3, <3>4 DEF PoolInv
  <2>5. CASE ~works
    <3>1. closing' = [closing EXCEPT ![s] = closing[s] + 1] /\ twice' = twice + 1
      BY <1>5, <2>5 DEF Convert
    <3>2. /\ closing[s] \in 0..1 /\ closing'[s] = closing[s] + 1
          /\ \A t \in Scrape : t # s => closing'[t] = closing[t]
      BY <1>0, <2>1, <3>1
    <3>3. twice' \in 0..MaxTwice /\ closing' \in [Scrape -> 0..2]
      BY <1>0, <2>1, <2>5, <3>1, <3>2, ScrapesAreCounted
    <3>4. PoolTypeOK'
      BY <1>0, <2>1, <2>2, <3>3 DEF PoolTypeOK, ScrapeState
    <3>5. Holding' = Holding
      BY <2>1, <2>2 DEF Holding
    <3>6. \/ Gains(Closing1', Closing1, s) /\ Closing2' = Closing2
          \/ Gains(Closing2', Closing2, s) /\ Closing1' = Closing1
      <4>1. CASE closing[s] = 0
        BY <3>2, <4>1 DEF Gains, Closing1, Closing2
      <4>2. CASE closing[s] = 1
        BY <3>2, <4>2 DEF Gains, Closing1, Closing2
      <4>3. QED
        BY <3>2, <4>1, <4>2
    <3>7. CounterExact'
      <4>1. /\ Cardinality(Holding) \in Nat /\ Cardinality(Closing1) \in Nat /\ Cardinality(Closing2) \in Nat
            /\ twice \in Nat
        BY <1>0, CountedSets, ScrapesAreCounted
      <4>2. Cardinality(Closing1') + Cardinality(Closing2') = Cardinality(Closing1) + Cardinality(Closing2) + 1
        BY <3>6, <4>1, CountedSets, GainsAndLosses
      <4>3. Cardinality(Closing1') \in Nat /\ Cardinality(Closing2') \in Nat
        BY CountedSets, ScrapesAreCounted
      <4>4. counter + twice = Cardinality(Holding) + Cardinality(Closing1) + Cardinality(Closing2)
        BY DEF PoolInv, CounterExact
      <4>5. counter + (twice + 1)
               = Cardinality(Holding) + Cardinality(Closing1') + Cardinality(Closing2')
        BY <1>0, <4>1, <4>2, <4>3, <4>4, TwoSumsMove
      <4>6. QED
        BY <2>1, <3>1, <3>5, <4>5, Zenon DEF CounterExact
    <3>8. OpenIsUsed' /\ ReleasesFit'
      BY <1>0, <2>1, <2>2, <3>2 DEF PoolInv, OpenIsUsed, ReleasesFit
    <3>9. QED
      BY <2>3, <3>4, <3>7, <3>8 DEF PoolInv
  <2>6. QED
    BY <2>4, <2>5
<1>6. ASSUME NEW s \in Scrape, NEW last \in BOOLEAN, CloseEnds(s, last) PROVE PoolInv'
  <2>1. /\ closing[s] > 0 /\ counter' = counter - 1 /\ closing' = [closing EXCEPT ![s] = closing[s] - 1]
        /\ open' \subseteq open /\ (closing[s] = 1 => s \notin open')
        /\ UNCHANGED <<browser, scrape, twice>>
    BY <1>6 DEF CloseEnds
  <2>2. /\ closing[s] \in 1..2 /\ closing'[s] = closing[s] - 1
        /\ \A t \in Scrape : t # s => closing'[t] = closing[t]
    BY <1>0, <2>1
  <2>3. counter' \in Int /\ closing' \in [Scrape -> 0..2]
    BY <1>0, <2>1, <2>2
  <2>4. PoolTypeOK'
    BY <1>0, <2>1, <2>3 DEF PoolTypeOK, ScrapeState
  <2>5. \/ Loses(Closing1', Closing1, s) /\ Closing2' = Closing2
        \/ Loses(Closing2', Closing2, s) /\ Closing1' = Closing1
    <3>1. CASE closing[s] = 1
      BY <2>2, <3>1 DEF Loses, Closing1, Closing2
    <3>2. CASE closing[s] = 2
      BY <2>2, <3>2 DEF Loses, Closing1, Closing2
    <3>3. QED
      BY <2>2, <3>1, <3>2
  <2>6. CounterExact'
    <3>1. /\ Cardinality(Holding) \in Nat /\ Cardinality(Closing1) \in Nat /\ Cardinality(Closing2) \in Nat
          /\ twice \in Nat
      BY <1>0, CountedSets, ScrapesAreCounted
    <3>2. Cardinality(Closing1') + Cardinality(Closing2') = Cardinality(Closing1) + Cardinality(Closing2) - 1
      BY <2>5, <3>1, CountedSets, GainsAndLosses
    <3>3. Cardinality(Closing1') \in Nat /\ Cardinality(Closing2') \in Nat
      BY CountedSets, ScrapesAreCounted
    <3>4. Holding' = Holding
      BY <2>1 DEF Holding
    <3>5. counter + twice = Cardinality(Holding) + Cardinality(Closing1) + Cardinality(Closing2)
      BY DEF PoolInv, CounterExact
    <3>6. (counter - 1) + twice
             = Cardinality(Holding) + Cardinality(Closing1') + Cardinality(Closing2')
      BY <1>0, <3>1, <3>2, <3>3, <3>5, TwoSumsMove
    <3>7. QED
      BY <2>1, <3>4, <3>6, Zenon DEF CounterExact
  <2>7. RoomInside'
    BY <1>0, <2>1, ScrapesAreCounted DEF PoolInv, RoomInside
  <2>8. OpenIsUsed' /\ ReleasesFit'
    BY <1>0, <2>1, <2>2 DEF PoolInv, OpenIsUsed, ReleasesFit
  <2>9. QED
    BY <2>4, <2>6, <2>7, <2>8 DEF PoolInv
<1>7. CASE Disconnect
  <2>1. UNCHANGED <<counter, scrape, closing, twice>> /\ browser' = FALSE /\ open' = {}
    BY <1>7 DEF Disconnect
  <2>2. Holding' = Holding /\ Closing1' = Closing1 /\ Closing2' = Closing2
    BY <2>1 DEF Holding, Closing1, Closing2
  <2>3. QED
    BY <2>1, <2>2 DEF PoolInv, PoolTypeOK, CounterExact, RoomInside, OpenIsUsed, ReleasesFit
<1>8. CASE UNCHANGED poolVars
  <2>1. UNCHANGED <<browser, counter, scrape, closing, open, twice>>
    BY <1>8 DEF poolVars
  <2>2. Holding' = Holding /\ Closing1' = Closing1 /\ Closing2' = Closing2
    BY <2>1 DEF Holding, Closing1, Closing2
  <2>3. QED
    BY <2>1, <2>2 DEF PoolInv, PoolTypeOK, CounterExact, RoomInside, OpenIsUsed, ReleasesFit
<1>9. QED
  BY <1>2, <1>3, <1>4, <1>5, <1>6, <1>7, <1>8 DEF PoolNext

\* What is open is held, under release, or being made by the one inside.
LEMMA PoolIsBounded == PoolInv => PagesBounded
<1> SUFFICES ASSUME PoolInv PROVE PagesBounded
  OBVIOUS
<1> DEFINE making == {s \in Scrape : scrape[s] = "context"}
<1>1. open \subseteq Holding \cup Closing1 \cup making
  BY DEF PoolInv, PoolTypeOK, OpenIsUsed, Holding, Closing1
<1>2. /\ Holding \in SUBSET Scrape /\ Closing1 \in SUBSET Scrape /\ Closing2 \in SUBSET Scrape
      /\ making \in SUBSET Scrape
  BY CountedSets
<1>3. making = {} \/ (counter < MaxPages /\ \E s \in Scrape : making = {s})
  BY DEF PoolInv, RoomInside, Inside
<1>4. Cardinality(making) \in Nat /\ counter + Cardinality(making) <= MaxPages
  <2>1. Cardinality({}) = 0 /\ \A s : Cardinality({s}) = 1
    BY FS_EmptySet, FS_Singleton
  <2>2. Cardinality(making) = 0 \/ (Cardinality(making) = 1 /\ counter < MaxPages)
    BY <1>3, <2>1
  <2>3. QED
    BY <2>2, ScrapesAreCounted DEF PoolInv, PoolTypeOK, RoomInside
<1> HIDE DEF making
<1>5. IsFiniteSet(Holding) /\ IsFiniteSet(Closing1) /\ IsFiniteSet(making)
  BY <1>2, ScrapesAreCounted
<1>6. /\ IsFiniteSet(Holding \cup Closing1)
      /\ Cardinality(Holding \cup Closing1) <= Cardinality(Holding) + Cardinality(Closing1)
  BY <1>5, UnionIsBounded
<1>7. /\ IsFiniteSet((Holding \cup Closing1) \cup making)
      /\ Cardinality((Holding \cup Closing1) \cup making)
             <= Cardinality(Holding \cup Closing1) + Cardinality(making)
  BY <1>5, <1>6, UnionIsBounded
<1>8. Cardinality(open) <= Cardinality((Holding \cup Closing1) \cup making)
  BY <1>1, <1>7, FS_Subset
<1>9. /\ Cardinality(open) \in Nat /\ Cardinality(Holding) \in Nat /\ Cardinality(Closing1) \in Nat
      /\ Cardinality(Closing2) \in Nat /\ Cardinality(Holding \cup Closing1) \in Nat
      /\ Cardinality((Holding \cup Closing1) \cup making) \in Nat /\ twice \in Nat /\ counter \in Int
  BY <1>2, <1>6, <1>7, ScrapesAreCounted, FS_CardinalityType DEF PoolInv, PoolTypeOK
<1>10. counter + twice = Cardinality(Holding) + Cardinality(Closing1) + Cardinality(Closing2)
  BY DEF PoolInv, CounterExact
<1>11. Cardinality(open) <= MaxPages + twice
  BY <1>4, <1>6, <1>7, <1>8, <1>9, <1>10, ScrapesAreCounted
<1>12. QED
  BY <1>11 DEF PagesBounded

\* Whatever the releases, the failures and the deaths of the browser, no more
\* contexts are in use than BROWSER_MAX_PAGES and the releases called twice.
THEOREM PoolWithinLimit == PoolSpec => [](PoolTypeOK /\ PagesBounded)
<1>1. PoolInv => PoolTypeOK /\ PagesBounded
  BY PoolIsBounded DEF PoolInv
<1>2. QED
  BY <1>1, PoolInvHolds, PoolInvKept, PTL DEF PoolSpec
=============================================================================
