-------------------------- MODULE Services_proofs ---------------------------
(***************************************************************************)
(* Proofs about the parts of flocks that MCServices checks in one run;     *)
(* they share no state, and each has its own specification.  In the order  *)
(* of this module: background runs, permission requests, the scheduler,    *)
(* the write gate, the workflow engine.                                    *)
(***************************************************************************)
EXTENDS MCServices, SequenceTheorems, FiniteSetTheorems, TLAPS

-----------------------------------------------------------------------------
(***************************************************************************)
(* Proof that what the watchdog stopped is never reported as completed,    *)
(* whatever cancels and failures come in between.                          *)
(***************************************************************************)

(* Before it starts a run has no outcome; it comes to a result only from a *)
(* session loop that ended well and that nobody stopped, and it keeps it   *)
(* as an outcome while it reads the text.                                  *)
NotStarted == loop = "none" /\ outcome = "none" /\ status # "completed" /\ executor # "completed"
WellEnded  == loop = "ok" /\ fired = {}

OutcomeInv ==
  /\ outcome # "completed"
  /\ at = "held" => NotStarted
  /\ at = "loop" => outcome = "none" /\ status # "completed" /\ executor # "completed"
  /\ at = "text" => outcome = "result"
  /\ outcome = "result" => at \in {"dog", "text"} /\ WellEnded
  /\ StopIsReported

-----------------------------------------------------------------------------
(* A new run is registered and has no outcome.                             *)
LEMMA InitOutcome == BgInit => OutcomeInv
BY DEF BgInit, OutcomeInv, NotStarted, StopIsReported, Ended, Waiting, Going, Told

(* What cancels makes of the status nothing but "cancelled".               *)
LEMMA CancelKeeps == ManagerCancel => status' \in {status, "cancelled"}
BY DEF ManagerCancel

(* The executor is told the status of a run that is over, or gives up.     *)
LEMMA ExecutorKeeps ==
  ASSUME OutcomeInv, ExecutorChecks \/ ExecutorLearns \/ ExecutorGivesUp PROVE OutcomeInv'
<1> USE DEF OutcomeInv, NotStarted, WellEnded, StopIsReported, runState, loopState,
            dogState, Ended, Waiting, Going, Told
<1>1. CASE ExecutorLearns BY <1>1 DEF ExecutorLearns
<1>2. CASE ExecutorChecks
  <2>1. CASE record /\ UNCHANGED <<runState, loopState>> BY <1>2, <2>1 DEF ExecutorChecks
  <2>2. CASE executor' = "stopped" /\ ManagerCancel
    BY <1>2, <2>2, CancelKeeps DEF ExecutorChecks
  <2>3. QED BY <1>2, <2>1, <2>2 DEF ExecutorChecks
<1>3. CASE ExecutorGivesUp
  <2>1. executor' \in {"late", "interrupted"} BY <1>3 DEF ExecutorGivesUp
  <2>2. QED BY <1>3, <2>1, CancelKeeps DEF ExecutorGivesUp
<1>4. QED BY <1>1, <1>2, <1>3

(* People and shutdown cancel.                                             *)
LEMMA OthersKeep ==
  ASSUME OutcomeInv, RecordCancelled \/ SessionCancelled \/ RunCancelled PROVE OutcomeInv'
<1>1. CASE RecordCancelled
  BY <1>1 DEF RecordCancelled, OutcomeInv, NotStarted, WellEnded, StopIsReported,
              runState, loopState, dogState
<1>2. CASE SessionCancelled \/ RunCancelled
  <2>1. ManagerCancel /\ UNCHANGED <<record, executor, mayAsk, at, outcome, raised, loop, quiet,
                                     dogState>>
    BY <1>2 DEF SessionCancelled, RunCancelled
  <2>2. QED
    BY <2>1, CancelKeeps DEF OutcomeInv, NotStarted, WellEnded, StopIsReported, dogState
<1>3. QED BY <1>1, <1>2

(* The run: a result needs a loop that ended well with nothing fired, and  *)
(* neither changes once the run has noticed.                               *)
LEMMA RunKeeps == ASSUME OutcomeInv, RunNext PROVE OutcomeInv'
<1> USE DEF OutcomeInv, NotStarted, WellEnded, StopIsReported, loopState, dogState
<1>1. CASE RunStarts BY <1>1 DEF RunStarts, Going
<1>2. CASE RunNeverStarts BY <1>2 DEF RunNeverStarts, Ends
<1>3. CASE RunResumes
  <2>1. CameTo \in {"result", "error", "cancelled"} BY DEF CameTo
  <2>2. CameTo = "result" => WellEnded BY <1>3 DEF CameTo, Stopped, RunResumes, Ended
  <2>3. QED BY <1>3, <2>1, <2>2 DEF RunResumes
<1>4. CASE DogIsOver BY <1>4 DEF DogIsOver, Ends
<1>5. CASE TextIsRead BY <1>5 DEF TextIsRead, Ends
<1>6. QED BY <1>1, <1>2, <1>3, <1>4, <1>5 DEF RunNext

(* The session loop and the watchdog act only while the loop is going on.  *)
LEMMA LoopKeeps ==
  ASSUME OutcomeInv, LoopActs \/ LoopEnds \/ GoesQuiet \/ WatchdogLooks \/ QuestionRejected
  PROVE  OutcomeInv'
<1> USE DEF OutcomeInv, NotStarted, WellEnded, StopIsReported, runState, dogState,
            Going, Waiting, Ended
<1>1. CASE LoopActs BY <1>1 DEF LoopActs
<1>2. CASE LoopEnds BY <1>2 DEF LoopEnds
<1>3. CASE GoesQuiet BY <1>3 DEF GoesQuiet
<1>4. CASE WatchdogLooks
  <2>1. at = "loop" /\ at' = "loop" BY <1>4 DEF WatchdogLooks
  <2>2. UNCHANGED <<executor, outcome, status, loop>> BY <1>4 DEF WatchdogLooks
  <2>3. QED BY <2>1, <2>2
<1>5. CASE QuestionRejected
  <2>1. at = "loop" /\ at' = "loop" BY <1>5 DEF QuestionRejected
  <2>2. UNCHANGED <<executor, outcome, status>> BY <1>5 DEF QuestionRejected
  <2>3. QED BY <2>1, <2>2
<1>6. QED BY <1>1, <1>2, <1>3, <1>4, <1>5

-----------------------------------------------------------------------------
(* The inductive invariant of a background run.                            *)
THEOREM OutcomesStaySound == BgSpec => []OutcomeInv
<1>1. BgInit => OutcomeInv BY InitOutcome
<1>2. OutcomeInv /\ [BgNext]_bgVars => OutcomeInv'
  <2> SUFFICES ASSUME OutcomeInv, [BgNext]_bgVars PROVE OutcomeInv' OBVIOUS
  <2>1. CASE BgNext BY <2>1, ExecutorKeeps, OthersKeep, RunKeeps, LoopKeeps DEF BgNext
  <2>2. CASE UNCHANGED bgVars
    BY <2>2 DEF bgVars, OutcomeInv, NotStarted, WellEnded, StopIsReported
  <2>3. QED BY <2>1, <2>2
<1>3. QED BY <1>1, <1>2, PTL DEF BgSpec

(* What the watchdog stopped - for silence, or for a question nobody may   *)
(* be asked - is never reported as completed, neither by the run nor to    *)
(* whoever waits for it (_run_session_with_watchdog, wait_for).            *)
THEOREM StopsAreReported == BgSpec => []StopIsReported
<1>1. OutcomeInv => StopIsReported BY DEF OutcomeInv
<1>2. QED BY <1>1, OutcomesStaySound, PTL

-----------------------------------------------------------------------------
(***************************************************************************)
(* Proof that a request nobody waits on is offered by no view, for any     *)
(* number of users, whatever they answer, when, and in which process.      *)
(***************************************************************************)

(* The asker takes its request back in order: out of _pending, out of the  *)
(* store, then what was answered meanwhile; nothing shows it again.        *)
TakenBack == asker \in {"drop row", "drop answer", "over"}

OfferInv ==
  /\ pending \in BOOLEAN /\ row \in BOOLEAN
  /\ TakenBack => ~pending
  /\ asker = "drop answer" => ~row
  /\ OverIsNotOffered

-----------------------------------------------------------------------------
(* At first nothing has been asked.                                        *)
LEMMA InitOffer == PermInit => OfferInv
BY DEF PermInit, OfferInv, TakenBack, OverIsNotOffered

(* The asker withdraws the request it exposed before it drops the row, on  *)
(* every way out of its wait.                                              *)
LEMMA AskKeeps == ASSUME OfferInv, AskStep \/ Deadline \/ StopAsk \/ CutShort PROVE OfferInv'
<1> USE DEF OfferInv, TakenBack, OverIsNotOffered, Settle, AskTo
<1>1. CASE Persist \/ Expose \/ Announced BY <1>1 DEF Persist, Expose, Announced
<1>2. CASE Check BY <1>2 DEF Check
<1>3. CASE Consume \/ Wait BY <1>3 DEF Consume, Wait
<1>4. CASE DropRow BY <1>4 DEF DropRow
<1>5. CASE DropAnswer BY <1>5 DEF DropAnswer
<1>6. CASE Deadline BY <1>6 DEF Deadline
<1>7. CASE StopAsk BY <1>7 DEF StopAsk, AskerWaits
<1>8. CASE CutShort
  <2>1. asker' = "over" /\ pending' = FALSE BY <1>8 DEF CutShort
  <2>2. row' \in BOOLEAN BY <1>8 DEF CutShort
  <2>3. verdict' = "cut" \/ row' = FALSE BY <1>8 DEF CutShort
  <2>4. QED BY <2>1, <2>2, <2>3
<1>9. QED BY <1>1, <1>2, <1>3, <1>4, <1>5, <1>6, <1>7, <1>8 DEF AskStep

(* Users only ever take the request away.                                  *)
LEMMA UserKeeps ==
  ASSUME OfferInv, NEW u \in Users,
         UserStep(u) \/ \E p \in Processes, says \in Answers \cup {"delete"} : Act(u, p, says)
  PROVE  OfferInv'
<1> USE DEF OfferInv, TakenBack, OverIsNotOffered, askVars
<1>1. UNCHANGED <<asker, verdict>> /\ pending' \in {pending, FALSE} /\ row' \in {row, FALSE}
  <2>1. CASE \E p \in Processes, says \in Answers \cup {"delete"} : Act(u, p, says)
    <3>1. UNCHANGED askVars BY <2>1, Zenon DEF Act
    <3>2. QED BY <3>1
  <2>2. CASE Read(u) BY <2>2 DEF Read
  <2>3. CASE Look(u) BY <2>3 DEF Look
  <2>4. CASE Leave(u) BY <2>4 DEF Leave
  <2>5. CASE Go(u) BY <2>5 DEF Go
  <2>6. CASE Drop(u) BY <2>6 DEF Drop, SetRule
  <2>7. CASE Write(u) BY <2>7 DEF Write
  <2>8. QED BY <2>1, <2>2, <2>3, <2>4, <2>5, <2>6, <2>7 DEF UserStep
<1>2. pending' \in BOOLEAN /\ row' \in BOOLEAN BY <1>1
<1>3. TakenBack' = TakenBack /\ (~pending => ~pending') /\ (~row => ~row') BY <1>1, <1>2
<1>4. QED BY <1>1, <1>2, <1>3

-----------------------------------------------------------------------------
(* The inductive invariant of a permission request.                        *)
THEOREM OffersStaySound == PermSpec => []OfferInv
<1>1. PermInit => OfferInv BY InitOffer
<1>2. OfferInv /\ [PermNext]_permVars => OfferInv'
  <2> SUFFICES ASSUME OfferInv, [PermNext]_permVars PROVE OfferInv' OBVIOUS
  <2>1. CASE AskStep \/ Deadline \/ StopAsk \/ CutShort BY <2>1, AskKeeps
  <2>2. CASE Restart BY <2>2 DEF Restart, OfferInv, TakenBack, OverIsNotOffered
  <2>3. CASE \E u \in Users : \/ UserStep(u)
                              \/ \E p \in Processes, says \in Answers \cup {"delete"} : Act(u, p, says)
    BY <2>3, UserKeeps
  <2>4. CASE UNCHANGED permVars
    BY <2>4 DEF permVars, askVars, OfferInv, TakenBack, OverIsNotOffered
  <2>5. QED BY <2>1, <2>2, <2>3, <2>4 DEF PermNext
<1>3. QED BY <1>1, <1>2, PTL DEF PermSpec

(* A request that was answered, timed out or was stopped, even while it    *)
(* was stored or announced, is offered by no view, in either process, when *)
(* the finally that withdraws it has run through (ask, reply).             *)
THEOREM OverIsWithdrawn == PermSpec => []OverIsNotOffered
<1>1. OfferInv => OverIsNotOffered BY DEF OfferInv
<1>2. QED BY <1>1, OffersStaySound, PTL

-----------------------------------------------------------------------------
(***************************************************************************)
(* Proof that a process which alone writes the durable rule shows what is  *)
(* stored, through answers, deletions, crashes and loads of the rule.      *)
(***************************************************************************)

(* What users have done goes with where they are; who is past the loading  *)
(* of the rule is in a process that has loaded it.                         *)
UserSound(u) ==
  LET x == user[u] IN
  /\ x.step = "idle" <=> x.says = Unset
  /\ x.step = "load" => x.read = "nothing"
  /\ x.step = "loading" => x.read # "nothing"
  /\ x.step = "idle" => x.read = "nothing"
  /\ x.step \in {"look", "leave"} => x.says \in Answers
  /\ x.step \in {"look", "leave", "drop", "write"} => x.at \in loaded
  /\ x.step = "write" => x.says \in DOMAIN Grants \cup {"delete"}

(* Of one process: the one who reads the rule finds what will still be     *)
(* stored when the cache is replaced, because before that nobody there     *)
(* changes it; after that the cache is ahead of the store by the one write *)
(* that is on its way.                                                     *)
RuleKept(p) ==
  /\ \A u \in Users : user[u].at = p /\ user[u].step = "loading" =>
       p \notin loaded /\ user[u].read = rule
  /\ p \in loaded /\ (\A u \in Users : user[u].step # "write") => cache[p] = rule
  /\ \A u \in Users : p \in loaded /\ user[u].step = "write" => cache[p] = NewRule(u)

Single(p) == \A u, v \in Readers(p) : u = v

RuleInv ==
  /\ PermTypeOK
  /\ \A u \in Users : UserSound(u)
  /\ ~crossed => \A u, v \in Users : user[u].step = "write" /\ user[v].step = "write" => u = v
  /\ \A p \in Processes : Single(p) /\ Alone(p) /\ ~crossed => RuleKept(p)

-----------------------------------------------------------------------------
(* At first no process has loaded anything but what is stored.             *)
LEMMA InitRule == PermInit => RuleInv
<1> SUFFICES ASSUME PermInit PROVE RuleInv OBVIOUS
<1> USE PermissionAssumption DEF PermInit, Idle, Unset, Here, Processes
<1>1. PermTypeOK BY DEF PermTypeOK, UserType, Answers
<1>2. \A u \in Users : user[u] = Idle OBVIOUS
<1>3. \A u \in Users : UserSound(u) BY <1>2 DEF UserSound
<1>4. \A p \in Processes : RuleKept(p) BY <1>2 DEF RuleKept
<1>5. QED BY <1>1, <1>2, <1>3, <1>4 DEF RuleInv

(* The asker's steps keep the types, and leave the rule and users alone.   *)
LEMMA AskTypes == ASSUME PermTypeOK, OfferInv, AskStep \/ Deadline \/ StopAsk \/ CutShort PROVE PermTypeOK'
<1> USE DEF PermTypeOK, OfferInv, TakenBack, Settle, AskTo, ruleVars, Answers, Unset
<1>1. CASE Persist BY <1>1 DEF Persist
<1>2. CASE Expose BY <1>2 DEF Expose
<1>3. CASE Announced BY <1>3 DEF Announced
<1>4. CASE Check BY <1>4 DEF Check
<1>5. CASE Consume BY <1>5 DEF Consume
<1>6. CASE Wait BY <1>6 DEF Wait
<1>7. CASE DropRow BY <1>7 DEF DropRow
<1>8. CASE DropAnswer BY <1>8 DEF DropAnswer
<1>9. CASE Deadline \/ StopAsk BY <1>9 DEF Deadline, StopAsk, AskerWaits
<1>10. CASE CutShort BY <1>10 DEF CutShort
<1>11. QED BY <1>1, <1>2, <1>3, <1>4, <1>5, <1>6, <1>7, <1>8, <1>9, <1>10 DEF AskStep

(* A user who moves on: only his own record changes, and in it only where  *)
(* he is, and what he found.                                               *)
Steps == {"idle", "load", "loading", "look", "leave", "drop", "write", "over"}

MovesTo(u, s) ==
  /\ user' \in [Users -> UserType]
  /\ user'[u].step = s /\ user'[u].at = user[u].at
  /\ user'[u].says = user[u].says /\ user'[u].read = user[u].read
  /\ \A v \in Users : v # u => user'[v] = user[v]

LEMMA StepIs ==
  ASSUME PermTypeOK, NEW u \in Users, NEW s \in Steps, Step(u, s)
  PROVE  MovesTo(u, s)
<1>1. user \in [Users -> UserType] /\ user[u] \in UserType BY DEF PermTypeOK
<1>2. [user[u] EXCEPT !.step = s] \in UserType BY <1>1 DEF UserType, Steps
<1>3. user' = [user EXCEPT ![u] = [user[u] EXCEPT !.step = s]] BY <1>1 DEF Step
<1>4. user' \in [Users -> UserType] BY <1>1, <1>2, <1>3
<1>5. user'[u] = [user[u] EXCEPT !.step = s] BY <1>1, <1>3
<1>6. \A v \in Users : v # u => user'[v] = user[v] BY <1>1, <1>3
<1>7. QED BY <1>1, <1>4, <1>5, <1>6 DEF MovesTo, UserType

LEMMA KnownIs ==
  ASSUME PermTypeOK, NEW u \in Users, NEW s \in Steps,
         NEW k \in {"no", "row", "future"}, Known(u, s, k)
  PROVE  MovesTo(u, s)
<1>1. user \in [Users -> UserType] /\ user[u] \in UserType BY DEF PermTypeOK
<1>2. [user[u] EXCEPT !.step = s, !.known = k] \in UserType BY <1>1 DEF UserType, Steps
<1>3. user' = [user EXCEPT ![u] = [user[u] EXCEPT !.step = s, !.known = k]] BY <1>1 DEF Known
<1>4. user' \in [Users -> UserType] BY <1>1, <1>2, <1>3
<1>5. user'[u] = [user[u] EXCEPT !.step = s, !.known = k] BY <1>1, <1>3
<1>6. \A v \in Users : v # u => user'[v] = user[v] BY <1>1, <1>3
<1>7. QED BY <1>1, <1>4, <1>5, <1>6 DEF MovesTo, UserType

(* What a user's steps do to the rule and its cache.                       *)
LEMMA SetRuleIs ==
  ASSUME PermTypeOK, NEW u \in Users, user[u].says \in DOMAIN Grants \cup {"delete"},
         NEW rules \in [Processes -> {Unset, "allow", "deny"}], SetRule(u, rules)
  PROVE  /\ MovesTo(u, "write") /\ crossed' \in BOOLEAN
         /\ cache' \in [Processes -> {Unset, "allow", "deny"}]
         /\ cache'[user[u].at] = NewRule(u)
         /\ \A p \in Processes : p # user[u].at => cache'[p] = rules[p]
         /\ ~crossed' => ~crossed /\ \A v \in Users : v # u => user[v].step # "write"
<1>1. user[u].at \in Processes BY DEF PermTypeOK, UserType
<1>2. NewRule(u) \in {Unset, "allow", "deny"} BY DEF NewRule, Grants, Unset
<1>3. MovesTo(u, "write") BY StepIs DEF SetRule, Steps
<1>4. cache' = [rules EXCEPT ![user[u].at] = NewRule(u)] BY DEF SetRule
<1>5. crossed' = (crossed \/ \E v \in Users \ {u} : user[v].step = "write") BY DEF SetRule, Crosses
<1>6. QED BY <1>1, <1>2, <1>3, <1>4, <1>5 DEF PermTypeOK

(* A user whose cache is loaded proceeds: to a write of the rule, or       *)
(* without touching it.                                                    *)
LEMMA ProceedIs ==
  ASSUME PermTypeOK, NEW u \in Users, user[u].says # Unset,
         NEW rules \in [Processes -> {Unset, "allow", "deny"}], Proceed(u, rules)
  PROVE  /\ future' \in Answers \cup {Unset}
         /\ \/ SetRule(u, rules) /\ user[u].says = "delete"
            \/ /\ \E s \in {"over", "drop", "look"} :
                    MovesTo(u, s) /\ (s = "look" => user[u].says \in Answers)
               /\ cache' = rules /\ crossed' = crossed
<1>1. user[u].says \in Answers \cup {"delete"} BY DEF PermTypeOK, UserType, Unset, Answers
<1>2. CASE user[u].says = "delete"
  <2>1. CASE rules[user[u].at] = Unset
    BY <1>2, <2>1, StepIs DEF Proceed, PermTypeOK, Steps
  <2>2. CASE rules[user[u].at] # Unset BY <1>2, <2>2 DEF Proceed, PermTypeOK
  <2>3. QED BY <2>1, <2>2
<1>3. CASE user[u].says # "delete"
  <2>1. CASE user[u].at = Here /\ pending
    <3>1. Known(u, "drop", "future") /\ cache' = rules /\ crossed' = crossed
      BY <1>3, <2>1 DEF Proceed
    <3>2. MovesTo(u, "drop") BY <3>1, KnownIs DEF Steps
    <3>3. future' \in Answers \cup {Unset} BY <1>1, <1>3, <2>1 DEF Proceed, PermTypeOK
    <3>4. QED BY <3>1, <3>2, <3>3
  <2>2. CASE ~(user[u].at = Here /\ pending)
    BY <1>1, <1>3, <2>2, StepIs DEF Proceed, PermTypeOK, Steps, Answers
  <2>3. QED BY <2>1, <2>2
<1>4. QED BY <1>2, <1>3

(* Types, where the asker only loses its future, and each of the others    *)
(* keeps to its set.                                                       *)
LEMMA PermTypesKept ==
  ASSUME PermTypeOK, asker' = asker, verdict' = verdict, late' = late, crashed' = crashed,
         pending' \in BOOLEAN, pending' => pending, row' \in BOOLEAN, crossed' \in BOOLEAN,
         future' \in Answers \cup {Unset}, answerRow' \in Answers \cup {Unset},
         rule' \in {Unset, "allow", "deny"}, cache' \in [Processes -> {Unset, "allow", "deny"}],
         loaded' \subseteq Processes, user' \in [Users -> UserType]
  PROVE  PermTypeOK'
<1>1. asker' \in {"new", "persisted", "announcing", "check", "consume", "wait", "drop row",
                  "drop answer", "over"}
  BY Zenon DEF PermTypeOK
<1>2. verdict' \in Answers' \cup {Unset', "timeout", "stopped", "cut", "lost"} BY Zenon DEF PermTypeOK
<1>3. late' \in BOOLEAN BY Zenon DEF PermTypeOK
<1>4. pending' => asker' \notin {"new", "persisted", "over"} BY Zenon DEF PermTypeOK
<1>5. crashed' \in Nat BY Zenon DEF PermTypeOK
<1>6. QED BY <1>1, <1>2, <1>3, <1>4, <1>5, Zenon DEF PermTypeOK

(* Types, where only a user's record changes.                              *)
LEMMA OnlyUserTyped ==
  ASSUME PermTypeOK, UNCHANGED askVars, UNCHANGED ruleVars, crashed' = crashed,
         user' \in [Users -> UserType]
  PROVE  PermTypeOK'
<1>1. asker' = asker /\ verdict' = verdict /\ late' = late /\ pending' = pending
      /\ future' = future /\ row' = row /\ answerRow' = answerRow
  BY DEF askVars
<1>2. rule' = rule /\ cache' = cache /\ loaded' = loaded /\ crossed' = crossed BY DEF ruleVars
<1>3. pending' \in BOOLEAN /\ row' \in BOOLEAN /\ crossed' \in BOOLEAN
  BY <1>1, <1>2, Zenon DEF PermTypeOK
<1>4. future' \in Answers \cup {Unset} /\ answerRow' \in Answers \cup {Unset}
  BY <1>1, Zenon DEF PermTypeOK
<1>5. rule' \in {Unset, "allow", "deny"} /\ cache' \in [Processes -> {Unset, "allow", "deny"}]
      /\ loaded' \subseteq Processes
  BY <1>2, Zenon DEF PermTypeOK
<1>6. QED BY <1>1, <1>3, <1>4, <1>5, PermTypesKept

(* Types, across the steps of a user.                                      *)
LEMMA UserTypes ==
  ASSUME PermTypeOK, NEW u \in Users, UserSound(u), UserStep(u)
  PROVE  PermTypeOK'
<1>0. /\ pending \in BOOLEAN /\ row \in BOOLEAN /\ crossed \in BOOLEAN
      /\ future \in Answers \cup {Unset} /\ answerRow \in Answers \cup {Unset}
      /\ rule \in {Unset, "allow", "deny"} /\ cache \in [Processes -> {Unset, "allow", "deny"}]
      /\ loaded \subseteq Processes
  BY Zenon DEF PermTypeOK
<1>1. CASE Read(u)
  <2>1. user \in [Users -> UserType] /\ user[u] \in UserType BY DEF PermTypeOK
  <2>2. [user[u] EXCEPT !.read = rule, !.step = "loading"] \in UserType
    BY <1>0, <2>1 DEF UserType, Unset
  <2>3. user' = [user EXCEPT ![u] = [user[u] EXCEPT !.read = rule, !.step = "loading"]]
    BY <1>1 DEF Read
  <2>4. UNCHANGED askVars /\ UNCHANGED ruleVars /\ UNCHANGED crashed BY <1>1, Zenon DEF Read
  <2>5. user' \in [Users -> UserType] BY <2>1, <2>2, <2>3
  <2>6. QED BY <2>4, <2>5, OnlyUserTyped
<1>2. CASE Go(u)
  <2>1. user[u].says # Unset BY <1>2 DEF Go, UserSound
  <2>2. user[u].at \in Processes /\ user[u].read \in {"nothing", Unset, "allow", "deny"}
    BY DEF PermTypeOK, UserType
  <2>3. PICK rules \in [Processes -> {Unset, "allow", "deny"}] :
          Proceed(u, rules) /\ loaded' \in {loaded, loaded \cup {user[u].at}}
    <3>1. CASE user[u].step = "load" BY <1>0, <1>2, <3>1 DEF Go
    <3>2. CASE user[u].step = "loading"
      <4>1. user[u].read # "nothing" BY <3>2 DEF UserSound
      <4>2. [cache EXCEPT ![user[u].at] = user[u].read] \in [Processes -> {Unset, "allow", "deny"}]
        BY <1>0, <2>2, <4>1
      <4>3. QED BY <1>2, <3>2, <4>2 DEF Go
    <3>3. QED BY <1>2, <3>1, <3>2 DEF Go
  <2>4. user' \in [Users -> UserType] /\ future' \in Answers \cup {Unset} /\ crossed' \in BOOLEAN
        /\ cache' \in [Processes -> {Unset, "allow", "deny"}]
    BY <1>0, <2>1, <2>3, ProceedIs, SetRuleIs DEF MovesTo
  <2>5. /\ asker' = asker /\ verdict' = verdict /\ late' = late /\ pending' = pending
        /\ row' = row /\ answerRow' = answerRow /\ rule' = rule /\ crashed' = crashed
    BY <1>2 DEF Go
  <2>6. loaded' \subseteq Processes BY <1>0, <2>2, <2>3
  <2>7. pending' \in BOOLEAN /\ (pending' => pending) /\ row' \in BOOLEAN BY <1>0, <2>5, Zenon
  <2>8. QED BY <1>0, <2>4, <2>5, <2>6, <2>7, PermTypesKept
<1>3. CASE Look(u)
  <2>1. user' \in [Users -> UserType] BY <1>3, KnownIs DEF Look, Steps, MovesTo
  <2>2. UNCHANGED askVars /\ UNCHANGED ruleVars /\ UNCHANGED crashed BY <1>3, Zenon DEF Look
  <2>3. QED BY <2>1, <2>2, OnlyUserTyped
<1>4. CASE Leave(u)
  <2>1. user' \in [Users -> UserType] BY <1>4, StepIs DEF Leave, Steps, MovesTo
  <2>2. answerRow' \in Answers \cup {Unset} BY <1>4 DEF Leave, UserSound
  <2>3. rule' = rule /\ cache' = cache /\ loaded' = loaded /\ crossed' = crossed
    BY <1>4 DEF Leave, ruleVars
  <2>4. /\ asker' = asker /\ verdict' = verdict /\ late' = late /\ pending' = pending
        /\ row' = row /\ future' = future /\ crashed' = crashed
    BY <1>4 DEF Leave
  <2>5. pending' \in BOOLEAN /\ (pending' => pending) /\ row' \in BOOLEAN /\ crossed' \in BOOLEAN
    BY <1>0, <2>3, <2>4, Zenon
  <2>6. QED BY <1>0, <2>1, <2>2, <2>3, <2>4, <2>5, PermTypesKept
<1>5. CASE Drop(u)
  <2>1. user' \in [Users -> UserType]
    BY <1>5, SetRuleIs, StepIs DEF Drop, PermTypeOK, Steps, MovesTo
  <2>2. cache' \in [Processes -> {Unset, "allow", "deny"}] /\ crossed' \in BOOLEAN
    BY <1>5, SetRuleIs DEF Drop, PermTypeOK
  <2>3. pending' \in BOOLEAN /\ (pending' => pending) BY <1>5 DEF Drop, PermTypeOK
  <2>4. /\ asker' = asker /\ verdict' = verdict /\ late' = late /\ row' = FALSE
        /\ future' = future /\ answerRow' = answerRow /\ rule' = rule /\ loaded' = loaded
        /\ crashed' = crashed
    BY <1>5 DEF Drop
  <2>5. row' \in BOOLEAN BY <2>4, Zenon
  <2>6. QED BY <1>0, <2>1, <2>2, <2>3, <2>4, <2>5, PermTypesKept
<1>6. CASE Write(u)
  <2>1. user' \in [Users -> UserType] BY <1>6, StepIs DEF Write, Steps, MovesTo
  <2>2. rule' \in {Unset, "allow", "deny"}
    BY <1>6 DEF NewRule, Grants, Unset, Write, UserSound
  <2>3. pending' \in BOOLEAN /\ (pending' => pending) BY <1>6 DEF Write, PermTypeOK
  <2>4. /\ asker' = asker /\ verdict' = verdict /\ late' = late /\ row' = row
        /\ future' = future /\ answerRow' = answerRow /\ cache' = cache /\ loaded' = loaded
        /\ crossed' = crossed /\ crashed' = crashed
    BY <1>6 DEF Write
  <2>5. row' \in BOOLEAN /\ crossed' \in BOOLEAN BY <1>0, <2>4, Zenon
  <2>6. QED BY <1>0, <2>1, <2>2, <2>3, <2>4, <2>5, PermTypesKept
<1>7. QED BY <1>1, <1>2, <1>3, <1>4, <1>5, <1>6 DEF UserStep

(* Where one user moves on, only the process he is at can be one whose     *)
(* users all are at it.                                                    *)
LEMMA OneMoves ==
  ASSUME RuleInv, PermTypeOK', NEW u \in Users, NEW p \in Processes, user'[u].at = p,
         user'[u].says # Unset, UserSound(u)',
         user[u].at = p \/ user[u].says = Unset,
         user[u].read = user'[u].read \/ user[u].read = "nothing",
         \A v \in Users : v # u => user'[v] = user[v], loaded \subseteq loaded',
         ~crossed' => \A v, w \in Users : user'[v].step = "write" /\ user'[w].step = "write" => v = w,
         ~crossed' => ~crossed,
         Single(p) /\ Alone(p) /\ ~crossed /\ ~crossed' /\ Single(p)' /\ Alone(p)' => RuleKept(p)'
  PROVE  RuleInv'
<1>1. \A v \in Users : UserSound(v)' BY DEF RuleInv, UserSound
<1>2. \A q \in Processes : Alone(q)' => q = p /\ Alone(q) BY DEF Alone
<1>3. \A q \in Processes : Alone(q)' /\ Single(q)' => Single(q)
  <2>1. user[u].says = Unset => user[u].read = "nothing" BY DEF RuleInv, UserSound
  <2>2. \A q \in Processes : Readers(q) \subseteq Readers(q)' BY <2>1 DEF Readers
  <2>3. QED BY <2>2 DEF Single
<1>4. \A q \in Processes : Single(q)' /\ Alone(q)' /\ ~crossed' => RuleKept(q)'
  <2> SUFFICES ASSUME NEW q \in Processes, Single(q)', Alone(q)', ~crossed' PROVE RuleKept(q)'
    OBVIOUS
  <2>1. q = p /\ Alone(q) /\ Single(q) BY <1>2, <1>3
  <2>2. QED BY <2>1
<1>5. QED BY <1>1, <1>4 DEF RuleInv

(* A user who answers, or deletes the rule.                                *)
LEMMA ActKeepsRule ==
  ASSUME RuleInv, NEW u \in Users, NEW p \in Processes, NEW says \in Answers \cup {"delete"},
         Act(u, p, says)
  PROVE  RuleInv'
<1>1. user \in [Users -> UserType] /\ user[u] \in UserType BY DEF RuleInv, PermTypeOK
<1>2. [user[u] EXCEPT !.at = p, !.says = says, !.step = "load"] \in UserType
  BY <1>1 DEF UserType
<1>3. user' = [user EXCEPT ![u] = [user[u] EXCEPT !.at = p, !.says = says, !.step = "load"]]
      /\ user[u].step = "idle"
  BY <1>1 DEF Act
<1>4. UNCHANGED askVars /\ UNCHANGED ruleVars /\ UNCHANGED crashed BY Zenon DEF Act
<1>5. user' \in [Users -> UserType] BY <1>1, <1>2, <1>3
<1>6. user'[u] = [user[u] EXCEPT !.at = p, !.says = says, !.step = "load"] BY <1>1, <1>3
<1>7. user'[u].at = p /\ user'[u].step = "load" /\ user'[u].says = says /\ user'[u].read = user[u].read
  BY <1>1, <1>6 DEF UserType
<1>8. \A v \in Users : v # u => user'[v] = user[v] BY <1>1, <1>3
<1>9. PermTypeOK' BY <1>4, <1>5, OnlyUserTyped DEF RuleInv
<1>10. user[u].says = Unset /\ user[u].read = "nothing" BY <1>3 DEF RuleInv, UserSound
<1>11. says # Unset BY DEF Answers, Grants, Unset
<1>12. UserSound(u)' BY <1>7, <1>10, <1>11 DEF UserSound
<1>13. UNCHANGED <<rule, cache, loaded, crossed>> BY <1>4 DEF ruleVars
<1>14. ~crossed' => \A v, w \in Users : user'[v].step = "write" /\ user'[w].step = "write" => v = w
  BY <1>7, <1>8, <1>13 DEF RuleInv
<1>15. Single(p) /\ Alone(p) /\ ~crossed => RuleKept(p)'
  <2> SUFFICES ASSUME RuleKept(p) PROVE RuleKept(p)' BY DEF RuleInv
  <2>1. \A v \in Users : user[v].step = "write" => v # u /\ NewRule(v)' = NewRule(v)
    BY <1>3, <1>8 DEF NewRule
  <2>2. \A v \in Users : user'[v].step = "write" <=> user[v].step = "write" BY <1>3, <1>7, <1>8
  <2>3. QED BY <1>7, <1>8, <1>13, <2>1, <2>2 DEF RuleKept
<1>16. QED BY <1>7, <1>8, <1>9, <1>10, <1>11, <1>12, <1>13, <1>14, <1>15, OneMoves

(* A user who moves on without touching the rule.                          *)
LEMMA MoveKeepsRule ==
  ASSUME RuleInv, PermTypeOK', NEW u \in Users,
         NEW s \in {"look", "leave", "drop", "over"}, MovesTo(u, s),
         user[u].step \in {"load", "look", "leave", "drop"},
         user[u].step = "load" => user[u].at \in loaded,
         s \in {"look", "leave"} => user[u].says \in Answers,
         UNCHANGED <<rule, cache, loaded, crossed>>
  PROVE  RuleInv'
<1>1. PICK p \in Processes : user[u].at = p BY DEF RuleInv, PermTypeOK, UserType
<1>2. user'[u].at = p /\ user'[u].step = s /\ user'[u].says = user[u].says
      /\ user'[u].read = user[u].read /\ \A v \in Users : v # u => user'[v] = user[v]
  BY <1>1 DEF MovesTo
<1>3. user[u].says # Unset BY DEF RuleInv, UserSound
<1>4. UserSound(u)' BY <1>1, <1>2, <1>3 DEF RuleInv, UserSound
<1>5. ~crossed' => \A v, w \in Users : user'[v].step = "write" /\ user'[w].step = "write" => v = w
  BY <1>2 DEF RuleInv
<1>6. Single(p) /\ Alone(p) /\ ~crossed => RuleKept(p)'
  <2> SUFFICES ASSUME RuleKept(p) PROVE RuleKept(p)' BY DEF RuleInv
  <2>1. \A v \in Users : user'[v].step = "write" => v # u /\ NewRule(v)' = NewRule(v)
    BY <1>2 DEF NewRule
  <2>2. \A v \in Users : user'[v].step = "write" <=> user[v].step = "write" BY <1>2
  <2>3. p \in loaded BY <1>1 DEF RuleInv, UserSound
  <2>4. QED BY <1>1, <1>2, <2>1, <2>2, <2>3 DEF RuleKept
<1>7. QED BY <1>1, <1>2, <1>3, <1>4, <1>5, <1>6, OneMoves

(* A user who changes the rule: until it is written, the cache is ahead of *)
(* the store.                                                              *)
LEMMA SetKeepsRule ==
  ASSUME RuleInv, PermTypeOK', NEW u \in Users, user[u].step # "idle",
         user[u].says \in DOMAIN Grants \cup {"delete"},
         NEW rules \in [Processes -> {Unset, "allow", "deny"}], SetRule(u, rules),
         loaded' = loaded \cup {user[u].at}, rule' = rule,
         user[u].step # "loading" => user[u].at \in loaded
  PROVE  RuleInv'
<1>1. PICK p \in Processes : user[u].at = p BY DEF RuleInv, PermTypeOK, UserType
<1>2. PermTypeOK BY DEF RuleInv
<1>3. user'[u].at = p /\ user'[u].step = "write" /\ user'[u].says = user[u].says
      /\ user'[u].read = user[u].read /\ \A v \in Users : v # u => user'[v] = user[v]
  BY <1>1, <1>2, SetRuleIs DEF MovesTo
<1>4. cache'[p] = NewRule(u) /\ (~crossed' => ~crossed /\ \A v \in Users : v # u => user[v].step # "write")
  BY <1>1, <1>2, SetRuleIs
<1>5. user[u].says # Unset BY DEF RuleInv, UserSound
<1>6. UserSound(u)' BY <1>1, <1>3, <1>5 DEF UserSound
<1>7. ~crossed' => \A v, w \in Users : user'[v].step = "write" /\ user'[w].step = "write" => v = w
  BY <1>3, <1>4
<1>8. Single(p) /\ Alone(p) /\ ~crossed /\ ~crossed' /\ Single(p)' /\ Alone(p)' => RuleKept(p)'
  <2> SUFFICES ASSUME Single(p), Alone(p), ~crossed, ~crossed' PROVE RuleKept(p)' OBVIOUS
  <2>1. \A v \in Users : user'[v].step = "write" => v = u BY <1>3, <1>4
  <2>2. NewRule(u)' = NewRule(u) BY <1>3 DEF NewRule
  <2>3. \A v \in Users : v # u /\ user[v].at = p => user[v].step # "loading"
    <3> SUFFICES ASSUME NEW v \in Users, v # u, user[v].at = p, user[v].step = "loading" PROVE FALSE
      OBVIOUS
    <3>1. user[u].step = "loading" BY <1>1 DEF RuleInv, RuleKept
    <3>2. user[u].read # "nothing" /\ user[v].read # "nothing" BY <3>1 DEF RuleInv, UserSound
    <3>3. u \in Readers(p) /\ v \in Readers(p) BY <1>1, <3>2 DEF Readers
    <3>4. QED BY <3>3 DEF Single
  <2>4. p \in loaded' BY <1>1
  <2>5. \A v \in Users : user'[v].at = p => user'[v].step # "loading" BY <1>3, <2>3
  <2>6. QED BY <1>3, <1>4, <2>1, <2>2, <2>4, <2>5 DEF RuleKept
<1>9. QED BY <1>1, <1>3, <1>4, <1>5, <1>6, <1>7, <1>8, OneMoves

(* The step that replaces the cache and leaves the rule as it was read.    *)
LEMMA LoadKeepsRule ==
  ASSUME RuleInv, PermTypeOK', NEW u \in Users, user[u].step = "loading",
         NEW s \in {"over", "drop", "look"}, MovesTo(u, s),
         s = "look" => user[u].says \in Answers,
         cache' = [cache EXCEPT ![user[u].at] = user[u].read],
         loaded' = loaded \cup {user[u].at}, UNCHANGED <<rule, crossed>>
  PROVE  RuleInv'
<1>1. PICK p \in Processes : user[u].at = p BY DEF RuleInv, PermTypeOK, UserType
<1>2. user'[u].at = p /\ user'[u].step = s /\ user'[u].says = user[u].says
      /\ user'[u].read = user[u].read /\ \A v \in Users : v # u => user'[v] = user[v]
  BY <1>1 DEF MovesTo
<1>3. user[u].says # Unset BY DEF RuleInv, UserSound
<1>4. UserSound(u)' BY <1>1, <1>2, <1>3 DEF UserSound
<1>5. ~crossed' => \A v, w \in Users : user'[v].step = "write" /\ user'[w].step = "write" => v = w
  BY <1>2 DEF RuleInv
<1>6. Single(p) /\ Alone(p) /\ ~crossed => RuleKept(p)'
  <2> SUFFICES ASSUME Single(p), Alone(p), RuleKept(p) PROVE RuleKept(p)' BY DEF RuleInv
  <2>1. p \notin loaded /\ user[u].read = rule BY <1>1 DEF RuleKept
  <2>2. \A v \in Users : user[v].step # "write"
    <3> SUFFICES ASSUME NEW v \in Users, user[v].step = "write" PROVE FALSE OBVIOUS
    <3>1. user[v].says # Unset BY DEF RuleInv, UserSound
    <3>2. user[v].at = p BY <3>1 DEF Alone
    <3>3. QED BY <2>1, <3>2 DEF RuleInv, UserSound
  <2>3. \A v \in Users : v # u /\ user[v].at = p => user[v].step # "loading"
    <3> SUFFICES ASSUME NEW v \in Users, v # u, user[v].at = p, user[v].step = "loading" PROVE FALSE
      OBVIOUS
    <3>1. user[u].read # "nothing" /\ user[v].read # "nothing" BY DEF RuleInv, UserSound
    <3>2. u \in Readers(p) /\ v \in Readers(p) BY <1>1, <3>1 DEF Readers
    <3>3. QED BY <3>2 DEF Single
  <2>4. cache'[p] = rule' /\ p \in loaded' BY <1>1, <2>1 DEF RuleInv, PermTypeOK
  <2>5. \A v \in Users : user'[v].step # "write" BY <1>2, <2>2
  <2>6. \A v \in Users : user'[v].at = p => user'[v].step # "loading" BY <1>2, <2>3
  <2>7. QED BY <2>4, <2>5, <2>6 DEF RuleKept
<1>7. QED BY <1>1, <1>2, <1>3, <1>4, <1>5, <1>6, OneMoves

(* The rule is read: by the only reader, before anybody can change it.     *)
LEMMA ReadKeepsRule ==
  ASSUME RuleInv, PermTypeOK', NEW u \in Users, Read(u) PROVE RuleInv'
<1>1. PICK p \in Processes : user[u].at = p BY DEF RuleInv, PermTypeOK, UserType
<1>2. user \in [Users -> UserType] /\ user[u] \in UserType BY DEF RuleInv, PermTypeOK
<1>3. user' = [user EXCEPT ![u] = [user[u] EXCEPT !.read = rule, !.step = "loading"]]
      /\ user[u].step = "load" /\ user[u].at \notin loaded
  BY DEF Read
<1>4. user'[u] = [user[u] EXCEPT !.read = rule, !.step = "loading"] BY <1>2, <1>3
<1>5. user'[u].at = p /\ user'[u].step = "loading" /\ user'[u].read = rule /\ user'[u].says = user[u].says
  BY <1>1, <1>2, <1>4 DEF UserType
<1>6. \A v \in Users : v # u => user'[v] = user[v] BY <1>2, <1>3
<1>7. UNCHANGED ruleVars BY Zenon DEF Read
<1>8. UNCHANGED <<rule, cache, loaded, crossed>> BY <1>7 DEF ruleVars
<1>9. user[u].says # Unset /\ user[u].read = "nothing" BY <1>3 DEF RuleInv, UserSound
<1>10. rule # "nothing" BY DEF RuleInv, PermTypeOK, Unset
<1>11. UserSound(u)' BY <1>5, <1>9, <1>10 DEF UserSound
<1>12. ~crossed' => \A v, w \in Users : user'[v].step = "write" /\ user'[w].step = "write" => v = w
  BY <1>5, <1>6, <1>8 DEF RuleInv
<1>13. Single(p) /\ Alone(p) /\ ~crossed => RuleKept(p)'
  <2> SUFFICES ASSUME RuleKept(p) PROVE RuleKept(p)' BY DEF RuleInv
  <2>1. \A v \in Users : user[v].step = "write" => v # u /\ NewRule(v)' = NewRule(v)
    BY <1>3, <1>6 DEF NewRule
  <2>2. \A v \in Users : user'[v].step = "write" <=> user[v].step = "write" BY <1>3, <1>5, <1>6
  <2>3. QED BY <1>1, <1>3, <1>5, <1>6, <1>8, <2>1, <2>2 DEF RuleKept
<1>14. QED BY <1>1, <1>5, <1>6, <1>8, <1>9, <1>11, <1>12, <1>13, OneMoves

(* The one write on its way is carried out.                                *)
LEMMA WriteKeepsRule ==
  ASSUME RuleInv, PermTypeOK', NEW u \in Users, Write(u) PROVE RuleInv'
<1>1. PICK p \in Processes : user[u].at = p BY DEF RuleInv, PermTypeOK, UserType
<1>2. PermTypeOK BY DEF RuleInv
<1>3. MovesTo(u, "over") BY <1>2, StepIs DEF Write, Steps
<1>4. user'[u].at = p /\ user'[u].step = "over" /\ user'[u].says = user[u].says
      /\ user'[u].read = user[u].read /\ \A v \in Users : v # u => user'[v] = user[v]
  BY <1>1, <1>3 DEF MovesTo
<1>5. user[u].step = "write" /\ rule' = NewRule(u) /\ UNCHANGED <<cache, loaded, crossed>> BY DEF Write
<1>6. user[u].says # Unset BY <1>5 DEF RuleInv, UserSound
<1>7. UserSound(u)' BY <1>4, <1>5, <1>6 DEF UserSound
<1>8. ~crossed' => \A v \in Users : user'[v].step # "write"
  BY <1>4, <1>5 DEF RuleInv
<1>9. Single(p) /\ Alone(p) /\ ~crossed /\ ~crossed' => RuleKept(p)'
  <2> SUFFICES ASSUME RuleKept(p), ~crossed' PROVE RuleKept(p)' BY DEF RuleInv
  <2>1. p \in loaded /\ cache[p] = NewRule(u) BY <1>1, <1>5 DEF RuleKept, RuleInv, UserSound
  <2>2. \A v \in Users : user'[v].at = p => user'[v].step # "loading" BY <1>4, <2>1 DEF RuleKept
  <2>3. QED BY <1>5, <1>8, <2>1, <2>2 DEF RuleKept
<1>10. QED BY <1>1, <1>4, <1>5, <1>6, <1>7, <1>8, <1>9, OneMoves

(* All that users do.                                                      *)
LEMMA UsersKeepRule == ASSUME RuleInv, NEW u \in Users, UserStep(u) PROVE RuleInv'
<1>1. PermTypeOK /\ UserSound(u) BY DEF RuleInv
<1>2. PermTypeOK' BY <1>1, UserTypes
<1>3. CASE Read(u) BY <1>2, <1>3, ReadKeepsRule
<1>4. CASE Write(u) BY <1>2, <1>4, WriteKeepsRule
<1>5. CASE Look(u)
  <2>1. MovesTo(u, "leave") BY <1>1, <1>5, KnownIs DEF Look, Steps
  <2>2. UNCHANGED ruleVars BY <1>5, Zenon DEF Look
  <2>3. user[u].step = "look" /\ user[u].says \in Answers BY <1>1, <1>5 DEF Look, UserSound
  <2>4. QED BY <1>2, <2>1, <2>2, <2>3, MoveKeepsRule DEF ruleVars
<1>6. CASE Leave(u)
  <2>1. MovesTo(u, "drop") BY <1>1, <1>6, StepIs DEF Leave, Steps
  <2>2. user[u].step = "leave" /\ UNCHANGED <<rule, cache, loaded, crossed>> BY <1>6 DEF Leave, ruleVars
  <2>3. QED BY <1>2, <2>1, <2>2, MoveKeepsRule
<1>7. CASE Drop(u)
  <2>1. user[u].step = "drop" /\ UNCHANGED <<rule, loaded>> BY <1>7 DEF Drop
  <2>2. CASE SetRule(u, cache) /\ user[u].says \in DOMAIN Grants
    <3>1. user[u].at \in loaded /\ loaded' = loaded \cup {user[u].at} BY <1>1, <2>1 DEF UserSound
    <3>2. QED BY <1>1, <1>2, <2>1, <2>2, <3>1, SetKeepsRule DEF PermTypeOK
  <2>3. CASE Step(u, "over") /\ UNCHANGED <<cache, crossed>>
    <3>1. MovesTo(u, "over") BY <1>1, <2>3, StepIs DEF Steps
    <3>2. QED BY <1>2, <2>1, <2>3, <3>1, MoveKeepsRule
  <2>4. QED BY <1>7, <2>2, <2>3 DEF Drop
<1>8. CASE Go(u)
  <2>1. user[u].says # Unset BY <1>1, <1>8 DEF Go, UserSound
  <2>2. user[u].at \in Processes /\ user[u].read \in {"nothing", Unset, "allow", "deny"}
        /\ cache \in [Processes -> {Unset, "allow", "deny"}] /\ rule' = rule
    BY <1>1, <1>8 DEF Go, PermTypeOK, UserType
  <2>4. CASE user[u].step = "load"
    <3>1. user[u].at \in loaded /\ loaded' = loaded /\ Proceed(u, cache) BY <1>8, <2>4 DEF Go
    <3>2. loaded' = loaded \cup {user[u].at} BY <3>1
    <3>3. CASE SetRule(u, cache) /\ user[u].says = "delete"
      BY <1>2, <2>2, <2>4, <3>1, <3>2, <3>3, SetKeepsRule
    <3>4. CASE /\ \E s \in {"over", "drop", "look"} :
                    MovesTo(u, s) /\ (s = "look" => user[u].says \in Answers)
               /\ cache' = cache /\ crossed' = crossed
      BY <1>2, <2>2, <2>4, <3>1, <3>4, MoveKeepsRule
    <3>5. QED BY <1>1, <2>1, <2>2, <3>1, <3>3, <3>4, ProceedIs
  <2>5. CASE user[u].step = "loading"
    <3> DEFINE rules == [cache EXCEPT ![user[u].at] = user[u].read]
    <3>1. user[u].read # "nothing" BY <1>1, <2>5 DEF UserSound
    <3>2. rules \in [Processes -> {Unset, "allow", "deny"}] BY <2>2, <3>1
    <3>3. loaded' = loaded \cup {user[u].at} /\ Proceed(u, rules) BY <1>8, <2>5 DEF Go
    <3>4. CASE SetRule(u, rules) /\ user[u].says = "delete"
      <4> HIDE DEF rules
      <4> QED BY <1>2, <2>2, <2>5, <3>2, <3>3, <3>4, SetKeepsRule
    <3>5. CASE /\ \E s \in {"over", "drop", "look"} :
                    MovesTo(u, s) /\ (s = "look" => user[u].says \in Answers)
               /\ cache' = rules /\ crossed' = crossed
      BY <1>2, <2>2, <2>5, <3>3, <3>5, LoadKeepsRule
    <3> HIDE DEF rules
    <3>6. QED BY <1>1, <2>1, <3>2, <3>3, <3>4, <3>5, ProceedIs
  <2>6. QED BY <1>8, <2>4, <2>5 DEF Go
<1>9. QED BY <1>3, <1>4, <1>5, <1>6, <1>7, <1>8 DEF UserStep

(* What does not touch the rule and its users.                             *)
LEMMA ElsewhereKeepsRule ==
  ASSUME RuleInv, PermTypeOK', UNCHANGED <<rule, cache, loaded, crossed, user>>
  PROVE  RuleInv'
<1>1. \A u \in Users : UserSound(u)' /\ NewRule(u)' = NewRule(u) BY DEF RuleInv, UserSound, NewRule
<1>2. \A p \in Processes : Single(p)' = Single(p) /\ Alone(p)' = Alone(p) BY DEF Single, Readers, Alone
<1>3. \A p \in Processes : RuleKept(p) => RuleKept(p)' BY <1>1 DEF RuleKept
<1>4. QED BY <1>1, <1>2, <1>3 DEF RuleInv

(* A restart takes those who act in the asker's process with it, and what  *)
(* that process had loaded.                                                *)
LEMMA RestartKeepsRule == ASSUME RuleInv, Restart PROVE RuleInv'
<1> DEFINE Restarted(u) ==
              IF user[u].at = Here /\ user[u].step # "idle"
                THEN [user[u] EXCEPT !.step = "over"] ELSE user[u]
<1>1. user' = [u \in Users |-> Restarted(u)] /\ loaded' = loaded \ {Here}
      /\ cache' = [cache EXCEPT ![Here] = Unset] /\ UNCHANGED <<rule, crossed>>
  BY DEF Restart
<1>2. \A u \in Users : user[u] \in UserType BY DEF RuleInv, PermTypeOK
<1>3. \A u \in Users : Restarted(u) \in UserType BY <1>2 DEF UserType
<1>4. user' \in [Users -> UserType] BY <1>1, <1>3
<1>5. \A u \in Users :
        /\ user'[u].at = user[u].at /\ user'[u].says = user[u].says /\ user'[u].read = user[u].read
        /\ user'[u].step = IF user[u].at = Here /\ user[u].step # "idle" THEN "over" ELSE user[u].step
  BY <1>1, <1>2 DEF UserType
<1>6. PermTypeOK'
  <2>1. cache' \in [Processes -> {Unset, "allow", "deny"}] /\ rule' \in {Unset, "allow", "deny"}
    BY <1>1 DEF RuleInv, PermTypeOK, Processes
  <2>2. /\ asker' = "over" /\ verdict' = "lost" /\ pending' = FALSE /\ crashed' = crashed + 1
        /\ UNCHANGED <<late, future, row, answerRow>>
    BY DEF Restart
  <2>3. PermTypeOK BY DEF RuleInv
  <2>4. late' \in BOOLEAN /\ row' \in BOOLEAN /\ crossed' \in BOOLEAN /\ pending' \in BOOLEAN
    BY <1>1, <2>2, <2>3 DEF PermTypeOK
  <2>5. loaded' \subseteq Processes
    BY <1>1, <2>3 DEF PermTypeOK
  <2>6. crashed' \in Nat /\ future' = future /\ answerRow' = answerRow
    <3>1. crashed \in Nat BY <2>3 DEF PermTypeOK
    <3>2. crashed' = crashed + 1 /\ future' = future /\ answerRow' = answerRow BY DEF Restart
    <3>3. QED BY <3>1, <3>2
  <2>7. asker' = "over" /\ verdict' = "lost" /\ ~pending' BY <2>2
  <2>8. QED BY <1>4, <2>1, <2>3, <2>4, <2>5, <2>6, <2>7 DEF PermTypeOK
<1>7. \A u \in Users : UserSound(u)' BY <1>1, <1>5 DEF UserSound, RuleInv
<1>8. ~crossed' => \A u, v \in Users : user'[u].step = "write" /\ user'[v].step = "write" => u = v
  BY <1>1, <1>5 DEF RuleInv
<1>9. \A p \in Processes : Single(p)' /\ Alone(p)' /\ ~crossed' => RuleKept(p)'
  <2> SUFFICES ASSUME NEW p \in Processes, Single(p)', Alone(p)', ~crossed' PROVE RuleKept(p)'
    OBVIOUS
  <2>1. Single(p) /\ Alone(p) BY <1>5 DEF Single, Readers, Alone
  <2>2. RuleKept(p) BY <1>1, <2>1 DEF RuleInv
  <2>3. \A u \in Users : NewRule(u)' = NewRule(u) BY <1>5 DEF NewRule
  <2>4. CASE p = Here BY <1>1, <1>5, <2>4 DEF RuleKept
  <2>5. CASE p # Here
    <3>1. cache'[p] = cache[p] /\ (p \in loaded' <=> p \in loaded)
      BY <1>1, <2>5 DEF RuleInv, PermTypeOK
    <3>2. \A u \in Users : user[u].step = "write" => user[u].at = p
      BY <2>1 DEF Alone, RuleInv, UserSound
    <3>3. \A u \in Users : user'[u].step = "write" <=> user[u].step = "write" BY <1>5, <2>5, <3>2
    <3>4. QED BY <1>1, <1>5, <2>2, <2>3, <2>5, <3>1, <3>3 DEF RuleKept
  <2>6. QED BY <2>4, <2>5
<1>10. QED BY <1>6, <1>7, <1>8, <1>9 DEF RuleInv

-----------------------------------------------------------------------------
(* The inductive invariant of the durable rule.                            *)
THEOREM RulesStaySound == PermSpec => []RuleInv
<1>1. PermInit => RuleInv BY InitRule
<1>2. RuleInv /\ OfferInv /\ [PermNext]_permVars => RuleInv'
  <2> SUFFICES ASSUME RuleInv, OfferInv, [PermNext]_permVars PROVE RuleInv' OBVIOUS
  <2>1. CASE AskStep \/ Deadline \/ StopAsk \/ CutShort
    <3>1. PermTypeOK' BY <2>1, AskTypes DEF RuleInv
    <3>2. UNCHANGED ruleVars /\ UNCHANGED user
      BY <2>1, Zenon DEF AskStep, Persist, Expose, Announced, Check, Consume, Wait, DropRow,
                         DropAnswer, Deadline, StopAsk, CutShort
    <3>3. QED BY <3>1, <3>2, ElsewhereKeepsRule DEF ruleVars
  <2>2. CASE Restart BY <2>2, RestartKeepsRule
  <2>3. ASSUME NEW u \in Users, UserStep(u) PROVE RuleInv' BY <2>3, UsersKeepRule
  <2>4. ASSUME NEW u \in Users, NEW p \in Processes, NEW says \in Answers \cup {"delete"}, Act(u, p, says)
        PROVE RuleInv'
    BY <2>4, ActKeepsRule
  <2>5. CASE UNCHANGED permVars
    <3>1. UNCHANGED askVars /\ UNCHANGED ruleVars /\ UNCHANGED user /\ UNCHANGED crashed
      BY <2>5, Zenon DEF permVars
    <3>2. UNCHANGED <<rule, cache, loaded, crossed>> BY <3>1 DEF ruleVars
    <3>3. PermTypeOK /\ user' \in [Users -> UserType] BY <3>1 DEF RuleInv, PermTypeOK
    <3>4. PermTypeOK' BY <3>1, <3>3, OnlyUserTyped
    <3>5. QED BY <3>1, <3>2, <3>4, ElsewhereKeepsRule
  <2>6. QED BY <2>1, <2>2, <2>3, <2>4, <2>5 DEF PermNext
<1>3. QED BY <1>1, <1>2, OffersStaySound, PTL DEF PermSpec

(* Once nothing is on its way, a process that alone writes the durable     *)
(* rule shows what is stored, unless two users found it not loaded yet or  *)
(* two writes crossed (_ensure_persisted_state_loaded reads, then replaces *)
(* the cache; set, delete and reply change the cache, then write).         *)
THEOREM RulesAreShown == PermSpec => []DurableRuleIsShown
<1>1. RuleInv => DurableRuleIsShown
  BY DEF RuleInv, RuleKept, DurableRuleIsShown, ShowsRule, Single
<1>2. QED BY <1>1, RulesStaySound, PTL

-----------------------------------------------------------------------------
(***************************************************************************)
(* Proofs about schedulers: a due run starts alone, and the loop undoes    *)
(* nothing a person wrote, for any number of schedulers, people, requests  *)
(* and failures.                                                           *)
(***************************************************************************)

AnyRow == Rows \cup {NoRow, Gone}
Run    == [id: Nat, by: {"tick", "person"}]
Item   == [sched: Schedulers, row: Rows]

Requests ==
  {NoRequest} \cup [at: {"write"}, sched: Schedulers, row: Rows] \cup [at: {"run"}, sched: Schedulers]
  \cup [at: {"list"}, sched: Schedulers, row: Rows]
  \cup [at: {"cancel", "drop"}, sched: Schedulers, row: Rows, ids: SUBSET Run]

(* Types, as the proofs need them: the bounds of the model do not matter.  *)
TypeInv ==
  /\ sched \in [Schedulers -> AnyRow] /\ wish \in [Schedulers -> AnyRow]
  /\ runs \in [Schedulers -> SUBSET Run] /\ started \in Nat /\ now \in Nat
  /\ request \in [People -> Requests]
  /\ tick \in [at: {"sleep", "each", "fire"}, todo: Seq(Item), now: Nat]

(* A row that was read is the row, or one write behind it.                 *)
AsRead(item) ==
  LET s == item.sched IN
  /\ sched[s] # NoRow
  /\ sched[s] = Gone \/ item.row.ver < sched[s].ver \/ item.row = sched[s]

(* What the tick read, and what it decided to fire.                        *)
TickSound ==
  /\ \A i \in DOMAIN tick.todo : AsRead(tick.todo[i])
  /\ tick.now <= now
  /\ tick.at = "fire" => tick.todo # <<>> /\ IsDue(Due.row, tick.now)

RunsCounted == \A s \in Schedulers : \A run \in runs[s] : run.id <= started

SchedInv == TypeInv /\ TickSound /\ RunsCounted /\ DueRunsAlone /\ WishStands

-----------------------------------------------------------------------------
LEMMA RowTypes ==
  /\ NoRow # Gone /\ NoRow.status = "absent" /\ Gone.status = "deleted"
  /\ \A s \in Schedulers, r \in Rows : r # NoRow /\ r # Gone /\ r.ver \in Nat /\ r.next \in Nat /\ r.runAt \in Nat
BY DEF NoRow, Gone, Rows, Statuses

LEMMA InitSched == SchedInit => SchedInv
<1> SUFFICES ASSUME SchedInit PROVE SchedInv OBVIOUS
<1> USE DEF SchedInit
<1>1. TypeInv
  <2>1. Asleep \in [at: {"sleep", "each", "fire"}, todo: Seq(Item), now: Nat]
    BY EmptySeq DEF Asleep
  <2>2. QED BY <2>1 DEF TypeInv, AnyRow, Requests
<1>2. TickSound BY DEF TickSound, Asleep
<1>3. RunsCounted /\ DueRunsAlone BY DEF RunsCounted, DueRunsAlone
<1>4. WishStands BY DEF WishStands, NoRow, RunTime
<1>5. QED BY <1>1, <1>2, <1>3, <1>4 DEF SchedInv

-----------------------------------------------------------------------------
(* What the requests write.                                                *)
LEMMA StoredIsRow == ASSUME TypeInv, NEW s \in Schedulers PROVE Stored(s) <=> sched[s] \in Rows
BY RowTypes DEF TypeInv, Stored, AnyRow

LEMMA WrittenRows ==
  ASSUME TypeInv, NEW r \in Rows
  PROVE  /\ EditedRows(r) \cup {EnabledRow(r), DisabledRow(r)} \subseteq Rows
         /\ [r EXCEPT !.status = "archived"] \in Rows
         /\ \A v \in Nat : [r EXCEPT !.ver = v] \in Rows /\ [r EXCEPT !.ver = v].ver = v
<1>1. now \in Nat /\ now + 1 \in Nat BY DEF TypeInv
<1>2. r.runAt \in Nat /\ r.next \in Nat /\ r.mode \in Modes BY DEF Rows
<1>3. \A t \in Nat : Arm(r, t) \in Rows BY DEF Arm, Rows, Modes
<1>4. Recur(r) \in Rows BY <1>1 DEF Recur, NextTime, Rows, Modes
<1>5. EnabledRow(r) \in Rows
  <2>1. CASE r.mode = "cron" BY <2>1, <1>1 DEF EnabledRow, NextTime, Rows, Statuses
  <2>2. CASE r.mode # "cron" BY <2>2, <1>2 DEF EnabledRow, Rows, Statuses
  <2>3. QED BY <2>1, <2>2
<1>6. DisabledRow(r) \in Rows BY DEF DisabledRow, Rows, Statuses
<1>7. [r EXCEPT !.status = "archived"] \in Rows BY DEF Rows, Statuses
<1>8. \A v \in Nat : [r EXCEPT !.ver = v] \in Rows /\ [r EXCEPT !.ver = v].ver = v BY DEF Rows
<1>9. QED BY <1>1, <1>3, <1>4, <1>5, <1>6, <1>7, <1>8 DEF EditedRows

LEMMA StoreIs ==
  ASSUME TypeInv, NEW s \in Schedulers, NEW r \in Rows, Store(s, r)
  PROVE  \/ UNCHANGED <<sched, wish>>
         \/ \E new \in Rows : /\ sched[s] \in Rows /\ new.ver = sched[s].ver + 1
                              /\ sched' = [sched EXCEPT ![s] = new] /\ wish' = [wish EXCEPT ![s] = new]
<1>1. CASE ~Stored(s) BY <1>1 DEF Store
<1>2. CASE Stored(s)
  <2> DEFINE new == [r EXCEPT !.ver = sched[s].ver + 1]
  <2>1. sched[s] \in Rows BY <1>2, StoredIsRow
  <2>2. sched[s].ver + 1 \in Nat BY <2>1, RowTypes
  <2>3. new \in Rows /\ new.ver = sched[s].ver + 1 BY <2>2, WrittenRows
  <2>4. sched' = [sched EXCEPT ![s] = new] BY <1>2 DEF Store
  <2>5. wish' = [wish EXCEPT ![s] = new] BY <1>2, <2>4 DEF Store, TypeInv
  <2>6. QED BY <2>1, <2>3, <2>4, <2>5
<1>3. QED BY <1>1, <1>2

(* Rows only move on: a version never comes back, and what is gone stays.  *)
RowMovesOn(s) ==
  \/ sched[s] = NoRow \/ sched'[s] = sched[s]
  \/ sched[s] \in Rows /\ (sched'[s] # Gone => sched'[s] \in Rows /\ sched'[s].ver = sched[s].ver + 1)

(* Firing: the row is as it was read, so it is due, and only its times,    *)
(* its status and its version change.                                      *)
FiredRow(s) ==
  LET old == sched[s]
      new == sched'[s]
  IN /\ old \in Rows /\ new \in Rows /\ old.status = "active" /\ RunTime(old) \in 1..now
     /\ new.mode = old.mode /\ new.runAt = old.runAt /\ new.ver = old.ver + 1
     /\ \A other \in Schedulers \ {s} : sched'[other] = sched[other]
     /\ runs[s] = {} /\ runs' = [runs EXCEPT ![s] = {[id |-> started + 1, by |-> "tick"]}]
     /\ started' = started + 1

LEMMA FiringIs ==
  ASSUME SchedInv, tick.at = "fire", Fires(Due.sched, Due.row)
  PROVE  /\ Due.sched \in Schedulers /\ FiredRow(Due.sched)
         /\ sched' \in [Schedulers -> AnyRow] /\ runs' \in [Schedulers -> SUBSET Run]
<1> DEFINE s == Due.sched
           r == Due.row
           moved == MovedOn(r, tick.now)
<1>1. /\ tick.todo \in Seq(Item) /\ tick.todo # <<>> /\ tick.now \in Nat /\ tick.now <= now
      /\ IsDue(r, tick.now) /\ now \in Nat /\ sched \in [Schedulers -> AnyRow]
      /\ runs \in [Schedulers -> SUBSET Run] /\ started \in Nat
  BY DEF SchedInv, TypeInv, TickSound
<1>2. Due \in Item /\ 1 \in DOMAIN tick.todo /\ Due = tick.todo[1]
  BY <1>1, EmptySeq, HeadTailProperties DEF Due
<1>3. s \in Schedulers /\ r \in Rows BY <1>2 DEF Item
<1>4. AsRead(Due) BY <1>2 DEF SchedInv, TickSound
<1>5. sched[s].status = "active" /\ sched[s].ver = r.ver /\ runs[s] = {}
  BY DEF Fires, MayFire, SameRow
<1>6. sched[s] = r BY <1>3, <1>4, <1>5, RowTypes DEF AsRead
<1>7. moved \in Rows /\ moved.mode = r.mode /\ moved.runAt = r.runAt
  <2>1. tick.now + 1 \in Nat BY <1>1
  <2>2. CASE r.mode = "cron" BY <2>1, <2>2, <1>3 DEF MovedOn, NextTime, Rows
  <2>3. CASE r.mode # "cron" BY <2>3, <1>3 DEF MovedOn, Rows, Statuses
  <2>4. QED BY <2>2, <2>3
<1>8. sched' = [sched EXCEPT ![s].runAt = moved.runAt, ![s].next = moved.next,
                             ![s].status = moved.status, ![s].ver = @ + 1]
  BY DEF Fires
<1>9. /\ sched'[s] \in Rows /\ sched'[s].mode = r.mode /\ sched'[s].runAt = r.runAt
      /\ sched'[s].ver = r.ver + 1
      /\ \A other \in Schedulers \ {s} : sched'[other] = sched[other]
      /\ sched' \in [Schedulers -> AnyRow]
  <2> HIDE DEF moved
  <2>1. /\ sched'[s] = [sched[s] EXCEPT !.runAt = moved.runAt, !.next = moved.next,
                                        !.status = moved.status, !.ver = @ + 1]
        /\ \A other \in Schedulers \ {s} : sched'[other] = sched[other]
        /\ DOMAIN sched' = Schedulers
    BY <1>8, <1>3, <1>1
  <2> DEFINE new == [r EXCEPT !.runAt = moved.runAt, !.next = moved.next,
                              !.status = moved.status, !.ver = r.ver + 1]
  <2>2. sched'[s] = new BY <2>1, <1>6
  <2>a. new \in Rows /\ new.mode = r.mode /\ new.runAt = r.runAt /\ new.ver = r.ver + 1
    <3>1. moved.next \in Nat /\ moved.runAt \in Nat /\ moved.status \in Statuses /\ r.ver + 1 \in Nat
      BY <1>3, <1>7 DEF Rows
    <3>2. QED BY <3>1, <1>3, <1>7 DEF Rows
  <2> HIDE DEF new
  <2>3. QED BY <2>1, <2>2, <2>a, <1>8, <1>1 DEF AnyRow
<1> HIDE DEF moved
<1>11. runs' = [runs EXCEPT ![s] = {[id |-> started + 1, by |-> "tick"]}] /\ started' = started + 1
  BY <1>5, <1>1, <1>3 DEF Fires, NewRun
<1>12. RunTime(r) \in 1..now BY <1>1, <1>3 DEF IsDue, RunTime, Rows
<1>13. QED BY <1>1, <1>3, <1>5, <1>6, <1>9, <1>11, <1>12 DEF FiredRow, Run

-----------------------------------------------------------------------------
(* The loop.                                                               *)
LEMMA ReadItems ==
  ASSUME SchedInv, TickReads
  PROVE  /\ tick' \in [at: {"sleep", "each", "fire"}, todo: Seq(Item), now: Nat]
         /\ tick'.at = "each" /\ tick'.now = now
         /\ \A i \in DOMAIN tick'.todo : AsRead(tick'.todo[i])
<1> DEFINE found == {s \in Schedulers : sched[s].status = "active"}
<1>1. PICK order \in SetToSeqs(found) :
        tick' = [at |-> "each", now |-> now,
                 todo |-> [i \in DOMAIN order |-> [sched |-> order[i], row |-> sched[order[i]]]]]
  BY DEF TickReads
<1>2. order \in [1..Cardinality(found) -> found] BY DEF SetToSeqs
<1>3. IsFiniteSet(found) BY FS_Subset, SchedulingAssumption
<1>4. Cardinality(found) \in Nat BY <1>3, FS_CardinalityType
<1>5. \A i \in DOMAIN order : order[i] \in Schedulers /\ sched[order[i]] \in Rows
  <2>1. ASSUME NEW s \in found PROVE sched[s] \in Rows
    BY RowTypes DEF SchedInv, TypeInv, AnyRow
  <2> HIDE DEF found
  <2>2. ASSUME NEW i \in DOMAIN order PROVE order[i] \in found BY <1>2, <2>2
  <2>3. found \subseteq Schedulers BY DEF found
  <2>4. QED BY <2>1, <2>2, <2>3
<1> HIDE DEF found
<1> DEFINE todo == [i \in DOMAIN order |-> [sched |-> order[i], row |-> sched[order[i]]]]
<1>6. todo \in [1..Cardinality(found) -> Item] BY <1>2, <1>5 DEF Item
<1>7. todo \in Seq(Item) BY <1>4, <1>6
<1>8. tick'.todo = todo /\ tick'.at = "each" /\ tick'.now = now BY <1>1
<1>9. tick' \in [at: {"sleep", "each", "fire"}, todo: Seq(Item), now: Nat]
  BY <1>1, <1>7 DEF SchedInv, TypeInv
<1>10. ASSUME NEW i \in DOMAIN tick'.todo PROVE AsRead(tick'.todo[i])
  BY <1>10, <1>8, <1>5, RowTypes DEF AsRead
<1>11. QED BY <1>8, <1>9, <1>10

LEMMA FollowingIs ==
  ASSUME SchedInv, tick.todo # <<>>
  PROVE  /\ Following \in [at: {"each"}, todo: Seq(Item), now: Nat] /\ Following.now = tick.now
         /\ \A i \in DOMAIN Following.todo : \E k \in DOMAIN tick.todo : Following.todo[i] = tick.todo[k]
<1>1. tick \in [at: {"sleep", "each", "fire"}, todo: Seq(Item), now: Nat] BY DEF SchedInv, TypeInv
<1> DEFINE rest == Tail(tick.todo)
<1>2. tick.todo \in Seq(Item) BY <1>1
<1>3. rest \in Seq(Item) /\ Len(rest) = Len(tick.todo) - 1
      /\ \A i \in 1..Len(rest) : rest[i] = tick.todo[i + 1]
  BY <1>2, HeadTailProperties
<1>4. Len(tick.todo) \in Nat /\ DOMAIN tick.todo = 1..Len(tick.todo) /\ DOMAIN rest = 1..Len(rest)
  BY <1>2, <1>3, LenProperties
<1> HIDE DEF rest
<1>5. \A i \in DOMAIN rest : i + 1 \in DOMAIN tick.todo /\ rest[i] = tick.todo[i + 1] BY <1>3, <1>4
<1>6. Following \in [at: {"each"}, todo: Seq(Item), now: Nat] /\ Following.now = tick.now
      /\ Following.todo = rest
  BY <1>1, <1>3 DEF Following, rest
<1>7. QED BY <1>5, <1>6

-----------------------------------------------------------------------------
(* What was read is kept by rows that move on.                             *)
LEMMA AsReadKept ==
  ASSUME TypeInv, NEW item \in Item, AsRead(item), \A s \in Schedulers : RowMovesOn(s)
  PROVE  AsRead(item)'
<1> DEFINE s == item.sched
<1>1. s \in Schedulers /\ item.row \in Rows /\ sched[s] \in AnyRow BY DEF Item, TypeInv
<1>2. RowMovesOn(s) BY <1>1
<1>3. sched[s] # NoRow /\ (sched[s] = Gone \/ item.row.ver < sched[s].ver \/ item.row = sched[s])
  BY DEF AsRead
<1>4. CASE sched'[s] = sched[s] BY <1>3, <1>4 DEF AsRead
<1>5. CASE sched'[s] = Gone BY <1>5, RowTypes, <1>1 DEF AsRead, NoRow, Gone
<1>6. CASE sched[s] \in Rows /\ sched'[s] \in Rows /\ sched'[s].ver = sched[s].ver + 1
  <2>1. item.row.ver \in Nat /\ sched[s].ver \in Nat /\ sched'[s] # NoRow /\ sched[s] # Gone
    BY <1>6, <1>1, RowTypes
  <2>2. item.row.ver < sched'[s].ver BY <2>1, <1>3, <1>6
  <2>3. QED BY <2>1, <2>2 DEF AsRead
<1>7. QED BY <1>2, <1>3, <1>4, <1>5, <1>6 DEF RowMovesOn

LEMMA MovingKeepsReads ==
  ASSUME TypeInv, TickSound, UNCHANGED <<now, tick>>, \A s \in Schedulers : RowMovesOn(s)
  PROVE  TickSound'
<1>1. \A i \in DOMAIN tick.todo : tick.todo[i] \in Item BY DEF TypeInv
<1>2. \A i \in DOMAIN tick.todo : AsRead(tick.todo[i])' BY <1>1, AsReadKept DEF TickSound
<1>3. QED BY <1>2 DEF TickSound, Due

(* A person starts a run; runs end.                                        *)
StartsRun == \E s \in Schedulers :
               /\ runs' = [runs EXCEPT ![s] = @ \cup {[id |-> started + 1, by |-> "person"]}]
               /\ started' = started + 1

EndsRuns == /\ started' = started /\ runs' \in [Schedulers -> SUBSET Run]
            /\ \A s \in Schedulers : runs'[s] \subseteq runs[s]

(* A person's run comes later than all, and ends harm no order.            *)
LEMMA RunsKeepTheirOrder ==
  ASSUME TypeInv, RunsCounted, DueRunsAlone, StartsRun \/ EndsRuns
  PROVE  RunsCounted' /\ DueRunsAlone'
<1>1. runs \in [Schedulers -> SUBSET Run] /\ started \in Nat BY DEF TypeInv
<1>2. \A s \in Schedulers : \A run \in runs[s] : run.id \in Nat /\ run.id <= started
  BY <1>1 DEF RunsCounted, Run
<1>3. CASE EndsRuns BY <1>3 DEF EndsRuns, RunsCounted, DueRunsAlone
<1>4. CASE StartsRun
  <2> DEFINE new == [id |-> started + 1, by |-> "person"]
  <2>1. started' = started + 1 /\ new.id = started + 1 /\ new.by = "person"
        /\ \A s \in Schedulers : runs'[s] = runs[s] \/ runs'[s] = runs[s] \cup {new}
    BY <1>4, <1>1 DEF StartsRun
  <2> HIDE DEF new
  <2>2. RunsCounted' BY <2>1, <1>1, <1>2 DEF RunsCounted
  <2>3. ASSUME NEW s \in Schedulers, NEW run \in runs'[s], run.by = "tick", NEW other \in runs'[s]
        PROVE  other.id >= run.id
    <3>1. run \in runs[s] BY <2>1, <2>3
    <3>2. CASE other \in runs[s] BY <3>1, <3>2, <2>3 DEF DueRunsAlone
    <3>3. CASE other = new BY <3>1, <3>3, <2>1, <1>1, <1>2
    <3>4. QED BY <3>2, <3>3, <2>1
  <2>4. QED BY <2>2, <2>3 DEF DueRunsAlone
<1>5. QED BY <1>3, <1>4

-----------------------------------------------------------------------------
(* People: what they write is what they wish, and the runs they start are  *)
(* later than all others.                                                  *)
WritesRow == \E s \in Schedulers, new \in AnyRow :
               /\ sched' = [sched EXCEPT ![s] = new] /\ wish' = [wish EXCEPT ![s] = new]
               /\ RowMovesOn(s)

PersonStep ==
  /\ request' \in [People -> Requests] /\ UNCHANGED <<now, tick>>
  /\ UNCHANGED <<sched, wish>> \/ WritesRow
  /\ StartsRun \/ EndsRuns

LEMMA HandlesIs ==
  ASSUME SchedInv, NEW p \in People, Handles(p)
  PROVE  PersonStep
<1> DEFINE s == request[p].sched
<1>1. /\ sched \in [Schedulers -> AnyRow] /\ wish \in [Schedulers -> AnyRow] /\ TypeInv
      /\ runs \in [Schedulers -> SUBSET Run] /\ request \in [People -> Requests]
      /\ request[p] \in Requests /\ NoRequest \in Requests
  BY DEF SchedInv, TypeInv, Requests
<1>2. request' = [request EXCEPT ![p] = NoRequest] => request' \in [People -> Requests] BY <1>1
<1>3. UNCHANGED runs /\ UNCHANGED started => EndsRuns BY <1>1 DEF EndsRuns
<1>4. \A r \in Rows : s \in Schedulers /\ Store(s, r) => UNCHANGED <<sched, wish>> \/ WritesRow
  <2> SUFFICES ASSUME NEW r \in Rows, s \in Schedulers, Store(s, r), ~UNCHANGED <<sched, wish>>
               PROVE  WritesRow
    OBVIOUS
  <2>1. PICK new \in Rows : /\ sched[s] \in Rows /\ new.ver = sched[s].ver + 1
                            /\ sched' = [sched EXCEPT ![s] = new] /\ wish' = [wish EXCEPT ![s] = new]
    BY <1>1, StoreIs
  <2>2. RowMovesOn(s) BY <2>1, <1>1 DEF RowMovesOn
  <2>3. QED BY <2>1, <2>2 DEF WritesRow, AnyRow
<1>5. CASE Writes(p)
  <2>1. s \in Schedulers /\ request[p].row \in Rows BY <1>1, <1>5 DEF Writes, Requests, NoRequest
  <2>2. QED BY <2>1, <1>2, <1>3, <1>4, <1>5 DEF Writes, PersonStep
<1>6. CASE Runs(p)
  <2>1. s \in Schedulers BY <1>1, <1>6 DEF Runs, Requests, NoRequest
  <2>2. StartsRun \/ EndsRuns BY <1>3, <1>6, <2>1, <1>1 DEF Runs, NewRun, StartsRun
  <2>3. QED BY <2>2, <1>2, <1>6 DEF Runs, PersonStep
<1>7. CASE Cancels(p)
  <2>1. /\ s \in Schedulers /\ request[p].at = "cancel"
        /\ request[p] \in [at: {"cancel", "drop"}, sched: Schedulers, row: Rows, ids: SUBSET Run]
    BY <1>1, <1>7 DEF Cancels, Requests, NoRequest
  <2>2. request' \in [People -> Requests]
    <3>1. \A run : [request[p] EXCEPT !.ids = @ \ {run}] \in Requests BY <2>1 DEF Requests
    <3>2. [request[p] EXCEPT !.at = "drop"] \in Requests BY <2>1 DEF Requests
    <3>3. QED BY <3>1, <3>2, <1>1, <1>7 DEF Cancels
  <2>3. EndsRuns
    <3>1. CASE UNCHANGED runs BY <3>1, <1>3, <1>7 DEF Cancels
    <3>2. ASSUME NEW run, runs' = [runs EXCEPT ![s] = @ \ {run}] PROVE EndsRuns
      BY <3>2, <2>1, <1>1, <1>7 DEF Cancels, EndsRuns
    <3>3. QED BY <3>1, <3>2, <1>7 DEF Cancels
  <2>4. QED BY <2>2, <2>3, <1>7 DEF Cancels, PersonStep
<1>8. CASE Drops(p)
  <2>1. s \in Schedulers /\ request[p].row \in Rows BY <1>1, <1>8 DEF Drops, Requests, NoRequest
  <2>2. CASE s \in Builtin
    <3>1. [request[p].row EXCEPT !.status = "archived"] \in Rows BY <2>1, <1>1, WrittenRows
    <3>2. QED BY <3>1, <2>1, <2>2, <1>2, <1>3, <1>4, <1>8 DEF Drops, PersonStep
  <2>3. CASE s \notin Builtin
    <3>1. sched' = [sched EXCEPT ![s] = Gone] /\ wish' = [wish EXCEPT ![s] = Gone]
          /\ runs' = [runs EXCEPT ![s] = {}] /\ started' = started
      BY <2>3, <1>8 DEF Drops
    <3>2. EndsRuns BY <3>1, <1>1 DEF EndsRuns
    <3>3. RowMovesOn(s) BY <3>1, <2>1, <1>1, RowTypes DEF RowMovesOn, AnyRow
    <3>4. WritesRow BY <3>1, <3>3, <2>1 DEF WritesRow, AnyRow
    <3>5. QED BY <3>2, <3>4, <1>2, <1>8 DEF Drops, PersonStep
  <2>4. QED BY <2>2, <2>3
<1>9. CASE Lists(p)
  <2>1. s \in Schedulers /\ request[p].row \in Rows BY <1>1, <1>9 DEF Lists, Requests, NoRequest
  <2>2. [at |-> "cancel", sched |-> s, row |-> request[p].row, ids |-> runs[s]] \in Requests
    BY <2>1, <1>1 DEF Requests
  <2>3. request' \in [People -> Requests] BY <2>2, <1>1, <1>9 DEF Lists
  <2>4. QED BY <2>3, <1>3, <1>9 DEF Lists, PersonStep, rowVars
<1>10. QED BY <1>5, <1>6, <1>7, <1>8, <1>9 DEF Handles

LEMMA SendsIs ==
  ASSUME SchedInv, NEW p \in People, NEW s \in Schedulers,
         Prepares(p, s) \/ Creates(p, s) \/ Reruns(p, s) \/ Deletes(p, s)
  PROVE  PersonStep
<1>1. /\ sched \in [Schedulers -> AnyRow] /\ wish \in [Schedulers -> AnyRow] /\ TypeInv
      /\ runs \in [Schedulers -> SUBSET Run] /\ request \in [People -> Requests] /\ now \in Nat
      /\ NoRequest \in Requests
  BY DEF SchedInv, TypeInv, Requests
<1>2. UNCHANGED runs /\ UNCHANGED started => EndsRuns BY <1>1 DEF EndsRuns
<1>3. CASE Prepares(p, s)
  <2>1. sched[s] \in Rows BY <1>1, <1>3, StoredIsRow DEF Prepares
  <2>2. EditedRows(sched[s]) \cup {EnabledRow(sched[s]), DisabledRow(sched[s])} \subseteq Rows
    BY <2>1, <1>1, WrittenRows
  <2>3. PICK new \in Rows : request' = [request EXCEPT ![p] = [at |-> "write", sched |-> s, row |-> new]]
    BY <2>2, <1>3 DEF Prepares
  <2>4. [at |-> "write", sched |-> s, row |-> new] \in Requests BY DEF Requests
  <2>5. QED BY <2>3, <2>4, <1>1, <1>2, <1>3 DEF Prepares, PersonStep, rowVars
<1>4. CASE Creates(p, s)
  <2> DEFINE blank == [NoRow EXCEPT !.status = "active", !.ver = 1]
  <2>1. blank \in Rows BY DEF NoRow, Rows, Statuses, Modes
  <2> HIDE DEF blank
  <2>2. [blank EXCEPT !.runAt = now + 1] \in Rows BY <2>1, <1>1 DEF Rows
  <2>3. Recur(blank) \in Rows
    <3>1. now + 1 \in Nat BY <1>1
    <3>2. QED BY <2>1, <3>1 DEF Recur, NextTime, Rows, Modes
  <2>4. PICK r \in {blank, [blank EXCEPT !.runAt = now + 1], Recur(blank)} :
          /\ sched' = [sched EXCEPT ![s] = r] /\ wish' = [wish EXCEPT ![s] = r]
          /\ request' = [request EXCEPT ![p] =
                           IF r = blank THEN [at |-> "run", sched |-> s] ELSE NoRequest]
    BY <1>4 DEF Creates, blank
  <2>5. r \in Rows BY <2>1, <2>2, <2>3, <2>4
  <2>6. request' \in [People -> Requests]
    <3>1. [at |-> "run", sched |-> s] \in Requests BY DEF Requests
    <3>2. QED BY <3>1, <2>4, <1>1
  <2>7. RowMovesOn(s) BY <1>4 DEF Creates, RowMovesOn
  <2>8. WritesRow BY <2>4, <2>5, <2>7 DEF WritesRow, AnyRow
  <2>9. QED BY <2>6, <2>8, <1>2, <1>4 DEF Creates, PersonStep
<1>5. CASE Reruns(p, s)
  <2>1. [at |-> "run", sched |-> s] \in Requests BY DEF Requests
  <2>2. QED BY <2>1, <1>1, <1>2, <1>5 DEF Reruns, PersonStep, rowVars
<1>6. CASE Deletes(p, s)
  <2>1. sched[s] \in Rows BY <1>1, <1>6, StoredIsRow DEF Deletes
  <2>2. [at |-> "list", sched |-> s, row |-> sched[s]] \in Requests BY <2>1 DEF Requests
  <2>3. QED BY <2>2, <1>1, <1>2, <1>6 DEF Deletes, PersonStep, rowVars
<1>7. QED BY <1>3, <1>4, <1>5, <1>6

LEMMA PersonKeeps == ASSUME SchedInv, PersonStep PROVE SchedInv'
<1>1. /\ sched \in [Schedulers -> AnyRow] /\ wish \in [Schedulers -> AnyRow] /\ TypeInv
      /\ runs \in [Schedulers -> SUBSET Run] /\ started \in Nat
  BY DEF SchedInv, TypeInv
<1>2. ASSUME NEW s \in Schedulers
      PROVE  RowMovesOn(s) /\ (UNCHANGED <<sched[s], wish[s]>> \/ sched'[s] = wish'[s])
  <2>1. CASE UNCHANGED <<sched, wish>> BY <2>1 DEF RowMovesOn
  <2>2. CASE WritesRow
    <3>1. PICK t \in Schedulers, new \in AnyRow :
            /\ sched' = [sched EXCEPT ![t] = new] /\ wish' = [wish EXCEPT ![t] = new] /\ RowMovesOn(t)
      BY <2>2 DEF WritesRow
    <3>2. CASE s = t BY <3>1, <3>2, <1>1
    <3>3. CASE s # t BY <3>1, <3>3, <1>1 DEF RowMovesOn
    <3>4. QED BY <3>2, <3>3
  <2>3. QED BY <2>1, <2>2 DEF PersonStep
<1>3. TypeInv'
  <2>1. sched' \in [Schedulers -> AnyRow] /\ wish' \in [Schedulers -> AnyRow]
    BY <1>1 DEF PersonStep, WritesRow
  <2>2. runs' \in [Schedulers -> SUBSET Run] /\ started' \in Nat
    <3>1. [id |-> started + 1, by |-> "person"] \in Run BY <1>1 DEF Run
    <3>2. QED BY <3>1, <1>1 DEF PersonStep, StartsRun, EndsRuns
  <2>3. QED BY <2>1, <2>2, <1>1 DEF PersonStep, TypeInv
<1>4. TickSound' BY <1>2, MovingKeepsReads DEF PersonStep, SchedInv
<1>5. RunsCounted' /\ DueRunsAlone' BY <1>1, RunsKeepTheirOrder DEF PersonStep, SchedInv
<1>6. WishStands' BY <1>2 DEF WishStands, SchedInv, PersonStep
<1>7. QED BY <1>3, <1>4, <1>5, <1>6 DEF SchedInv

-----------------------------------------------------------------------------
(* The loop fires, or only looks; runs end; the clock goes on.             *)
LEMMA FiringKeeps ==
  ASSUME SchedInv, tick.at = "fire", Fires(Due.sched, Due.row), tick' = Following,
         UNCHANGED <<now, request, wish>>
  PROVE  SchedInv'
<1> DEFINE s == Due.sched
<1>1. /\ s \in Schedulers /\ FiredRow(s)
      /\ sched' \in [Schedulers -> AnyRow] /\ runs' \in [Schedulers -> SUBSET Run]
  BY FiringIs
<1>2. /\ TypeInv /\ TickSound /\ tick.todo # <<>> /\ started \in Nat
      /\ runs \in [Schedulers -> SUBSET Run]
  BY DEF SchedInv, TypeInv, TickSound
<1> HIDE DEF s
<1>3. \A t \in Schedulers : RowMovesOn(t) BY <1>1 DEF RowMovesOn, FiredRow
<1>4. TypeInv' BY <1>1, <1>2, FollowingIs DEF FiredRow, TypeInv
<1>5. TickSound'
  <2>1. \A i \in DOMAIN tick.todo : tick.todo[i] \in Item BY <1>2 DEF TypeInv
  <2>2. ASSUME NEW i \in DOMAIN tick'.todo, NEW item \in Item, item = tick'.todo[i]
        PROVE  AsRead(item)'
    <3>1. AsRead(item) BY <2>2, <1>2, FollowingIs DEF TickSound
    <3>2. QED BY <3>1, <1>2, <1>3, AsReadKept
  <2>3. ASSUME NEW i \in DOMAIN tick'.todo PROVE tick'.todo[i] \in Item
    BY <2>3, <2>1, <1>2, FollowingIs
  <2>4. tick'.now = tick.now /\ tick'.at = "each" BY <1>2, FollowingIs
  <2>5. QED BY <2>2, <2>3, <2>4, <1>2 DEF TickSound, AsRead
<1>6. RunsCounted' /\ DueRunsAlone'
  <2>1. ASSUME NEW t \in Schedulers, NEW run \in runs'[t]
        PROVE  run.id <= started' /\ (run.by = "tick" => \A other \in runs'[t] : other.id >= run.id)
    <3>1. CASE t = s
      <4>1. runs'[t] = {[id |-> started + 1, by |-> "tick"]} /\ started' = started + 1
        BY <3>1, <1>1, <1>2 DEF FiredRow
      <4>2. QED BY <4>1, <2>1, <1>2
    <3>2. CASE t # s
      <4>1. runs'[t] = runs[t] /\ started' = started + 1 BY <3>2, <1>1, <1>2 DEF FiredRow
      <4>2. run \in runs[t] /\ run.id \in Nat /\ run.id <= started
        BY <4>1, <2>1, <1>2 DEF SchedInv, RunsCounted, Run
      <4>3. run.by = "tick" => \A other \in runs'[t] : other.id >= run.id
        BY <4>1, <4>2 DEF SchedInv, DueRunsAlone
      <4>4. QED BY <4>1, <4>2, <4>3, <1>2
    <3>3. QED BY <3>1, <3>2
  <2>2. QED BY <2>1 DEF RunsCounted, DueRunsAlone
<1>7. WishStands'
  <2>1. ASSUME NEW t \in Schedulers
        PROVE  /\ sched'[t].mode = wish[t].mode /\ sched'[t].runAt = wish[t].runAt
               /\ (wish[t].status # "active") => (sched'[t].status = wish[t].status)
               /\ (RunTime(wish[t]) > now) => (sched'[t].status = wish[t].status /\ sched'[t].next = wish[t].next)
    <3>1. /\ sched[t].mode = wish[t].mode /\ sched[t].runAt = wish[t].runAt
          /\ (wish[t].status # "active") => (sched[t].status = wish[t].status)
          /\ (RunTime(wish[t]) > now) => (sched[t].status = wish[t].status /\ sched[t].next = wish[t].next)
      BY DEF SchedInv, WishStands
    <3>2. CASE t # s BY <3>1, <3>2, <1>1 DEF FiredRow
    <3>3. CASE t = s
      <4>1. /\ sched[t].status = "active" /\ RunTime(sched[t]) \in 1..now
            /\ sched'[t].mode = sched[t].mode /\ sched'[t].runAt = sched[t].runAt
        BY <3>3, <1>1 DEF FiredRow
      <4>2. ~(RunTime(wish[t]) > now)
        <5>1. now \in Nat /\ ~(RunTime(sched[t]) > now) BY <4>1, <1>2 DEF TypeInv
        <5>2. sched[t].next = wish[t].next => RunTime(sched[t]) = RunTime(wish[t])
          BY <3>1 DEF RunTime
        <5>3. QED BY <3>1, <5>1, <5>2
      <4>3. QED BY <3>1, <4>1, <4>2
    <3>4. QED BY <3>2, <3>3
  <2>2. QED BY <2>1 DEF WishStands
<1>8. QED BY <1>4, <1>5, <1>6, <1>7 DEF SchedInv

LEMMA NextSched == SchedInv /\ [SchedNext]_schedVars => SchedInv'
<1> SUFFICES ASSUME SchedInv, [SchedNext]_schedVars PROVE SchedInv' OBVIOUS
<1>0. TypeInv /\ TickSound /\ RunsCounted /\ DueRunsAlone /\ WishStands BY DEF SchedInv
<1>1. ASSUME UNCHANGED <<sched, runs, started, now, request, wish>>,
             tick' \in [at: {"sleep", "each", "fire"}, todo: Seq(Item), now: Nat], tick'.now <= now,
             \A i \in DOMAIN tick'.todo : AsRead(tick'.todo[i]),
             tick'.at = "fire" => tick'.todo # <<>> /\ IsDue(Due.row, tick.now)'
      PROVE  SchedInv'
  <2>1. TypeInv' BY <1>0, <1>1 DEF TypeInv
  <2>2. TickSound' BY <1>1 DEF TickSound, AsRead
  <2>3. RunsCounted' /\ DueRunsAlone' /\ WishStands'
    BY <1>0, <1>1 DEF RunsCounted, DueRunsAlone, WishStands
  <2>4. QED BY <2>1, <2>2, <2>3 DEF SchedInv
<1>2. ASSUME UNCHANGED <<sched, runs, started, now, request, wish>>, tick' = Following, tick.todo # <<>>
      PROVE  SchedInv'
  <2>1. tick'.now = tick.now /\ tick'.at = "each"
        /\ tick' \in [at: {"sleep", "each", "fire"}, todo: Seq(Item), now: Nat]
    BY <1>2, FollowingIs
  <2>2. \A i \in DOMAIN tick'.todo : AsRead(tick'.todo[i]) BY <1>2, <1>0, FollowingIs DEF TickSound
  <2>3. QED BY <1>0, <1>1, <1>2, <2>1, <2>2 DEF TickSound
<1>3. CASE UNCHANGED schedVars
  BY <1>3, <1>0 DEF schedVars, rowVars, SchedInv, TypeInv, TickSound, AsRead, Due, RunsCounted, DueRunsAlone, WishStands
<1>4. CASE TickReads
  <2>1. tick'.now <= now BY <1>4, <1>0, ReadItems DEF TypeInv
  <2>2. QED BY <2>1, <1>1, <1>4, ReadItems DEF TickReads, rowVars
<1>5. CASE TickLooks
  <2>1. CASE tick' = Following BY <2>1, <1>2, <1>5 DEF TickLooks, rowVars
  <2>2. CASE tick' = [tick EXCEPT !.at = "fire"] /\ IsDue(Due.row, tick.now)
    <3>1. /\ tick' \in [at: {"sleep", "each", "fire"}, todo: Seq(Item), now: Nat]
          /\ tick'.todo = tick.todo /\ tick'.now = tick.now
      BY <2>2, <1>0 DEF TypeInv
    <3>2. IsDue(Due.row, tick.now)' BY <2>2, <3>1 DEF Due, IsDue, RunTime
    <3>3. QED BY <3>1, <3>2, <1>0, <1>1, <1>5 DEF TickSound, TickLooks, rowVars
  <2>3. QED BY <2>1, <2>2, <1>5 DEF TickLooks
<1>6. CASE TickEnds
  <2>1. Asleep \in [at: {"sleep", "each", "fire"}, todo: Seq(Item), now: Nat] BY EmptySeq DEF Asleep
  <2>2. QED BY <2>1, <1>0, <1>1, <1>6 DEF TickEnds, Asleep, rowVars, TypeInv
<1>7. CASE TickFires \/ TickFails
  <2>1. tick.at = "fire" /\ tick.todo # <<>> /\ tick' = Following /\ UNCHANGED <<now, request, wish>>
    BY <1>7, <1>0 DEF TickFires, TickFails, TickSound
  <2>2. CASE Fires(Due.sched, Due.row) BY <2>1, <2>2, FiringKeeps
  <2>3. CASE UNCHANGED rowVars BY <2>1, <2>3, <1>2 DEF rowVars
  <2>4. QED BY <1>7, <2>2, <2>3 DEF TickFires, TickFails
<1>8. CASE LoopRestarts
  <2>1. Asleep \in [at: {"sleep", "each", "fire"}, todo: Seq(Item), now: Nat] BY EmptySeq DEF Asleep
  <2>2. TypeInv' BY <2>1, <1>0, <1>8 DEF LoopRestarts, TypeInv, Requests, rowVars
  <2>3. TickSound' BY <1>0, <1>8 DEF LoopRestarts, TickSound, Asleep, TypeInv
  <2>4. RunsCounted' /\ DueRunsAlone' /\ WishStands'
    BY <1>0, <1>8 DEF LoopRestarts, rowVars, RunsCounted, DueRunsAlone, WishStands
  <2>5. QED BY <2>2, <2>3, <2>4 DEF SchedInv
<1>9. CASE ClockAdvances
  <2>1. now' = now + 1 /\ now \in Nat /\ UNCHANGED <<sched, runs, started, tick, request, wish>>
    BY <1>9, <1>0 DEF ClockAdvances, rowVars, TypeInv
  <2>2. TypeInv' BY <2>1, <1>0 DEF TypeInv
  <2>3. TickSound'
    <3>1. tick.now \in Nat BY <1>0 DEF TypeInv
    <3>2. QED BY <2>1, <3>1, <1>0 DEF TickSound, AsRead, Due
  <2>4. RunsCounted' /\ DueRunsAlone' BY <2>1, <1>0 DEF RunsCounted, DueRunsAlone
  <2>5. WishStands'
    <3>1. ASSUME NEW t \in Schedulers, RunTime(wish[t]) > now + 1 PROVE RunTime(wish[t]) > now
      <4>1. RunTime(wish[t]) \in Nat
        BY <1>0 DEF TypeInv, AnyRow, Rows, NoRow, Gone, RunTime
      <4>2. QED BY <4>1, <3>1, <2>1
    <3>2. QED BY <3>1, <2>1, <1>0 DEF WishStands
  <2>6. QED BY <2>2, <2>3, <2>4, <2>5 DEF SchedInv
<1>10. ASSUME NEW s \in Schedulers, RunEnds(s) PROVE SchedInv'
  <2>1. EndsRuns BY <1>10, <1>0 DEF RunEnds, EndsRuns, TypeInv
  <2>2. PersonStep BY <2>1, <1>10, <1>0 DEF RunEnds, PersonStep, TypeInv
  <2>3. QED BY <2>2, PersonKeeps
<1>11. QED BY <1>3, <1>4, <1>5, <1>6, <1>7, <1>8, <1>9, <1>10, HandlesIs, SendsIs, PersonKeeps
           DEF SchedNext, TickNext

-----------------------------------------------------------------------------
(* The inductive invariant.                                                *)
THEOREM SchedulingStaysSound == SchedSpec => []SchedInv
BY InitSched, NextSched, PTL DEF SchedSpec

(* What a person last wrote stands against a tick that read the row before *)
(* that (_tick_scheduler, fire_scheduler's condition on updated_at).       *)
THEOREM WishesStand == SchedSpec => []WishStands
BY SchedulingStaysSound, PTL DEF SchedInv

(* A due run starts only when no other run of its scheduler is under way   *)
(* (fire_scheduler's condition on active executions).                      *)
THEOREM DueRunsStartAlone == SchedSpec => []DueRunsAlone
BY SchedulingStaysSound, PTL DEF SchedInv

-----------------------------------------------------------------------------
(***************************************************************************)
(* Proofs about the writer gate of the task store: its types, and that no  *)
(* transaction outlives its caller's hold of the lock, for any number of   *)
(* callers, faults, cancellations and closes.                              *)
(***************************************************************************)

(* Between taking the lock and giving it back.                             *)
HoldsLock(c) == pc[c] \in {"writer", "reopen", "backoff"} \cup Phases

(* How often init has begun: at first, and after what put an end to it.    *)
Endings == closes + stops + faults
Open  == life \in Callers \/ (initialized /\ life # Closer)
Begun == Endings + (IF Open THEN 1 ELSE 0)

(* Who may hold what: a caller holds the lock in force, and close and init *)
(* replace it only under the lifecycle lock, when nobody does.             *)
LockSound ==
  /\ gate <= Begun /\ (initialized => gate # 0)
  /\ (closing = "idle") <=> (life # Closer)
  /\ closing = "conn" /\ initialized => held[gate] = Closer
  /\ \A c \in Callers :
       /\ pc[c] = "opening" => life = c /\ ~initialized /\ gate # 0
       /\ pc[c] = "backoff" \/ (pc[c] = "rollback" /\ why[c] = None) => tries[c] < Attempts
       /\ HoldsLock(c) => initialized /\ lock[c] = gate /\ held[gate] = c

LockInv == GateTypeOK /\ LockSound

(* What the holder has sent ends with what it waits for, and is not        *)
(* answered yet; what it sent before that it has given up on.              *)
Sent(c) ==
  /\ \A i \in DOMAIN ops : ops[i].by = c /\ (i < Len(ops) => ops[i].op # pc[c])
  /\ ops # <<>> => reply[c] = None /\ ops[Len(ops)].op = pc[c]
  /\ pc[c] # "rollback" => Len(ops) <= 1

(* Here the holder has no transaction open.                                *)
Clean(c) ==
  \/ pc[c] \in {"writer", "reopen", "backoff"}
  \/ pc[c] \in {"commit", "rollback", "discard"} /\ reply[c] = "ok"

Own(c) == Sent(c) /\ txn \in {None, c} /\ (Clean(c) => txn = None)

ConnSound ==
  /\ (\A c \in Callers : ~HoldsLock(c)) => txn = None /\ ops = <<>>
  /\ \A c \in Callers : HoldsLock(c) => Own(c)

-----------------------------------------------------------------------------
(* Nothing is held, sent or open at first.                                 *)
LEMMA InitGate == GateInit => LockInv /\ ConnSound
<1> SUFFICES ASSUME GateInit PROVE LockInv /\ ConnSound OBVIOUS
<1> USE DEF GateInit, None, Closer
<1>1. Attempts \in Nat \ {0} /\ MaxFaults \in Nat /\ MaxStops \in Nat /\ MaxCloses \in Nat
  BY WriteGateAssumption
<1>2. GateTypeOK
  <2>1. ops \in Seq([by: Callers, op: Phases]) OBVIOUS
  <2>2. {initialized, writer} \subseteq BOOLEAN /\ dirty \in SUBSET {"first", "second"}
    OBVIOUS
  <2>3. 1 \in 1..Attempts /\ 0 \in 0..MaxFaults /\ 0 \in 0..MaxStops /\ 0 \in 0..MaxCloses
    BY <1>1
  <2>4. QED BY <2>1, <2>2, <2>3 DEF GateTypeOK, CallersTypeOK, LocksTypeOK, ConnTypeOK, Phases
<1>3. LockSound BY WriteGateAssumption DEF LockSound, HoldsLock, Phases, Begun, Endings, Open
<1>4. ConnSound BY DEF ConnSound, HoldsLock, Phases
<1>5. QED BY <1>2, <1>3, <1>4 DEF LockInv

(* The number of the lock in force stays within the locks there may be.    *)
LEMMA GateBound == LockInv => /\ gate \in Nat /\ (gate # 0 => gate \in Gates)
                              /\ (gate < closes + stops + faults + 1 => gate + 1 \in Gates)
BY WriteGateAssumption DEF LockInv, LockSound, Begun, Endings, Open, GateTypeOK, LocksTypeOK, Gates

-----------------------------------------------------------------------------
(* Types.                                                                  *)
LEMMA AppendKeeps == ASSUME NEW S, NEW s \in Seq(S), NEW e \in S PROVE Append(s, e) \in Seq(S)
  OBVIOUS

LEMMA CallerKeepsTypes ==
  ASSUME LockInv, NEW c \in Callers, GoesOn(c) \/ Cancelled(c)
  PROVE  GateTypeOK'
<1> USE DEF GateTypeOK, LockInv
<1>a. Attempts \in Nat \ {0} /\ MaxFaults \in Nat /\ MaxStops \in Nat /\ MaxCloses \in Nat
  BY WriteGateAssumption
<1>b. \A op \in Phases : Append(ops, [by |-> c, op |-> op]) \in Seq([by: Callers, op: Phases])
  BY AppendKeeps DEF ConnTypeOK
<1>d. <<>> \in Seq([by: Callers, op: Phases]) OBVIOUS
<1>e. pc[c] \in DOMAIN After => After[pc[c]] \in Phases BY DEF After, Phases
<1>f. InitStarts(c) /\ gate' # gate => gate + 1 \in Gates
  <2> SUFFICES ASSUME InitStarts(c), gate' # gate PROVE gate + 1 \in Gates OBVIOUS
  <2>1. life = None /\ ~initialized BY DEF InitStarts, gateVars
  <2>2. life \notin Callers BY <2>1, WriteGateAssumption DEF None
  <2>3. closes + stops + faults \in Nat BY <1>a DEF LocksTypeOK
  <2>4. gate <= closes + stops + faults BY <2>1, <2>2, <2>3 DEF LockSound, Begun, Endings, Open
  <2>5. gate < closes + stops + faults + 1 BY <2>3, <2>4, GateBound
  <2>6. QED BY <2>5, GateBound
<1>g. pc[c] = "backoff" => tries[c] < Attempts BY DEF LockSound
<1>h. faults < MaxFaults => faults + 1 \in 0..MaxFaults BY <1>a DEF LocksTypeOK
<1>1. CASE Enters(c)
  <2> USE <1>1 DEF Enters, Goes, Asks, Fails, Fault, Leaves, Unlocks, Fresh, RollsBack, RetriedFrom, callerVars, gateVars, connVars, boundVars
  <2>1. CallersTypeOK' BY <1>a DEF CallersTypeOK, LocksTypeOK, Phases
  <2>2. LocksTypeOK' BY <1>a DEF LocksTypeOK, CallersTypeOK
  <2>3. ConnTypeOK' BY <1>b, <1>d DEF ConnTypeOK, Phases
  <2>4. QED BY <2>1, <2>2, <2>3
<1>2. CASE InitStarts(c)
  <2> USE <1>2 DEF InitStarts, Goes, Asks, Fails, Fault, Leaves, Unlocks, Fresh, RollsBack, RetriedFrom, callerVars, gateVars, connVars, boundVars
  <2>1. CallersTypeOK' BY <1>a DEF CallersTypeOK, LocksTypeOK, Phases
  <2>2. LocksTypeOK' BY <1>f, <1>a DEF LocksTypeOK, CallersTypeOK
  <2>3. ConnTypeOK' BY <1>b, <1>d DEF ConnTypeOK, Phases
  <2>4. QED BY <2>1, <2>2, <2>3
<1>3. CASE InitEnds(c)
  <2> USE <1>3 DEF InitEnds, Goes, Asks, Fails, Fault, Leaves, Unlocks, Fresh, RollsBack, RetriedFrom, callerVars, gateVars, connVars, boundVars
  <2>1. CallersTypeOK' BY <1>a DEF CallersTypeOK, LocksTypeOK, Phases
  <2>2. LocksTypeOK' BY <1>a, <1>h DEF LocksTypeOK, CallersTypeOK
  <2>3. ConnTypeOK' BY <1>b, <1>d DEF ConnTypeOK, Phases
  <2>4. QED BY <2>1, <2>2, <2>3
<1>4. CASE Acquires(c)
  <2> USE <1>4 DEF Acquires, Goes, Asks, Fails, Fault, Leaves, Unlocks, Fresh, RollsBack, RetriedFrom, callerVars, gateVars, connVars, boundVars
  <2>1. CallersTypeOK' BY <1>a DEF CallersTypeOK, LocksTypeOK, Phases
  <2>2. LocksTypeOK' BY <1>a DEF LocksTypeOK, CallersTypeOK
  <2>3. ConnTypeOK' BY <1>b, <1>d DEF ConnTypeOK, Phases
  <2>4. QED BY <2>1, <2>2, <2>3
<1>5. CASE TakesWriter(c)
  <2> USE <1>5 DEF TakesWriter, Goes, Asks, Fails, Fault, Leaves, Unlocks, Fresh, RollsBack, RetriedFrom, callerVars, gateVars, connVars, boundVars
  <2>1. CallersTypeOK' BY <1>a DEF CallersTypeOK, LocksTypeOK, Phases
  <2>2. LocksTypeOK' BY <1>a DEF LocksTypeOK, CallersTypeOK
  <2>3. ConnTypeOK' BY <1>b, <1>d DEF ConnTypeOK, Phases
  <2>4. QED BY <2>1, <2>2, <2>3
<1>6. CASE Reopens(c)
  <2> USE <1>6 DEF Reopens, Goes, Asks, Fails, Fault, Leaves, Unlocks, Fresh, RollsBack, RetriedFrom, callerVars, gateVars, connVars, boundVars
  <2>1. CallersTypeOK' BY <1>a DEF CallersTypeOK, LocksTypeOK, Phases
  <2>2. LocksTypeOK' BY <1>a DEF LocksTypeOK, CallersTypeOK
  <2>3. ConnTypeOK' BY <1>b, <1>d DEF ConnTypeOK, Phases
  <2>4. QED BY <2>1, <2>2, <2>3
<1>7. CASE Continues(c)
  <2> USE <1>7 DEF Continues, Goes, Asks, Fails, Fault, Leaves, Unlocks, Fresh, RollsBack, RetriedFrom, callerVars, gateVars, connVars, boundVars
  <2>1. CallersTypeOK' BY <1>e, <1>a DEF CallersTypeOK, LocksTypeOK, Phases
  <2>2. LocksTypeOK' BY <1>a DEF LocksTypeOK, CallersTypeOK
  <2>3. ConnTypeOK' BY <1>e, <1>b, <1>d DEF ConnTypeOK
  <2>4. QED BY <2>1, <2>2, <2>3
<1>8. CASE Fumbles(c)
  <2> USE <1>8 DEF Fumbles, Goes, Asks, Fails, Fault, Leaves, Unlocks, Fresh, RollsBack, RetriedFrom, callerVars, gateVars, connVars, boundVars
  <2>1. CallersTypeOK' BY <1>a DEF CallersTypeOK, LocksTypeOK, Phases
  <2>2. LocksTypeOK' BY <1>a DEF LocksTypeOK, CallersTypeOK
  <2>3. ConnTypeOK' BY <1>b, <1>d DEF ConnTypeOK, Phases
  <2>4. QED BY <2>1, <2>2, <2>3
<1>9. CASE RolledBack(c)
  <2> USE <1>9 DEF RolledBack, Goes, Asks, Fails, Fault, Leaves, Unlocks, Fresh, RollsBack, RetriedFrom, callerVars, gateVars, connVars, boundVars
  <2>1. CallersTypeOK' BY <1>a DEF CallersTypeOK, LocksTypeOK, Phases
  <2>2. LocksTypeOK' BY <1>a DEF LocksTypeOK, CallersTypeOK
  <2>3. ConnTypeOK' BY <1>b, <1>d DEF ConnTypeOK, Phases
  <2>4. QED BY <2>1, <2>2, <2>3
<1>10. CASE Retries(c)
  <2> USE <1>10 DEF Retries, Goes, Asks, Fails, Fault, Leaves, Unlocks, Fresh, RollsBack, RetriedFrom, callerVars, gateVars, connVars, boundVars
  <2>1. CallersTypeOK' BY <1>a, <1>g DEF CallersTypeOK, LocksTypeOK, Phases
  <2>2. LocksTypeOK' BY <1>a DEF LocksTypeOK, CallersTypeOK
  <2>3. ConnTypeOK' BY <1>b, <1>d DEF ConnTypeOK, Phases
  <2>4. QED BY <2>1, <2>2, <2>3
<1>11. CASE Discards(c)
  <2> USE <1>11 DEF Discards, Goes, Asks, Fails, Fault, Leaves, Unlocks, Fresh, RollsBack, RetriedFrom, callerVars, gateVars, connVars, boundVars
  <2>1. CallersTypeOK' BY <1>a DEF CallersTypeOK, LocksTypeOK, Phases
  <2>2. LocksTypeOK' BY <1>a DEF LocksTypeOK, CallersTypeOK
  <2>3. ConnTypeOK' BY <1>b, <1>d DEF ConnTypeOK, Phases
  <2>4. QED BY <2>1, <2>2, <2>3
<1>12. CASE Discarded(c)
  <2> USE <1>12 DEF Discarded, Goes, Asks, Fails, Fault, Leaves, Unlocks, Fresh, RollsBack, RetriedFrom, callerVars, gateVars, connVars, boundVars
  <2>1. CallersTypeOK' BY <1>a DEF CallersTypeOK, LocksTypeOK, Phases
  <2>2. LocksTypeOK' BY <1>a DEF LocksTypeOK, CallersTypeOK
  <2>3. ConnTypeOK' BY <1>b, <1>d DEF ConnTypeOK, Phases
  <2>4. QED BY <2>1, <2>2, <2>3
<1>13. CASE Cancelled(c) /\ WhileInTransaction(c)
  <2> USE <1>13 DEF Cancelled, WhileInTransaction, Goes, Asks, Fails, Fault, Leaves, Unlocks, Fresh, RollsBack, RetriedFrom, callerVars, gateVars, connVars, boundVars
  <2>1. CallersTypeOK' BY <1>a DEF CallersTypeOK, LocksTypeOK, Phases
  <2>2. LocksTypeOK' BY <1>a DEF LocksTypeOK, CallersTypeOK
  <2>3. ConnTypeOK' BY <1>b, <1>d DEF ConnTypeOK, Phases
  <2>4. QED BY <2>1, <2>2, <2>3
<1>14. CASE Cancelled(c) /\ WhileRollingBack(c)
  <2> USE <1>14 DEF Cancelled, WhileRollingBack, Goes, Asks, Fails, Fault, Leaves, Unlocks, Fresh, RollsBack, RetriedFrom, callerVars, gateVars, connVars, boundVars
  <2>1. CallersTypeOK' BY <1>a DEF CallersTypeOK, LocksTypeOK, Phases
  <2>2. LocksTypeOK' BY <1>a DEF LocksTypeOK, CallersTypeOK
  <2>3. ConnTypeOK' BY <1>b, <1>d DEF ConnTypeOK, Phases
  <2>4. QED BY <2>1, <2>2, <2>3
<1>15. CASE Cancelled(c) /\ WhileOpening(c)
  <2> USE <1>15 DEF Cancelled, WhileOpening, Goes, Asks, Fails, Fault, Leaves, Unlocks, Fresh, RollsBack, RetriedFrom, callerVars, gateVars, connVars, boundVars
  <2>1. CallersTypeOK' BY <1>a DEF CallersTypeOK, LocksTypeOK, Phases
  <2>2. LocksTypeOK' BY <1>a DEF LocksTypeOK, CallersTypeOK
  <2>3. ConnTypeOK' BY <1>b, <1>d DEF ConnTypeOK, Phases
  <2>4. QED BY <2>1, <2>2, <2>3
<1>q. QED BY <1>1, <1>2, <1>3, <1>4, <1>5, <1>6, <1>7, <1>8, <1>9, <1>10, <1>11, <1>12, <1>13, <1>14, <1>15 DEF GoesOn, Cancelled

LEMMA NextTypes == LockInv /\ [GateNext]_writeVars => GateTypeOK'
<1> SUFFICES ASSUME LockInv, [GateNext]_writeVars PROVE GateTypeOK' OBVIOUS
<1> USE DEF GateTypeOK, LockInv
<1>a. MaxFaults \in Nat /\ MaxStops \in Nat /\ MaxCloses \in Nat BY WriteGateAssumption
<1>b. ops # <<>> => Head(ops) \in [by: Callers, op: Phases] /\ Tail(ops) \in Seq([by: Callers, op: Phases])
  BY HeadTailProperties DEF ConnTypeOK
<1>1. CASE UNCHANGED writeVars
  BY <1>1 DEF writeVars, callerVars, gateVars, connVars, boundVars, CallersTypeOK, LocksTypeOK, ConnTypeOK
<1>2. CASE ThreadDoes
  <2> USE <1>2, <1>b DEF ThreadDoes
  <2> DEFINE op == Head(ops)
  <2>0. op.by \in Callers /\ op.op \in Phases /\ ops' = Tail(ops) OBVIOUS
  <2>1. reply' \in [Callers -> {None, "ok", "busy", "error"}]
    BY <2>0 DEF Replies, CallersTypeOK
  <2>2. CallersTypeOK' BY <2>1 DEF CallersTypeOK
  <2>3. LocksTypeOK' BY <1>a DEF LocksTypeOK, gateVars, boundVars, Fails, Fault
  <2>4. txn' \in Callers \cup {None} /\ dirty' \in SUBSET {"first", "second"}
        /\ stored' \in [Callers -> SUBSET {"first", "second"}]
    <3>1. CASE Does(op)
      <4>1. CASE op.op = "begin" BY <4>1, <3>1, <2>0 DEF Does, ConnTypeOK
      <4>2. CASE op.op \in {"first", "second"}
        <5>1. UNCHANGED txn /\ \/ Commits(op.by, {op.op}) /\ UNCHANGED dirty
                               \/ dirty' = dirty \cup {op.op} /\ UNCHANGED stored
          BY <4>2, <3>1 DEF Does
        <5>2. {op.op} \in SUBSET {"first", "second"} BY <4>2
        <5>3. txn \in Callers \cup {None} /\ dirty \in SUBSET {"first", "second"}
              /\ stored \in [Callers -> SUBSET {"first", "second"}]
          BY DEF ConnTypeOK
        <5> HIDE <1>2, <1>b, <3>1, <4>2 DEF op, ThreadDoes
        <5>4. CASE UNCHANGED dirty BY <5>1, <5>2, <5>3, <5>4, <2>0 DEF Commits
        <5>5. CASE UNCHANGED stored BY <5>1, <5>2, <5>3, <5>5, <2>0
        <5>6. QED BY <5>1, <5>4, <5>5
      <4>3. CASE op.op = "commit" BY ZenonT(30), <4>3, <3>1, <2>0 DEF Does, Commits, ConnTypeOK
      <4>4. CASE op.op \in {"rollback", "discard"} BY <4>4, <3>1, <2>0 DEF Does, ConnTypeOK
      <4>5. QED BY <4>1, <4>2, <4>3, <4>4, <2>0 DEF Phases
    <3>2. CASE UNCHANGED <<txn, dirty, stored>> BY <3>2 DEF ConnTypeOK
    <3>3. QED BY <3>1, <3>2
  <2>5. ConnTypeOK' BY <2>0, <2>4 DEF ConnTypeOK
  <2>6. QED BY <2>2, <2>3, <2>5
<1>3. CASE Closes
  <2> USE <1>3 DEF Closes, CloseStarts, CloseLocks, CloseEnds, callerVars, gateVars, connVars, boundVars
  <2>1. CallersTypeOK' BY DEF CallersTypeOK
  <2>2. held' \in [Gates -> Callers \cup {None, Closer}]
    <3>1. CASE CloseStarts BY <3>1 DEF LocksTypeOK
    <3>2. CASE CloseLocks BY <3>2 DEF LocksTypeOK
    <3>3. CASE CloseEnds BY <3>3 DEF LocksTypeOK
    <3>4. QED BY <3>1, <3>2, <3>3
  <2>3. LocksTypeOK'
    <3>1. CASE CloseStarts
      <4>1. closes + 1 \in 0..MaxCloses BY <3>1, <1>a DEF LocksTypeOK
      <4>2. QED BY <4>1, <3>1, <2>2 DEF LocksTypeOK
    <3>2. CASE CloseLocks BY <3>2, <2>2 DEF LocksTypeOK
    <3>3. CASE CloseEnds BY <3>3, <2>2 DEF LocksTypeOK
    <3>4. QED BY <3>1, <3>2, <3>3
  <2>4. ConnTypeOK'
    <3>1. <<>> \in Seq([by: Callers, op: Phases]) OBVIOUS
    <3>2. QED BY <3>1 DEF ConnTypeOK
  <2>5. QED BY <2>1, <2>3, <2>4
<1>4. QED BY <1>1, <1>2, <1>3, CallerKeepsTypes DEF GateNext

-----------------------------------------------------------------------------
(* Who holds what.                                                         *)
LEMMA FaultCounts ==
  ASSUME GateTypeOK, faults' \in {faults, faults + 1}, closes' = closes, stops' = stops
  PROVE  /\ UNCHANGED <<life, initialized>> => Begun' \in {Begun, Begun + 1}
         /\ Begun \in Nat /\ Begun' \in Nat
         /\ Begun <= closes + stops + faults + 1
         /\ initialized' /\ life' = None => Begun' = closes + stops + faults' + 1
         /\ Begun' >= closes + stops + faults'
<1>1. faults \in Nat /\ stops \in Nat /\ closes \in Nat /\ None # Closer
  BY WriteGateAssumption DEF GateTypeOK, LocksTypeOK, None, Closer
<1>2. Endings \in Nat /\ Endings' \in {Endings, Endings + 1} /\ Endings' = closes + stops + faults'
  <2>1. Endings' = closes + stops + faults' BY DEF Endings
  <2>2. Endings \in Nat /\ Endings = closes + stops + faults BY <1>1 DEF Endings
  <2>3. CASE faults' = faults BY <2>1, <2>2, <2>3
  <2>4. CASE faults' = faults + 1 BY <2>1, <2>2, <2>4, <1>1
  <2>5. QED BY <2>1, <2>2, <2>3, <2>4
<1>3. UNCHANGED <<life, initialized>> => Open' = Open BY DEF Open
<1>4. initialized' /\ life' = None => Open' BY <1>1 DEF Open
<1>5. UNCHANGED <<life, initialized>> => Begun' \in {Begun, Begun + 1}
  BY <1>2, <1>3 DEF Begun
<1>6. Begun \in Nat /\ Begun' \in Nat /\ Begun <= Endings + 1 /\ Begun' >= Endings'
  BY <1>2 DEF Begun
<1>7. initialized' /\ life' = None => Begun' = Endings' + 1 BY <1>2, <1>4 DEF Begun
<1>8. QED BY <1>2, <1>5, <1>6, <1>7 DEF Endings

LEMMA CallerKeepsLocks ==
  ASSUME LockInv, GateTypeOK', NEW c \in Callers, GoesOn(c) \/ Cancelled(c)
  PROVE  LockSound'
<1> USE DEF GateTypeOK, LockInv, LockSound, CallersTypeOK, LocksTypeOK
<1>a. MaxFaults \in Nat /\ MaxStops \in Nat /\ MaxCloses \in Nat /\ Attempts \in Nat
      /\ None \notin Callers /\ Closer \notin Callers /\ None # Closer
      /\ None \notin {"error", "cancelled"}
  BY WriteGateAssumption DEF None, Closer
<1>b. gate \in Nat /\ (gate # 0 => gate \in Gates) /\ closes + stops + faults \in Nat
  BY <1>a, GateBound
<1>1. CASE Enters(c)
  BY <1>1, <1>a, <1>b DEF Enters, Begun, Endings, Open, HoldsLock, StillTheLock, Phases, Goes, Asks, Fails, Fault, Leaves, Unlocks, Fresh, RollsBack, RetriedFrom, After, callerVars, gateVars, connVars, boundVars
<1>2. CASE InitStarts(c)
  BY <1>2, <1>a, <1>b DEF InitStarts, Begun, Endings, Open, HoldsLock, StillTheLock, Phases, Goes, Asks, Fails, Fault, Leaves, Unlocks, Fresh, RollsBack, RetriedFrom, After, callerVars, gateVars, connVars, boundVars
<1>3. CASE InitEnds(c)
  <2> USE <1>3, <1>a, <1>b DEF InitEnds, Goes, Asks, Fails, Fault, Leaves, Unlocks, Fresh, RollsBack, callerVars, gateVars, connVars, boundVars
  <2>1. gate' <= Begun' /\ (initialized' => gate' # 0)
    <3>1. life' = None /\ gate' = gate /\ gate # 0 /\ UNCHANGED <<closes, stops>> OBVIOUS
    <3>2. (initialized' /\ faults' = faults) \/ faults' = faults + 1 OBVIOUS
    <3>3. faults \in Nat /\ stops \in Nat /\ closes \in Nat BY <1>a
    <3>4. gate <= closes + stops + faults + 1 BY FaultCounts, <3>1, <3>2, <3>3, <1>b
    <3> HIDE DEF LockSound, LocksTypeOK, CallersTypeOK, InitEnds
    <3>5. CASE initialized' /\ faults' = faults BY <3>5, FaultCounts, <3>1, <3>3, <3>4, <1>b
    <3>6. CASE faults' = faults + 1
      <4>1. Begun' >= closes + stops + faults' BY <3>6, FaultCounts, <3>1
      <4>2. Begun' \in Nat BY <3>6, <3>1, FaultCounts
      <4>3. QED BY <4>1, <4>2, <3>6, <3>1, <3>3, <3>4, <1>b
    <3>7. QED BY <3>2, <3>5, <3>6
  <2>2. ((closing = "idle") <=> (life # Closer))' /\ (closing = "conn" /\ initialized => held[gate] = Closer)'
    BY DEF HoldsLock, Phases
  <2>3. ASSUME NEW d \in Callers
        PROVE  /\ pc'[d] = "opening" => life' = d /\ ~initialized' /\ gate' # 0
               /\ pc'[d] = "backoff" \/ (pc'[d] = "rollback" /\ why'[d] = None) => tries'[d] < Attempts
               /\ HoldsLock(d)' => initialized' /\ lock'[d] = gate' /\ held'[gate'] = d
    <3>1. CASE d = c BY <3>1 DEF HoldsLock, Phases
    <3>2. CASE d # c BY <3>2 DEF HoldsLock, Phases
    <3>3. QED BY <3>1, <3>2
  <2>4. QED BY <2>1, <2>2, <2>3
<1>4. CASE Acquires(c)
  BY <1>4, <1>a, <1>b DEF Acquires, Begun, Endings, Open, HoldsLock, StillTheLock, Phases, Goes, Asks, Fails, Fault, Leaves, Unlocks, Fresh, RollsBack, RetriedFrom, After, callerVars, gateVars, connVars, boundVars
<1>5. CASE TakesWriter(c)
  BY <1>5, <1>a, <1>b DEF TakesWriter, Begun, Endings, Open, HoldsLock, StillTheLock, Phases, Goes, Asks, Fails, Fault, Leaves, Unlocks, Fresh, RollsBack, RetriedFrom, After, callerVars, gateVars, connVars, boundVars
<1>6. CASE Reopens(c)
  <2> USE <1>6, <1>a, <1>b DEF Reopens, Goes, Asks, Fails, Fault, Leaves, Unlocks, Fresh, RollsBack, callerVars, gateVars, connVars, boundVars
  <2>1. gate' <= Begun' /\ (initialized' => gate' # 0)
    <3>1. faults' \in {faults, faults + 1} OBVIOUS
    <3>2. UNCHANGED <<gate, closes, stops, life, initialized>> OBVIOUS
    <3>3. gate <= Begun /\ (initialized => gate # 0) OBVIOUS
    <3> HIDE DEF LockSound, LocksTypeOK, CallersTypeOK, Reopens
    <3>4. QED BY FaultCounts, <3>1, <3>2, <3>3, <1>b
  <2>2. ((closing = "idle") <=> (life # Closer))' /\ (closing = "conn" /\ initialized => held[gate] = Closer)'
    BY DEF HoldsLock, Phases
  <2>3. ASSUME NEW d \in Callers
        PROVE  /\ pc'[d] = "opening" => life' = d /\ ~initialized' /\ gate' # 0
               /\ pc'[d] = "backoff" \/ (pc'[d] = "rollback" /\ why'[d] = None) => tries'[d] < Attempts
               /\ HoldsLock(d)' => initialized' /\ lock'[d] = gate' /\ held'[gate'] = d
    <3>1. CASE d = c BY <3>1 DEF HoldsLock, Phases
    <3>2. CASE d # c BY <3>2 DEF HoldsLock, Phases
    <3>3. QED BY <3>1, <3>2
  <2>4. QED BY <2>1, <2>2, <2>3
<1>7. CASE Continues(c)
  BY <1>7, <1>a, <1>b DEF Continues, Begun, Endings, Open, HoldsLock, StillTheLock, Phases, Goes, Asks, Fails, Fault, Leaves, Unlocks, Fresh, RollsBack, RetriedFrom, After, callerVars, gateVars, connVars, boundVars
<1>8. CASE Fumbles(c)
  <2> USE <1>8, <1>a, <1>b DEF Fumbles, Goes, Asks, Fails, Fault, Leaves, Unlocks, Fresh, RollsBack, callerVars, gateVars, connVars, boundVars
  <2>1. gate' <= Begun' /\ (initialized' => gate' # 0) BY DEF Begun, Endings, Open
  <2>2. ((closing = "idle") <=> (life # Closer))' /\ (closing = "conn" /\ initialized => held[gate] = Closer)'
    BY DEF HoldsLock, Phases
  <2>3. ASSUME NEW d \in Callers
        PROVE  /\ pc'[d] = "opening" => life' = d /\ ~initialized' /\ gate' # 0
               /\ pc'[d] = "backoff" \/ (pc'[d] = "rollback" /\ why'[d] = None) => tries'[d] < Attempts
               /\ HoldsLock(d)' => initialized' /\ lock'[d] = gate' /\ held'[gate'] = d
    <3>1. CASE d = c
      <4>1. HoldsLock(c) BY DEF HoldsLock, Phases
      <4>2. pc'[c] = "rollback" /\ UNCHANGED <<initialized, lock, gate, held>>
        <5>1. pc' = [pc EXCEPT ![c] = "rollback"] OBVIOUS
        <5>2. UNCHANGED <<initialized, lock, gate, held>> OBVIOUS
        <5>3. QED BY <5>1, <5>2
      <4>3. why'[c] = None => tries'[c] < Attempts BY <1>a
      <4>4. QED BY <3>1, <4>1, <4>2, <4>3
    <3>2. CASE d # c BY <3>2 DEF HoldsLock, Phases
    <3>3. QED BY <3>1, <3>2
  <2>4. QED BY <2>1, <2>2, <2>3
<1>9. CASE RolledBack(c)
  BY <1>9, <1>a, <1>b DEF RolledBack, Begun, Endings, Open, HoldsLock, StillTheLock, Phases, Goes, Asks, Fails, Fault, Leaves, Unlocks, Fresh, RollsBack, RetriedFrom, After, callerVars, gateVars, connVars, boundVars
<1>10. CASE Retries(c)
  BY <1>10, <1>a, <1>b DEF Retries, Begun, Endings, Open, HoldsLock, StillTheLock, Phases, Goes, Asks, Fails, Fault, Leaves, Unlocks, Fresh, RollsBack, RetriedFrom, After, callerVars, gateVars, connVars, boundVars
<1>11. CASE Discards(c)
  BY <1>11, <1>a, <1>b DEF Discards, Begun, Endings, Open, HoldsLock, StillTheLock, Phases, Goes, Asks, Fails, Fault, Leaves, Unlocks, Fresh, RollsBack, RetriedFrom, After, callerVars, gateVars, connVars, boundVars
<1>12. CASE Discarded(c)
  BY <1>12, <1>a, <1>b DEF Discarded, Begun, Endings, Open, HoldsLock, StillTheLock, Phases, Goes, Asks, Fails, Fault, Leaves, Unlocks, Fresh, RollsBack, RetriedFrom, After, callerVars, gateVars, connVars, boundVars
<1>13. CASE Cancelled(c) /\ WhileInTransaction(c)
  <2> USE <1>13, <1>a, <1>b DEF Cancelled, WhileInTransaction, Goes, Asks, Fails, Fault, Leaves, Unlocks, Fresh, RollsBack, callerVars, gateVars, connVars, boundVars
  <2>1. gate' <= Begun' /\ (initialized' => gate' # 0) BY DEF Begun, Endings, Open
  <2>2. ((closing = "idle") <=> (life # Closer))' /\ (closing = "conn" /\ initialized => held[gate] = Closer)'
    BY DEF HoldsLock, Phases
  <2>3. ASSUME NEW d \in Callers
        PROVE  /\ pc'[d] = "opening" => life' = d /\ ~initialized' /\ gate' # 0
               /\ pc'[d] = "backoff" \/ (pc'[d] = "rollback" /\ why'[d] = None) => tries'[d] < Attempts
               /\ HoldsLock(d)' => initialized' /\ lock'[d] = gate' /\ held'[gate'] = d
    <3>1. CASE d = c
      <4>1. HoldsLock(c) BY DEF HoldsLock, Phases
      <4>2. pc'[c] = "rollback" /\ UNCHANGED <<initialized, lock, gate, held>>
        <5>1. pc' = [pc EXCEPT ![c] = "rollback"] OBVIOUS
        <5>2. UNCHANGED <<initialized, lock, gate, held>> OBVIOUS
        <5>3. QED BY <5>1, <5>2
      <4>3. why'[c] = None => tries'[c] < Attempts BY <1>a
      <4>4. QED BY <3>1, <4>1, <4>2, <4>3
    <3>2. CASE d # c BY <3>2 DEF HoldsLock, Phases
    <3>3. QED BY <3>1, <3>2
  <2>4. QED BY <2>1, <2>2, <2>3
<1>14. CASE Cancelled(c) /\ WhileRollingBack(c)
  <2> USE <1>14, <1>a, <1>b DEF Cancelled, WhileRollingBack, Goes, Asks, Fails, Fault, Leaves, Unlocks, Fresh, RollsBack, callerVars, gateVars, connVars, boundVars
  <2>1. gate' <= Begun' /\ (initialized' => gate' # 0) BY DEF Begun, Endings, Open
  <2>2. ((closing = "idle") <=> (life # Closer))' /\ (closing = "conn" /\ initialized => held[gate] = Closer)'
    BY DEF HoldsLock, Phases
  <2>3. ASSUME NEW d \in Callers
        PROVE  /\ pc'[d] = "opening" => life' = d /\ ~initialized' /\ gate' # 0
               /\ pc'[d] = "backoff" \/ (pc'[d] = "rollback" /\ why'[d] = None) => tries'[d] < Attempts
               /\ HoldsLock(d)' => initialized' /\ lock'[d] = gate' /\ held'[gate'] = d
    <3>1. CASE d = c
      <4>1. HoldsLock(c) BY DEF HoldsLock, Phases
      <4>2. pc'[c] = "rollback" /\ UNCHANGED <<initialized, lock, gate, held>>
        <5>1. pc' = [pc EXCEPT ![c] = "rollback"] OBVIOUS
        <5>2. UNCHANGED <<initialized, lock, gate, held>> OBVIOUS
        <5>3. QED BY <5>1, <5>2
      <4>3. why'[c] = None => tries'[c] < Attempts BY <1>a
      <4>4. QED BY <3>1, <4>1, <4>2, <4>3
    <3>2. CASE d # c BY <3>2 DEF HoldsLock, Phases
    <3>3. QED BY <3>1, <3>2
  <2>4. QED BY <2>1, <2>2, <2>3
<1>15. CASE Cancelled(c) /\ WhileOpening(c)
  BY <1>15, <1>a, <1>b DEF Cancelled, WhileOpening, Begun, Endings, Open, HoldsLock, StillTheLock, Phases, Goes, Asks, Fails, Fault, Leaves, Unlocks, Fresh, RollsBack, RetriedFrom, After, callerVars, gateVars, connVars, boundVars
<1>q. QED BY <1>1, <1>2, <1>3, <1>4, <1>5, <1>6, <1>7, <1>8, <1>9, <1>10, <1>11, <1>12, <1>13, <1>14, <1>15 DEF GoesOn, Cancelled

LEMMA NextLocks == LockInv /\ GateTypeOK' /\ [GateNext]_writeVars => LockSound'
<1> SUFFICES ASSUME LockInv, GateTypeOK', [GateNext]_writeVars PROVE LockSound' OBVIOUS
<1> USE DEF GateTypeOK, LockInv, LockSound, LocksTypeOK
<1>a. MaxFaults \in Nat /\ MaxStops \in Nat /\ MaxCloses \in Nat
      /\ None \notin Callers /\ Closer \notin Callers /\ None # Closer
      /\ None \notin {"error", "cancelled"}
  BY WriteGateAssumption DEF None, Closer
<1>b. gate \in Nat /\ (gate # 0 => gate \in Gates) BY <1>a, GateBound
<1>1. CASE UNCHANGED writeVars
  BY <1>1 DEF writeVars, callerVars, gateVars, connVars, boundVars, Begun, Endings, Open, HoldsLock
<1>2. CASE ThreadDoes
  <2>1. faults' \in {faults, faults + 1} BY <1>2 DEF ThreadDoes, Fails, Fault, boundVars
  <2>2. UNCHANGED <<pc, lock, tries, why, held, gate, initialized, life, closing, closes, stops>>
    BY <1>2 DEF ThreadDoes, Fails, gateVars, boundVars
  <2>3. gate' <= Begun' BY <2>1, <2>2, <1>b, FaultCounts
  <2>4. QED BY <2>2, <2>3 DEF HoldsLock
<1>3. CASE CloseStarts
  BY <1>3, <1>a, <1>b DEF CloseStarts, callerVars, connVars, boundVars, Begun, Endings, Open, HoldsLock
<1>4. CASE CloseLocks
  BY <1>4, <1>a, <1>b DEF CloseLocks, callerVars, connVars, boundVars, Begun, Endings, Open, HoldsLock, Phases
<1>5. CASE CloseEnds
  BY <1>5, <1>a, <1>b DEF CloseEnds, callerVars, connVars, boundVars, Begun, Endings, Open, HoldsLock, Phases
<1>6. QED BY <1>1, <1>2, <1>3, <1>4, <1>5, CallerKeepsLocks DEF GateNext, Closes

-----------------------------------------------------------------------------
(* What is sent and what is open.                                          *)
LEMMA EmptyIsSound == ASSUME txn' = None, ops' = <<>> PROVE ConnSound'
<1>1. Len(ops') = 0 /\ DOMAIN ops' = {} OBVIOUS
<1>2. QED BY <1>1 DEF ConnSound, Own, Sent

LEMMA HolderSound ==
  ASSUME LockInv', NEW c \in Callers, HoldsLock(c)', Own(c)'
  PROVE  ConnSound'
<1>1. \A d \in Callers \ {c} : ~HoldsLock(d)' BY DEF LockInv, LockSound
<1>2. QED BY <1>1 DEF ConnSound

LEMMA LastIs == ASSUME NEW S, NEW s \in Seq(S), s # <<>> PROVE s[Len(s)] \in S
<1>1. Len(s) \in Nat \ {0} BY EmptySeq
<1>2. s \in [1..Len(s) -> S] BY LenProperties
<1>3. Len(s) \in 1..Len(s) BY <1>1
<1>4. QED BY <1>2, <1>3

(* Whoever waits for nothing of the connection has sent nothing.           *)
LEMMA AnsweredIsEmpty ==
  ASSUME LockInv, ConnSound, NEW c \in Callers, HoldsLock(c),
         reply[c] # None \/ pc[c] \notin Phases
  PROVE  ops = <<>>
<1>1. ops \in Seq([by: Callers, op: Phases]) BY DEF LockInv, GateTypeOK, ConnTypeOK
<1>2. ops # <<>> => ops[Len(ops)] \in [by: Callers, op: Phases] BY <1>1, LastIs
<1>3. ops # <<>> => pc[c] \in Phases /\ reply[c] = None BY <1>2 DEF ConnSound, Own, Sent
<1>4. QED BY <1>3

LEMMA AskIsSound ==
  ASSUME LockInv, LockInv', ConnSound, NEW c \in Callers, HoldsLock(c),
         NEW op \in Phases, Asks(c, op), UNCHANGED txn,
         \A i \in DOMAIN ops : ops[i].op # op, ops # <<>> => op = "rollback"
  PROVE  ConnSound'
<1> DEFINE new == [by |-> c, op |-> op]
<1>1. /\ ops \in Seq([by: Callers, op: Phases]) /\ ops' = Append(ops, new)
      /\ pc' = [pc EXCEPT ![c] = op] /\ reply' = [reply EXCEPT ![c] = None]
  BY DEF LockInv, GateTypeOK, ConnTypeOK, Asks, Goes
<1>2. pc'[c] = op /\ reply'[c] = None
  BY <1>1 DEF LockInv, GateTypeOK, CallersTypeOK
<1>3. new \in [by: Callers, op: Phases] OBVIOUS
<1>4. /\ Len(ops) \in Nat /\ Len(ops') = Len(ops) + 1 /\ DOMAIN ops' = 1..Len(ops) + 1
      /\ \A i \in 1..Len(ops) : ops'[i] = ops[i]
      /\ ops'[Len(ops) + 1] = new /\ DOMAIN ops = 1..Len(ops)
  BY <1>1, <1>3, AppendProperties, LenProperties
<1>5. Own(c) BY DEF ConnSound
<1>6. Sent(c)'
  <2>1. ASSUME NEW i \in DOMAIN ops'
        PROVE  ops'[i].by = c /\ (i < Len(ops') => ops'[i].op # pc'[c])
    <3>1. CASE i = Len(ops) + 1 BY <3>1, <1>4
    <3>2. CASE i \in DOMAIN ops BY <3>2, <1>2, <1>4, <1>5 DEF Own, Sent
    <3>3. QED BY <3>1, <3>2, <1>4
  <2>2. reply'[c] = None /\ ops'[Len(ops')].op = pc'[c] BY <1>2, <1>4
  <2>3. pc'[c] # "rollback" => Len(ops') <= 1
    <3>1. ops = <<>> => Len(ops) = 0 BY <1>1
    <3>2. QED BY <3>1, <1>2, <1>4
  <2>4. QED BY <2>1, <2>2, <2>3 DEF Sent
<1>7. Own(c)' BY <1>2, <1>5, <1>6 DEF Own, Clean, Phases, None
<1>8. HoldsLock(c)' BY <1>2 DEF HoldsLock
<1>9. QED BY <1>7, <1>8, HolderSound

(* A step that sends and opens nothing, and changes no holder.             *)
LEMMA ElsewhereIsSound ==
  ASSUME ConnSound, UNCHANGED <<ops, txn>>,
         \A d \in Callers : \/ HoldsLock(d)' /\ HoldsLock(d) /\ pc'[d] = pc[d] /\ reply'[d] = reply[d]
                            \/ ~HoldsLock(d)' /\ ~HoldsLock(d)
  PROVE  ConnSound'
<1>1. (\A c \in Callers : ~HoldsLock(c))' => txn' = None /\ ops' = <<>> BY DEF ConnSound
<1>2. ASSUME NEW c \in Callers, HoldsLock(c)' PROVE Own(c)'
  BY <1>2 DEF ConnSound, Own, Sent, Clean
<1>3. QED BY <1>1, <1>2 DEF ConnSound

LEMMA CallerKeepsConn ==
  ASSUME LockInv, LockInv', ConnSound, NEW c \in Callers, GoesOn(c) \/ Cancelled(c)
  PROVE  ConnSound'
<1>t. /\ pc \in [Callers -> {"enter", "init", "opening", "wait", "writer", "reopen", "backoff", "done"} \cup Phases]
      /\ reply \in [Callers -> {None, "ok", "busy", "error"}] /\ None \notin {"ok", "busy", "error"}
      /\ None \notin Callers
  BY WriteGateAssumption DEF LockInv, GateTypeOK, CallersTypeOK, None
<1>o. HoldsLock(c) => Own(c) BY DEF ConnSound
<1>n. ops = <<>> => \A op \in Phases : (\A i \in DOMAIN ops : ops[i].op # op) OBVIOUS
<1>1. CASE Enters(c)
  BY <1>1, <1>t, ElsewhereIsSound DEF Enters, Goes, HoldsLock, Phases, connVars
<1>2. CASE InitStarts(c)
  BY <1>2, <1>t, ElsewhereIsSound DEF InitStarts, Goes, HoldsLock, Phases, connVars
<1>3. CASE InitEnds(c)
  <2>1. CASE Fresh BY <2>1, EmptyIsSound DEF Fresh
  <2>2. CASE Leaves(c, "error") /\ UNCHANGED <<ops, txn, reply>>
    BY <1>3, <2>2, <1>t, ElsewhereIsSound DEF InitEnds, Leaves, Goes, HoldsLock, Phases
  <2>3. QED BY <1>3, <2>1, <2>2 DEF InitEnds
<1>4. CASE Acquires(c)
  <2>1. CASE StillTheLock(c)
    <3>1. \A d \in Callers : ~HoldsLock(d)
      BY <2>1, <1>4, <1>t DEF Acquires, StillTheLock, LockInv, LockSound
    <3>2. txn' = None /\ ops' = <<>> BY <1>4, <3>1 DEF ConnSound, Acquires, connVars
    <3>3. QED BY <3>2, EmptyIsSound
  <2>2. CASE ~StillTheLock(c)
    BY <1>4, <2>2, <1>t, ElsewhereIsSound DEF Acquires, Goes, HoldsLock, Phases, connVars
  <2>3. QED BY <2>1, <2>2
<1>5. CASE TakesWriter(c)
  <2>1. HoldsLock(c) /\ pc[c] \notin Phases BY <1>5 DEF TakesWriter, HoldsLock, Phases
  <2>2. ops = <<>> /\ txn = None BY <2>1, <1>5, <1>o, AnsweredIsEmpty DEF Own, Clean, TakesWriter
  <2>3. CASE writer
    <3>1. Asks(c, "begin") /\ UNCHANGED txn BY <2>3, <1>5 DEF TakesWriter
    <3>2. QED BY <3>1, <2>1, <2>2, <1>n, AskIsSound DEF Phases
  <2>4. CASE ~writer BY <2>4, <2>2, <1>5, EmptyIsSound DEF TakesWriter
  <2>5. QED BY <2>3, <2>4
<1>6. CASE Reopens(c)
  <2>1. HoldsLock(c) /\ pc[c] \notin Phases BY <1>6 DEF Reopens, HoldsLock, Phases
  <2>2. ops = <<>> /\ txn = None BY <2>1, <1>6, <1>o, AnsweredIsEmpty DEF Own, Clean, Reopens
  <2>3. QED BY <2>2, <1>6, EmptyIsSound DEF Reopens, Fresh
<1>7. CASE Continues(c)
  <2>1. HoldsLock(c) /\ reply[c] # None
    BY <1>7, <1>t DEF Continues, HoldsLock, Phases, After
  <2>2. ops = <<>> BY <2>1, AnsweredIsEmpty
  <2>3. CASE pc[c] \in DOMAIN After
    <3>1. Asks(c, After[pc[c]]) /\ UNCHANGED txn /\ After[pc[c]] \in Phases
      BY <2>3, <1>7 DEF Continues, After, Phases
    <3>2. QED BY <3>1, <2>1, <2>2, <1>n, AskIsSound
  <2>4. CASE pc[c] = "commit"
    <3>1. txn = None BY <2>1, <2>4, <1>7, <1>o DEF Own, Clean, Continues
    <3>2. ops' = ops /\ txn' = txn BY <2>4, <1>7 DEF Continues, After
    <3>3. QED BY <3>1, <3>2, <2>2, EmptyIsSound
  <2>5. QED BY <1>7, <2>3, <2>4 DEF Continues
<1>8. CASE Fumbles(c)
  <2>1. HoldsLock(c) /\ reply[c] # None BY <1>8, <1>t DEF Fumbles, HoldsLock, Phases
  <2>2. ops = <<>> BY <2>1, AnsweredIsEmpty
  <2>3. Asks(c, "rollback") /\ UNCHANGED txn BY <1>8 DEF Fumbles, RollsBack
  <2>4. QED BY <2>1, <2>2, <2>3, <1>n, AskIsSound DEF Phases
<1>9. CASE RolledBack(c)
  <2>1. HoldsLock(c) /\ reply[c] # None BY <1>9, <1>t DEF RolledBack, HoldsLock, Phases
  <2>2. ops = <<>> /\ txn = None
    BY <2>1, <1>9, <1>o, AnsweredIsEmpty DEF Own, Clean, RolledBack
  <2>3. QED BY <2>2, <1>9, EmptyIsSound DEF RolledBack, connVars
<1>10. CASE Retries(c)
  <2>1. HoldsLock(c) /\ pc[c] \notin Phases BY <1>10 DEF Retries, HoldsLock, Phases
  <2>2. ops = <<>> BY <2>1, AnsweredIsEmpty
  <2>3. Asks(c, "begin") /\ UNCHANGED txn BY <1>10 DEF Retries, RetriedFrom
  <2>4. QED BY <2>1, <2>2, <2>3, <1>n, AskIsSound DEF Phases
<1>11. CASE Discards(c)
  <2>1. HoldsLock(c) /\ reply[c] # None BY <1>11, <1>t DEF Discards, HoldsLock, Phases
  <2>2. ops = <<>> BY <2>1, AnsweredIsEmpty
  <2>3. Asks(c, "discard") /\ UNCHANGED txn BY <1>11 DEF Discards
  <2>4. QED BY <2>1, <2>2, <2>3, <1>n, AskIsSound DEF Phases
<1>12. CASE Discarded(c)
  <2>1. HoldsLock(c) /\ reply[c] # None BY <1>12, <1>t DEF Discarded, HoldsLock, Phases
  <2>2. ops = <<>> /\ txn = None
    BY <2>1, <1>12, <1>o, AnsweredIsEmpty DEF Own, Clean, Discarded
  <2>3. QED BY <2>2, <1>12, EmptyIsSound DEF Discarded, connVars
<1>13. CASE Cancelled(c) /\ WhileInTransaction(c)
  <2>1. HoldsLock(c) BY <1>13 DEF WhileInTransaction, HoldsLock, Phases
  <2>2. Asks(c, "rollback") /\ UNCHANGED txn
    BY <1>13 DEF Cancelled, WhileInTransaction, RollsBack
  <2>3. pc[c] # "rollback" BY <1>13 DEF WhileInTransaction
  <2>4. \A i \in DOMAIN ops : ops[i].op # "rollback"
    <3>1. ops \in Seq([by: Callers, op: Phases]) BY DEF LockInv, GateTypeOK, ConnTypeOK
    <3>2. Sent(c) /\ Len(ops) <= 1 BY <2>1, <2>3, <1>o DEF Own, Sent
    <3>3. \A i \in DOMAIN ops : i = Len(ops) /\ ops # <<>> BY <3>1, <3>2
    <3>4. QED BY <3>2, <3>3, <2>3 DEF Sent
  <2>5. QED BY <2>1, <2>2, <2>4, AskIsSound DEF Phases
<1>14. CASE Cancelled(c) /\ WhileRollingBack(c)
  <2>1. UNCHANGED <<pc, reply, ops, txn>> BY <1>14 DEF Cancelled, WhileRollingBack
  <2>2. QED BY <2>1, ElsewhereIsSound DEF HoldsLock
<1>15. CASE Cancelled(c) /\ WhileOpening(c)
  <2>1. UNCHANGED <<reply, ops, txn>> /\ pc' = [pc EXCEPT ![c] = "done"]
    BY <1>15 DEF Cancelled, WhileOpening, Leaves, Goes
  <2>2. CASE HoldsLock(c)
    <3>1. pc[c] \notin Phases /\ Clean(c)
      BY <2>2, <1>15 DEF WhileOpening, HoldsLock, Phases, Clean
    <3>2. ops = <<>> /\ txn = None BY <3>1, <2>2, <1>o, AnsweredIsEmpty DEF Own
    <3>3. QED BY <3>2, <2>1, EmptyIsSound
  <2>3. CASE ~HoldsLock(c)
    BY <2>1, <2>3, <1>t, ElsewhereIsSound DEF HoldsLock, Phases
  <2>4. QED BY <2>2, <2>3
<1>16. QED BY <1>1, <1>2, <1>3, <1>4, <1>5, <1>6, <1>7, <1>8, <1>9, <1>10, <1>11, <1>12, <1>13,
             <1>14, <1>15 DEF GoesOn, Cancelled

LEMMA NextConn == LockInv /\ LockInv' /\ ConnSound /\ [GateNext]_writeVars => ConnSound'
<1> SUFFICES ASSUME LockInv, LockInv', ConnSound, [GateNext]_writeVars PROVE ConnSound' OBVIOUS
<1>1. CASE UNCHANGED <<pc, reply, ops, txn>>
  BY <1>1, ElsewhereIsSound DEF HoldsLock
<1>2. CASE ThreadDoes
  <2> DEFINE op == Head(ops)
             c == op.by
  <2>1. /\ ops \in Seq([by: Callers, op: Phases]) /\ ops # <<>> /\ ops' = Tail(ops)
        /\ UNCHANGED pc
    BY <1>2 DEF ThreadDoes, LockInv, GateTypeOK, ConnTypeOK
  <2>2. PICK h \in Callers : HoldsLock(h) BY <2>1 DEF ConnSound
  <2>3. /\ Len(ops) \in Nat \ {0} /\ op = ops[1] /\ DOMAIN ops = 1..Len(ops)
        /\ Len(ops') = Len(ops) - 1 /\ DOMAIN ops' = 1..Len(ops) - 1
        /\ \A i \in 1..Len(ops) - 1 : ops'[i] = ops[i + 1]
    BY <2>1, EmptySeq, LenProperties, HeadTailProperties
  <2>4. Own(h) BY <2>2 DEF ConnSound
  <2>5. c = h /\ reply[h] = None /\ op.op \in Phases
    <3>1. op \in [by: Callers, op: Phases] BY <2>1, HeadTailProperties
    <3>2. 1 \in DOMAIN ops BY <2>3
    <3>3. Sent(h) BY <2>4 DEF Own
    <3>4. op.by = h BY <2>3, <3>2, <3>3 DEF Sent
    <3>5. QED BY <2>1, <3>1, <3>3, <3>4 DEF Sent
  <2>6. reply \in [Callers -> {None, "ok", "busy", "error"}] /\ None # "ok"
    BY DEF LockInv, GateTypeOK, CallersTypeOK, None
  <2>7. txn' \in {None, h}
    BY <1>2, <2>4, <2>5 DEF ThreadDoes, Does, Own
  <2>8. Sent(h)' /\ (Clean(h)' => txn' = None)
    <3>1. CASE Len(ops) = 1
      <4>1. Sent(h)'
        <5>1. ops' = <<>> BY <3>1, <2>1, <2>3, EmptySeq, HeadTailProperties
        <5>2. Len(ops') = 0 /\ DOMAIN ops' = {} BY <3>1, <2>3
        <5>3. QED BY <5>1, <5>2 DEF Sent
      <4>2. op.op = pc[h] BY <3>1, <2>1, <2>3, <2>4 DEF Own, Sent
      <4>3. ASSUME Clean(h)' PROVE txn' = None
        <5>1. pc[h] \in {"commit", "rollback", "discard"} /\ reply'[h] = "ok"
          BY <4>2, <4>3, <2>1, <2>5 DEF Clean, Phases
        <5>2. Does(op) BY <1>2, <5>1, <4>2, <2>5, <2>6 DEF ThreadDoes, Replies
        <5>3. QED BY <5>1, <5>2, <4>2 DEF Does
      <4>4. QED BY <4>1, <4>3
    <3>2. CASE Len(ops) > 1
      <4>1. op.op # pc[h] BY <3>2, <2>3, <2>4 DEF Own, Sent
      <4>2. reply'[h] = None
        BY <1>2, <4>1, <2>5, <2>6 DEF ThreadDoes, Replies
      <4>3. ops'[Len(ops')] = ops[Len(ops)] BY <3>2, <2>3
      <4>4. ASSUME NEW i \in DOMAIN ops'
            PROVE  ops'[i].by = h /\ (i < Len(ops') => ops'[i].op # pc'[h])
        <5>1. i + 1 \in DOMAIN ops /\ ops'[i] = ops[i + 1] /\ (i < Len(ops') => i + 1 < Len(ops))
          BY <2>3
        <5>2. QED BY <5>1, <2>1, <2>4 DEF Own, Sent
      <4>5. Sent(h)' BY <4>2, <4>3, <4>4, <2>1, <2>3, <2>4 DEF Own, Sent
      <4>6. pc[h] \in Phases
        <5>1. ops[Len(ops)] \in [by: Callers, op: Phases] BY <2>1, LastIs
        <5>2. QED BY <5>1, <2>1, <2>4 DEF Own, Sent
      <4>7. ~Clean(h)' BY <4>2, <4>6, <2>1, <2>6 DEF Clean, Phases
      <4>8. QED BY <4>5, <4>7
    <3>3. QED BY <3>1, <3>2, <2>3
  <2>9. HoldsLock(h)' BY <2>1, <2>2 DEF HoldsLock
  <2>10. QED BY <2>7, <2>8, <2>9, HolderSound DEF Own
<1>3. CASE CloseEnds BY <1>3, EmptyIsSound DEF CloseEnds
<1>4. CASE CloseStarts \/ CloseLocks \/ UNCHANGED writeVars
  BY <1>1, <1>4 DEF CloseStarts, CloseLocks, callerVars, connVars, writeVars
<1>5. QED BY <1>2, <1>3, <1>4, CallerKeepsConn DEF GateNext, Closes

-----------------------------------------------------------------------------
(* The inductive invariant of the writer gate.                             *)
THEOREM GateStaysSound == GateSpec => [](LockInv /\ ConnSound)
<1>1. LockInv /\ ConnSound /\ [GateNext]_writeVars => (LockInv /\ ConnSound)'
  <2> SUFFICES ASSUME LockInv, ConnSound, [GateNext]_writeVars PROVE (LockInv /\ ConnSound)'
    OBVIOUS
  <2>1. LockInv' BY NextTypes, NextLocks DEF LockInv
  <2>2. QED BY <2>1, NextConn
<1>2. QED BY <1>1, InitGate, PTL DEF GateSpec

(* No transaction outlives its caller's hold of the lock in force, and     *)
(* nothing on its way to the connection is another's: for any number of    *)
(* callers, whatever fails or is cancelled, and while close and init       *)
(* replace the lock and the connection (_write_gate, _finish_cleanup).     *)
THEOREM TransactionsAreOwn == GateSpec => []OwnTransaction
<1>1. LockInv /\ ConnSound => OwnTransaction
  <2> SUFFICES ASSUME LockInv, ConnSound PROVE OwnTransaction OBVIOUS
  <2>1. CASE \A c \in Callers : ~HoldsLock(c)
    <3>1. txn = None /\ ops = <<>> BY <2>1 DEF ConnSound
    <3>2. QED BY <3>1 DEF OwnTransaction
  <2>2. ASSUME NEW c \in Callers, HoldsLock(c) PROVE OwnTransaction
    <3>1. held[gate] = c BY <2>2 DEF LockInv, LockSound
    <3>2. QED BY <3>1, <2>2 DEF ConnSound, Own, Sent, OwnTransaction
  <2>3. QED BY <2>1, <2>2
<1>2. QED BY <1>1, GateStaysSound, PTL
-----------------------------------------------------------------------------
(***************************************************************************)
(* Proof that a caller is told what became of its mutation: what the       *)
(* connection did for it agrees with where it is, and what it will report. *)
(***************************************************************************)
Whole == {"first", "second"}

(* What a transaction holds when a statement, or the commit, is carried    *)
(* out.                                                                    *)
Before == [first |-> {}, second |-> {"first"}, commit |-> Whole]

NotCommitted(c) ==
  \/ pc[c] \in {"enter", "init", "opening", "wait", "writer", "reopen", "backoff", "begin", "first", "second"}
  \/ pc[c] = "commit" /\ reply[c] # "ok"
  \/ pc[c] \in {"rollback", "discard"} /\ why[c] # "cancelled"

StoredOf(c) ==
  /\ stored[c] \in {{}, Whole}
  /\ result[c] # None => pc[c] = "done"
  /\ NotCommitted(c) => stored[c] = {}
  /\ pc[c] = "commit" /\ reply[c] = "ok" => stored[c] = Whole
  /\ result[c] = "ok" => stored[c] = Whole
  /\ result[c] = "error" /\ why[c] # "cancelled" => stored[c] = {}

(* Of the holder: its transaction is as far as it is; and what it gave up  *)
(* on in the middle, cancelled, may still be carried out before it rolls   *)
(* back.                                                                   *)
Ready(c, op) == op \in DOMAIN Before => txn = c /\ dirty = Before[op]

Written(c) ==
  /\ pc[c] \in DOMAIN Before /\ reply[c] = None => Ready(c, pc[c])
  /\ pc[c] \in DOMAIN After /\ reply[c] = "ok" => Ready(c, After[pc[c]])
  /\ pc[c] = "rollback" /\ Len(ops) > 1 =>
       /\ Len(ops) = 2 /\ why[c] = "cancelled" /\ stored[c] = {}
       /\ ops[1].op \in {"begin", "first", "second", "commit"} /\ Ready(c, ops[1].op)

StoredSound == \A c \in Callers : StoredOf(c) /\ (HoldsLock(c) => Written(c))

-----------------------------------------------------------------------------
(* At first nothing is written.                                            *)
LEMMA InitStored == GateInit => StoredSound
BY DEF GateInit, StoredSound, StoredOf, NotCommitted, HoldsLock, Phases, None

(* One caller's step: those of the others who hold nothing are as far as   *)
(* they were, and so is a holder while its connection is left alone.       *)
LEMMA OthersStored ==
  ASSUME StoredSound, NEW c \in Callers, StoredOf(c)', HoldsLock(c)' => Written(c)',
         \A d \in Callers : d # c =>
           /\ pc'[d] = pc[d] /\ reply'[d] = reply[d] /\ why'[d] = why[d]
           /\ result'[d] = result[d] /\ stored'[d] = stored[d],
         (\E d \in Callers : d # c /\ HoldsLock(d)) => UNCHANGED <<ops, txn, dirty>>
  PROVE  StoredSound'
<1>1. ASSUME NEW d \in Callers, d # c PROVE StoredOf(d)' /\ (HoldsLock(d)' => Written(d)')
  <2>1. StoredOf(d)' BY <1>1 DEF StoredSound, StoredOf, NotCommitted
  <2>2. ASSUME HoldsLock(d)' PROVE Written(d)'
    <3>1. HoldsLock(d) BY <1>1, <2>2 DEF HoldsLock
    <3>2. UNCHANGED <<ops, txn, dirty>> BY <1>1, <3>1
    <3>3. QED BY <1>1, <3>1, <3>2 DEF StoredSound, Written, Ready
  <2>3. QED BY <2>1, <2>2
<1>2. QED BY <1>1 DEF StoredSound

(* Where a caller goes only it goes; what it sends is all that is on its   *)
(* way, unless it gave up on something.                                    *)
LEMMA GoesIs ==
  ASSUME CallersTypeOK, NEW c \in Callers, NEW to, Goes(c, to)
  PROVE  pc'[c] = to /\ \A d \in Callers : d # c => pc'[d] = pc[d]
BY DEF CallersTypeOK, Goes

LEMMA LeavesIs ==
  ASSUME CallersTypeOK, NEW c \in Callers, NEW r, Leaves(c, r)
  PROVE  /\ pc'[c] = "done" /\ result'[c] = r
         /\ \A d \in Callers : d # c => pc'[d] = pc[d] /\ result'[d] = result[d]
BY DEF CallersTypeOK, Leaves, Goes

LEMMA AsksIs ==
  ASSUME GateTypeOK, NEW c \in Callers, NEW op \in Phases, Asks(c, op)
  PROVE  /\ pc'[c] = op /\ reply'[c] = None
         /\ \A d \in Callers : d # c => pc'[d] = pc[d] /\ reply'[d] = reply[d]
         /\ Len(ops') = Len(ops) + 1 /\ Len(ops) \in Nat
         /\ ops = <<>> => Len(ops') = 1
         /\ ops # <<>> => ops'[1] = ops[1]
<1>1. ops \in Seq([by: Callers, op: Phases]) /\ [by |-> c, op |-> op] \in [by: Callers, op: Phases]
  BY DEF GateTypeOK, ConnTypeOK
<1>2. ops' = Append(ops, [by |-> c, op |-> op]) BY DEF Asks
<1>3. /\ Len(ops) \in Nat /\ Len(ops') = Len(ops) + 1
      /\ \A i \in 1..Len(ops) : ops'[i] = ops[i]
  BY <1>1, <1>2, AppendProperties, LenProperties
<1>4. ops # <<>> => 1 \in 1..Len(ops) BY <1>1, <1>3, EmptySeq
<1>5. ops = <<>> => Len(ops) = 0 OBVIOUS
<1>6. pc'[c] = op /\ reply'[c] = None
      /\ \A d \in Callers : d # c => pc'[d] = pc[d] /\ reply'[d] = reply[d]
  BY DEF Asks, Goes, GateTypeOK, CallersTypeOK
<1>7. QED BY <1>3, <1>4, <1>5, <1>6

(* The number of operations on their way to a thread that may hold one.    *)
LEMMA OneOf == ASSUME NEW n \in Nat, n # 0, n <= 1 PROVE n = 1
OBVIOUS

(* What a caller does, by where it is.                                     *)
LEMMA CallerKeepsStored ==
  ASSUME LockInv, ConnSound, StoredSound, NEW c \in Callers, GoesOn(c) \/ Cancelled(c)
  PROVE  StoredSound'
<1>1. /\ GateTypeOK /\ CallersTypeOK
      /\ pc[c] \in {"enter", "init", "opening", "wait", "writer", "reopen", "backoff", "done"} \cup Phases
      /\ reply[c] \in {None, "ok", "busy", "error"} /\ why[c] \in {None, "error", "cancelled"}
      /\ None \notin {"ok", "busy", "error", "cancelled"}
  BY DEF LockInv, GateTypeOK, CallersTypeOK, None
<1>2. StoredOf(c) /\ (HoldsLock(c) => Written(c)) BY DEF StoredSound
<1>3. HoldsLock(c) => \A d \in Callers : d # c => ~HoldsLock(d) BY DEF LockInv, LockSound
<1>4. HoldsLock(c) /\ (reply[c] # None \/ pc[c] \notin Phases) => ops = <<>> BY AnsweredIsEmpty
<1> USE DEF StoredOf, NotCommitted
<1>5. CASE Enters(c) \/ InitStarts(c)
  <2>1. PICK to \in {"wait", "init", "enter", "opening"} : Goes(c, to)
    BY <1>5 DEF Enters, InitStarts
  <2>2. UNCHANGED <<reply, why, result, stored, ops, txn, dirty>>
        /\ pc[c] \in {"enter", "init"}
    BY <1>5 DEF Enters, InitStarts, connVars
  <2>3. ~HoldsLock(c)' BY <1>1, <2>1, GoesIs DEF HoldsLock, Phases
  <2>4. QED BY <1>1, <1>2, <2>1, <2>2, <2>3, GoesIs, OthersStored DEF Phases
<1>6. CASE InitEnds(c)
  <2>1. pc[c] = "opening" /\ UNCHANGED <<reply, why, stored>> BY <1>6 DEF InitEnds
  <2>2. \A d \in Callers : ~HoldsLock(d) BY <2>1 DEF LockInv, LockSound
  <2>3. CASE Goes(c, "enter") /\ UNCHANGED result
    <3>1. ~HoldsLock(c)' BY <1>1, <2>3, GoesIs DEF HoldsLock, Phases
    <3>2. QED BY <1>1, <1>2, <2>1, <2>2, <2>3, <3>1, GoesIs, OthersStored DEF Phases
  <2>4. CASE Leaves(c, "error")
    <3>1. ~HoldsLock(c)' BY <1>1, <2>4, LeavesIs DEF HoldsLock, Phases
    <3>2. QED BY <1>1, <1>2, <2>1, <2>2, <2>4, <3>1, LeavesIs, OthersStored DEF Phases
  <2>5. QED BY <1>6, <2>3, <2>4 DEF InitEnds
<1>7. CASE Acquires(c) \/ (TakesWriter(c) /\ ~writer)
  <2>1. PICK to \in {"writer", "enter", "reopen"} : Goes(c, to)
    BY <1>7 DEF Acquires, TakesWriter
  <2>2. UNCHANGED <<reply, why, result, stored, ops, txn, dirty>>
        /\ pc[c] \in {"wait", "writer"}
    BY <1>7 DEF Acquires, TakesWriter, connVars
  <2>3. Written(c)' BY <1>1, <2>1, GoesIs DEF Written, Before, After
  <2>4. QED BY <1>1, <1>2, <2>1, <2>2, <2>3, GoesIs, OthersStored DEF Phases
<1>8. CASE Reopens(c)
  <2>1. pc[c] = "reopen" /\ HoldsLock(c) /\ UNCHANGED <<reply, why, stored>>
    BY <1>8 DEF Reopens, HoldsLock
  <2>2. CASE Goes(c, "writer") /\ UNCHANGED result
    <3>1. Written(c)' BY <1>1, <2>2, GoesIs DEF Written, Before, After
    <3>2. QED BY <1>1, <1>2, <1>3, <2>1, <2>2, <3>1, GoesIs, OthersStored DEF Phases
  <2>3. CASE Leaves(c, "error")
    <3>1. ~HoldsLock(c)' BY <1>1, <2>3, LeavesIs DEF HoldsLock, Phases
    <3>2. QED BY <1>1, <1>2, <1>3, <2>1, <2>3, <3>1, LeavesIs, OthersStored DEF Phases
  <2>4. QED BY <1>8, <2>2, <2>3 DEF Reopens
<1>9. CASE (TakesWriter(c) /\ writer) \/ Retries(c)
  <2>1. Asks(c, "begin") /\ pc[c] \in {"writer", "backoff"} /\ UNCHANGED <<why, result, stored>>
    BY <1>9 DEF TakesWriter, Retries, RetriedFrom
  <2>2. HoldsLock(c) BY <2>1 DEF HoldsLock
  <2>3. pc'[c] = "begin" /\ reply'[c] = None BY <1>1, <2>1, AsksIs DEF Phases
  <2>4. Written(c)' BY <1>1, <2>3 DEF Written, Before, After
  <2>5. StoredOf(c)' BY <1>2, <2>1, <2>3
  <2>6. QED BY <1>1, <1>3, <2>1, <2>2, <2>4, <2>5, AsksIs, OthersStored DEF Phases
<1>10. CASE Continues(c) /\ pc[c] \in DOMAIN After
  <2>1. Asks(c, After[pc[c]]) /\ reply[c] = "ok" /\ After[pc[c]] \in Phases
        /\ UNCHANGED <<why, result, stored, txn, dirty>>
    BY <1>10 DEF Continues, After, Phases
  <2>2. HoldsLock(c) BY <1>10 DEF HoldsLock, After, Phases
  <2>3. pc'[c] = After[pc[c]] /\ reply'[c] = None BY <1>1, <2>1, AsksIs
  <2>4. pc'[c] \in {"first", "second", "commit"} /\ Ready(c, pc'[c])
    BY <1>2, <1>10, <2>1, <2>2, <2>3 DEF Written, After
  <2>5. Written(c)' BY <1>1, <2>1, <2>3, <2>4 DEF Written, After, Ready
  <2>6. StoredOf(c)' BY <1>1, <1>2, <1>10, <2>1, <2>3, <2>4 DEF After
  <2>7. QED BY <1>1, <1>3, <2>1, <2>2, <2>5, <2>6, AsksIs, OthersStored
<1>11. CASE Continues(c) /\ pc[c] = "commit"
  <2>1. Leaves(c, "ok") /\ reply[c] = "ok" /\ UNCHANGED <<reply, why, stored>>
    BY <1>11 DEF Continues, After
  <2>2. HoldsLock(c) BY <1>11 DEF HoldsLock, Phases
  <2>3. ~HoldsLock(c)' BY <1>1, <2>1, LeavesIs DEF HoldsLock, Phases
  <2>4. StoredOf(c)' BY <1>1, <1>2, <1>11, <2>1, LeavesIs
  <2>5. QED BY <1>1, <1>3, <2>1, <2>2, <2>3, <2>4, LeavesIs, OthersStored
<1>12. CASE Fumbles(c)
  <2>1. PICK reason \in {None, "error"} : RollsBack(c, reason) BY <1>12 DEF Fumbles
  <2>2. reply[c] \in {"busy", "error"} /\ pc[c] \in {"begin", "first", "second", "commit"}
        /\ UNCHANGED <<result, stored>>
    BY <1>12 DEF Fumbles
  <2>3. HoldsLock(c) BY <2>2 DEF HoldsLock, Phases
  <2>4. ops = <<>> BY <1>1, <1>4, <2>2, <2>3
  <2>5. /\ pc'[c] = "rollback" /\ reply'[c] = None /\ why'[c] = reason /\ Len(ops') = 1
        /\ \A d \in Callers : d # c => pc'[d] = pc[d] /\ reply'[d] = reply[d] /\ why'[d] = why[d]
    BY <1>1, <2>1, <2>4, AsksIs DEF RollsBack, Phases, CallersTypeOK
  <2>6. Written(c)' BY <1>1, <2>5 DEF Written, Before, After
  <2>7. StoredOf(c)' BY <1>1, <1>2, <2>2, <2>5
  <2>8. QED BY <1>3, <2>2, <2>3, <2>5, <2>6, <2>7, OthersStored
<1>13. CASE RolledBack(c)
  <2>1. pc[c] = "rollback" /\ reply[c] = "ok" /\ UNCHANGED <<reply, why, stored>>
    BY <1>13 DEF RolledBack, connVars
  <2>2. HoldsLock(c) BY <2>1 DEF HoldsLock, Phases
  <2>3. CASE why[c] = None
    <3>1. Goes(c, "backoff") /\ UNCHANGED result BY <1>13, <2>3 DEF RolledBack
    <3>2. Written(c)' BY <1>1, <3>1, GoesIs DEF Written, Before, After
    <3>3. StoredOf(c)' BY <1>1, <1>2, <2>1, <2>3, <3>1, GoesIs
    <3>4. QED BY <1>1, <1>3, <2>1, <2>2, <3>1, <3>2, <3>3, GoesIs, OthersStored
  <2>4. CASE why[c] # None
    <3>1. Leaves(c, why[c]) BY <1>13, <2>4 DEF RolledBack
    <3>2. ~HoldsLock(c)' BY <1>1, <3>1, LeavesIs DEF HoldsLock, Phases
    <3>3. StoredOf(c)' BY <1>1, <1>2, <2>1, <2>4, <3>1, LeavesIs
    <3>4. QED BY <1>1, <1>3, <2>1, <2>2, <3>1, <3>2, <3>3, LeavesIs, OthersStored
  <2>5. QED BY <2>3, <2>4
<1>14. CASE Discards(c)
  <2>1. Asks(c, "discard") /\ pc[c] = "rollback" /\ UNCHANGED <<why, result, stored>>
    BY <1>14 DEF Discards
  <2>2. HoldsLock(c) BY <2>1 DEF HoldsLock, Phases
  <2>3. pc'[c] = "discard" BY <1>1, <2>1, AsksIs DEF Phases
  <2>4. Written(c)' BY <2>3 DEF Written, Before, After
  <2>5. StoredOf(c)' BY <1>1, <1>2, <2>1, <2>3
  <2>6. QED BY <1>1, <1>3, <2>1, <2>2, <2>4, <2>5, AsksIs, OthersStored DEF Phases
<1>15. CASE Discarded(c)
  <2>1. Leaves(c, "error") /\ pc[c] = "discard" /\ UNCHANGED <<reply, why, stored>>
    BY <1>15 DEF Discarded, connVars
  <2>2. HoldsLock(c) BY <2>1 DEF HoldsLock, Phases
  <2>3. ~HoldsLock(c)' BY <1>1, <2>1, LeavesIs DEF HoldsLock, Phases
  <2>4. StoredOf(c)' BY <1>1, <1>2, <2>1, LeavesIs
  <2>5. QED BY <1>1, <1>3, <2>1, <2>2, <2>3, <2>4, LeavesIs, OthersStored
<1>16. CASE Cancelled(c) /\ WhileInTransaction(c)
  <2>1. RollsBack(c, "cancelled") /\ pc[c] \in {"begin", "first", "second", "commit"}
        /\ UNCHANGED <<result, stored, txn, dirty>>
    BY <1>16 DEF Cancelled, WhileInTransaction
  <2>2. HoldsLock(c) BY <2>1 DEF HoldsLock, Phases
  <2>3. /\ pc'[c] = "rollback" /\ reply'[c] = None /\ why'[c] = "cancelled"
        /\ \A d \in Callers : d # c => pc'[d] = pc[d] /\ reply'[d] = reply[d] /\ why'[d] = why[d]
        /\ Len(ops') = Len(ops) + 1 /\ Len(ops) \in Nat
        /\ ops = <<>> => Len(ops') = 1
        /\ ops # <<>> => ops'[1] = ops[1]
    BY <1>1, <2>1, AsksIs DEF RollsBack, Phases, CallersTypeOK
  <2>4. Sent(c) BY <2>2 DEF ConnSound, Own
  <2>5. Written(c)'
    <3>1. CASE ops = <<>> BY <1>1, <2>3, <3>1 DEF Written, Before, After
    <3>2. CASE ops # <<>>
      <4>1. Len(ops) = 1
        <5>1. ops \in Seq([by: Callers, op: Phases]) BY <1>1 DEF GateTypeOK, ConnTypeOK
        <5>2. Len(ops) # 0 BY <3>2, <5>1, EmptySeq
        <5>3. Len(ops) <= 1 BY <2>1, <2>4 DEF Sent
        <5>4. Len(ops) \in Nat BY <5>1, LenProperties
        <5>5. QED BY <5>2, <5>3, <5>4, OneOf
      <4>2. reply[c] = None /\ ops[1].op = pc[c] BY <2>4, <3>2, <4>1 DEF Sent
      <4>3. stored[c] = {} BY <1>1, <1>2, <2>1, <4>2
      <4>4. Ready(c, pc[c]) BY <1>2, <2>2, <4>2 DEF Written, Ready
      <4>5. QED BY <2>1, <2>3, <3>2, <4>1, <4>2, <4>3, <4>4 DEF Written, Before, After, Ready
    <3>3. QED BY <3>1, <3>2
  <2>6. StoredOf(c)' BY <1>1, <1>2, <2>1, <2>3
  <2>7. QED BY <1>3, <2>1, <2>2, <2>3, <2>5, <2>6, OthersStored
<1>17. CASE Cancelled(c) /\ WhileRollingBack(c)
  <2>1. pc[c] = "rollback" /\ UNCHANGED <<pc, ops, reply, result, stored, txn, dirty>>
        /\ why' = [why EXCEPT ![c] = "cancelled"]
    BY <1>17 DEF Cancelled, WhileRollingBack
  <2>2. HoldsLock(c) BY <2>1 DEF HoldsLock, Phases
  <2>3. why'[c] = "cancelled" /\ \A d \in Callers : d # c => why'[d] = why[d]
    BY <1>1, <2>1 DEF CallersTypeOK
  <2>4. Written(c)' BY <1>2, <2>1, <2>2, <2>3 DEF Written, Before, After, Ready
  <2>5. StoredOf(c)' BY <1>1, <1>2, <2>1, <2>3
  <2>6. QED BY <1>3, <2>1, <2>2, <2>3, <2>4, <2>5, OthersStored
<1>18. CASE Cancelled(c) /\ WhileOpening(c)
  <2>1. Leaves(c, "cancelled") /\ pc[c] \in {"reopen", "backoff", "opening", "init", "wait"}
        /\ UNCHANGED <<reply, why, stored, ops, txn, dirty>>
    BY <1>18 DEF Cancelled, WhileOpening
  <2>2. ~HoldsLock(c)' BY <1>1, <2>1, LeavesIs DEF HoldsLock, Phases
  <2>3. StoredOf(c)' BY <1>1, <1>2, <2>1, LeavesIs
  <2>4. QED BY <1>1, <2>1, <2>2, <2>3, LeavesIs, OthersStored
<1>19. TakesWriter(c) => writer \in BOOLEAN BY <1>1 DEF GateTypeOK, ConnTypeOK
<1>20. Continues(c) => pc[c] \in DOMAIN After \/ pc[c] = "commit" BY DEF Continues
<1>21. QED BY <1>5, <1>6, <1>7, <1>8, <1>9, <1>10, <1>11, <1>12, <1>13, <1>14, <1>15, <1>16, <1>17,
             <1>18, <1>19, <1>20 DEF GoesOn, Cancelled

(* What the thread does for the holder.                                    *)
LEMMA ThreadKeepsStored ==
  ASSUME LockInv, ConnSound, StoredSound, ThreadDoes
  PROVE  StoredSound'
<1> DEFINE op == Head(ops)
<1>1. /\ ops \in Seq([by: Callers, op: Phases]) /\ ops # <<>> /\ ops' = Tail(ops)
      /\ UNCHANGED <<pc, why, result>>
  BY DEF ThreadDoes, LockInv, GateTypeOK, ConnTypeOK
<1>2. PICK h \in Callers : HoldsLock(h) BY <1>1 DEF ConnSound
<1>3. \A d \in Callers : d # h => ~HoldsLock(d) BY <1>2 DEF LockInv, LockSound
<1>4. /\ Len(ops) \in Nat \ {0} /\ op = ops[1] /\ 1 \in DOMAIN ops /\ Len(ops') = Len(ops) - 1
  BY <1>1, EmptySeq, LenProperties, HeadTailProperties
<1>5. Sent(h) /\ txn \in {None, h} /\ StoredOf(h) /\ Written(h)
  BY <1>2 DEF ConnSound, Own, StoredSound
<1>6. op.by = h /\ reply[h] = None /\ op.op \in Phases
  <2>1. op \in [by: Callers, op: Phases] BY <1>1, HeadTailProperties
  <2>2. QED BY <1>1, <1>4, <1>5, <2>1 DEF Sent
<1>7. /\ reply \in [Callers -> {None, "ok", "busy", "error"}] /\ None \notin {"ok", "busy", "error"}
      /\ None \notin Callers /\ stored \in [Callers -> SUBSET Whole]
  BY WriteGateAssumption DEF LockInv, GateTypeOK, CallersTypeOK, ConnTypeOK, None, Whole
<1>8. \A d \in Callers : d # h => reply'[d] = reply[d] /\ stored'[d] = stored[d]
  BY <1>5, <1>6, <1>7 DEF ThreadDoes, Replies, Does, Commits
<1> HIDE DEF op
<1>9. CASE Len(ops) = 1
  <2>1. op.op = pc[h] BY <1>1, <1>4, <1>5, <1>9 DEF Sent
  <2>2. Len(ops') = 0 BY <1>4, <1>9
  <2>3. CASE reply'[h] \in {"busy", "error"} /\ stored' = stored
    <3>1. Written(h)' BY <1>1, <1>7, <2>2, <2>3 DEF Written
    <3>2. StoredOf(h)' BY <1>1, <1>5, <1>6, <1>7, <2>3 DEF StoredOf, NotCommitted
    <3>3. QED BY <1>1, <1>2, <1>3, <1>8, <3>1, <3>2, OthersStored
  <2>4. CASE Does(op) /\ reply'[h] = "ok"
    <3>1. CASE pc[h] = "begin"
      <4>1. txn' = h /\ dirty' = {} /\ stored' = stored BY <1>6, <2>1, <2>4, <3>1 DEF Does
      <4>2. Written(h)' BY <1>1, <1>7, <2>4, <3>1, <4>1 DEF Written, Ready, Before, After
      <4>3. StoredOf(h)' BY <1>1, <1>5, <3>1, <4>1 DEF StoredOf, NotCommitted
      <4>4. QED BY <1>1, <1>2, <1>3, <1>8, <4>2, <4>3, OthersStored
    <3>2. CASE pc[h] \in {"first", "second"}
      <4>1. txn = h /\ dirty = Before[pc[h]] BY <1>5, <1>6, <3>2 DEF Written, Ready, Before
      <4>2. txn' = h /\ dirty' = dirty \cup {pc[h]} /\ stored' = stored
        BY <1>7, <2>1, <2>4, <3>2, <4>1 DEF Does
      <4>3. dirty' = Before[After[pc[h]]] BY <3>2, <4>1, <4>2 DEF Before, After, Whole
      <4>4. Written(h)' BY <1>1, <1>7, <2>4, <3>2, <4>2, <4>3 DEF Written, Ready
      <4>5. StoredOf(h)' BY <1>1, <1>5, <3>2, <4>2 DEF StoredOf, NotCommitted
      <4>6. QED BY <1>1, <1>2, <1>3, <1>8, <4>4, <4>5, OthersStored
    <3>3. CASE pc[h] = "commit"
      <4>1. txn = h /\ dirty = Whole BY <1>5, <1>6, <3>3 DEF Written, Ready, Before
      <4>2. stored'[h] = stored[h] \cup Whole BY <1>7, <2>1, <2>4, <3>3, <4>1 DEF Does, Commits
      <4>3. stored'[h] = Whole BY <1>7, <4>2
      <4>4. Written(h)' BY <1>1, <1>7, <2>4, <3>3 DEF Written, After
      <4>5. StoredOf(h)' BY <1>1, <1>5, <1>7, <2>4, <3>3, <4>3 DEF StoredOf, NotCommitted
      <4>6. QED BY <1>1, <1>2, <1>3, <1>8, <4>4, <4>5, OthersStored
    <3>4. CASE pc[h] \in {"rollback", "discard"}
      <4>1. stored' = stored BY <2>1, <2>4, <3>4 DEF Does
      <4>2. Written(h)' BY <1>1, <2>2, <3>4 DEF Written, Before, After
      <4>3. StoredOf(h)' BY <1>1, <1>5, <3>4, <4>1 DEF StoredOf, NotCommitted
      <4>4. QED BY <1>1, <1>2, <1>3, <1>8, <4>2, <4>3, OthersStored
    <3>5. QED BY <1>6, <2>1, <3>1, <3>2, <3>3, <3>4 DEF Phases
  <2>5. QED BY <1>6, <1>7, <2>1, <2>3, <2>4 DEF ThreadDoes, Replies, op
<1>10. CASE Len(ops) > 1
  <2>1. pc[h] = "rollback" BY <1>4, <1>5, <1>10 DEF Sent
  <2>2. /\ Len(ops) = 2 /\ why[h] = "cancelled" /\ stored[h] = {}
        /\ op.op \in {"begin", "first", "second", "commit"} /\ Ready(h, op.op)
    BY <1>4, <1>5, <1>10, <2>1 DEF Written
  <2>3. Len(ops') = 1 BY <1>4, <2>2
  <2>4. stored'[h] \in {{}, Whole}
    <3>1. CASE Does(op)
      <4>1. CASE op.op = "commit"
        <5>1. txn = h /\ dirty = Whole BY <2>2, <4>1 DEF Ready, Before
        <5>2. stored'[h] = stored[h] \cup Whole BY <1>7, <3>1, <4>1, <5>1 DEF Does, Commits
        <5>3. QED BY <2>2, <5>2
      <4>2. CASE op.op = "begin" BY <2>2, <3>1, <4>2 DEF Does
      <4>3. CASE op.op \in {"first", "second"}
        <5>1. txn = h BY <2>2, <4>3 DEF Ready, Before
        <5>2. QED BY <1>7, <2>2, <3>1, <4>3, <5>1 DEF Does
      <4>4. QED BY <2>2, <4>1, <4>2, <4>3
    <3>2. CASE stored' = stored BY <2>2, <3>2
    <3>3. QED BY <3>1, <3>2 DEF ThreadDoes, op
  <2>5. Written(h)' BY <1>1, <2>1, <2>3 DEF Written, Before, After
  <2>6. StoredOf(h)' BY <1>1, <1>5, <2>1, <2>2, <2>4, <1>7 DEF StoredOf, NotCommitted
  <2>7. QED BY <1>1, <1>2, <1>3, <1>8, <2>5, <2>6, OthersStored
<1>11. QED BY <1>4, <1>9, <1>10

LEMMA NextStored == LockInv /\ ConnSound /\ StoredSound /\ [GateNext]_writeVars => StoredSound'
<1> SUFFICES ASSUME LockInv, ConnSound, StoredSound, [GateNext]_writeVars PROVE StoredSound' OBVIOUS
<1>1. CASE UNCHANGED <<pc, reply, why, result, stored, ops, txn, dirty>>
  BY <1>1 DEF StoredSound, StoredOf, NotCommitted, HoldsLock, Written, Ready
<1>2. CASE CloseEnds
  <2>1. UNCHANGED <<pc, reply, why, result, stored>> /\ closing = "conn"
    BY <1>2 DEF CloseEnds, callerVars
  <2>2. \A c \in Callers : ~HoldsLock(c)
    BY <2>1, WriteGateAssumption DEF LockInv, LockSound, Closer
  <2>3. QED BY <2>1, <2>2 DEF StoredSound, StoredOf, NotCommitted, HoldsLock
<1>3. CASE CloseStarts \/ CloseLocks \/ UNCHANGED writeVars
  BY <1>1, <1>3 DEF CloseStarts, CloseLocks, callerVars, connVars, writeVars
<1>4. QED BY <1>2, <1>3, CallerKeepsStored, ThreadKeepsStored DEF GateNext, Closes

-----------------------------------------------------------------------------
(* What a caller is told agrees with the connection throughout.            *)
THEOREM StoredStaysSound == GateSpec => []StoredSound
BY InitStored, NextStored, GateStaysSound, PTL DEF GateSpec

(* A mutation is stored whole or not at all; one reported done is stored,  *)
(* and one that failed is not unless it was also cancelled, whatever fails *)
(* or is retried and whoever is cancelled (_run_write_transaction).        *)
THEOREM ReportsAreTrue == GateSpec => []ReportedIsStored
<1>1. StoredSound => ReportedIsStored
  <2> SUFFICES ASSUME StoredSound, NEW c \in Callers
               PROVE  /\ (pc[c] = "done") => (stored[c] \in {{}, {"first", "second"}})
                      /\ (result[c] = "ok") => (stored[c] /= {})
                      /\ (result[c] = "error" /\ why[c] /= "cancelled") => (stored[c] = {})
    BY DEF ReportedIsStored
  <2>1. StoredOf(c) BY DEF StoredSound
  <2>2. Whole # {} BY DEF Whole
  <2>3. QED BY <2>1, <2>2 DEF StoredOf, Whole
<1>2. QED BY <1>1, StoredStaysSound, PTL
-----------------------------------------------------------------------------
(***************************************************************************)
(* Proof that a stop reaches the thread it is meant for and no other, and  *)
(* that what is reported as succeeded was not cut short, whatever the      *)
(* nodes do, for any graph.                                                *)
(***************************************************************************)
(* Where the engine's thread is says what its batch, its flags and its     *)
(* outcome may be.                                                         *)
StageSound ==
  /\ steps <= Len(nodeOf) /\ (stage = "head" => Batch = {})
  /\ stage # "over" => checker = "run" /\ final = "none"
  /\ stage = "over" => final # "none" /\ (checker = "residual" \/ (checker = "previous" /\ marked = {}))
  /\ event => stage \in {"kills", "over"} \/ (stage = "serial" /\ FatalLate)
  /\ stage = "kills" => event

(* A thread that runs is the one the engine waits for, or one of a pool;   *)
(* or it was given up on, and is marked unless the engine is ending its    *)
(* process.                                                                *)
ThreadSound(x) ==
  /\ thread[x] = "waits" => ending[x] = "none"
  /\ thread[x] \in Executing => ending[x] \in {"none", "timeout"}
  /\ thread[x] \in Executing /\ ending[x] = "none" => x > steps /\ (stage = "parallel" \/ Current(x))
  /\ thread[x] \in Executing /\ ending[x] = "timeout" =>
       x \in marked \/ (stage = "kills" /\ x > steps /\ x \notin shared)
  /\ x \in marked => thread[x] \in Executing /\ ending[x] = "timeout"
  /\ x \in shared => nodeOf[x] \notin isolated
  /\ stage = "drain" /\ x > steps => thread[x] = "waits"

(* What has been recorded did not end the run; and what the engine has     *)
(* begun to record will not.                                               *)
EndingSound(x) ==
  /\ x <= steps \/ stage = "record" => ending[x] \notin {"none", "cancelled"} /\ ~Failing(x)
  /\ ending[x] = "part" => overdue \/ wantStop
  /\ ending[x] = "part" /\ x <= steps => stage \in {"record", "over"}

RunSound ==
  /\ EngineTypeOK /\ StageSound /\ SuccessIsWhole
  /\ \A x \in DOMAIN nodeOf : ThreadSound(x) /\ EndingSound(x)

-----------------------------------------------------------------------------
(* The engine starts with nothing executed.                                *)
LEMMA InitRun == EngineInit => RunSound
<1> SUFFICES ASSUME EngineInit PROVE RunSound OBVIOUS
<1>1. queue \in Seq([to : Nodes, from : Nodes \cup {Caller}])
  BY EngineAssumption DEF EngineInit, Caller
<1>2. nodeOf = <<>> /\ nodeOf \in Seq(Nodes) /\ DOMAIN nodeOf = {} /\ Len(nodeOf) = 0
  BY DEF EngineInit
<1>3. thread \in [{} -> {"waits", "over"} \cup Executing] /\ ending \in [{} -> Outs]
  BY DEF EngineInit
<1>4. EngineTypeOK
  <2>1. isolated \subseteq Isolatable /\ fatal \subseteq Fatalable /\ {event, overdue, wantStop} \subseteq BOOLEAN
    BY DEF EngineInit
  <2>2. /\ heard \in [Nodes -> SUBSET (Nodes \cup {Caller})] /\ known \subseteq Nodes /\ steps \in Nat
        /\ {shared, marked} \subseteq SUBSET DOMAIN nodeOf
    BY DEF EngineInit
  <2>3. scope.owner \in Nat /\ scope.writers \subseteq DOMAIN nodeOf BY DEF EngineInit, NoScope
  <2>4. QED BY <1>1, <1>2, <1>3, <2>1, <2>2, <2>3 DEF EngineInit, EngineTypeOK
<1>5. QED
  BY <1>2, <1>4 DEF EngineInit, RunSound, StageSound, SuccessIsWhole, Batch, ThreadSound, EndingSound

(* What the types say of the executions.                                   *)
LEMMA Numbered ==
  ASSUME EngineTypeOK
  PROVE  /\ DOMAIN nodeOf = 1..Len(nodeOf) /\ Len(nodeOf) \in Nat /\ steps \in Nat
         /\ DOMAIN thread = DOMAIN nodeOf /\ DOMAIN ending = DOMAIN nodeOf
         /\ \A x \in DOMAIN nodeOf : x \in Nat /\ nodeOf[x] \in Nodes
         /\ Batch \subseteq DOMAIN nodeOf /\ Undecided \subseteq Batch
BY DEF EngineTypeOK, Batch, Undecided

(* The run is over: nothing runs that has not been given up on.            *)
LEMMA FinishKeeps ==
  ASSUME RunSound, stage # "over", NEW runStatus \in {"SUCCEEDED", "FAILED", "CANCELLED", "TIMED_OUT"},
         Finish(runStatus),
         UNCHANGED <<settings, graphState, thread, ending, marked, event, overdue, wantStop, scope>>,
         stage = "kills" => FALSE,
         \A x \in DOMAIN nodeOf : thread[x] \in Executing => ending[x] # "none",
         runStatus = "SUCCEEDED" => /\ \A x \in DOMAIN nodeOf : ending[x] # "part" /\ ~Failing(x)
                                 /\ \A n \in Nodes : heard[n] = {}
  PROVE  RunSound'
<1>1. /\ UNCHANGED <<isolated, fatal, queue, heard, known, steps, nodeOf, shared, thread, ending>>
      /\ UNCHANGED <<marked, event, overdue, wantStop, scope>>
  BY DEF settings, graphState
<1>2. stage' = "over" /\ final' = runStatus
      /\ checker' = IF \E x \in marked : thread[x] \in Executing THEN "residual" ELSE "previous"
  BY DEF Finish, CheckerAfter
<1>3. EngineTypeOK' BY <1>1, <1>2 DEF RunSound, EngineTypeOK
<1>4. ASSUME NEW x \in DOMAIN nodeOf PROVE ThreadSound(x)' /\ EndingSound(x)'
  <2>1. ThreadSound(x) /\ EndingSound(x) BY DEF RunSound
  <2>2. ThreadSound(x)' BY <1>1, <1>2, <2>1 DEF ThreadSound
  <2>3. EndingSound(x)' BY <1>1, <1>2, <2>1 DEF EndingSound, Failing
  <2>4. QED BY <2>2, <2>3
<1>5. \A x \in marked : thread[x] \in Executing
  BY DEF RunSound, EngineTypeOK, ThreadSound
<1>6. StageSound'
  BY <1>1, <1>2, <1>5 DEF RunSound, StageSound, Batch
<1>7. SuccessIsWhole' BY <1>1, <1>2 DEF SuccessIsWhole, Failing
<1>8. QED BY <1>1, <1>3, <1>4, <1>6, <1>7 DEF RunSound

(* A sequence one longer.                                                  *)
LEMMA Longer ==
  ASSUME NEW S, NEW n \in Nat, NEW f \in [1..n -> S], NEW e \in S
  PROVE  /\ Append(f, e) \in [1..(n + 1) -> S] /\ Append(f, e)[n + 1] = e
         /\ \A x \in 1..n : Append(f, e)[x] = f[x]
<1>1. f \in Seq(S) BY IsASeq
<1>2. Len(f) = n BY <1>1, LenProperties
<1>3. Append(f, e) \in Seq(S) /\ Len(Append(f, e)) = n + 1 BY <1>1, <1>2, AppendProperties
<1>4. DOMAIN Append(f, e) = 1..(n + 1) BY <1>3, LenProperties
<1>5. Append(f, e) \in [1..(n + 1) -> S] BY <1>3, <1>4, ElementOfSeq, LenProperties
<1>6. QED BY <1>1, <1>2, <1>5, AppendProperties

(* A delivery leaves the executions there are alone; what it adds waits.   *)
LEMMA DeliversKeeps == ASSUME RunSound, Delivers PROVE RunSound'
<1> DEFINE t == Head(queue)
<1>1. EngineTypeOK /\ StageSound BY DEF RunSound
<1>2. /\ queue # <<>> /\ stage \in {"head", "drain"} /\ stage' = "drain" /\ queue' = Tail(queue)
      /\ heard' = Heard(heard, t)
      /\ UNCHANGED <<isolated, fatal, steps, shared, marked, event, checker, overdue, wantStop, scope, final>>
  BY DEF Delivers, MayDeliver, settings
<1>3. queue \in Seq([to : Nodes, from : Nodes \cup {Caller}]) BY <1>1 DEF EngineTypeOK
<1>4. t \in [to : Nodes, from : Nodes \cup {Caller}] /\ queue' \in Seq([to : Nodes, from : Nodes \cup {Caller}])
  BY <1>2, <1>3, HeadTailProperties
<1>5. t.to \in Nodes /\ t.from \in Nodes \cup {Caller} BY <1>4
<1>6. heard' \in [Nodes -> SUBSET (Nodes \cup {Caller})] BY <1>1, <1>2, <1>5 DEF EngineTypeOK, Heard
<1>7. ~event /\ checker = "run" /\ final = "none" BY <1>1, <1>2 DEF StageSound
<1>8. CASE UNCHANGED <<known, nodeOf, thread, ending>>
  <2>1. EngineTypeOK' BY <1>1, <1>2, <1>4, <1>6, <1>8 DEF EngineTypeOK
  <2>2. StageSound' BY <1>1, <1>2, <1>7, <1>8 DEF StageSound
  <2>3. ASSUME NEW x \in DOMAIN nodeOf PROVE ThreadSound(x)' /\ EndingSound(x)'
    <3>1. ThreadSound(x) /\ EndingSound(x) BY DEF RunSound
    <3>2. stage = "head" => x <= steps BY <1>1, Numbered DEF StageSound, Batch
    <3>3. stage = "drain" => ~(thread[x] \in Executing /\ ending[x] = "none")
      BY <3>1 DEF ThreadSound, Executing
    <3>4. stage = "head" => ~(thread[x] \in Executing /\ ending[x] = "none")
      BY <3>1, <3>2, <1>1, Numbered DEF ThreadSound
    <3>5. ThreadSound(x)' BY <1>2, <1>8, <3>1, <3>2, <3>3, <3>4, <1>1, Numbered DEF ThreadSound
    <3>6. EndingSound(x)' BY <1>2, <1>8, <3>1 DEF EndingSound, Failing
    <3>7. QED BY <3>5, <3>6
  <2>4. SuccessIsWhole' BY <1>2, <1>7 DEF SuccessIsWhole
  <2>5. QED BY <1>8, <2>1, <2>2, <2>3, <2>4 DEF RunSound
<1>9. CASE /\ known' = known \cup {t.to} /\ nodeOf' = Append(nodeOf, t.to)
           /\ thread' = Append(thread, "waits") /\ ending' = Append(ending, "none")
  <2>0. PICK n : n = Len(nodeOf) OBVIOUS
  <2>1. /\ n = Len(nodeOf) /\ nodeOf \in Seq(Nodes) /\ n \in Nat /\ steps \in Nat /\ steps <= n /\ DOMAIN nodeOf = 1..n
        /\ DOMAIN thread = 1..n /\ DOMAIN ending = 1..n
    BY <1>1, <2>0, Numbered DEF EngineTypeOK, StageSound
  <2>2. thread \in [1..n -> {"waits", "over"} \cup Executing] /\ ending \in [1..n -> Outs]
    BY <1>1, <2>1 DEF EngineTypeOK
  <2>3. /\ nodeOf' \in Seq(Nodes) /\ DOMAIN nodeOf' = 1..(n + 1) /\ Len(nodeOf') = n + 1
        /\ nodeOf'[n + 1] = t.to /\ \A x \in 1..n : nodeOf'[x] = nodeOf[x]
    BY <1>5, <1>9, <2>1
  <2>4. /\ thread' \in [1..(n + 1) -> {"waits", "over"} \cup Executing]
        /\ thread'[n + 1] = "waits" /\ \A x \in 1..n : thread'[x] = thread[x]
    <3>1. "waits" \in {"waits", "over"} \cup Executing OBVIOUS
    <3>2. n \in Nat BY <2>1
    <3>3. Append(thread, "waits") \in [1..(n + 1) -> {"waits", "over"} \cup Executing] BY <2>2, <3>1, <3>2, Longer
    <3>4. Append(thread, "waits")[n + 1] = "waits" BY <2>2, <3>1, <3>2, Longer
    <3>5. \A x \in 1..n : Append(thread, "waits")[x] = thread[x] BY <2>2, <3>1, <3>2, Longer
    <3>6. QED BY <1>9, <3>3, <3>4, <3>5
  <2>5. /\ ending' \in [1..(n + 1) -> Outs]
        /\ ending'[n + 1] = "none" /\ \A x \in 1..n : ending'[x] = ending[x]
    <3>1. "none" \in Outs BY DEF Outs
    <3>2. n \in Nat BY <2>1
    <3>3. Append(ending, "none") \in [1..(n + 1) -> Outs] BY <2>2, <3>1, <3>2, Longer
    <3>4. Append(ending, "none")[n + 1] = "none" BY <2>2, <3>1, <3>2, Longer
    <3>5. \A x \in 1..n : Append(ending, "none")[x] = ending[x] BY <2>2, <3>1, <3>2, Longer
    <3>6. QED BY <1>9, <3>3, <3>4, <3>5
  <2>6. EngineTypeOK'
    <3>1. {shared, marked} \subseteq SUBSET (1..(n + 1)) /\ scope.writers \subseteq 1..(n + 1)
      BY <1>1, <2>1 DEF EngineTypeOK
    <3>2. known' \subseteq Nodes BY <1>1, <1>5, <1>9 DEF EngineTypeOK
    <3>3. QED BY <1>1, <1>2, <1>4, <1>6, <2>3, <2>4, <2>5, <3>1, <3>2 DEF EngineTypeOK
  <2>7. StageSound' BY <1>1, <1>2, <1>7, <2>1, <2>3 DEF StageSound
  <2>8. ASSUME NEW x \in 1..n PROVE ThreadSound(x)' /\ EndingSound(x)'
    <3>1. ThreadSound(x) /\ EndingSound(x) BY <2>1 DEF RunSound
    <3>2. stage = "head" => x <= steps BY <1>1, <2>1 DEF StageSound, Batch
    <3>3. stage = "drain" => ~(thread[x] \in Executing /\ ending[x] = "none")
      BY <3>1 DEF ThreadSound, Executing
    <3>4. stage = "head" => ~(thread[x] \in Executing /\ ending[x] = "none")
      BY <3>1, <3>2, <2>1 DEF ThreadSound
    <3>5. nodeOf'[x] = nodeOf[x] /\ thread'[x] = thread[x] /\ ending'[x] = ending[x] BY <2>3, <2>4, <2>5
    <3>6. ThreadSound(x)' BY <1>2, <2>1, <3>1, <3>2, <3>3, <3>4, <3>5 DEF ThreadSound
    <3>7. EndingSound(x)' BY <1>2, <3>1, <3>5 DEF EndingSound, Failing
    <3>8. QED BY <3>6, <3>7
  <2>9. ThreadSound(n + 1)' /\ EndingSound(n + 1)'
    <3>1. n + 1 \notin marked /\ n + 1 \notin shared /\ ~(n + 1 <= steps) BY <1>1, <2>1 DEF EngineTypeOK
    <3>2. thread'[n + 1] = "waits" /\ ending'[n + 1] = "none" BY <2>4, <2>5
    <3>3. ThreadSound(n + 1)' BY <1>2, <3>1, <3>2 DEF ThreadSound, Executing
    <3>4. EndingSound(n + 1)' BY <1>2, <3>1, <3>2 DEF EndingSound
    <3>5. QED BY <3>3, <3>4
  <2>10. \A x \in DOMAIN nodeOf' : x \in 1..n \/ x = n + 1 BY <2>1, <2>3
  <2>11. SuccessIsWhole' BY <1>2, <1>7 DEF SuccessIsWhole
  <2>12. QED BY <2>6, <2>7, <2>8, <2>9, <2>10, <2>11 DEF RunSound
<1>10. QED BY <1>8, <1>9 DEF Delivers

(* The drain is over: what is to run waits.                                *)
LEMMA DrainedKeeps == ASSUME RunSound, Drained PROVE RunSound'
<1>1. EngineTypeOK /\ StageSound BY DEF RunSound
<1>2. /\ stage = "drain" /\ stage' \in {"head", "parallel", "serial"} /\ (stage' = "head" <=> Batch = {})
      /\ UNCHANGED <<isolated, fatal, queue, heard, known, steps, nodeOf, thread, ending>>
      /\ UNCHANGED <<marked, event, checker, overdue, wantStop, scope, final>>
  BY DEF Drained, settings
<1>3. shared' \in {shared, shared \cup {x \in Batch : nodeOf[x] \notin isolated}} BY DEF Drained
<1>4. shared' \in SUBSET DOMAIN nodeOf BY <1>1, <1>3, Numbered DEF EngineTypeOK
<1>5. EngineTypeOK' BY <1>1, <1>2, <1>4 DEF EngineTypeOK
<1>6. ~event /\ checker = "run" /\ final = "none" BY <1>1, <1>2 DEF StageSound
<1>7. StageSound' BY <1>1, <1>2, <1>6 DEF StageSound, Batch
<1>8. ASSUME NEW x \in DOMAIN nodeOf PROVE ThreadSound(x)' /\ EndingSound(x)'
  <2>1. ThreadSound(x) /\ EndingSound(x) BY DEF RunSound
  <2>2. ~(thread[x] \in Executing /\ ending[x] = "none")
    BY <1>2, <2>1 DEF ThreadSound, Executing
  <2>3. thread[x] \in Executing /\ ending[x] = "timeout" => x \in marked BY <1>2, <2>1 DEF ThreadSound
  <2>4. x \in shared' => nodeOf[x] \notin isolated BY <1>3, <2>1 DEF ThreadSound
  <2>5. ThreadSound(x)' BY <1>2, <2>1, <2>2, <2>3, <2>4 DEF ThreadSound
  <2>6. EndingSound(x)' BY <1>2, <2>1 DEF EndingSound, Failing
  <2>7. QED BY <2>5, <2>6
<1>9. SuccessIsWhole' BY <1>2, <1>6 DEF SuccessIsWhole
<1>10. QED BY <1>2, <1>5, <1>7, <1>8, <1>9 DEF RunSound

(* The ways a run ends.                                                    *)
LEMMA EndsKeep ==
  ASSUME RunSound, JoinConflicts \/ HeadEnds \/ SerialCancelled \/ BatchFails PROVE RunSound'
<1>1. EngineTypeOK /\ StageSound BY DEF RunSound
<1>2. UNCHANGED <<settings, graphState, thread, ending, marked, event, overdue, wantStop, scope>>
  BY DEF JoinConflicts, HeadEnds, SerialCancelled, BatchFails
<1>3. \A x \in DOMAIN nodeOf : ThreadSound(x) /\ EndingSound(x) BY DEF RunSound
<1>4. stage \in {"head", "drain", "serial", "parallel"}
  BY DEF JoinConflicts, HeadEnds, SerialCancelled, BatchFails, MayDeliver, Decided
<1>5. \A x \in DOMAIN nodeOf : thread[x] \in Executing => ending[x] # "none"
  <2> SUFFICES ASSUME NEW x \in DOMAIN nodeOf, thread[x] \in Executing, ending[x] = "none" PROVE FALSE
    OBVIOUS
  <2>1. x > steps /\ (stage = "parallel" \/ Current(x)) BY <1>3 DEF ThreadSound
  <2>2. x \in Batch /\ x \in Undecided BY <2>1 DEF Batch, Undecided
  <2>3. CASE JoinConflicts \/ HeadEnds
    BY <2>1, <2>3 DEF JoinConflicts, HeadEnds, MayDeliver, Current
  <2>4. CASE SerialCancelled BY <2>1, <2>4 DEF SerialCancelled, Current
  <2>5. CASE BatchFails BY <2>1, <2>2, <2>5 DEF BatchFails, Decided, Current
  <2>6. QED BY <2>3, <2>4, <2>5
<1>6. CASE Finish("SUCCEEDED")
  <2>1. stage = "head" /\ \A n \in Nodes : heard[n] = {}
    BY <1>6 DEF JoinConflicts, HeadEnds, SerialCancelled, BatchFails, Finish, Succeeds
  <2>2. \A x \in DOMAIN nodeOf : ending[x] # "part" /\ ~Failing(x)
    <3> SUFFICES ASSUME NEW x \in DOMAIN nodeOf PROVE ending[x] # "part" /\ ~Failing(x) OBVIOUS
    <3>1. x <= steps BY <1>1, <2>1, Numbered DEF StageSound, Batch
    <3>2. QED BY <1>3, <2>1, <3>1 DEF EndingSound
  <2>3. QED BY <1>2, <1>4, <1>5, <1>6, <2>1, <2>2, FinishKeeps
<1>7. CASE \E runStatus \in {"FAILED", "CANCELLED", "TIMED_OUT"} : Finish(runStatus)
  <2>1. PICK runStatus \in {"FAILED", "CANCELLED", "TIMED_OUT"} : Finish(runStatus) BY <1>7
  <2>2. QED BY <1>2, <1>4, <1>5, <2>1, FinishKeeps
<1>8. QED
  BY <1>6, <1>7 DEF JoinConflicts, HeadEnds, SerialCancelled, BatchFails, Succeeds

(* A thread that starts is the one the engine waits for, or one of a pool. *)
LEMMA StartsKeeps ==
  ASSUME RunSound, NEW x \in DOMAIN nodeOf, SerialStarts(x) \/ (x \in Batch /\ ParallelStarts(x))
  PROVE  RunSound'
<1>1. EngineTypeOK /\ StageSound BY DEF RunSound
<1>2. /\ thread[x] = "waits" /\ thread' = [thread EXCEPT ![x] = "runs"]
      /\ UNCHANGED <<isolated, fatal, queue, heard, known, steps, nodeOf, shared, stage, ending>>
      /\ UNCHANGED <<marked, event, checker, overdue, wantStop, final>>
  BY DEF SerialStarts, ParallelStarts, settings, graphState
<1>3. x > steps /\ (stage = "parallel" \/ Current(x)) /\ stage # "drain"
  BY DEF SerialStarts, ParallelStarts, Current, Undecided, Batch
<1>4. scope'.owner \in Nat /\ scope'.writers \subseteq DOMAIN nodeOf
  <2>1. scope' \in {scope, [owner |-> x, writers |-> {}]} BY DEF SerialStarts, ParallelStarts
  <2>2. QED BY <1>1, <2>1, Numbered DEF EngineTypeOK
<1>5. thread' \in [DOMAIN nodeOf -> {"waits", "over"} \cup Executing]
  BY <1>1, <1>2 DEF EngineTypeOK, Executing
<1>6. EngineTypeOK' BY <1>1, <1>2, <1>4, <1>5 DEF EngineTypeOK
<1>7. StageSound' BY <1>1, <1>2 DEF StageSound, Batch, FatalLate
<1>8. ASSUME NEW y \in DOMAIN nodeOf PROVE ThreadSound(y)' /\ EndingSound(y)'
  <2>1. ThreadSound(y) /\ EndingSound(y) /\ ThreadSound(x) BY DEF RunSound
  <2>2. Current(y)' <=> Current(y) BY <1>2 DEF Current, Undecided, FatalLate, Batch
  <2>3. thread'[y] = IF y = x THEN "runs" ELSE thread[y] BY <1>1, <1>2 DEF EngineTypeOK
  <2>4. ThreadSound(y)'
    <3>1. CASE y = x
      <4>1. ending[x] = "none" /\ x \notin marked BY <1>2, <2>1 DEF ThreadSound, Executing
      <4>2. QED BY <1>2, <1>3, <2>1, <2>2, <2>3, <3>1, <4>1 DEF ThreadSound, Executing
    <3>2. CASE y # x BY <1>2, <1>3, <2>1, <2>2, <2>3, <3>2 DEF ThreadSound
    <3>3. QED BY <3>1, <3>2
  <2>5. EndingSound(y)' BY <1>2, <2>1 DEF EndingSound, Failing
  <2>6. QED BY <2>4, <2>5
<1>9. SuccessIsWhole' BY <1>2 DEF RunSound, SuccessIsWhole, Failing
<1>10. QED BY <1>2, <1>6, <1>7, <1>8, <1>9 DEF RunSound

(* A thread that ends leaves what the engine has decided as it is.         *)
LEMMA EndKeeps ==
  ASSUME RunSound, NEW x \in DOMAIN nodeOf, thread[x] \in Executing, NEW way \in Outs,
         thread' = [thread EXCEPT ![x] = "over"], ending' = [ending EXCEPT ![x] = way],
         marked' = marked \ {x}, scope' \in {scope, NoScope},
         UNCHANGED <<settings, graphState, stage, event, checker, overdue, wantStop, final>>,
         ending[x] = "none" => way # "none" /\ (way = "part" => overdue \/ wantStop),
         ending[x] # "none" => way = IF x \in Batch THEN ending[x] ELSE "past"
  PROVE  RunSound'
<1>1. EngineTypeOK /\ StageSound BY DEF RunSound
<1>2. UNCHANGED <<isolated, fatal, queue, heard, known, steps, nodeOf, shared, stage, event, checker, overdue, wantStop, final>>
  BY DEF settings, graphState
<1>3. ThreadSound(x) /\ EndingSound(x) BY DEF RunSound
<1>4. \A y \in DOMAIN nodeOf : /\ thread'[y] = IF y = x THEN "over" ELSE thread[y]
                               /\ ending'[y] = IF y = x THEN way ELSE ending[y]
  BY <1>1 DEF EngineTypeOK
<1>5. /\ ending[x] = "none" => x > steps /\ (stage = "parallel" \/ Current(x))
      /\ ending[x] \in {"none", "timeout"}
  BY <1>3 DEF ThreadSound
<1>6. EngineTypeOK'
  <2>1. /\ thread' \in [DOMAIN nodeOf -> {"waits", "over"} \cup Executing]
        /\ ending' \in [DOMAIN nodeOf -> Outs]
    BY <1>1 DEF EngineTypeOK
  <2>2. {shared, marked'} \subseteq SUBSET DOMAIN nodeOf BY <1>1 DEF EngineTypeOK
  <2>3. scope'.owner \in Nat /\ scope'.writers \subseteq DOMAIN nodeOf BY <1>1 DEF EngineTypeOK, NoScope
  <2>4. QED BY <1>1, <1>2, <2>1, <2>2, <2>3 DEF EngineTypeOK
<1>7. Batch' = Batch /\ Batch \subseteq DOMAIN nodeOf BY <1>2 DEF Batch
<1>8. StageSound'
  <2>1. event /\ stage = "serial" => FatalLate'
    <3>1. SUFFICES ASSUME event, stage = "serial" PROVE FatalLate' OBVIOUS
    <3>2. PICK z \in Batch : ending[z] = "timeout" /\ nodeOf[z] \in fatal
      BY <1>1, <3>1 DEF StageSound, FatalLate
    <3>3. ending'[z] = "timeout" BY <1>4, <1>7, <3>2
    <3>4. QED BY <1>2, <1>7, <3>2, <3>3 DEF FatalLate
  <2>2. stage = "over" => checker = "residual" \/ (checker = "previous" /\ marked' = {})
    BY <1>1 DEF StageSound
  <2>3. QED BY <1>1, <1>2, <1>7, <2>1, <2>2 DEF StageSound
<1>9. ASSUME NEW y \in DOMAIN nodeOf PROVE ThreadSound(y)' /\ EndingSound(y)'
  <2>1. ThreadSound(y) /\ EndingSound(y) BY DEF RunSound
  <2>2. CASE y = x
    <3>1. thread'[y] = "over" /\ ending'[y] = way /\ y \notin marked' BY <1>4, <2>2
    <3>2. ThreadSound(y)'
      <4>1. stage = "drain" => x <= steps
        BY <1>1, <1>3, Numbered DEF ThreadSound, Executing
      <4>2. QED BY <1>1, <1>2, <2>1, <2>2, <3>1, <4>1, Numbered DEF ThreadSound, Executing
    <3>3. EndingSound(y)'
      <4>1. CASE ending[x] = "none"
        <5>1. x > steps /\ stage # "record" BY <1>5, <4>1 DEF Current
        <5>2. ~(x <= steps) BY <1>1, <5>1, Numbered
        <5>3. QED BY <1>2, <2>2, <3>1, <4>1, <5>1, <5>2 DEF EndingSound
      <4>2. CASE ending[x] # "none"
        <5>1. way \in {"timeout", "past"} /\ (x \in Batch => way = ending[x]) BY <1>5, <4>2
        <5>2. Failing(x)' => Failing(x) BY <1>2, <1>5, <2>2, <3>1, <4>2, <5>1 DEF Failing
        <5>3. QED BY <1>2, <2>1, <2>2, <3>1, <5>1, <5>2 DEF EndingSound
      <4>3. QED BY <4>1, <4>2
    <3>4. QED BY <3>2, <3>3
  <2>3. CASE y # x
    <3>1. thread'[y] = thread[y] /\ ending'[y] = ending[y] /\ (y \in marked' <=> y \in marked)
      BY <1>4, <2>3
    <3>2. ASSUME thread[y] \in Executing, ending[y] = "none", Current(y) PROVE Current(y)'
      <4>1. stage = "serial" /\ y \in Undecided BY <3>2 DEF Current
      <4>2. ending[x] # "none"
        <5>1. SUFFICES ASSUME ending[x] = "none" PROVE FALSE OBVIOUS
        <5>2. Current(x) /\ x \in Undecided BY <1>5, <4>1, <5>1 DEF Current
        <5>3. x <= y /\ y <= x BY <3>2, <4>1, <5>2 DEF Current
        <5>4. QED BY <1>1, <2>3, <5>3, Numbered
      <4>3. \A z \in Batch : ending'[z] = ending[z] BY <1>4, <1>7, <4>2
      <4>4. Undecided' = Undecided BY <1>7, <4>3 DEF Undecided
      <4>5. FatalLate' <=> FatalLate BY <1>2, <1>7, <4>3 DEF FatalLate
      <4>6. QED BY <1>2, <1>7, <3>2, <4>3, <4>4, <4>5 DEF Current
    <3>3. ThreadSound(y)' BY <1>2, <2>1, <3>1, <3>2 DEF ThreadSound
    <3>4. EndingSound(y)' BY <1>2, <2>1, <3>1 DEF EndingSound, Failing
    <3>5. QED BY <3>3, <3>4
  <2>4. QED BY <2>2, <2>3
<1>10. SuccessIsWhole'
  <2>1. SUFFICES ASSUME final = "SUCCEEDED"
                 PROVE  /\ \A y \in DOMAIN nodeOf : ending'[y] # "part" /\ ~Failing(y)'
                        /\ \A n \in Nodes : heard[n] = {}
    BY <1>2 DEF SuccessIsWhole
  <2>2. /\ \A y \in DOMAIN nodeOf : ending[y] # "part" /\ ~Failing(y)
        /\ \A n \in Nodes : heard[n] = {}
    BY <2>1 DEF RunSound, SuccessIsWhole
  <2>3. ending[x] # "none"
    <3>1. stage = "over" BY <1>1, <2>1 DEF StageSound
    <3>2. QED BY <1>5, <3>1 DEF Current
  <2>4. ASSUME NEW y \in DOMAIN nodeOf PROVE ending'[y] # "part" /\ ~Failing(y)'
    <3>1. ending'[y] = ending[y] \/ ending'[y] = "past" BY <1>4, <2>3
    <3>2. QED BY <1>2, <2>2, <3>1 DEF Failing
  <2>5. QED BY <2>2, <2>4
<1>11. QED BY <1>2, <1>6, <1>8, <1>9, <1>10 DEF RunSound

(* What a node's thread does.                                              *)
LEMMA NodeKeeps ==
  ASSUME RunSound, NEW x \in DOMAIN nodeOf, NodeWrites(x) \/ \E noticed \in BOOLEAN : ThreadEnds(x, noticed)
  PROVE  RunSound'
<1>1. EngineTypeOK /\ StageSound /\ ThreadSound(x) BY DEF RunSound
<1>2. x \in Nat /\ steps \in Nat BY <1>1, Numbered
<1>3. Polls(x) /\ ending[x] = "none" /\ thread[x] \in Executing => overdue \/ wantStop
  <2>1. SUFFICES ASSUME Polls(x), ending[x] = "none", thread[x] \in Executing PROVE overdue \/ wantStop
    OBVIOUS
  <2>2. x \notin marked /\ x > steps /\ (stage = "parallel" \/ Current(x)) BY <1>1, <2>1 DEF ThreadSound
  <2>3. ~event BY <1>1, <2>2 DEF StageSound, Current
  <2>4. QED BY <1>1, <2>1, <2>2, <2>3 DEF Polls, StageSound
<1>4. CASE NodeWrites(x) /\ scope.owner # 0
  <2>1. /\ thread[x] = "runs" /\ thread' = [thread EXCEPT ![x] = "wrote"]
        /\ UNCHANGED <<isolated, fatal, queue, heard, known, steps, nodeOf, shared, stage, ending>>
        /\ UNCHANGED <<marked, event, checker, overdue, wantStop, final>>
        /\ scope' = [scope EXCEPT !.writers = @ \cup {x}]
    BY <1>4 DEF NodeWrites, settings, graphState
  <2>2. EngineTypeOK'
    <3>1. thread' \in [DOMAIN nodeOf -> {"waits", "over"} \cup Executing]
      BY <1>1, <2>1 DEF EngineTypeOK, Executing
    <3>2. scope'.owner \in Nat /\ scope'.writers \subseteq DOMAIN nodeOf
      BY <1>1, <2>1 DEF EngineTypeOK
    <3>3. QED BY <1>1, <2>1, <3>1, <3>2 DEF EngineTypeOK
  <2>3. StageSound' BY <1>1, <2>1 DEF StageSound, Batch, FatalLate
  <2>4. ASSUME NEW y \in DOMAIN nodeOf PROVE ThreadSound(y)' /\ EndingSound(y)'
    <3>1. ThreadSound(y) /\ EndingSound(y) BY DEF RunSound
    <3>2. Current(y)' <=> Current(y) BY <2>1 DEF Current, Undecided, FatalLate, Batch
    <3>3. thread'[y] = IF y = x THEN "wrote" ELSE thread[y] BY <1>1, <2>1 DEF EngineTypeOK
    <3>4. /\ thread'[y] \in Executing <=> thread[y] \in Executing
          /\ thread'[y] = "waits" <=> thread[y] = "waits"
      BY <2>1, <3>3 DEF Executing
    <3>5. ThreadSound(y)' BY <2>1, <3>1, <3>2, <3>4 DEF ThreadSound
    <3>6. EndingSound(y)' BY <2>1, <3>1 DEF EndingSound, Failing
    <3>7. QED BY <3>5, <3>6
  <2>5. SuccessIsWhole' BY <2>1 DEF RunSound, SuccessIsWhole, Failing
  <2>6. QED BY <2>1, <2>2, <2>3, <2>4, <2>5 DEF RunSound
<1>5. ASSUME NEW way \in Outs, thread[x] \in Executing,
             ending[x] = "none" => way # "none" /\ (way = "part" => overdue \/ wantStop),
             ending[x] # "none" => way = IF x \in Batch THEN ending[x] ELSE "past",
             thread' = [thread EXCEPT ![x] = "over"], ending' = [ending EXCEPT ![x] = way],
             marked' = marked \ {x}, scope' \in {scope, NoScope},
             UNCHANGED <<settings, graphState, stage, event, checker, overdue, wantStop, final>>
      PROVE  RunSound'
  BY <1>5, EndKeeps
<1>6. ending[x] \in Outs BY <1>1 DEF EngineTypeOK
<1>7. CASE NodeWrites(x) /\ scope.owner = 0
  <2> DEFINE way == IF ending[x] = "none" THEN "error" ELSE IF x \in Batch THEN ending[x] ELSE "past"
  <2>1. /\ thread[x] \in Executing /\ thread' = [thread EXCEPT ![x] = "over"] /\ marked' = marked \ {x}
        /\ ending' = [ending EXCEPT ![x] = way] /\ scope' = scope
        /\ UNCHANGED <<settings, graphState, stage, event, checker, overdue, wantStop, final>>
    BY <1>7 DEF NodeWrites, Executing
  <2>2. way \in Outs BY <1>6 DEF Outs
  <2>3. QED BY <1>5, <2>1, <2>2
<1>8. CASE \E noticed \in BOOLEAN : ThreadEnds(x, noticed)
  <2>1. PICK noticed \in BOOLEAN : ThreadEnds(x, noticed) BY <1>8
  <2>2. /\ thread[x] \in Executing /\ thread' = [thread EXCEPT ![x] = "over"] /\ marked' = marked \ {x}
        /\ scope' \in {scope, NoScope} /\ (noticed => Polls(x))
        /\ UNCHANGED <<settings, graphState, stage, event, checker, overdue, wantStop, final>>
    BY <2>1 DEF ThreadEnds
  <2>3. CASE ending[x] = "none"
    <3>1. PICK way \in Ways(x, noticed) : ending' = [ending EXCEPT ![x] = way]
      BY <2>1, <2>3 DEF ThreadEnds
    <3>2. /\ way \in Outs \ {"none"} /\ (way = "part" => noticed)
      BY <3>1 DEF Ways, Outs
    <3>3. QED BY <1>3, <1>5, <2>2, <2>3, <3>1, <3>2
  <2>4. CASE ending[x] # "none"
    <3>1. ending' = [ending EXCEPT ![x] = IF x \in Batch THEN ending[x] ELSE "past"]
      BY <2>1, <2>4 DEF ThreadEnds
    <3>2. (IF x \in Batch THEN ending[x] ELSE "past") \in Outs BY <1>6 DEF Outs
    <3>3. QED BY <1>5, <2>2, <2>4, <3>1, <3>2
  <2>5. QED BY <2>3, <2>4
<1>9. QED BY <1>4, <1>7, <1>8

(* The engine gives up on the thread it waits for: it marks it, or has its *)
(* process ended.                                                          *)
LEMMA TimesOutKeeps == ASSUME RunSound, NEW x \in DOMAIN nodeOf, SerialTimesOut(x) PROVE RunSound'
<1>1. EngineTypeOK /\ StageSound BY DEF RunSound
<1>2. /\ Current(x) /\ thread[x] \in Executing /\ ending' = [ending EXCEPT ![x] = "timeout"]
      /\ UNCHANGED <<isolated, fatal, queue, heard, known, steps, nodeOf, shared, thread>>
      /\ UNCHANGED <<checker, overdue, wantStop, scope, final>>
  BY DEF SerialTimesOut, settings, graphState
<1>3. \/ nodeOf[x] \in isolated /\ stage' = "kills" /\ event' = TRUE /\ marked' = marked
      \/ nodeOf[x] \notin isolated /\ stage' = stage /\ event' = event /\ marked' = marked \cup {x}
  BY DEF SerialTimesOut
<1>4. stage = "serial" /\ x \in Undecided /\ x \in Batch /\ x > steps /\ ~event
  BY <1>1, <1>2 DEF Current, Undecided, Batch, StageSound
<1>5. \A y \in DOMAIN nodeOf : ending'[y] = IF y = x THEN "timeout" ELSE ending[y]
  BY <1>1, <1>2 DEF EngineTypeOK
<1>6. EngineTypeOK'
  <2>1. ending' \in [DOMAIN nodeOf -> Outs] BY <1>1, <1>2 DEF EngineTypeOK, Outs
  <2>2. {shared, marked'} \subseteq SUBSET DOMAIN nodeOf BY <1>1, <1>3 DEF EngineTypeOK
  <2>3. event' \in BOOLEAN /\ stage' \in {"serial", "kills"} BY <1>1, <1>3, <1>4 DEF EngineTypeOK
  <2>4. QED BY <1>1, <1>2, <2>1, <2>2, <2>3 DEF EngineTypeOK
<1>7. StageSound' BY <1>1, <1>2, <1>3, <1>4 DEF StageSound, Batch
<1>8. ASSUME NEW y \in DOMAIN nodeOf PROVE ThreadSound(y)' /\ EndingSound(y)'
  <2>1. ThreadSound(y) /\ EndingSound(y) BY DEF RunSound
  <2>2. CASE y = x
    <3>1. thread'[y] = thread[x] /\ ending'[y] = "timeout" BY <1>2, <1>5, <2>2
    <3>2. y \in marked' \/ (stage' = "kills" /\ y > steps /\ y \notin shared)
      BY <1>3, <1>4, <2>1, <2>2 DEF ThreadSound
    <3>3. thread[x] # "waits" BY <1>2 DEF Executing
    <3>4. ThreadSound(y)' BY <1>2, <1>3, <1>4, <2>1, <2>2, <3>1, <3>2, <3>3 DEF ThreadSound
    <3>5. ~(x <= steps) BY <1>1, <1>4, Numbered
    <3>6. EndingSound(y)' BY <1>2, <1>3, <1>4, <2>2, <3>1, <3>5 DEF EndingSound
    <3>7. QED BY <3>4, <3>6
  <2>3. CASE y # x
    <3>1. thread'[y] = thread[y] /\ ending'[y] = ending[y] /\ (y \in marked' <=> y \in marked)
      BY <1>2, <1>3, <1>5, <2>3
    <3>2. ~(thread[y] \in Executing /\ ending[y] = "none")
      <4>1. SUFFICES ASSUME thread[y] \in Executing, ending[y] = "none" PROVE FALSE OBVIOUS
      <4>2. Current(y) BY <1>4, <2>1, <4>1 DEF ThreadSound
      <4>3. x <= y /\ y <= x BY <1>2, <4>2 DEF Current
      <4>4. QED BY <1>1, <2>3, <4>3, Numbered
    <3>3. ThreadSound(y)' BY <1>2, <1>3, <1>4, <2>1, <3>1, <3>2 DEF ThreadSound
    <3>4. EndingSound(y)' BY <1>2, <1>3, <1>4, <2>1, <3>1 DEF EndingSound, Failing
    <3>5. QED BY <3>3, <3>4
  <2>4. QED BY <2>2, <2>3
<1>9. SuccessIsWhole' BY <1>1, <1>2, <1>4 DEF StageSound, SuccessIsWhole
<1>10. QED BY <1>2, <1>6, <1>7, <1>8, <1>9 DEF RunSound

(* A process that was told to end has ended.                               *)
LEMMA KilledKeeps == ASSUME RunSound, Killed PROVE RunSound'
<1>1. EngineTypeOK /\ StageSound BY DEF RunSound
<1>2. /\ stage = "kills" /\ stage' = "serial" /\ event' = FatalLate
      /\ \A x \in Batch : ending[x] = "timeout" => thread[x] = "over" \/ x \in marked
      /\ UNCHANGED <<isolated, fatal, queue, heard, known, steps, nodeOf, shared, thread, ending>>
      /\ UNCHANGED <<marked, checker, overdue, wantStop, scope, final>>
  BY DEF Killed, settings, graphState
<1>3. FatalLate \in BOOLEAN BY DEF FatalLate
<1>4. EngineTypeOK' BY <1>1, <1>2, <1>3 DEF EngineTypeOK
<1>5. StageSound' BY <1>1, <1>2 DEF StageSound, Batch, FatalLate
<1>6. ASSUME NEW x \in DOMAIN nodeOf PROVE ThreadSound(x)' /\ EndingSound(x)'
  <2>1. ThreadSound(x) /\ EndingSound(x) BY DEF RunSound
  <2>2. ~(thread[x] \in Executing /\ ending[x] = "none") BY <1>2, <2>1 DEF ThreadSound, Current
  <2>3. thread[x] \in Executing /\ ending[x] = "timeout" => x \in marked
    BY <1>2, <2>1 DEF ThreadSound, Batch, Executing
  <2>4. ThreadSound(x)' BY <1>2, <2>1, <2>2, <2>3 DEF ThreadSound
  <2>5. EndingSound(x)' BY <1>2, <2>1 DEF EndingSound, Failing
  <2>6. QED BY <2>4, <2>5
<1>7. SuccessIsWhole' BY <1>1, <1>2 DEF StageSound, SuccessIsWhole
<1>8. QED BY <1>2, <1>4, <1>5, <1>6, <1>7 DEF RunSound

(* The engine gives up on what is left of a batch.                         *)
LEMMA BatchTimesOutKeeps == ASSUME RunSound, BatchTimesOut PROVE RunSound'
<1>1. EngineTypeOK /\ StageSound BY DEF RunSound
<1>2. PICK missed \in SUBSET (Batch \ Undecided) :
        /\ \A x \in missed : ending[x] # "timeout"
        /\ ending' = [x \in DOMAIN ending |-> IF x \in Undecided \cup missed THEN "timeout" ELSE ending[x]]
        /\ marked' = marked \cup {x \in Undecided \cup missed : thread[x] \in Executing}
        /\ thread' = [x \in DOMAIN thread |->
                        IF x \in Undecided \cup missed /\ thread[x] = "waits" THEN "over" ELSE thread[x]]
  BY DEF BatchTimesOut
<1>3. PICK tooLate : tooLate = Undecided \cup missed OBVIOUS
<1>4. /\ stage = "parallel"
      /\ UNCHANGED <<isolated, fatal, queue, heard, known, steps, nodeOf, shared, stage>>
      /\ UNCHANGED <<event, checker, overdue, wantStop, scope, final>>
  BY DEF BatchTimesOut, settings, graphState
<1>5. tooLate \subseteq Batch /\ Undecided \subseteq tooLate /\ tooLate \subseteq DOMAIN nodeOf
  BY <1>1, <1>2, <1>3, Numbered
<1>6. \A x \in DOMAIN nodeOf :
        /\ ending'[x] = IF x \in tooLate THEN "timeout" ELSE ending[x]
        /\ thread'[x] = IF x \in tooLate /\ thread[x] = "waits" THEN "over" ELSE thread[x]
        /\ x \in marked' <=> x \in marked \/ (x \in tooLate /\ thread[x] \in Executing)
  BY <1>1, <1>2, <1>3, Numbered
<1>7. ~event BY <1>1, <1>4 DEF StageSound
<1>8. EngineTypeOK'
  <2>1. /\ thread' \in [DOMAIN nodeOf -> {"waits", "over"} \cup Executing]
        /\ ending' \in [DOMAIN nodeOf -> Outs]
    BY <1>1, <1>2 DEF EngineTypeOK, Outs
  <2>2. {shared, marked'} \subseteq SUBSET DOMAIN nodeOf
    BY <1>1, <1>2, <1>3, <1>5 DEF EngineTypeOK
  <2>3. QED BY <1>1, <1>4, <2>1, <2>2 DEF EngineTypeOK
<1>9. StageSound' BY <1>1, <1>4, <1>7 DEF StageSound
<1>10. ASSUME NEW x \in DOMAIN nodeOf PROVE ThreadSound(x)' /\ EndingSound(x)'
  <2>1. ThreadSound(x) /\ EndingSound(x) BY DEF RunSound
  <2>2. CASE x \in tooLate
    <3>1. /\ ending'[x] = "timeout" /\ thread'[x] # "waits" /\ x > steps
          /\ thread'[x] \in Executing <=> thread[x] \in Executing
      BY <1>5, <1>6, <2>2 DEF Executing, Batch
    <3>2. ThreadSound(x)' BY <1>4, <1>6, <2>1, <2>2, <3>1 DEF ThreadSound
    <3>3. ~(x <= steps) BY <1>1, <3>1, Numbered
    <3>4. EndingSound(x)' BY <1>4, <3>1, <3>3 DEF EndingSound
    <3>5. QED BY <3>2, <3>4
  <2>3. CASE x \notin tooLate
    <3>1. ending'[x] = ending[x] /\ thread'[x] = thread[x] /\ (x \in marked' <=> x \in marked)
      BY <1>6, <2>3
    <3>2. ThreadSound(x)' BY <1>4, <2>1, <3>1 DEF ThreadSound
    <3>3. EndingSound(x)' BY <1>4, <2>1, <3>1 DEF EndingSound, Failing
    <3>4. QED BY <3>2, <3>3
  <2>4. QED BY <2>2, <2>3
<1>11. SuccessIsWhole' BY <1>1, <1>4 DEF StageSound, SuccessIsWhole
<1>12. QED BY <1>4, <1>8, <1>9, <1>10, <1>11 DEF RunSound

(* Sequences of deliveries that a node hands on to.                        *)
LEMMA PickIs ==
  ASSUME EngineTypeOK, NEW n \in Nodes, NEW pick \in Selections(n)
  PROVE  /\ pick \in Seq(Nodes)
         /\ [e \in DOMAIN pick |-> [to |-> pick[e], from |-> n]] \in Seq([to : Nodes, from : Nodes \cup {Caller}])
<1>1. Edges[n] \in Seq(Nodes) BY EngineAssumption
<1>2. pick \in Seq(Nodes)
  <2>1. CASE n \in Choosers
    <3>1. pick = <<>> \/ \E i \in DOMAIN Edges[n] : pick = <<Edges[n][i]>> BY <2>1 DEF Selections
    <3>2. \A i \in DOMAIN Edges[n] : Edges[n][i] \in Nodes BY <1>1
    <3>3. <<>> \in Seq(Nodes) /\ \A m \in Nodes : <<m>> \in Seq(Nodes) OBVIOUS
    <3>4. QED BY <3>1, <3>2, <3>3
  <2>2. CASE n \notin Choosers BY <1>1, <2>2 DEF Selections
  <2>3. QED BY <2>1, <2>2
<1>3. DOMAIN pick = 1..Len(pick) /\ Len(pick) \in Nat /\ \A e \in DOMAIN pick : pick[e] \in Nodes BY <1>2
<1>4. [e \in DOMAIN pick |-> [to |-> pick[e], from |-> n]] \in [1..Len(pick) -> [to : Nodes, from : Nodes \cup {Caller}]]
  BY <1>3
<1>5. QED BY <1>2, <1>3, <1>4

(* One execution is recorded, and its node hands on.                       *)
LEMMA HandsOnKeeps == ASSUME RunSound, NEW x \in Batch, HandsOn(x) PROVE RunSound'
<1>1. EngineTypeOK /\ StageSound BY DEF RunSound
<1>2. /\ x = steps + 1 /\ steps' = x
      /\ ending' = [ending EXCEPT ![x] = IF @ = "part" \/ thread[x] \in Executing THEN @ ELSE "past"]
      /\ UNCHANGED <<isolated, fatal, heard, known, nodeOf, shared, thread, marked, event, overdue, wantStop, scope>>
  BY DEF HandsOn, settings
<1>3. PICK pick \in Selections(nodeOf[x]) :
        queue' = queue \o [e \in DOMAIN pick |-> [to |-> pick[e], from |-> nodeOf[x]]]
  BY DEF HandsOn
<1>4. IF x = Len(nodeOf) THEN AfterBatch ELSE stage' = "record" /\ UNCHANGED <<final, checker>>
  BY DEF HandsOn
<1>5. \/ Decided /\ \A y \in Batch : ending[y] # "cancelled" /\ ~Failing(y)
      \/ stage = "record"
  BY DEF HandsOn
<1>6. x \in DOMAIN nodeOf /\ x \in Nat /\ x <= Len(nodeOf) /\ Len(nodeOf) \in Nat /\ steps \in Nat /\ nodeOf[x] \in Nodes
  BY <1>1, Numbered
<1>7. \A y \in DOMAIN nodeOf :
        /\ ending'[y] = ending[y] \/ (y = x /\ ending'[y] = "past")
        /\ y = x => (ending'[y] = ending[y] <=> ending[y] \in {"part", "past"} \/ thread[y] \in Executing)
  BY <1>1, <1>2 DEF EngineTypeOK
<1>8. stage \in {"serial", "parallel", "record"} BY <1>5 DEF Decided
<1>9. ~event
  <2>1. SUFFICES ASSUME event PROVE FALSE OBVIOUS
  <2>2. stage = "serial" /\ FatalLate BY <1>1, <1>8, <2>1 DEF StageSound
  <2>3. QED BY <1>5, <2>2 DEF FatalLate, Failing
<1>10. \A y \in Batch : ending[y] \notin {"none", "cancelled"} /\ ~Failing(y)
  <2>1. CASE stage = "record" BY <1>1, <2>1, Numbered DEF RunSound, EndingSound
  <2>2. CASE stage # "record"
    <3>1. Decided /\ \A y \in Batch : ending[y] # "cancelled" /\ ~Failing(y) BY <1>5, <2>2
    <3>2. ~FatalLate BY <3>1 DEF FatalLate, Failing
    <3>3. QED BY <3>1, <3>2 DEF Decided, Undecided
  <2>3. QED BY <2>1, <2>2
<1>11. \A y \in DOMAIN nodeOf : ending[y] \notin {"none", "cancelled"} /\ ~Failing(y)
  <2> SUFFICES ASSUME NEW y \in DOMAIN nodeOf PROVE ending[y] \notin {"none", "cancelled"} /\ ~Failing(y)
    OBVIOUS
  <2>1. CASE y <= steps BY <2>1 DEF RunSound, EndingSound
  <2>2. CASE ~(y <= steps) BY <1>1, <1>10, <2>2, Numbered DEF Batch
  <2>3. QED BY <2>1, <2>2
<1>12. queue' \in Seq([to : Nodes, from : Nodes \cup {Caller}])
  <2>1. queue \in Seq([to : Nodes, from : Nodes \cup {Caller}]) BY <1>1 DEF EngineTypeOK
  <2>2. [e \in DOMAIN pick |-> [to |-> pick[e], from |-> nodeOf[x]]] \in Seq([to : Nodes, from : Nodes \cup {Caller}])
    BY <1>1, <1>6, PickIs
  <2>3. QED BY <1>3, <2>1, <2>2, ConcatProperties
<1>13. ending' \in [DOMAIN nodeOf -> Outs] BY <1>1, <1>2 DEF EngineTypeOK, Outs
<1>14. ASSUME NEW y \in DOMAIN nodeOf PROVE ThreadSound(y)'
  <2>1. ThreadSound(y) BY DEF RunSound
  <2>2. ending[y] # "none" BY <1>11
  <2>3. thread[y] # "waits" BY <2>1, <2>2 DEF ThreadSound
  <2>4. thread[y] \in Executing => ending'[y] = ending[y] BY <1>7
  <2>5. ending'[y] # "none" BY <1>7, <2>2
  <2>6. stage' \in {"head", "record", "over"} BY <1>4 DEF AfterBatch, Finish
  <2>7. thread[y] \in Executing /\ ending[y] = "timeout" => y \in marked
    BY <1>8, <2>1 DEF ThreadSound
  <2>8. y \in marked => thread[y] \in Executing /\ ending'[y] = "timeout" BY <2>1, <2>4 DEF ThreadSound
  <2>9. QED BY <1>2, <2>1, <2>2, <2>3, <2>4, <2>5, <2>6, <2>7, <2>8 DEF ThreadSound
<1>15. \A y \in DOMAIN nodeOf : /\ ending'[y] \notin {"none", "cancelled"} /\ ~Failing(y)'
                                /\ ending'[y] = "part" => ending[y] = "part"
  <2> SUFFICES ASSUME NEW y \in DOMAIN nodeOf
               PROVE  /\ ending'[y] \notin {"none", "cancelled"} /\ ~Failing(y)'
                      /\ ending'[y] = "part" => ending[y] = "part"
    OBVIOUS
  <2>1. ending'[y] = ending[y] \/ ending'[y] = "past" BY <1>7
  <2>2. QED BY <1>2, <1>11, <2>1 DEF Failing
<1>16. \A y \in DOMAIN nodeOf : ending[y] = "part" => overdue \/ wantStop BY DEF RunSound, EndingSound
<1>17. steps' <= Len(nodeOf) BY <1>2, <1>6
<1>18. \A y \in marked : thread[y] \in Executing BY <1>1 DEF RunSound, EngineTypeOK, ThreadSound
<1>19. CASE x # Len(nodeOf)
  <2>1. stage' = "record" /\ UNCHANGED <<final, checker>> BY <1>4, <1>19
  <2>2. EngineTypeOK' BY <1>1, <1>2, <1>6, <1>12, <1>13, <2>1 DEF EngineTypeOK
  <2>3. StageSound' BY <1>1, <1>2, <1>8, <1>9, <1>17, <2>1 DEF StageSound
  <2>4. \A y \in DOMAIN nodeOf : EndingSound(y)' BY <1>2, <1>15, <1>16, <2>1 DEF EndingSound
  <2>5. SuccessIsWhole' BY <1>1, <1>8, <2>1 DEF StageSound, SuccessIsWhole
  <2>6. QED BY <1>2, <1>14, <2>2, <2>3, <2>4, <2>5 DEF RunSound
<1>20. CASE x = Len(nodeOf) /\ (wantStop \/ overdue)
  <2>1. PICK runStatus \in {"CANCELLED", "TIMED_OUT"} : Finish(runStatus) BY <1>4, <1>20 DEF AfterBatch
  <2>2. stage' = "over" /\ final' = runStatus /\ checker' = CheckerAfter BY <2>1 DEF Finish
  <2>3. checker' = "residual" \/ (checker' = "previous" /\ marked' = {})
    BY <1>2, <1>18, <2>2 DEF CheckerAfter
  <2>4. EngineTypeOK' BY <1>1, <1>2, <1>6, <1>12, <1>13, <2>2, <2>3 DEF EngineTypeOK
  <2>5. StageSound' BY <1>2, <1>9, <1>17, <2>2, <2>3 DEF StageSound
  <2>6. \A y \in DOMAIN nodeOf : EndingSound(y)' BY <1>2, <1>15, <1>16, <2>2 DEF EndingSound
  <2>7. SuccessIsWhole' BY <2>2 DEF SuccessIsWhole
  <2>8. QED BY <1>2, <1>14, <2>4, <2>5, <2>6, <2>7 DEF RunSound
<1>21. CASE x = Len(nodeOf) /\ ~wantStop /\ ~overdue
  <2>1. stage' = "head" /\ UNCHANGED <<final, checker>> BY <1>4, <1>21 DEF AfterBatch
  <2>2. EngineTypeOK' BY <1>1, <1>2, <1>6, <1>12, <1>13, <2>1 DEF EngineTypeOK
  <2>3. Batch' = {} BY <1>1, <1>2, <1>21, Numbered DEF Batch
  <2>4. StageSound' BY <1>1, <1>2, <1>8, <1>9, <1>17, <2>1, <2>3 DEF StageSound
  <2>5. \A y \in DOMAIN nodeOf : EndingSound(y)' BY <1>2, <1>15, <1>16, <1>21, <2>1 DEF EndingSound
  <2>6. SuccessIsWhole' BY <1>1, <1>8, <2>1 DEF StageSound, SuccessIsWhole
  <2>7. QED BY <1>2, <1>14, <2>2, <2>4, <2>5, <2>6 DEF RunSound
<1>22. QED BY <1>19, <1>20, <1>21

(* The caller, and the run's own clock.                                    *)
LEMMA StopsKeep == ASSUME RunSound, CallerCancels \/ DeadlinePasses PROVE RunSound'
<1>1. EngineTypeOK /\ StageSound BY DEF RunSound
<1>2. /\ stage # "over" /\ wantStop' \in {wantStop, TRUE} /\ overdue' \in {overdue, TRUE}
      /\ UNCHANGED <<isolated, fatal, queue, heard, known, steps, nodeOf, shared, stage, thread, ending>>
      /\ UNCHANGED <<marked, event, checker, scope, final>>
  BY DEF CallerCancels, DeadlinePasses, settings, graphState
<1>3. EngineTypeOK' BY <1>1, <1>2 DEF EngineTypeOK
<1>4. StageSound' BY <1>1, <1>2 DEF StageSound, Batch, FatalLate
<1>5. ASSUME NEW x \in DOMAIN nodeOf PROVE ThreadSound(x)' /\ EndingSound(x)'
  <2>1. ThreadSound(x) /\ EndingSound(x) BY DEF RunSound
  <2>2. ThreadSound(x)' BY <1>2, <2>1 DEF ThreadSound, Current, Undecided, FatalLate, Batch
  <2>3. EndingSound(x)' BY <1>2, <2>1 DEF EndingSound, Failing
  <2>4. QED BY <2>2, <2>3
<1>6. SuccessIsWhole' BY <1>1, <1>2 DEF StageSound, SuccessIsWhole
<1>7. QED BY <1>2, <1>3, <1>4, <1>5, <1>6 DEF RunSound

LEMMA NextRun == RunSound /\ [EngineNext]_engineVars => RunSound'
<1> SUFFICES ASSUME RunSound, [EngineNext]_engineVars PROVE RunSound' OBVIOUS
<1>1. Batch \subseteq DOMAIN nodeOf BY Numbered DEF RunSound
<1>2. CASE EngineStep
  BY <1>1, <1>2, DeliversKeeps, DrainedKeeps, EndsKeep, KilledKeeps, StartsKeeps, TimesOutKeeps,
     HandsOnKeeps, BatchTimesOutKeeps DEF EngineStep
<1>3. CASE CallerCancels \/ DeadlinePasses BY <1>3, StopsKeep
<1>4. CASE \E x \in Batch : ParallelStarts(x) BY <1>1, <1>4, StartsKeeps
<1>5. CASE \E x \in DOMAIN nodeOf : NodeWrites(x) \/ \E noticed \in BOOLEAN : ThreadEnds(x, noticed)
  BY <1>5, NodeKeeps
<1>6. CASE UNCHANGED engineVars
  <2>1. /\ UNCHANGED <<isolated, fatal, queue, heard, known, steps, nodeOf, shared, stage, thread, ending>>
        /\ UNCHANGED <<marked, event, checker, overdue, wantStop, scope, final>>
    BY <1>6 DEF engineVars
  <2>2. EngineTypeOK' BY <2>1 DEF RunSound, EngineTypeOK
  <2>3. StageSound' BY <2>1 DEF RunSound, StageSound, Batch, FatalLate
  <2>4. ASSUME NEW x \in DOMAIN nodeOf PROVE ThreadSound(x)' /\ EndingSound(x)'
    <3>1. ThreadSound(x) /\ EndingSound(x) BY DEF RunSound
    <3>2. ThreadSound(x)' BY <2>1, <3>1 DEF ThreadSound, Current, Undecided, FatalLate, Batch
    <3>3. EndingSound(x)' BY <2>1, <3>1 DEF EndingSound, Failing
    <3>4. QED BY <3>2, <3>3
  <2>5. SuccessIsWhole' BY <2>1 DEF RunSound, SuccessIsWhole, Failing
  <2>6. QED BY <2>1, <2>2, <2>3, <2>4, <2>5 DEF RunSound
<1>7. QED BY <1>2, <1>3, <1>4, <1>5, <1>6 DEF EngineNext

-----------------------------------------------------------------------------
(* The run stays sound, for any graph and whatever its nodes do.           *)
THEOREM RunsStaySound == EngineSpec => []RunSound
BY InitRun, NextRun, PTL DEF EngineSpec

(* A run that is reported as succeeded was not cut short (the checks after *)
(* each batch, and of the joins at the end, in run).                       *)
THEOREM SuccessesAreWhole == EngineSpec => []SuccessIsWhole
<1>1. RunSound => SuccessIsWhole BY DEF RunSound
<1>2. QED BY <1>1, RunsStaySound, PTL

(* The time limit of a node interrupts that node alone, and it goes on to  *)
(* do so until its thread ends (_NodeRunTracker, and the finally of run).  *)
THEOREM StopsReachOne == EngineSpec => []StopsReachTheirNode
<1>1. RunSound => StopsReachTheirNode
  <2> SUFFICES ASSUME RunSound, NEW x \in DOMAIN nodeOf, thread[x] \in Executing
               PROVE  /\ ending[x] = "timeout" => Polls(x)
                      /\ Polls(x) => overdue \/ wantStop \/ ending[x] = "timeout"
    BY DEF StopsReachTheirNode
  <2>1. StageSound /\ ThreadSound(x) BY DEF RunSound
  <2>2. ending[x] = "timeout" => Polls(x)
    BY <2>1 DEF StageSound, ThreadSound, Polls
  <2>3. ASSUME Polls(x), ending[x] # "timeout" PROVE overdue \/ wantStop
    <3>1. x \notin marked /\ ending[x] = "none" /\ (stage = "parallel" \/ Current(x))
      BY <2>1, <2>3 DEF ThreadSound
    <3>2. ~event /\ checker = "run" BY <2>1, <3>1 DEF StageSound, Current
    <3>3. QED BY <2>3, <3>1, <3>2 DEF Polls
  <2>4. QED BY <2>2, <2>3
<1>2. QED BY <1>1, RunsStaySound, PTL

-----------------------------------------------------------------------------
(***************************************************************************)
(* Proof that a join never runs more often than each of its sources has    *)
(* run, for any graph: of each source, what the join has run for, what it  *)
(* has heard and not run for yet, and what is on its way to it, add up to  *)
(* no more than the source has run.  Where two edges lead from one node to *)
(* a join, the join hears of them as one and never runs.                   *)
(***************************************************************************)
RunsAt(j)      == {x \in DOMAIN nodeOf : nodeOf[x] = j}
Recorded(s)    == {x \in 1..steps : nodeOf[x] = s}
OnItsWay(s, j) == {i \in DOMAIN queue : queue[i] = [to |-> j, from |-> s]}
Hears(s, j)    == IF s \in heard[j] THEN 1 ELSE 0

OneEdge(j) ==
  \A s \in Nodes : \A i, k \in DOMAIN Edges[s] : Edges[s][i] = j /\ Edges[s][k] = j => i = k

Fed(s, j) == Cardinality(RunsAt(j)) + Hears(s, j) + Cardinality(OnItsWay(s, j)) <= Cardinality(Recorded(s))

JoinSound(j) ==
  Gathers(j) => /\ ~OneEdge(j) => RunsAt(j) = {}
                /\ OneEdge(j) => \A s \in Sources(j) : Fed(s, j)

AllFed == \A j \in Nodes : JoinSound(j)

(* The counted sets are finite.                                            *)
LEMMA Counted ==
  ASSUME EngineTypeOK, NEW j, NEW s
  PROVE  /\ IsFiniteSet(RunsAt(j)) /\ Cardinality(RunsAt(j)) \in Nat
         /\ IsFiniteSet(Recorded(s)) /\ Cardinality(Recorded(s)) \in Nat
         /\ IsFiniteSet(OnItsWay(s, j)) /\ Cardinality(OnItsWay(s, j)) \in Nat
<1>1. \A n \in Nat : IsFiniteSet(1..n) BY FS_Interval
<1>2. queue \in Seq([to : Nodes, from : Nodes \cup {Caller}]) BY DEF EngineTypeOK
<1>3. DOMAIN queue = 1..Len(queue) /\ Len(queue) \in Nat BY <1>2, LenProperties
<1>4. IsFiniteSet(DOMAIN queue) /\ IsFiniteSet(DOMAIN nodeOf) /\ IsFiniteSet(1..steps)
  BY <1>1, <1>3, Numbered
<1>5. /\ RunsAt(j) \in SUBSET DOMAIN nodeOf /\ Recorded(s) \in SUBSET (1..steps)
      /\ OnItsWay(s, j) \in SUBSET DOMAIN queue
  BY DEF RunsAt, Recorded, OnItsWay
<1>6. IsFiniteSet(RunsAt(j)) /\ IsFiniteSet(Recorded(s)) /\ IsFiniteSet(OnItsWay(s, j))
  BY <1>4, <1>5, FS_Subset
<1>7. QED BY <1>6, FS_CardinalityType

(* A join that is full has heard of every source, and of each by one edge. *)
LEMMA FullIs ==
  ASSUME NEW j \in Nodes, NEW by, Full(j, by)
  PROVE  Sources(j) \subseteq by /\ OneEdge(j)
<1> DEFINE At(m) == {<<m, i>> : i \in {k \in DOMAIN Edges[m] : Edges[m][k] = j}}
           E     == UNION {At(m) : m \in Nodes}
           first == [e \in E |-> e[1]]
           where == [m \in Nodes |-> At(m)]
<1>1. \A m \in Nodes : IsFiniteSet(At(m))
  <2> SUFFICES ASSUME NEW m \in Nodes PROVE IsFiniteSet(At(m)) OBVIOUS
  <2>1. Edges[m] \in Seq(Nodes) BY EngineAssumption
  <2>2. DOMAIN Edges[m] = 1..Len(Edges[m]) /\ Len(Edges[m]) \in Nat BY <2>1, LenProperties
  <2>3. IsFiniteSet(1..Len(Edges[m])) BY <2>2, FS_Interval
  <2> DEFINE K == {k \in DOMAIN Edges[m] : Edges[m][k] = j}
             f == [i \in K |-> <<m, i>>]
  <2>4. K \in SUBSET (1..Len(Edges[m])) BY <2>2
  <2>5. IsFiniteSet(K) BY <2>3, <2>4, FS_Subset
  <2>6. f \in Surjection(K, At(m)) BY DEF Surjection
  <2>7. QED BY <2>5, <2>6, FS_Surjection
<1>2. IsFiniteSet({At(m) : m \in Nodes})
  <2>1. where \in Surjection(Nodes, {At(m) : m \in Nodes}) BY DEF Surjection
  <2>2. QED BY <2>1, FS_Surjection, EngineAssumption
<1>3. IsFiniteSet(E) BY <1>1, <1>2, FS_UNION
<1>4. \A e \in E : \E m \in Nodes : \E k \in DOMAIN Edges[m] : Edges[m][k] = j /\ e = <<m, k>>
  OBVIOUS
<1>5. \A m \in Nodes : \A k \in DOMAIN Edges[m] : Edges[m][k] = j => <<m, k>> \in E
  OBVIOUS
<1>6. InDegree(j) = Cardinality(E) BY DEF InDegree
<1> HIDE DEF E
<1>7. first \in Surjection(E, Sources(j))
  <2>1. first \in [E -> Sources(j)] BY <1>4 DEF Sources
  <2>2. ASSUME NEW s \in Sources(j) PROVE \E e \in E : first[e] = s
    <3>1. PICK k \in DOMAIN Edges[s] : s \in Nodes /\ Edges[s][k] = j BY DEF Sources
    <3>2. <<s, k>> \in E BY <1>5, <3>1
    <3>3. QED BY <3>2
  <2>3. QED BY <2>1, <2>2 DEF Surjection
<1>8. /\ IsFiniteSet(Sources(j)) /\ Cardinality(Sources(j)) <= Cardinality(E)
      /\ Cardinality(Sources(j)) = Cardinality(E) <=> first \in Injection(E, Sources(j))
  BY <1>3, <1>7, FS_Surjection
<1>9. by \cap Sources(j) \in SUBSET Sources(j) OBVIOUS
<1>10. /\ Cardinality(by \cap Sources(j)) <= Cardinality(Sources(j))
       /\ Cardinality(Sources(j)) = Cardinality(by \cap Sources(j)) => Sources(j) = by \cap Sources(j)
       /\ IsFiniteSet(by \cap Sources(j))
  BY <1>8, <1>9, FS_Subset
<1>11. Cardinality(by \cap Sources(j)) >= Cardinality(E) BY <1>6 DEF Full
<1>12. /\ Cardinality(by \cap Sources(j)) \in Nat /\ Cardinality(E) \in Nat
       /\ Cardinality(Sources(j)) \in Nat
  BY <1>3, <1>8, <1>10, FS_CardinalityType
<1>13. /\ Cardinality(Sources(j)) = Cardinality(E)
       /\ Cardinality(Sources(j)) = Cardinality(by \cap Sources(j))
  BY <1>8, <1>10, <1>11, <1>12
<1>14. Sources(j) \subseteq by BY <1>10, <1>13
<1>15. first \in Injection(E, Sources(j)) BY <1>8, <1>13
<1>16. ASSUME NEW s \in Nodes, NEW i \in DOMAIN Edges[s], NEW k \in DOMAIN Edges[s],
              Edges[s][i] = j, Edges[s][k] = j
       PROVE  i = k
  <2>1. <<s, i>> \in E /\ <<s, k>> \in E BY <1>5, <1>16
  <2>2. first[<<s, i>>] = s /\ first[<<s, k>>] = s BY <2>1
  <2>3. \A a, b \in E : first[a] = first[b] => a = b BY <1>15 DEF Injection, IsInjective
  <2>4. <<s, i>> = <<s, k>> BY <2>1, <2>2, <2>3
  <2>5. QED BY <2>4
<1>17. QED BY <1>14, <1>16 DEF OneEdge

(* What is on its way to a join loses one when it is delivered.            *)
LEMMA DeliveredIs ==
  ASSUME EngineTypeOK, queue # <<>>, queue' = Tail(queue), NEW j, NEW s
  PROVE  /\ Cardinality(OnItsWay(s, j)') \in Nat
         /\ Cardinality(OnItsWay(s, j)) =
              Cardinality(OnItsWay(s, j)') + (IF Head(queue) = [to |-> j, from |-> s] THEN 1 ELSE 0)
<1> DEFINE T == [to : Nodes, from : Nodes \cup {Caller}]
           m == [to |-> j, from |-> s]
           f == [i \in OnItsWay(s, j)' |-> i + 1]
           R == OnItsWay(s, j) \ {1}
<1>1. queue \in Seq(T) BY DEF EngineTypeOK
<1>2. /\ queue' \in Seq(T) /\ Len(queue') = Len(queue) - 1 /\ Len(queue) \in Nat \ {0}
      /\ \A i \in 1..Len(queue') : queue'[i] = queue[i + 1]
  BY <1>1, HeadTailProperties, EmptySeq
<1>3. DOMAIN queue = 1..Len(queue) /\ DOMAIN queue' = 1..Len(queue') BY <1>1, <1>2, LenProperties
<1>4. OnItsWay(s, j)' = {i \in DOMAIN queue' : queue'[i] = m} BY DEF OnItsWay
<1>5. \A i \in OnItsWay(s, j)' : i \in Nat /\ i >= 1 /\ i + 1 \in R
  BY <1>2, <1>3, <1>4 DEF OnItsWay
<1>6. f \in Bijection(OnItsWay(s, j)', R)
  <2>1. f \in [OnItsWay(s, j)' -> R] BY <1>5
  <2>2. \A a, b \in OnItsWay(s, j)' : f[a] = f[b] => a = b BY <1>5
  <2>3. ASSUME NEW i \in R PROVE \E a \in OnItsWay(s, j)' : f[a] = i
    <3>1. i \in 2..Len(queue) /\ queue[i] = m BY <1>2, <1>3 DEF OnItsWay
    <3>2. i - 1 \in 1..Len(queue') /\ queue'[i - 1] = m
      <4>1. i - 1 \in 1..Len(queue') /\ (i - 1) + 1 = i BY <1>2, <3>1
      <4>2. QED BY <1>2, <3>1, <4>1
    <3>3. i - 1 \in OnItsWay(s, j)' BY <1>3, <1>4, <3>2
    <3>4. f[i - 1] = i BY <3>1, <3>3
    <3>5. QED BY <3>3, <3>4
  <2>4. QED BY <2>1, <2>2, <2>3 DEF Bijection, Injection, Surjection, IsInjective
<1>7. IsFiniteSet(OnItsWay(s, j)) /\ Cardinality(OnItsWay(s, j)) \in Nat BY Counted
<1>8. /\ IsFiniteSet(R)
      /\ Cardinality(R) = IF 1 \in OnItsWay(s, j) THEN Cardinality(OnItsWay(s, j)) - 1 ELSE Cardinality(OnItsWay(s, j))
  BY <1>7, FS_RemoveElement
<1>9. Cardinality(OnItsWay(s, j)') = Cardinality(R)
  <2>1. OnItsWay(s, j)' \in SUBSET (1..Len(queue')) BY <1>3, <1>4
  <2>2. IsFiniteSet(OnItsWay(s, j)')
    <3>1. Len(queue') \in Int BY <1>2
    <3>2. IsFiniteSet(1..Len(queue')) BY <3>1, FS_Interval
    <3>3. QED BY <2>1, <3>2, FS_Subset
  <2>3. ExistsBijection(OnItsWay(s, j)', R) BY <1>6 DEF ExistsBijection
  <2>4. QED BY <2>2, <2>3, FS_Bijection
<1>10. 1 \in OnItsWay(s, j) <=> Head(queue) = m
  BY <1>1, <1>2, <1>3 DEF OnItsWay
<1>11. Cardinality(R) \in Nat BY <1>8, FS_CardinalityType
<1>12. QED BY <1>7, <1>8, <1>9, <1>10, <1>11

(* What a node hands on adds one at most to what is on its way to a join   *)
(* that it reaches by one edge.                                            *)
LEMMA HandedOnIs ==
  ASSUME EngineTypeOK, NEW n \in Nodes, NEW pick \in Selections(n), NEW j, NEW s \in Nodes, OneEdge(j),
         queue' = queue \o [e \in DOMAIN pick |-> [to |-> pick[e], from |-> n]]
  PROVE  /\ Cardinality(OnItsWay(s, j)') \in Nat
         /\ Cardinality(OnItsWay(s, j)') <= Cardinality(OnItsWay(s, j)) + 1
         /\ s # n => Cardinality(OnItsWay(s, j)') = Cardinality(OnItsWay(s, j))
<1> DEFINE T == [to : Nodes, from : Nodes \cup {Caller}]
           m == [to |-> j, from |-> s]
           p == [e \in DOMAIN pick |-> [to |-> pick[e], from |-> n]]
<1>1. queue \in Seq(T) /\ pick \in Seq(Nodes) /\ p \in Seq(T) BY PickIs DEF EngineTypeOK
<1>2. /\ queue' \in Seq(T) /\ Len(queue') = Len(queue) + Len(p)
      /\ \A i \in 1..(Len(queue) + Len(p)) :
           queue'[i] = IF i <= Len(queue) THEN queue[i] ELSE p[i - Len(queue)]
  BY <1>1, ConcatProperties
<1>3. /\ DOMAIN queue = 1..Len(queue) /\ DOMAIN queue' = 1..Len(queue')
      /\ DOMAIN p = 1..Len(p) /\ Len(queue) \in Nat /\ Len(p) \in Nat
  BY <1>1, <1>2, LenProperties
<1>4. \A i \in DOMAIN queue' :
        \/ i \in DOMAIN queue /\ queue'[i] = queue[i]
        \/ i - Len(queue) \in DOMAIN p /\ i \notin DOMAIN queue /\ queue'[i] = p[i - Len(queue)]
  BY <1>2, <1>3
<1>5. \A i \in DOMAIN queue : i \in DOMAIN queue' /\ queue'[i] = queue[i] BY <1>2, <1>3
<1>6. OnItsWay(s, j)' = {i \in DOMAIN queue' : queue'[i] = m} BY DEF OnItsWay
<1>7. \A e \in DOMAIN p : p[e] = m <=> s = n /\ pick[e] = j OBVIOUS
<1>8. \A d, e \in DOMAIN pick : pick[d] = j /\ pick[e] = j => d = e
  <2>1. CASE n \in Choosers
    <3>1. pick = <<>> \/ \E i \in DOMAIN Edges[n] : pick = <<Edges[n][i]>> BY <2>1 DEF Selections
    <3>2. QED BY <3>1
  <2>2. CASE n \notin Choosers
    <3>1. pick = Edges[n] BY <2>2 DEF Selections
    <3>2. QED BY <3>1 DEF OneEdge
  <2>3. QED BY <2>1, <2>2
<1> HIDE DEF p
<1>9. IsFiniteSet(OnItsWay(s, j)) /\ Cardinality(OnItsWay(s, j)) \in Nat BY Counted
<1>10. CASE \E e \in DOMAIN p : p[e] = m
  <2>1. PICK e \in DOMAIN p : p[e] = m BY <1>10
  <2>2. s = n /\ e \in DOMAIN pick /\ pick[e] = j BY <1>7, <2>1 DEF p
  <2>3. \A d \in DOMAIN p : p[d] = m => d = e BY <1>7, <1>8, <2>2 DEF p
  <2>4. OnItsWay(s, j)' = OnItsWay(s, j) \cup {Len(queue) + e}
    <3>1. \A i \in OnItsWay(s, j)' : i \in OnItsWay(s, j) \/ i = Len(queue) + e
      <4>1. SUFFICES ASSUME NEW i \in OnItsWay(s, j)', i \notin OnItsWay(s, j) PROVE i = Len(queue) + e
        OBVIOUS
      <4>2. i - Len(queue) \in DOMAIN p /\ p[i - Len(queue)] = m BY <1>4, <1>6, <4>1 DEF OnItsWay
      <4>3. i - Len(queue) = e BY <2>3, <4>2
      <4>4. i \in Int /\ e \in Int BY <1>2, <1>3, <1>6, <2>1, <4>1
      <4>5. QED BY <1>3, <4>3, <4>4
    <3>2. OnItsWay(s, j) \subseteq OnItsWay(s, j)' BY <1>5, <1>6 DEF OnItsWay
    <3>3. Len(queue) + e \in OnItsWay(s, j)'
      <4>1. Len(queue) + e \in DOMAIN queue' /\ (Len(queue) + e) - Len(queue) = e /\ ~(Len(queue) + e <= Len(queue))
        BY <1>2, <1>3, <2>1
      <4>2. queue'[Len(queue) + e] = p[e] BY <1>2, <1>3, <4>1
      <4>3. QED BY <1>6, <2>1, <4>1, <4>2
    <3>4. QED BY <3>1, <3>2, <3>3
  <2>5. Cardinality(OnItsWay(s, j)') \in {Cardinality(OnItsWay(s, j)), Cardinality(OnItsWay(s, j)) + 1}
    BY <1>9, <2>4, FS_AddElement
  <2>6. QED BY <1>9, <2>2, <2>5
<1>11. CASE ~\E e \in DOMAIN p : p[e] = m
  <2>1. OnItsWay(s, j)' = OnItsWay(s, j) BY <1>4, <1>5, <1>6, <1>11 DEF OnItsWay
  <2>2. QED BY <1>9, <2>1
<1>12. QED BY <1>10, <1>11

(* At first nothing has run, and the caller's word is from no node.        *)
LEMMA InitFed == EngineInit => AllFed
<1> SUFFICES ASSUME EngineInit, NEW j \in Nodes PROVE JoinSound(j) BY DEF AllFed
<1>1. EngineTypeOK BY InitRun DEF RunSound
<1>2. RunsAt(j) = {} BY DEF EngineInit, RunsAt
<1>3. ASSUME NEW s \in Sources(j) PROVE Fed(s, j)
  <2>1. s \in Nodes /\ s # Caller BY EngineAssumption DEF Sources, Caller
  <2>2. OnItsWay(s, j) = {} /\ Hears(s, j) = 0 BY <2>1 DEF EngineInit, OnItsWay, Hears
  <2>3. Cardinality(Recorded(s)) \in Nat BY <1>1, Counted
  <2>4. QED BY <1>2, <2>2, <2>3, FS_EmptySet DEF Fed
<1>4. QED BY <1>2, <1>3 DEF JoinSound

(* A step that neither delivers nor hands on changes no account.           *)
LEMMA OthersFed == ASSUME AllFed, UNCHANGED <<queue, heard, steps, nodeOf>> PROVE AllFed'
<1> SUFFICES ASSUME NEW j \in Nodes PROVE JoinSound(j)' BY DEF AllFed
<1>1. JoinSound(j) BY DEF AllFed
<1>2. RunsAt(j)' = RunsAt(j) BY DEF RunsAt
<1>3. \A s : Fed(s, j)' <=> Fed(s, j) BY <1>2 DEF Fed, Recorded, OnItsWay, Hears
<1>4. QED BY <1>1, <1>2, <1>3 DEF JoinSound

(* A delivery: the join hears of it, or runs for all it has heard of.      *)
LEMMA DeliversFed == ASSUME RunSound, AllFed, Delivers PROVE AllFed'
<1> DEFINE t == Head(queue)
<1>0. EngineTypeOK BY DEF RunSound
<1>1. /\ queue # <<>> /\ queue' = Tail(queue) /\ heard' = Heard(heard, t) /\ steps' = steps
      /\ \/ nodeOf' = nodeOf
         \/ nodeOf' = Append(nodeOf, t.to) /\ (Gathers(t.to) => JoinFires(heard, t))
  BY DEF Delivers, MayDeliver
<1>2. t \in [to : Nodes, from : Nodes \cup {Caller}]
  <2>1. queue \in Seq([to : Nodes, from : Nodes \cup {Caller}]) BY <1>0 DEF EngineTypeOK
  <2>2. QED BY <1>1, <2>1, HeadTailProperties
<1>3. t.to \in Nodes /\ t = [to |-> t.to, from |-> t.from] BY <1>2
<1>4. PICK n : n = Len(nodeOf) OBVIOUS
<1>5. nodeOf \in Seq(Nodes) /\ n \in Nat /\ DOMAIN nodeOf = 1..n /\ steps \in Nat
  BY <1>0, <1>4, Numbered DEF EngineTypeOK
<1>6. \/ nodeOf' = nodeOf
      \/ /\ nodeOf' \in Seq(Nodes) /\ DOMAIN nodeOf' = 1..(n + 1)
         /\ nodeOf'[n + 1] = t.to /\ \A x \in 1..n : nodeOf'[x] = nodeOf[x]
  <2>1. SUFFICES ASSUME nodeOf' = Append(nodeOf, t.to)
                 PROVE  /\ nodeOf' \in Seq(Nodes) /\ DOMAIN nodeOf' = 1..(n + 1)
                        /\ nodeOf'[n + 1] = t.to /\ \A x \in 1..n : nodeOf'[x] = nodeOf[x]
    BY <1>1
  <2>2. nodeOf' \in Seq(Nodes) /\ Len(nodeOf') = n + 1 BY <1>3, <1>4, <1>5, <2>1, AppendProperties
  <2>3. DOMAIN nodeOf' = 1..(n + 1) BY <2>2, LenProperties
  <2>4. QED BY <1>3, <1>4, <1>5, <2>1, <2>2, <2>3, AppendProperties
<1>7. \A s : Recorded(s)' = Recorded(s)
  <2>1. \A x \in 1..steps : x \in 1..n BY <1>4, <1>5 DEF RunSound, StageSound
  <2>2. \A x \in 1..steps : nodeOf'[x] = nodeOf[x] BY <1>6, <2>1
  <2>3. QED BY <1>1, <2>2 DEF Recorded
<1>8. ASSUME NEW j \in Nodes, Gathers(j) PROVE JoinSound(j)'
  <2>1. JoinSound(j) /\ IsFiniteSet(RunsAt(j)) /\ Cardinality(RunsAt(j)) \in Nat BY <1>0, Counted DEF AllFed
  <2>2. CASE j = t.to /\ JoinFires(heard, t)
    <3>1. Full(j, heard[j] \cup {t.from}) BY <2>2 DEF JoinFires
    <3>2. Sources(j) \subseteq heard[j] \cup {t.from} /\ OneEdge(j) BY <3>1, FullIs
    <3>3. heard'[j] = {} BY <1>0, <1>1, <1>8, <2>2, <3>1 DEF Heard, EngineTypeOK
    <3>4. RunsAt(j)' \in {RunsAt(j), RunsAt(j) \cup {n + 1}}
      <4>1. CASE nodeOf' = nodeOf BY <4>1 DEF RunsAt
      <4>2. CASE nodeOf' # nodeOf
        <5>1. \A x \in 1..(n + 1) : x \in 1..n \/ x = n + 1 BY <1>5
        <5>2. QED BY <1>5, <1>6, <2>2, <4>2, <5>1 DEF RunsAt
      <4>3. QED BY <4>1, <4>2
    <3>5. Cardinality(RunsAt(j)') <= Cardinality(RunsAt(j)) + 1 /\ Cardinality(RunsAt(j)') \in Nat
      <4>1. CASE RunsAt(j)' = RunsAt(j) BY <2>1, <4>1
      <4>2. CASE RunsAt(j)' = RunsAt(j) \cup {n + 1}
        <5>1. Cardinality(RunsAt(j)') = IF n + 1 \in RunsAt(j) THEN Cardinality(RunsAt(j)) ELSE Cardinality(RunsAt(j)) + 1
          BY <2>1, <4>2, FS_AddElement
        <5>2. QED BY <2>1, <5>1
      <4>3. QED BY <3>4, <4>1, <4>2
    <3>6. ASSUME NEW s \in Sources(j) PROVE Fed(s, j)'
      <4>1. Cardinality(OnItsWay(s, j)) \in Nat /\ Cardinality(Recorded(s)) \in Nat
        BY <1>0, Counted
      <4>2. Fed(s, j) BY <1>8, <2>1, <3>2 DEF JoinSound
      <4>3. Hears(s, j)' = 0 BY <3>3 DEF Hears
      <4>4. Recorded(s)' = Recorded(s) BY <1>7
      <4>5. /\ Cardinality(OnItsWay(s, j)') \in Nat
            /\ Cardinality(OnItsWay(s, j)) = Cardinality(OnItsWay(s, j)') + (IF t = [to |-> j, from |-> s] THEN 1 ELSE 0)
        BY <1>0, <1>1, DeliveredIs
      <4>6. s = t.from => t = [to |-> j, from |-> s] BY <1>3, <2>2
      <4>7. s # t.from => Hears(s, j) = 1 BY <3>2 DEF Hears
      <4>8. QED BY <2>1, <3>5, <4>2, <4>3, <4>4, <4>5, <4>6, <4>7, <4>1 DEF Fed, Hears
    <3>7. QED BY <1>8, <3>2, <3>6 DEF JoinSound
  <2>3. CASE ~(j = t.to /\ JoinFires(heard, t))
    <3>1. RunsAt(j)' = RunsAt(j)
      <4>1. CASE nodeOf' = nodeOf BY <4>1 DEF RunsAt
      <4>2. CASE nodeOf' # nodeOf
        <5>1. j # t.to BY <1>1, <1>8, <2>3, <4>2
        <5>2. \A x \in 1..(n + 1) : x \in 1..n \/ x = n + 1 BY <1>5
        <5>3. QED BY <1>5, <1>6, <4>2, <5>1, <5>2 DEF RunsAt
      <4>3. QED BY <4>1, <4>2
    <3>2. heard'[j] = IF j = t.to THEN heard[j] \cup {t.from} ELSE heard[j]
      BY <1>0, <1>1, <1>3, <1>8, <2>3 DEF Heard, JoinFires, EngineTypeOK
    <3>3. ASSUME OneEdge(j), NEW s \in Sources(j) PROVE Fed(s, j)'
      <4>1. Cardinality(OnItsWay(s, j)) \in Nat /\ Cardinality(Recorded(s)) \in Nat
        BY <1>0, Counted
      <4>2. Fed(s, j) BY <1>8, <2>1, <3>3 DEF JoinSound
      <4>3. Recorded(s)' = Recorded(s) BY <1>7
      <4>4. /\ Cardinality(OnItsWay(s, j)') \in Nat
            /\ Cardinality(OnItsWay(s, j)) = Cardinality(OnItsWay(s, j)') + (IF t = [to |-> j, from |-> s] THEN 1 ELSE 0)
        BY <1>0, <1>1, DeliveredIs
      <4>5. Hears(s, j)' = Hears(s, j) \/ (j = t.to /\ s = t.from /\ Hears(s, j)' = 1 /\ Hears(s, j) = 0)
        BY <3>2 DEF Hears
      <4>6. j = t.to /\ s = t.from => t = [to |-> j, from |-> s] BY <1>3
      <4>7. QED BY <2>1, <3>1, <4>2, <4>3, <4>4, <4>5, <4>6, <4>1 DEF Fed, Hears
    <3>4. QED BY <1>8, <2>1, <3>1, <3>3 DEF JoinSound
  <2>4. QED BY <2>2, <2>3
<1>9. QED BY <1>8 DEF AllFed, JoinSound

(* A node hands on: it has been recorded once more, and a join it leads to *)
(* by one edge is sent one delivery at most.                               *)
LEMMA HandsOnFed == ASSUME RunSound, AllFed, NEW x \in Batch, HandsOn(x) PROVE AllFed'
<1> SUFFICES ASSUME NEW j \in Nodes, Gathers(j) PROVE JoinSound(j)' BY DEF AllFed, JoinSound
<1>1. EngineTypeOK /\ JoinSound(j) BY DEF RunSound, AllFed
<1>2. x = steps + 1 /\ steps' = steps + 1 /\ heard' = heard /\ nodeOf' = nodeOf BY DEF HandsOn
<1>3. nodeOf[x] \in Nodes /\ steps \in Nat /\ IsFiniteSet(RunsAt(j)) /\ Cardinality(RunsAt(j)) \in Nat
  BY <1>1, Numbered, Counted
<1>4. PICK pick \in Selections(nodeOf[x]) :
        queue' = queue \o [e \in DOMAIN pick |-> [to |-> pick[e], from |-> nodeOf[x]]]
  BY DEF HandsOn
<1>5. RunsAt(j)' = RunsAt(j) BY <1>2 DEF RunsAt
<1>6. ASSUME OneEdge(j), NEW s \in Sources(j) PROVE Fed(s, j)'
  <2>1. Fed(s, j) /\ s \in Nodes BY <1>1, <1>6 DEF JoinSound, Sources
  <2>2. Hears(s, j)' = Hears(s, j) /\ Hears(s, j) \in Nat BY <1>2 DEF Hears
  <2>3. /\ Cardinality(OnItsWay(s, j)') \in Nat
        /\ Cardinality(OnItsWay(s, j)') <= Cardinality(OnItsWay(s, j)) + 1
        /\ s # nodeOf[x] => Cardinality(OnItsWay(s, j)') = Cardinality(OnItsWay(s, j))
    BY <1>1, <1>3, <1>4, <1>6, <2>1, HandedOnIs
  <2>4. /\ IsFiniteSet(Recorded(s)) /\ Cardinality(Recorded(s)) \in Nat
        /\ Cardinality(OnItsWay(s, j)) \in Nat
    BY <1>1, Counted
  <2>5. CASE s = nodeOf[x]
    <3>1. Recorded(s)' = Recorded(s) \cup {x} BY <1>2, <1>3, <2>5 DEF Recorded
    <3>2. x \notin Recorded(s) BY <1>2, <1>3 DEF Recorded
    <3>3. Cardinality(Recorded(s)') = Cardinality(Recorded(s)) + 1 BY <2>4, <3>1, <3>2, FS_AddElement
    <3>4. QED BY <1>3, <1>5, <2>1, <2>2, <2>3, <2>4, <3>3 DEF Fed
  <2>6. CASE s # nodeOf[x]
    <3>1. Recorded(s)' = Recorded(s) BY <1>2, <1>3, <2>6 DEF Recorded
    <3>2. QED BY <1>3, <1>5, <2>1, <2>2, <2>3, <2>4, <2>6, <3>1 DEF Fed
  <2>7. QED BY <2>5, <2>6
<1>7. QED BY <1>1, <1>5, <1>6 DEF JoinSound

LEMMA NextFed == RunSound /\ AllFed /\ [EngineNext]_engineVars => AllFed'
<1> SUFFICES ASSUME RunSound, AllFed, [EngineNext]_engineVars PROVE AllFed' OBVIOUS
<1>1. CASE Delivers BY <1>1, DeliversFed
<1>2. CASE \E x \in Batch : HandsOn(x) BY <1>2, HandsOnFed
<1>3. CASE \/ Drained \/ JoinConflicts \/ HeadEnds \/ Killed \/ SerialCancelled \/ BatchFails
           \/ BatchTimesOut \/ CallerCancels \/ DeadlinePasses \/ UNCHANGED engineVars
  <2>1. UNCHANGED <<queue, heard, steps, nodeOf>>
    BY <1>3 DEF Drained, JoinConflicts, HeadEnds, Killed, SerialCancelled, BatchFails, BatchTimesOut,
                CallerCancels, DeadlinePasses, engineVars, graphState
  <2>2. QED BY <2>1, OthersFed
<1>4. CASE \E x \in DOMAIN nodeOf \cup Batch : \/ SerialStarts(x) \/ ParallelStarts(x) \/ SerialTimesOut(x)
                                              \/ NodeWrites(x) \/ \E noticed \in BOOLEAN : ThreadEnds(x, noticed)
  <2>1. UNCHANGED <<queue, heard, steps, nodeOf>>
    BY <1>4 DEF SerialStarts, ParallelStarts, SerialTimesOut, NodeWrites, ThreadEnds, graphState
  <2>2. QED BY <2>1, OthersFed
<1>5. QED BY <1>1, <1>2, <1>3, <1>4 DEF EngineNext, EngineStep

-----------------------------------------------------------------------------
(* The accounts of every join add up throughout.                           *)
THEOREM AccountsAddUp == EngineSpec => []AllFed
BY InitFed, NextFed, RunsStaySound, PTL DEF EngineSpec

(* A join never runs more often than each of its sources has (the buffers  *)
(* and the sources seen in phase 1 of run).                                *)
THEOREM JoinsStayFed == EngineSpec => []JoinsAreFed
<1>1. RunSound /\ AllFed => JoinsAreFed
  <2> SUFFICES ASSUME RunSound, AllFed, NEW j \in Nodes, NEW s \in Sources(j), Gathers(j)
               PROVE  Cardinality(RunsAt(j)) <= Cardinality(Recorded(s))
    BY DEF JoinsAreFed, RunsAt, Recorded
  <2>1. JoinSound(j) /\ EngineTypeOK BY DEF AllFed, RunSound
  <2>2. /\ Cardinality(RunsAt(j)) \in Nat /\ Cardinality(Recorded(s)) \in Nat
        /\ Cardinality(OnItsWay(s, j)) \in Nat
    BY <2>1, Counted
  <2>3. CASE OneEdge(j)
    <3>1. Fed(s, j) BY <2>1, <2>3 DEF JoinSound
    <3>2. QED BY <2>2, <3>1 DEF Fed, Hears
  <2>4. CASE ~OneEdge(j)
    <3>1. RunsAt(j) = {} BY <2>1, <2>4 DEF JoinSound
    <3>2. QED BY <2>2, <3>1, FS_EmptySet
  <2>5. QED BY <2>3, <2>4
<1>2. QED BY <1>1, AccountsAddUp, RunsStaySound, PTL

-----------------------------------------------------------------------------
(***************************************************************************)
(* Proof that the types hold together in the specification that is checked *)
(* (MCServices), for every value of the constants.  The types of three     *)
(* parts are in the invariants above; a run's and the scheduler's are      *)
(* here.                                                                   *)
(***************************************************************************)

(* A run that is over has a final status, and one that waits for its       *)
(* watchdog knows what its session loop came to.                           *)
FinalStatus == {"completed", "error", "cancelled"}
BgSound ==
  /\ BgTypeOK
  /\ at = "done" => status \in FinalStatus
  /\ at = "dog" => outcome # "none"

LEMMA InitBg == BgInit => BgSound
<1> SUFFICES ASSUME BgInit PROVE BgSound OBVIOUS
<1>1. {record, mayAsk, mustCancel, raised, loopCancel, quiet, kept} \subseteq BOOLEAN BY DEF BgInit
<1>2. cancelling \in Nat /\ status \in {"pending", "running", "completed", "error", "cancelled"}
      /\ at \in {"held", "loop", "dog", "text", "done"}
      /\ outcome \in {"none", "result", "error", "cancelled"}
  BY DEF BgInit
<1>3. /\ executor \in {"checks", "waits", "stopped"} \cup Told
      /\ loop \in {"none"} \cup Going \cup Ended
      /\ watchdog \in {"none", "sleeps", "rejects", "over"} /\ fired \in SUBSET {"quiet", "question"}
  BY DEF BgInit
<1>4. (at = "done" => status \in FinalStatus) /\ (at = "dog" => outcome # "none") BY DEF BgInit
<1>5. QED BY <1>1, <1>2, <1>3, <1>4 DEF BgSound, BgTypeOK

(* What a cancel does to a run that may be over.                           *)
LEMMA CancelTypes ==
  ASSUME BgSound, ManagerCancel
  PROVE  /\ cancelling' \in Nat /\ {mustCancel', loopCancel', kept'} \subseteq BOOLEAN
         /\ status' \in {status, "cancelled"} /\ (at = "done" => status' = status)
<1>1. cancelling \in Nat /\ {mustCancel, loopCancel, kept} \subseteq BOOLEAN BY DEF BgSound, BgTypeOK
<1>2. CASE Cancellable
  <2>1. HandleCancel /\ status' = "cancelled" /\ kept' = TRUE /\ at # "done"
    BY <1>2 DEF ManagerCancel, Cancellable
  <2>2. cancelling' \in Nat BY <1>1, <2>1 DEF HandleCancel
  <2>3. mustCancel' \in BOOLEAN /\ loopCancel' \in BOOLEAN BY <2>1 DEF HandleCancel
  <2>4. QED BY <2>1, <2>2, <2>3
<1>3. CASE ~Cancellable BY <1>1, <1>3 DEF ManagerCancel
<1>4. QED BY <1>2, <1>3

LEMMA ExecutorTypes ==
  ASSUME BgSound, ExecutorChecks \/ ExecutorLearns \/ ExecutorGivesUp
  PROVE  BgSound'
<1> USE DEF BgSound, BgTypeOK, Told, FinalStatus
<1>1. CASE ExecutorChecks
  <2>1. CASE ManagerCancel
    BY <1>1, <2>1, CancelTypes DEF ExecutorChecks, runState, loopState, dogState
  <2>2. CASE UNCHANGED <<runState, loopState>> /\ executor' \in Told \cup {"waits"}
    BY <1>1, <2>2 DEF ExecutorChecks, runState, loopState, dogState
  <2>3. QED BY <1>1, <2>1, <2>2 DEF ExecutorChecks
<1>2. CASE ExecutorLearns BY <1>2 DEF ExecutorLearns, runState, loopState, dogState
<1>3. CASE ExecutorGivesUp
  <2>1. CASE ManagerCancel /\ executor' = "late"
    BY <1>3, <2>1, CancelTypes DEF ExecutorGivesUp, dogState
  <2>2. CASE HandleCancel /\ executor' = "interrupted" /\ UNCHANGED <<status, kept>>
    BY <1>3, <2>2 DEF ExecutorGivesUp, HandleCancel, dogState
  <2>3. QED BY <1>3, <2>1, <2>2 DEF ExecutorGivesUp
<1>4. QED BY <1>1, <1>2, <1>3

LEMMA CancelsType ==
  ASSUME BgSound, RecordCancelled \/ SessionCancelled \/ RunCancelled
  PROVE  BgSound'
<1> USE DEF BgSound, BgTypeOK, FinalStatus
<1>1. CASE RecordCancelled
  <2>1. /\ record' = FALSE
        /\ UNCHANGED <<mayAsk, mustCancel, raised, loopCancel, quiet, kept>>
        /\ UNCHANGED <<executor, at, cancelling, outcome, status, loop, watchdog, fired>>
    BY <1>1 DEF RecordCancelled, runState, loopState, dogState
  <2>2. {record, mayAsk, mustCancel, raised, loopCancel, quiet, kept}' \subseteq BOOLEAN BY <2>1
  <2>3. QED BY <2>1, <2>2
<1>2. CASE SessionCancelled \/ RunCancelled
  <2>1. /\ ManagerCancel
        /\ UNCHANGED <<record, executor, mayAsk, at, outcome, raised, loop, quiet, watchdog, fired>>
    BY <1>2 DEF SessionCancelled, RunCancelled, dogState
  <2>2. cancelling' \in Nat /\ {mustCancel', loopCancel', kept'} \subseteq BOOLEAN
    BY <2>1, CancelTypes
  <2>3. status' \in {status, "cancelled"} /\ (at = "done" => status' = status)
    BY <2>1, CancelTypes
  <2>4. {record, mayAsk, mustCancel, raised, loopCancel, quiet, kept}' \subseteq BOOLEAN
    BY <2>1, <2>2
  <2>5. QED BY <2>1, <2>2, <2>3, <2>4
<1>3. QED BY <1>1, <1>2

LEMMA RunTypes == ASSUME BgSound, RunNext PROVE BgSound'
<1> USE DEF BgSound, BgTypeOK, FinalStatus, Ends
<1>1. CASE RunStarts BY <1>1 DEF RunStarts, Going, Waiting
<1>2. CASE RunNeverStarts BY <1>2 DEF RunNeverStarts, loopState, dogState
<1>3. CASE RunResumes
  <2>1. CameTo \in {"error", "cancelled", "result"} BY DEF CameTo
  <2>2. QED BY <1>3, <2>1 DEF RunResumes, loopState, dogState
<1>4. CASE DogIsOver BY <1>4 DEF DogIsOver, loopState
<1>5. CASE TextIsRead BY <1>5 DEF TextIsRead, loopState, dogState
<1>6. QED BY <1>1, <1>2, <1>3, <1>4, <1>5 DEF RunNext

(* What a look of the watchdog changes.                                    *)
LEMMA LookTypes ==
  ASSUME BgSound
  PROVE  /\ StopsLoop => loopCancel' \in BOOLEAN
         /\ TimesOut \/ IsActive => /\ {quiet', loopCancel'} \subseteq BOOLEAN
                                   /\ fired' \in SUBSET {"quiet", "question"}
                                   /\ watchdog' \in {"none", "sleeps", "rejects", "over"}
<1>1. {quiet, loopCancel} \subseteq BOOLEAN /\ fired \in SUBSET {"quiet", "question"}
  BY DEF BgSound, BgTypeOK
<1>2. StopsLoop => loopCancel' \in BOOLEAN BY DEF StopsLoop
<1>3. CASE TimesOut BY <1>1, <1>2, <1>3 DEF TimesOut
<1>4. CASE IsActive BY <1>1, <1>4 DEF IsActive
<1>5. QED BY <1>2, <1>3, <1>4

LEMMA LoopTypes ==
  ASSUME BgSound, LoopActs \/ LoopEnds \/ GoesQuiet \/ WatchdogLooks \/ QuestionRejected
  PROVE  BgSound'
<1> USE DEF BgSound, BgTypeOK, Going, Waiting, Ended, runState
<1>1. CASE LoopActs
  <2>1. /\ quiet' = FALSE /\ loop' \in Going
        /\ UNCHANGED <<record, mayAsk, mustCancel, raised, loopCancel, kept>>
        /\ UNCHANGED <<executor, at, cancelling, outcome, status, watchdog, fired>>
    BY <1>1 DEF LoopActs, dogState
  <2>2. {record, mayAsk, mustCancel, raised, loopCancel, quiet, kept}' \subseteq BOOLEAN BY <2>1
  <2>3. QED BY <2>1, <2>2
<1>2. CASE LoopEnds BY <1>2 DEF LoopEnds, dogState
<1>3. CASE GoesQuiet BY <1>3 DEF GoesQuiet, dogState
<1>4. CASE WatchdogLooks
  <2>1. /\ {quiet', loopCancel'} \subseteq BOOLEAN /\ fired' \in SUBSET {"quiet", "question"}
        /\ watchdog' \in {"none", "sleeps", "rejects", "over"}
    BY <1>4, LookTypes DEF WatchdogLooks, Looks
  <2>2. QED BY <1>4, <2>1 DEF WatchdogLooks
<1>5. CASE QuestionRejected
  <2>1. /\ UNCHANGED <<record, executor, mayAsk, at, cancelling, mustCancel, outcome, status,
                       raised, kept>>
        /\ loop' \in {loop, "going"} /\ at = "loop"
    BY <1>5 DEF QuestionRejected
  <2>2. /\ {quiet', loopCancel'} \subseteq BOOLEAN /\ fired' \in SUBSET {"quiet", "question"}
        /\ watchdog' \in {"none", "sleeps", "rejects", "over"}
    <3>1. CASE StopsLoop /\ watchdog' = "over" /\ UNCHANGED <<quiet, fired>> BY <3>1, LookTypes
    <3>2. CASE TimesOut \/ IsActive BY <3>2, LookTypes
    <3>3. QED BY <1>5, <3>1, <3>2 DEF QuestionRejected
  <2>3. {record, mayAsk, mustCancel, raised, loopCancel, quiet, kept}' \subseteq BOOLEAN
    BY <2>1, <2>2
  <2>4. QED BY <2>1, <2>2, <2>3
<1>6. QED BY <1>1, <1>2, <1>3, <1>4, <1>5

(* The types of a background run, with what they rest on.                  *)
THEOREM RunTypesHold == BgSpec => []BgSound
<1>1. BgSound /\ [BgNext]_bgVars => BgSound'
  <2> SUFFICES ASSUME BgSound, [BgNext]_bgVars PROVE BgSound' OBVIOUS
  <2>1. CASE UNCHANGED bgVars BY <2>1 DEF bgVars, BgSound, BgTypeOK
  <2>2. QED BY <2>1, ExecutorTypes, CancelsType, RunTypes, LoopTypes DEF BgNext
<1>2. QED BY <1>1, InitBg, PTL DEF BgSpec

-----------------------------------------------------------------------------
(* The scheduler's bounds: the clock, the errors, the runs' numbers, and   *)
(* that a tick has read active rows only.                                  *)
SchedBounds ==
  /\ now \in 1..MaxTime /\ errors \in 0..MaxErrors
  /\ \A s \in Schedulers : \A run \in runs[s] : run.id >= 1
  /\ \A i \in DOMAIN tick.todo : tick.todo[i].row.status = "active"

LEMMA InitBounds == SchedInit => SchedBounds
BY SchedulingAssumption DEF SchedInit, SchedBounds, Asleep

(* What a tick reads.                                                      *)
LEMMA ReadsActive ==
  ASSUME TickReads PROVE \A i \in DOMAIN tick'.todo : tick'.todo[i].row.status = "active"
<1> DEFINE found == {s \in Schedulers : sched[s].status = "active"}
<1>1. PICK order \in SetToSeqs(found) :
        tick' = [at |-> "each", now |-> now,
                 todo |-> [i \in DOMAIN order |-> [sched |-> order[i], row |-> sched[order[i]]]]]
  BY DEF TickReads
<1>2. \A i \in DOMAIN order : order[i] \in found BY DEF SetToSeqs
<1>3. QED BY <1>1, <1>2

LEMMA NextBounds == SchedInv /\ SchedBounds /\ [SchedNext]_schedVars => SchedBounds'
<1> SUFFICES ASSUME SchedInv, SchedBounds, [SchedNext]_schedVars PROVE SchedBounds' OBVIOUS
<1>0. /\ MaxTime \in Nat /\ MaxErrors \in Nat /\ started \in Nat /\ now \in Nat
      /\ runs \in [Schedulers -> SUBSET Run] /\ TickSound
  BY SchedulingAssumption DEF SchedInv, TypeInv
<1>a. ASSUME errors' \in 0..MaxErrors, StartsRun \/ EndsRuns, UNCHANGED <<now, tick>> PROVE SchedBounds'
  <2>1. ASSUME NEW s \in Schedulers, NEW run \in runs'[s] PROVE run.id >= 1
    <3>1. run \in runs[s] \/ run = [id |-> started + 1, by |-> "person"]
      BY <1>0, <1>a, <2>1 DEF StartsRun, EndsRuns
    <3>2. CASE run \in runs[s] BY <3>2 DEF SchedBounds
    <3>3. CASE run = [id |-> started + 1, by |-> "person"] BY <3>3, <1>0
    <3>4. QED BY <3>1, <3>2, <3>3
  <2>2. QED BY <1>a, <2>1 DEF SchedBounds
<1>b. ASSUME tick.todo # <<>> PROVE \A i \in DOMAIN Following.todo : Following.todo[i].row.status = "active"
  BY <1>b, FollowingIs DEF SchedBounds
<1>1. CASE UNCHANGED schedVars BY <1>1 DEF schedVars, rowVars, countVars, SchedBounds
<1>2. CASE TickReads BY <1>2, ReadsActive DEF TickReads, rowVars, countVars, SchedBounds
<1>3. CASE TickLooks
  <2>1. tick'.todo = tick.todo \/ tick' = Following BY <1>3 DEF TickLooks
  <2>2. \A i \in DOMAIN tick'.todo : tick'.todo[i].row.status = "active"
    BY <2>1, <1>3, <1>b DEF TickLooks, SchedBounds
  <2>3. QED BY <1>3, <2>2 DEF TickLooks, rowVars, countVars, SchedBounds
<1>4. CASE TickEnds BY <1>4 DEF TickEnds, rowVars, countVars, SchedBounds, Asleep
<1>5. CASE TickFires \/ TickFails
  <2>1. /\ tick.at = "fire" /\ tick.todo # <<>> /\ tick' = Following /\ now' = now
        /\ Fires(Due.sched, Due.row) \/ UNCHANGED rowVars
    BY <1>5, <1>0 DEF TickFires, TickFails, TickSound
  <2>2. errors' \in 0..MaxErrors BY <1>0, <1>5 DEF TickFires, TickFails, countVars, SchedBounds
  <2>3. ASSUME NEW s \in Schedulers, NEW run \in runs'[s] PROVE run.id >= 1
    <3>1. CASE UNCHANGED rowVars BY <3>1, <2>3 DEF rowVars, SchedBounds
    <3>2. CASE Fires(Due.sched, Due.row)
      <4>1. run \in runs[s] \/ run = [id |-> started + 1, by |-> "tick"]
        BY <2>1, <2>3, <3>2, <1>0, FiringIs DEF FiredRow
      <4>2. CASE run \in runs[s] BY <4>2 DEF SchedBounds
      <4>3. CASE run = [id |-> started + 1, by |-> "tick"] BY <4>3, <1>0
      <4>4. QED BY <4>1, <4>2, <4>3
    <3>3. QED BY <2>1, <3>1, <3>2
  <2>4. QED BY <2>1, <2>2, <2>3, <1>b DEF SchedBounds
<1>6. CASE LoopRestarts
  <2>1. errors' \in 0..MaxErrors BY <1>0, <1>6 DEF LoopRestarts, SchedBounds
  <2>2. QED BY <1>6, <2>1 DEF LoopRestarts, rowVars, SchedBounds, Asleep
<1>7. CASE ClockAdvances
  <2>1. now' \in 1..MaxTime BY <1>0, <1>7 DEF ClockAdvances
  <2>2. QED BY <1>7, <2>1 DEF ClockAdvances, rowVars, countVars, SchedBounds
<1>8. ASSUME NEW s \in Schedulers, RunEnds(s) PROVE SchedBounds'
  <2>1. EndsRuns BY <1>0, <1>8 DEF RunEnds, EndsRuns
  <2>2. QED BY <1>8, <1>a, <2>1 DEF RunEnds, countVars, SchedBounds
<1>9. ASSUME NEW p \in People, Handles(p) PROVE SchedBounds'
  <2>1. errors' = errors BY <1>9 DEF Handles, Writes, Runs, Lists, Cancels, Drops, countVars
  <2>2. QED BY <1>9, <1>a, <2>1, HandlesIs DEF PersonStep, SchedBounds
<1>10. ASSUME NEW p \in People, NEW s \in Schedulers,
              Prepares(p, s) \/ Creates(p, s) \/ Reruns(p, s) \/ Deletes(p, s)
       PROVE  SchedBounds'
  <2>1. errors' = errors BY <1>10 DEF Prepares, Creates, Reruns, Deletes
  <2>2. QED BY <1>10, <1>a, <2>1, SendsIs DEF PersonStep, SchedBounds
<1>11. QED BY <1>1, <1>2, <1>3, <1>4, <1>5, <1>6, <1>7, <1>8, <1>9, <1>10 DEF SchedNext, TickNext

(* The types of the schedulers and of the loop.                            *)
THEOREM SchedTypesHold == SchedSpec => []SchedTypeOK
<1>1. SchedInv /\ SchedBounds => SchedTypeOK
  <2> SUFFICES ASSUME SchedInv, SchedBounds PROVE SchedTypeOK OBVIOUS
  <2>1. TypeInv /\ TickSound /\ RunsCounted BY DEF SchedInv
  <2>2. runs \in [Schedulers -> SUBSET [id: 1..started, by: {"tick", "person"}]]
    <3>1. runs \in [Schedulers -> SUBSET Run] /\ started \in Nat BY <2>1 DEF TypeInv
    <3>2. ASSUME NEW s \in Schedulers, NEW run \in runs[s]
          PROVE  run \in [id: 1..started, by: {"tick", "person"}]
      <4>1. run \in Run /\ run.id <= started /\ run.id >= 1 BY <3>1, <2>1 DEF RunsCounted, SchedBounds
      <4>2. run.id \in 1..started BY <4>1, <3>1 DEF Run
      <4>3. QED BY <4>1, <4>2 DEF Run
    <3>3. QED BY <3>1, <3>2
  <2>3. QED BY <2>1, <2>2 DEF TypeInv, TickSound, SchedBounds, SchedTypeOK, AnyRow
<1>2. SchedSpec => []SchedBounds BY InitBounds, NextBounds, SchedulingStaysSound, PTL DEF SchedSpec
<1>3. QED BY <1>1, <1>2, SchedulingStaysSound, PTL

-----------------------------------------------------------------------------
(* A behaviour of the specification that is checked is a behaviour of each *)
(* part: a step is one of a single part, and the others stutter.           *)
LEMMA StepsOfParts ==
  ASSUME [Next]_vars
  PROVE  /\ [PermNext]_permVars /\ [BgNext]_bgVars /\ [SchedNext]_schedVars
         /\ [GateNext]_writeVars /\ [EngineNext]_engineVars
BY DEF Next, vars, OfAsking, OfBackground, OfScheduling, OfWriting, OfRunning

THEOREM PartsAreParts == Spec => PermSpec /\ BgSpec /\ SchedSpec /\ GateSpec /\ EngineSpec
<1>1. Init => PermInit /\ BgInit /\ SchedInit /\ GateInit /\ EngineInit BY DEF Init
<1>2. QED BY <1>1, StepsOfParts, PTL DEF Spec, PermSpec, BgSpec, SchedSpec, GateSpec, EngineSpec

(* Of the five parts together: every variable keeps its type, and no join  *)
(* runs more often than its sources.                                       *)
THEOREM PartsStayConsistent == Spec => []Consistent
<1>1. RuleInv => PermTypeOK BY DEF RuleInv
<1>2. BgSound => BgTypeOK BY DEF BgSound
<1>3. LockInv => GateTypeOK BY DEF LockInv
<1>4. RunSound => EngineTypeOK BY DEF RunSound
<1>5. QED BY <1>1, <1>2, <1>3, <1>4, PartsAreParts, RulesStaySound, RunTypesHold, SchedTypesHold,
             GateStaysSound, RunsStaySound, JoinsStayFed, PTL
          DEF Consistent
=============================================================================
