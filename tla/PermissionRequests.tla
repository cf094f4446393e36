------------------------- MODULE PermissionRequests -------------------------
(***************************************************************************)
(* A tool asks for a permission and waits; users answer, in the process of *)
(* the asker or in another one (flocks/permission/next.py).  The request   *)
(* and an answer given elsewhere are rows of the store; an answer given    *)
(* here resolves the asker's future.  "always" and "never" answers, and    *)
(* admins, change the durable rule of the permission, which each process   *)
(* caches.  A step is what happens up to the next await on the store; each *)
(* write of the rule has a connection of its own, so that two of them are  *)
(* carried out in either order.                                            *)
(***************************************************************************)
EXTENDS Naturals

CONSTANTS Users,        \* those who act, once each
          StartsLoaded, \* the processes that read the durable rule before
          MaxCrashes    \* crashes of the asker's process

Here      == "here"
Processes == {Here, "there"}
Grants    == [always |-> "allow", never |-> "deny"]  \* what these answers store
Answers   == {"once"} \cup DOMAIN Grants             \* allowed or denied this once
Unset      == "none"

ASSUME PermissionAssumption == StartsLoaded \subseteq Processes /\ MaxCrashes \in Nat

VARIABLES asker,      \* where ask is
          verdict,    \* what it ends with
          late,       \* its deadline has passed
          pending,    \* the request is in _pending of its process
          future,     \* the answer its future was resolved with
          row,        \* permission_pending of the request is stored
          answerRow,  \* permission_reply of the request
          rule,       \* permission_rule of the permission, as stored
          cache,      \* _permanent_rules of each process
          loaded,     \* processes with _state_loaded
          crossed,    \* history: two writes of the rule were on their way at once
          user,       \* what each user does: process, answer, where that is, what it found
          crashed     \* how often the asker's process was restarted

askVars  == <<asker, verdict, late, pending, future, row, answerRow>>
ruleVars == <<rule, cache, loaded, crossed>>
permVars == <<askVars, ruleVars, user, crashed>>

Idle == [at |-> Here, says |-> Unset, step |-> "idle", read |-> "nothing", known |-> "no"]

PermInit ==
  /\ asker = "new" /\ verdict = Unset /\ late = FALSE /\ pending = FALSE /\ future = Unset
  /\ row = FALSE /\ answerRow = Unset
  /\ rule = Unset /\ cache = [p \in Processes |-> Unset] /\ loaded = StartsLoaded
  /\ crossed = FALSE /\ user = [u \in Users |-> Idle] /\ crashed = 0

-----------------------------------------------------------------------------
(* ask: persisted before anything shows it, announced, and polled for.     *)
Persist ==
  /\ asker = "new" /\ asker' = "persisted" /\ row' = TRUE
  /\ UNCHANGED <<verdict, late, pending, future, answerRow, ruleVars, user, crashed>>

Expose ==
  /\ asker = "persisted" /\ asker' = "announcing" /\ pending' = TRUE
  /\ UNCHANGED <<verdict, late, future, row, answerRow, ruleVars, user, crashed>>

Announced ==
  /\ asker = "announcing" /\ asker' = "check"
  /\ UNCHANGED <<verdict, late, pending, future, row, answerRow, ruleVars, user, crashed>>

Deadline ==
  /\ asker \in {"check", "wait"} /\ ~late /\ late' = TRUE
  /\ UNCHANGED <<asker, verdict, pending, future, row, answerRow, ruleVars, user, crashed>>

(* Nobody waits any more: first this process forgets the request.          *)
Settle(how) == verdict' = how /\ asker' = "drop row" /\ pending' = FALSE
AskTo(where) == asker' = where /\ UNCHANGED <<verdict, pending>>

CheckVariant ==
  /\ asker = "check" /\ IF late THEN Settle("timeout") ELSE AskTo("wait")
  /\ UNCHANGED <<late, future, row, answerRow, ruleVars, user, crashed>>

(* _consume_persisted_reply reads, then deletes; then the time is checked. *)
Check ==
  /\ asker = "check"
  /\ IF answerRow # Unset THEN verdict' = answerRow /\ asker' = "consume" /\ UNCHANGED pending
     ELSE IF late THEN Settle("timeout") ELSE AskTo("wait")
  /\ UNCHANGED <<late, future, row, answerRow, ruleVars, user, crashed>>

Consume ==
  /\ asker = "consume" /\ Settle(verdict) /\ answerRow' = Unset
  /\ UNCHANGED <<late, future, row, ruleVars, user, crashed>>

Wait ==
  /\ asker = "wait" /\ IF future = Unset THEN AskTo("check") ELSE Settle(future)
  /\ UNCHANGED <<late, future, row, answerRow, ruleVars, user, crashed>>

AskerWaits == asker \in {"persisted", "announcing", "check", "consume", "wait"}

StopAskVariant ==
  /\ AskerWaits /\ IF asker = "announcing" THEN AskTo("over") ELSE Settle("stopped")
  /\ UNCHANGED <<late, future, row, answerRow, ruleVars, user, crashed>>

(* The waiting turn is stopped, or the store fails it, also while it       *)
(* stores its request (which may be stored then) or announces it.          *)
StopAsk ==
  /\ asker = "new" \/ AskerWaits
  /\ Settle("stopped") /\ (row' = row \/ (asker = "new" /\ row' = TRUE))
  /\ UNCHANGED <<late, future, answerRow, ruleVars, user, crashed>>

DropRow ==
  /\ asker = "drop row" /\ asker' = "drop answer" /\ row' = FALSE
  /\ UNCHANGED <<verdict, late, pending, future, answerRow, ruleVars, user, crashed>>

DropAnswer ==
  /\ asker = "drop answer" /\ asker' = "over" /\ answerRow' = Unset
  /\ UNCHANGED <<verdict, late, pending, future, row, ruleVars, user, crashed>>

(* A second stop, or a failing store, cuts the withdrawal short; what was  *)
(* being deleted may be gone.                                              *)
CutShort ==
  /\ asker' = "over"
  /\ \/ asker = "drop row" /\ verdict' = "cut" /\ row' \in {row, FALSE} /\ UNCHANGED answerRow
     \/ asker = "drop answer" /\ verdict' = "stopped" /\ answerRow' \in {answerRow, Unset} /\ UNCHANGED row
  /\ UNCHANGED <<late, pending, future, ruleVars, user, crashed>>

-----------------------------------------------------------------------------
(* A user who is shown the request answers it; an admin deletes the rule.  *)
Act(u, p, says) ==
  /\ user[u].step = "idle" /\ (row \/ says = "delete")
  /\ user' = [user EXCEPT ![u] = [@ EXCEPT !.at = p, !.says = says, !.step = "load"]]
  /\ UNCHANGED <<askVars, ruleVars, crashed>>

Step(u, where) == user' = [user EXCEPT ![u].step = where]
Known(u, where, known) == user' = [user EXCEPT ![u].step = where, ![u].known = known]

(* What the rule becomes, in the cache of the process (now rules) and, once *)
(* it is written, in the store.                                            *)
NewRule(u) == IF user[u].says = "delete" THEN Unset ELSE Grants[user[u].says]
Crosses(u) == crossed' = (crossed \/ \E v \in Users \ {u} : user[v].step = "write")

SetRuleVariant(u, rules) == cache' = rules /\ Crosses(u) /\ Step(u, "write")

SetRule(u, rules) ==
  cache' = [rules EXCEPT ![user[u].at] = NewRule(u)] /\ Crosses(u) /\ Step(u, "write")

(* _ensure_persisted_state_loaded reads, then replaces the cache.          *)
Read(u) ==
  /\ user[u].step = "load" /\ user[u].at \notin loaded
  /\ user' = [user EXCEPT ![u].read = rule, ![u].step = "loading"]
  /\ UNCHANGED <<askVars, ruleVars, crashed>>

(* Then, without an await: the rule is deleted if there is one; a reply    *)
(* resolves the future - the first one counts -, or looks for the row.     *)
Proceed(u, rules) ==
  \/ /\ user[u].says = "delete" /\ UNCHANGED future
     /\ IF rules[user[u].at] = Unset
          THEN Step(u, "over") /\ cache' = rules /\ UNCHANGED crossed
          ELSE SetRule(u, rules)
  \/ /\ user[u].says # "delete" /\ cache' = rules /\ UNCHANGED crossed
     /\ IF user[u].at = Here /\ pending
          THEN /\ future' = IF future = Unset THEN user[u].says ELSE future
               /\ Known(u, "drop", "future")
          ELSE Step(u, "look") /\ UNCHANGED future

Go(u) ==
  /\ \/ /\ user[u].step = "load" /\ user[u].at \in loaded /\ UNCHANGED loaded
        /\ Proceed(u, cache)
     \/ /\ user[u].step = "loading" /\ loaded' = loaded \cup {user[u].at}
        /\ Proceed(u, [cache EXCEPT ![user[u].at] = user[u].read])
  /\ UNCHANGED <<asker, verdict, late, pending, row, answerRow, rule, crashed>>

Look(u) ==
  /\ user[u].step = "look" /\ Known(u, "leave", IF row THEN "row" ELSE "no")
  /\ UNCHANGED <<askVars, ruleVars, crashed>>

Leave(u) ==
  /\ user[u].step = "leave" /\ Step(u, "drop") /\ answerRow' = user[u].says
  /\ UNCHANGED <<asker, verdict, late, pending, future, row, ruleVars, crashed>>

(* The row goes; the answer is applied to the rule by _apply_reply_without *)
(* _future; last, a reply to the asker's future deletes the request here.  *)
Drop(u) ==
  /\ user[u].step = "drop" /\ row' = FALSE
  /\ IF user[u].known # "no" /\ user[u].says \in DOMAIN Grants
       THEN SetRule(u, cache) /\ UNCHANGED pending
       ELSE Step(u, "over") /\ UNCHANGED <<cache, crossed>> /\ pending' = (pending /\ user[u].known # "future")
  /\ UNCHANGED <<asker, verdict, late, future, answerRow, rule, loaded, crashed>>

Write(u) ==
  /\ user[u].step = "write" /\ Step(u, "over") /\ rule' = NewRule(u)
  /\ pending' = (pending /\ user[u].known # "future")
  /\ UNCHANGED <<asker, verdict, late, future, row, answerRow, cache, loaded, crossed, crashed>>

(* The asker's process is restarted: rows stay, what it was doing is lost. *)
Restart ==
  /\ crashed < MaxCrashes /\ crashed' = crashed + 1 /\ asker \notin {"new", "over"}
  /\ asker' = "over" /\ verdict' = "lost" /\ pending' = FALSE
  /\ cache' = [cache EXCEPT ![Here] = Unset] /\ loaded' = loaded \ {Here}
  /\ user' = [u \in Users |-> IF user[u].at = Here /\ user[u].step # "idle"
                                THEN [user[u] EXCEPT !.step = "over"] ELSE user[u]]
  /\ UNCHANGED <<late, future, row, answerRow, rule, crossed>>

-----------------------------------------------------------------------------
AskStep == Persist \/ Expose \/ Announced \/ Check \/ Consume \/ Wait \/ DropRow \/ DropAnswer
UserStep(u) == Read(u) \/ Go(u) \/ Look(u) \/ Leave(u) \/ Drop(u) \/ Write(u)

PermNext ==
  \/ AskStep \/ Deadline \/ StopAsk \/ CutShort \/ Restart
  \/ \E u \in Users : \/ UserStep(u)
                      \/ \E p \in Processes, says \in Answers \cup {"delete"} : Act(u, p, says)

PermSpec == PermInit /\ [][PermNext]_permVars

-----------------------------------------------------------------------------
(* Every variable keeps its type.                                          *)
UserType == [at : Processes, says : Answers \cup {Unset, "delete"}, known : {"no", "row", "future"},
             read : {"nothing", Unset, "allow", "deny"},
             step : {"idle", "load", "loading", "look", "leave", "drop", "write", "over"}]

PermTypeOK ==
  /\ asker \in {"new", "persisted", "announcing", "check", "consume", "wait", "drop row",
                "drop answer", "over"}
  /\ verdict \in Answers \cup {Unset, "timeout", "stopped", "cut", "lost"}
  /\ late \in BOOLEAN /\ pending \in BOOLEAN /\ row \in BOOLEAN /\ crossed \in BOOLEAN
  /\ pending => asker \notin {"new", "persisted", "over"}
  /\ future \in Answers \cup {Unset} /\ answerRow \in Answers \cup {Unset}
  /\ rule \in {Unset, "allow", "deny"} /\ cache \in [Processes -> {Unset, "allow", "deny"}]
  /\ loaded \subseteq Processes /\ crashed \in Nat
  /\ user \in [Users -> UserType]

(* A request nobody waits on any more - answered, timed out, or stopped    *)
(* even while it was stored or announced - is offered by no view, in       *)
(* either process, unless the asker is restarted or stopped a second time  *)
(* while it takes the request back.                                        *)
OverIsNotOffered ==
  asker = "over" /\ verdict \notin {"lost", "cut"} => ~row /\ ~pending

(* An answer given while the asker waits, through its future or the store, *)
(* reaches it before its deadline, unless it is stopped or restarted.      *)
AnswerIsHeard ==
  AskerWaits /\ (future # Unset \/ answerRow # Unset) ~> verdict # Unset \/ late

(* Once nothing is on its way, a process that alone writes the rule shows  *)
(* the stored one.  Holds if at most one user found it not yet loaded, and *)
(* no two writes of the rule were on their way at once.                    *)
Alone(p) == \A u \in Users : user[u].says # Unset => user[u].at = p
Readers(p) == {u \in Users : user[u].at = p /\ user[u].read # "nothing"}
ShowsRule(p) ==
  p \in loaded /\ Alone(p) /\ (\A u \in Users : user[u].step # "write") => cache[p] = rule
DurableRuleIsShown ==
  \A p \in Processes : (\A u, v \in Readers(p) : u = v) /\ ~crossed => ShowsRule(p)
=============================================================================
