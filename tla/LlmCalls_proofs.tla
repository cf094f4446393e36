-------------------------- MODULE LlmCalls_proofs --------------------------
(***************************************************************************)
(* For every set of requests, every limit and every order of timeouts,     *)
(* cancellations and changes of the limit: the limiter's counter is exact, *)
(* nobody waits while a slot is free, the waiters are served in order, and *)
(* it implements the slot pool.                                            *)
(***************************************************************************)
EXTENDS LlmCalls, FiniteSetTheorems, SequenceTheorems, TLAPS

(* What the queue, the futures and the slots on their way say of where a   *)
(* request is.                                                             *)
QueueSound ==
  \A i \in DOMAIN waiters :
    /\ pc[waiters[i]] = "waiting" /\ waiters[i] \notin popped
    /\ fut[waiters[i]] \in {"pending", "cancelled"}
    /\ \A j \in DOMAIN waiters : waiters[i] = waiters[j] => i = j

FuturesSound ==
  \A c \in Callers :
    /\ c \in popped => fut[c] \in {"pending", "cancelled"}
    /\ fut[c] = "cancelled" => pc[c] \in {"waiting", "over"}
    /\ c \in Patient /\ fut[c] = "pending" => pc[c] = "waiting" /\ c \notin stop
    /\ pc[c] \in {"new", "budget", "config", "resize", "enter"} => fut[c] = "none"
    /\ pc[c] \in {"new", "resize", "enter"} => c \notin stop
    /\ pc[c] = "waiting" => fut[c] # "none"
    /\ pc[c] = "waiting" /\ fut[c] = "pending" => Queued(c) \/ c \in popped

(* There is only a queue while all slots are taken.                        *)
QueueOnlyWhenFull == waiters # <<>> => Full \/ \E c \in Callers : pc[c] = "resize"

WaitInv == TypeOK /\ QueueSound /\ FuturesSound

-----------------------------------------------------------------------------
(* What inserting and removing an element does to a sequence.              *)
LEMMA InsertAtIs ==
  ASSUME NEW S, NEW s \in Seq(S), NEW i \in 1..Len(s) + 1, NEW e \in S
  PROVE  /\ InsertAt(s, i, e) \in Seq(S)
         /\ Len(InsertAt(s, i, e)) = Len(s) + 1
         /\ \A j \in 1..Len(s) + 1 :
              InsertAt(s, i, e)[j] = IF j < i THEN s[j] ELSE IF j = i THEN e ELSE s[j - 1]
<1>0. Len(s) \in Nat /\ i \in Nat /\ i > 0 BY LenProperties
<1> DEFINE front == SubSeq(s, 1, i - 1)
           back  == SubSeq(s, i, Len(s))
           head  == front \o <<e>>
<1>1. /\ front \in Seq(S) /\ Len(front) = i - 1
      /\ \A j \in 1..i - 1 : front[j] = s[j]
  OBVIOUS
<1>2. /\ back \in Seq(S) /\ Len(back) = Len(s) - i + 1
      /\ \A j \in 1..Len(s) - i + 1 : back[j] = s[i + j - 1]
  OBVIOUS
<1> HIDE DEF front, back
<1>3. /\ head \in Seq(S) /\ Len(head) = i
      /\ \A j \in 1..i : head[j] = IF j < i THEN s[j] ELSE e
  BY <1>1
<1> HIDE DEF head
<1>4. /\ head \o back \in Seq(S) /\ Len(head \o back) = Len(s) + 1
      /\ \A j \in 1..Len(s) + 1 :
           (head \o back)[j] = IF j < i THEN s[j] ELSE IF j = i THEN e ELSE s[j - 1]
  <2>1. /\ head \o back \in Seq(S) /\ Len(head \o back) = Len(s) + 1
        /\ \A j \in 1..Len(head) + Len(back) :
             (head \o back)[j] = IF j <= Len(head) THEN head[j] ELSE back[j - Len(head)]
    <3>1. Len(head) + Len(back) = Len(s) + 1 BY <1>0, <1>2, <1>3
    <3>2. QED BY <3>1, <1>2, <1>3, ConcatProperties
  <2>2. ASSUME NEW j \in 1..Len(s) + 1
        PROVE  (head \o back)[j] = IF j < i THEN s[j] ELSE IF j = i THEN e ELSE s[j - 1]
    <3>1. CASE j <= i BY <3>1, <2>1, <1>2, <1>3
    <3>2. CASE j > i
      <4>1. j - i \in 1..Len(s) - i + 1 /\ i + (j - i) - 1 = j - 1 BY <3>2
      <4>2. back[j - i] = s[j - 1] BY <4>1, <1>2
      <4>3. QED BY <4>1, <4>2, <3>2, <2>1, <1>2, <1>3
    <3>3. j <= i \/ j > i BY <1>0
    <3>4. QED BY <3>1, <3>2, <3>3, Zenon
  <2>3. QED BY <2>1, <2>2
<1>5. QED BY <1>4 DEF InsertAt, head, front, back

LEMMA RemoveAtIs ==
  ASSUME NEW S, NEW s \in Seq(S), NEW i \in 1..Len(s)
  PROVE  /\ RemoveAt(s, i) \in Seq(S)
         /\ Len(RemoveAt(s, i)) = Len(s) - 1
         /\ \A j \in 1..Len(s) - 1 : RemoveAt(s, i)[j] = IF j < i THEN s[j] ELSE s[j + 1]
<1>0. Len(s) \in Nat /\ i \in Nat /\ i > 0 BY LenProperties
<1> DEFINE front == SubSeq(s, 1, i - 1)
           back  == SubSeq(s, i + 1, Len(s))
<1>1. /\ front \in Seq(S) /\ Len(front) = i - 1
      /\ \A j \in 1..i - 1 : front[j] = s[j]
  OBVIOUS
<1>2. /\ back \in Seq(S) /\ Len(back) = Len(s) - i
      /\ \A j \in 1..Len(s) - i : back[j] = s[i + j]
  OBVIOUS
<1> HIDE DEF front, back
<1>3. /\ front \o back \in Seq(S) /\ Len(front \o back) = Len(s) - 1
      /\ \A j \in 1..Len(s) - 1 : (front \o back)[j] = IF j < i THEN s[j] ELSE s[j + 1]
  <2>1. /\ front \o back \in Seq(S) /\ Len(front \o back) = Len(s) - 1
        /\ \A j \in 1..Len(front) + Len(back) :
             (front \o back)[j] = IF j <= Len(front) THEN front[j] ELSE back[j - Len(front)]
    <3>1. /\ front \o back \in Seq(S) /\ Len(front \o back) = Len(front) + Len(back)
          /\ \A j \in 1..Len(front) + Len(back) :
               (front \o back)[j] = IF j <= Len(front) THEN front[j] ELSE back[j - Len(front)]
      <4>1. front \in Seq(S) /\ back \in Seq(S) BY <1>1, <1>2
      <4>2. QED BY <4>1, ConcatProperties, ZenonT(30)
    <3>2. Len(front) + Len(back) = Len(s) - 1 BY <1>0, <1>1, <1>2
    <3>3. QED BY <3>1, <3>2, ZenonT(30)
  <2>2. ASSUME NEW j \in 1..Len(s) - 1
        PROVE  (front \o back)[j] = IF j < i THEN s[j] ELSE s[j + 1]
    <3>1. CASE j < i BY <3>1, <2>1, <1>1, <1>2
    <3>2. CASE j >= i
      <4>1. j - (i - 1) \in 1..Len(s) - i /\ i + (j - (i - 1)) = j + 1 BY <3>2
      <4>2. back[j - (i - 1)] = s[j + 1] BY <4>1, <1>2
      <4>3. QED BY <4>1, <4>2, <3>2, <2>1, <1>1, <1>2
    <3>3. j < i \/ j >= i BY <1>0
    <3>4. QED BY <3>1, <3>2, <3>3, Zenon
  <2>3. QED BY <2>1, <2>2
<1>4. QED BY <1>3 DEF RemoveAt, front, back

LEMMA TailIs ==
  ASSUME NEW S, NEW s \in Seq(S), NEW i \in 1..Len(s)
  PROVE  /\ SubSeq(s, i + 1, Len(s)) \in Seq(S)
         /\ Len(SubSeq(s, i + 1, Len(s))) = Len(s) - i
         /\ \A j \in 1..Len(s) - i : SubSeq(s, i + 1, Len(s))[j] = s[i + j]
  OBVIOUS

(* The queue after a step holds waiters it held before, each once.         *)
Keeps(q, out) ==
  /\ q \in Seq(Callers)
  /\ \A i \in DOMAIN q : /\ Queued(q[i]) /\ q[i] \notin out
                         /\ \A j \in DOMAIN q : q[i] = q[j] => i = j

LEMMA PopIs ==
  ASSUME WaitInv, NEW gone, PopWaiter(gone)
  PROVE  \E w \in Callers :
           /\ Queued(w) /\ pc[w] = "waiting" /\ fut[w] = "pending" /\ w \notin popped
           /\ popped' = (popped \ gone) \cup {w}
           /\ Keeps(waiters', {w})
           /\ \A d \in Callers \ {w} : Queued(d) /\ fut[d] = "pending" => Queued(d)'
<1> USE DEF WaitInv, TypeOK, LimiterTypeOK
<1>1. PICK i \in DOMAIN waiters :
        /\ ~Done(waiters[i]) /\ \A j \in 1..i - 1 : Done(waiters[j])
        /\ waiters' = SubSeq(waiters, i + 1, Len(waiters))
        /\ popped' = (popped \ gone) \cup {waiters[i]}
  BY DEF PopWaiter
<1> DEFINE w == waiters[i]
<1>2. i \in 1..Len(waiters) /\ Len(waiters) \in Nat /\ w \in Callers BY <1>1, ElementOfSeq, LenProperties
<1>3. /\ waiters' \in Seq(Callers) /\ Len(waiters') = Len(waiters) - i
      /\ \A j \in 1..Len(waiters) - i : waiters'[j] = waiters[i + j]
  BY <1>1, <1>2, TailIs
<1>4. DOMAIN waiters' = 1..Len(waiters) - i /\ DOMAIN waiters = 1..Len(waiters)
  BY <1>3, LenProperties
<1>5. Queued(w) /\ pc[w] = "waiting" /\ fut[w] = "pending" /\ w \notin popped
  BY <1>1, <1>2 DEF QueueSound, Queued, Done
<1>6. Keeps(waiters', {w})
  <2>1. ASSUME NEW j \in DOMAIN waiters'
        PROVE  i + j \in DOMAIN waiters /\ i + j # i /\ waiters'[j] = waiters[i + j]
    <3>1. j \in 1..Len(waiters) - i BY <1>4
    <3>2. i + j \in 1..Len(waiters) /\ i + j # i BY <3>1, <1>2
    <3>3. QED BY <3>1, <3>2, <1>3, <1>4
  <2>2. ASSUME NEW j \in DOMAIN waiters'
        PROVE  Queued(waiters'[j]) /\ waiters'[j] # w
    BY <2>1, <1>1 DEF QueueSound, Queued
  <2>3. ASSUME NEW j \in DOMAIN waiters', NEW k \in DOMAIN waiters', waiters'[j] = waiters'[k]
        PROVE  j = k
    <3>1. waiters[i + j] = waiters[i + k] /\ i + j \in DOMAIN waiters /\ i + k \in DOMAIN waiters
      BY <2>1, <2>3
    <3>2. i + j = i + k BY <3>1 DEF QueueSound
    <3>3. j \in Int /\ k \in Int /\ i \in Int BY <1>2, <1>4
    <3>4. QED BY <3>2, <3>3
  <2>4. QED BY <1>3, <2>2, <2>3 DEF Keeps
<1>7. ASSUME NEW d \in Callers \ {w}, Queued(d), fut[d] = "pending"
      PROVE  Queued(d)'
  <2>1. PICK k \in DOMAIN waiters : waiters[k] = d BY <1>7 DEF Queued
  <2>2. k # i BY <2>1
  <2>3. ~Done(d) BY <1>7 DEF Done
  <2>4. ~(k \in 1..i - 1) BY <2>1, <2>3, <1>1
  <2>5. k - i \in 1..Len(waiters) - i /\ i + (k - i) = k BY <2>2, <2>4, <1>2, <1>4
  <2>6. waiters'[k - i] = waiters[i + (k - i)] BY <2>5, <1>3
  <2>7. QED BY <2>1, <2>5, <2>6, <1>4 DEF Queued
<1>8. QED BY <1>1, <1>2, <1>5, <1>6, <1>7

LEMMA RemoveIs ==
  ASSUME WaitInv, NEW c \in Callers, RemoveWaiter(c)
  PROVE  /\ Keeps(waiters', {c}) /\ Queued(c)
         /\ pc[c] = "waiting" /\ fut[c] \in {"pending", "cancelled"} /\ c \notin popped
         /\ \A d \in Callers \ {c} : Queued(d) => Queued(d)'
<1> USE DEF WaitInv, TypeOK, LimiterTypeOK
<1>1. PICK i \in DOMAIN waiters : waiters[i] = c /\ waiters' = RemoveAt(waiters, i)
  BY DEF RemoveWaiter
<1>2. i \in 1..Len(waiters) /\ Len(waiters) \in Nat /\ DOMAIN waiters = 1..Len(waiters)
  BY <1>1, LenProperties
<1>3. /\ waiters' \in Seq(Callers) /\ Len(waiters') = Len(waiters) - 1
      /\ \A j \in 1..Len(waiters) - 1 :
           waiters'[j] = IF j < i THEN waiters[j] ELSE waiters[j + 1]
  BY <1>1, <1>2, RemoveAtIs
<1>4. DOMAIN waiters' = 1..Len(waiters) - 1 BY <1>3, LenProperties
<1> DEFINE from(j) == IF j < i THEN j ELSE j + 1
<1>5. ASSUME NEW j \in DOMAIN waiters'
      PROVE  from(j) \in DOMAIN waiters /\ from(j) # i /\ waiters'[j] = waiters[from(j)]
  BY <1>2, <1>3, <1>4, SMTT(20)
<1>6. \A j, k \in DOMAIN waiters' : from(j) = from(k) => j = k BY <1>2, <1>4
<1> HIDE DEF from
<1>7. Keeps(waiters', {c})
  <2>1. ASSUME NEW j \in DOMAIN waiters'
        PROVE  Queued(waiters'[j]) /\ waiters'[j] # c
    BY <1>5, <1>1 DEF QueueSound, Queued
  <2>2. ASSUME NEW j \in DOMAIN waiters', NEW k \in DOMAIN waiters', waiters'[j] = waiters'[k]
        PROVE  j = k
    BY <1>5, <1>6, <2>2 DEF QueueSound
  <2>3. QED BY <1>3, <2>1, <2>2 DEF Keeps
<1>8. ASSUME NEW d \in Callers \ {c}, Queued(d)
      PROVE  Queued(d)'
  <2>1. PICK k \in DOMAIN waiters : waiters[k] = d BY <1>8 DEF Queued
  <2>2. k # i BY <2>1, <1>1
  <2>3. CASE k < i
    <3>1. k \in DOMAIN waiters' /\ waiters'[k] = d BY <2>1, <2>3, <1>2, <1>3, <1>4, SMTT(20)
    <3>2. QED BY <3>1 DEF Queued
  <2>4. CASE k > i
    <3>1. k - 1 \in 1..Len(waiters) - 1 /\ ~(k - 1 < i) /\ (k - 1) + 1 = k BY <2>4, <1>2
    <3>2. waiters'[k - 1] = d BY <3>1, <2>1, <1>3
    <3>3. QED BY <3>1, <3>2, <1>4 DEF Queued
  <2>5. k < i \/ k > i BY <2>2, <1>2
  <2>6. QED BY <2>3, <2>4, <2>5, Zenon
<1>9. QED BY <1>1, <1>7, <1>8 DEF QueueSound, Queued

LEMMA InsertIs ==
  ASSUME WaitInv, NEW c \in Callers, pc[c] # "waiting", InsertWaiter(c)
  PROVE  /\ waiters' \in Seq(Callers) /\ Queued(c)' /\ waiters' # <<>>
         /\ \A i \in DOMAIN waiters' :
              /\ waiters'[i] = c \/ Queued(waiters'[i])
              /\ \A j \in DOMAIN waiters' : waiters'[i] = waiters'[j] => i = j
         /\ \A d \in Callers : Queued(d) => Queued(d)'
<1> USE DEF WaitInv, TypeOK, LimiterTypeOK
<1>1. PICK i \in 1..Len(waiters) + 1 : waiters' = InsertAt(waiters, i, c)
  BY DEF InsertWaiter
<1>2. i \in Nat /\ i > 0 /\ Len(waiters) \in Nat /\ DOMAIN waiters = 1..Len(waiters)
  BY LenProperties
<1>3. /\ waiters' \in Seq(Callers) /\ Len(waiters') = Len(waiters) + 1
      /\ \A j \in 1..Len(waiters) + 1 : waiters'[j] =
           IF j < i THEN waiters[j] ELSE IF j = i THEN c ELSE waiters[j - 1]
  <2>1. waiters \in Seq(Callers) OBVIOUS
  <2>2. waiters' = InsertAt(waiters, i, c) BY <1>1
  <2> HIDE DEF WaitInv, TypeOK, LimiterTypeOK
  <2> DEFINE to == InsertAt(waiters, i, c)
  <2>3. /\ to \in Seq(Callers) /\ Len(to) = Len(waiters) + 1
        /\ \A j \in 1..Len(waiters) + 1 : to[j] =
             IF j < i THEN waiters[j] ELSE IF j = i THEN c ELSE waiters[j - 1]
    BY <2>1, InsertAtIs, SMTT(30)
  <2> HIDE DEF to
  <2>4. waiters' = to BY <2>2 DEF to
  <2>5. QED BY <2>3, <2>4, ZenonT(30)
<1>4. DOMAIN waiters' = 1..Len(waiters) + 1 BY <1>3, LenProperties
<1> DEFINE from(j) == IF j < i THEN j ELSE j - 1
<1>5. ASSUME NEW j \in DOMAIN waiters', j # i
      PROVE  from(j) \in DOMAIN waiters /\ waiters'[j] = waiters[from(j)]
  <2>1. j \in 1..Len(waiters) + 1 BY <1>4
  <2>2. from(j) \in 1..Len(waiters) BY <2>1, <1>2, <1>5
  <2>3. waiters'[j] = IF j < i THEN waiters[j] ELSE waiters[j - 1] BY <2>1, <1>3, <1>5
  <2>4. QED BY <2>2, <2>3, <1>2
<1>6. ASSUME NEW j \in DOMAIN waiters' \ {i}, NEW k \in DOMAIN waiters' \ {i}, from(j) = from(k)
      PROVE  j = k
  <2>1. j \in Int /\ k \in Int /\ j # i /\ k # i BY <1>2, <1>4
  <2>2. QED BY <2>1, <1>2, <1>6
<1>7. i \in DOMAIN waiters' /\ waiters'[i] = c BY <1>2, <1>3, <1>4
<1> HIDE DEF from
<1>8. \A k \in DOMAIN waiters : waiters[k] # c BY DEF QueueSound
<1>9. ASSUME NEW j \in DOMAIN waiters', NEW k \in DOMAIN waiters', waiters'[j] = waiters'[k]
      PROVE  j = k
  <2>1. CASE j # i /\ k # i BY <2>1, <1>5, <1>6, <1>9 DEF QueueSound
  <2>2. CASE j = i \/ k = i BY <2>2, <1>5, <1>7, <1>8, <1>9
  <2>3. QED BY <2>1, <2>2
<1>10. ASSUME NEW d \in Callers, Queued(d)
       PROVE  Queued(d)'
  <2>1. PICK k \in DOMAIN waiters : waiters[k] = d BY <1>10 DEF Queued
  <2>2. CASE k < i
    <3>1. k \in DOMAIN waiters' /\ waiters'[k] = d BY <2>1, <2>2, <1>2, <1>3, <1>4
    <3>2. QED BY <3>1 DEF Queued
  <2>3. CASE k >= i
    <3>1. k + 1 \in DOMAIN waiters' /\ ~(k + 1 < i) /\ k + 1 # i /\ (k + 1) - 1 = k
      BY <2>3, <1>2, <1>4
    <3>2. waiters'[k + 1] = d BY <3>1, <2>1, <1>3, <1>4
    <3>3. QED BY <3>1, <3>2 DEF Queued
  <2>4. k < i \/ k >= i BY <1>2
  <2>5. QED BY <2>2, <2>3, <2>4, Zenon
<1>11. ASSUME NEW j \in DOMAIN waiters' PROVE waiters'[j] = c \/ Queued(waiters'[j])
  BY <1>5, <1>7 DEF Queued
<1>12. Queued(c)' /\ waiters' # <<>> BY <1>7, <1>3, <1>2 DEF Queued
<1>13. QED BY <1>3, <1>9, <1>10, <1>11, <1>12

LEMMA Unchanged == ASSUME WaitInv, waiters' = waiters PROVE Keeps(waiters', {})
<1>1. \A i \in DOMAIN waiters : waiters[i] \in Callers BY ElementOfSeq, LenProperties DEF WaitInv, TypeOK, LimiterTypeOK
<1>2. QED BY <1>1 DEF Keeps, QueueSound, Queued, WaitInv, TypeOK, LimiterTypeOK

LEMMA Emptied == ASSUME waiters' = <<>>, NEW out PROVE Keeps(waiters', out)
BY DEF Keeps

LEMMA KeepsSound ==
  ASSUME WaitInv, NEW out, Keeps(waiters', out),
         \A d \in Callers \ out : Queued(d) => /\ pc'[d] = pc[d] /\ d \notin popped'
                                             /\ fut'[d] \in {fut[d], "cancelled"}
  PROVE  QueueSound'
<1>1. ASSUME NEW i \in DOMAIN waiters'
      PROVE  /\ pc'[waiters'[i]] = "waiting" /\ waiters'[i] \notin popped'
             /\ fut'[waiters'[i]] \in {"pending", "cancelled"}
  <2>1. Queued(waiters'[i]) /\ waiters'[i] \notin out BY DEF Keeps
  <2>2. waiters'[i] \in Callers BY ElementOfSeq, LenProperties DEF Keeps
  <2>3. /\ pc[waiters'[i]] = "waiting" /\ fut[waiters'[i]] \in {"pending", "cancelled"}
    BY <2>1 DEF Queued, WaitInv, QueueSound
  <2>4. QED BY <2>1, <2>2, <2>3
<1>2. QED BY <1>1 DEF QueueSound, Keeps

LEMMA ReleaseIs ==
  ASSUME WaitInv, NEW gone, Release(gone)
  PROVE  \E new \in SUBSET Callers :
           /\ popped' = (popped \ gone) \cup new
           /\ Keeps(waiters', new)
           /\ \A w \in new : Queued(w) /\ pc[w] = "waiting" /\ fut[w] = "pending" /\ w \notin popped
           /\ \A d \in Callers \ new : Queued(d) /\ fut[d] = "pending" => Queued(d)'
           /\ \/ TooMany /\ new = {} /\ active' = active - 1 /\ waiters' = waiters
              \/ ~TooMany /\ active' = active /\ \E w \in Callers : new = {w}
              \/ /\ ~TooMany /\ new = {} /\ waiters' = <<>>
                 /\ active' = IF active = 0 THEN 0 ELSE active - 1
<1>1. CASE Retire(gone)
  <2>1. Keeps(waiters', {}) BY <1>1, Unchanged DEF Retire
  <2>2. QED BY <1>1, <2>1 DEF Retire, Queued
<1>2. CASE PassOn(gone)
  <2>1. PopWaiter(gone) BY <1>2 DEF PassOn
  <2>2. PICK w \in Callers :
           /\ Queued(w) /\ pc[w] = "waiting" /\ fut[w] = "pending" /\ w \notin popped
           /\ popped' = (popped \ gone) \cup {w}
           /\ Keeps(waiters', {w})
           /\ \A d \in Callers \ {w} : Queued(d) /\ fut[d] = "pending" => Queued(d)'
    BY <2>1, PopIs
  <2>3. ~TooMany /\ active' = active BY <1>2 DEF PassOn
  <2>4. QED BY <2>2, <2>3
<1>3. CASE Free(gone)
  <2>1. Keeps(waiters', {}) BY <1>3, Emptied DEF Free, PopNone
  <2>2. \A d \in Callers : ~(Queued(d) /\ fut[d] = "pending")
    BY <1>3 DEF Free, PopNone, NoneWaits, Queued, Done
  <2>3. QED BY <1>3, <2>1, <2>2 DEF Free, PopNone
<1>4. QED BY <1>1, <1>2, <1>3 DEF Release

-----------------------------------------------------------------------------
(* The futures tell the truth, whatever happens.                           *)
LEMMA InitWait == Init => WaitInv
<1> SUFFICES ASSUME Init PROVE WaitInv OBVIOUS
<1> USE DEF Init, LimiterInit
<1>1. TypeOK
  <2>1. waiters \in Seq(Callers) OBVIOUS
  <2>2. pc \in [Callers -> PC] BY DEF PC
  <2>3. fut \in [Callers -> {"none", "pending", "set", "cancelled"}] OBVIOUS
  <2>4. ticket \in [Callers -> Nat] /\ seq \in Nat /\ active \in Nat OBVIOUS
  <2>5. QED BY <2>1, <2>2, <2>3, <2>4 DEF TypeOK, LimiterTypeOK
<1>2. QueueSound BY DEF QueueSound
<1>3. FuturesSound BY DEF FuturesSound
<1>4. QED BY <1>1, <1>2, <1>3 DEF WaitInv

(* A step that gives a slot back and in which only c moves on, from where  *)
(* it had one.                                                             *)
LEMMA ReleaseWait ==
  ASSUME WaitInv, NEW c \in Callers, NEW gone \in SUBSET {c}, Release(gone),
         fut' = fut, seq' = seq, ticket' = ticket, forced' = forced, limit' = limit,
         cooling' = cooling, stop' = stop, budget' \in SUBSET Callers,
         \/ pc' = pc /\ gone = {c} /\ fut[c] = "cancelled" /\ c \in popped
         \/ /\ gone = {} /\ pc[c] \in {"cooldown", "using", "failing"}
            /\ pc' = [pc EXCEPT ![c] = "over"] \/ pc' = [pc EXCEPT ![c] = "tool"]
         \/ gone = {} /\ pc[c] = "waiting" /\ fut[c] = "set" /\ pc' = [pc EXCEPT ![c] = "over"]
  PROVE  WaitInv'
<1> USE DEF WaitInv, TypeOK, LimiterTypeOK
<1>1. PICK new \in SUBSET Callers :
           /\ popped' = (popped \ gone) \cup new
           /\ Keeps(waiters', new)
           /\ \A w \in new : Queued(w) /\ pc[w] = "waiting" /\ fut[w] = "pending" /\ w \notin popped
           /\ \A d \in Callers \ new : Queued(d) /\ fut[d] = "pending" => Queued(d)'
           /\ \/ TooMany /\ new = {} /\ active' = active - 1 /\ waiters' = waiters
              \/ ~TooMany /\ active' = active /\ \E w \in Callers : new = {w}
              \/ /\ ~TooMany /\ new = {} /\ waiters' = <<>>
                 /\ active' = IF active = 0 THEN 0 ELSE active - 1
  BY ReleaseIs
<1>2. ~Queued(c) /\ c \notin new BY <1>1 DEF QueueSound, Queued
<1>3. TypeOK'
  <2>1. active' \in Nat
    <3>1. TooMany => active > limit /\ limit \in Nat BY LimitsAssumption DEF TooMany
    <3>2. QED BY <1>1, <3>1
  <2>2. waiters' \in Seq(Callers) BY <1>1 DEF Keeps
  <2>3. pc' \in [Callers -> PC] BY DEF PC
  <2>4. popped' \subseteq Callers BY <1>1
  <2>5. QED BY <2>1, <2>2, <2>3, <2>4
<1>4. QueueSound'
  <2>1. \A d \in Callers \ new : Queued(d) => d # c /\ d \notin popped
    BY <1>2 DEF QueueSound, Queued
  <2>2. \A d \in Callers \ new : Queued(d) => /\ pc'[d] = pc[d] /\ d \notin popped'
                                             /\ fut'[d] \in {fut[d], "cancelled"}
    BY <2>1, <1>1
  <2>3. QED BY <1>1, <2>2, KeepsSound
<1>5. FuturesSound'
  <2> SUFFICES ASSUME NEW d \in Callers
      PROVE  /\ d \in popped' => fut[d] \in {"pending", "cancelled"}
             /\ fut[d] = "cancelled" => pc'[d] \in {"waiting", "over"}
             /\ d \in Patient /\ fut[d] = "pending" => pc'[d] = "waiting" /\ d \notin stop
             /\ pc'[d] \in {"new", "budget", "config", "resize", "enter"} => fut[d] = "none"
             /\ pc'[d] \in {"new", "resize", "enter"} => d \notin stop
             /\ pc'[d] = "waiting" => fut[d] # "none"
             /\ pc'[d] = "waiting" /\ fut[d] = "pending" => Queued(d)' \/ d \in popped'
    BY DEF FuturesSound
  <2>1. d \in popped' => fut[d] \in {"pending", "cancelled"} BY <1>1 DEF FuturesSound
  <2>2. CASE d # c
    <3>1. pc'[d] = pc[d] BY <2>2
    <3>2. d \in popped' <=> d \in popped \/ d \in new BY <2>2, <1>1
    <3>3. QED BY <2>1, <2>2, <3>1, <3>2, <1>1 DEF FuturesSound
  <2>3. CASE d = c
    <3>1. CASE pc' = pc BY <2>1, <2>3, <3>1 DEF FuturesSound
    <3>2. CASE pc[c] \in {"cooldown", "using", "failing"} /\ pc'[c] \in {"over", "tool"}
      BY <2>1, <2>3, <3>2 DEF FuturesSound
    <3>3. CASE fut[c] = "set" /\ pc'[c] = "over" BY <2>1, <2>3, <3>3 DEF FuturesSound
    <3>4. QED BY <3>1, <3>2, <3>3
  <2>4. QED BY <2>2, <2>3
<1>6. QED BY <1>3, <1>4, <1>5

(* A step of c that leaves queue and slots alone.                          *)
LEMMA QuietWait ==
  ASSUME WaitInv, NEW c \in Callers, UNCHANGED <<active, waiters, popped, seq, ticket, forced>>,
         limit' \in Limits, cooling' \in BOOLEAN, stop' \subseteq Callers, budget' \subseteq Callers,
         NEW where \in PC, pc' = [pc EXCEPT ![c] = where],
         NEW f \in {fut[c], "cancelled"}, fut' = [fut EXCEPT ![c] = f],
         stop' \ {c} = stop \ {c},
         c \in stop' => where \notin {"new", "resize", "enter"},
         c \in stop' => (c \in Patient => f # "pending"),
         pc[c] = "waiting" /\ f = "pending" => where = "waiting",
         Queued(c) => where = pc[c] /\ f # "set",
         f = "cancelled" => fut[c] \in {"pending", "cancelled"} /\ where \in {"waiting", "over"},
         where \in {"new", "budget", "config", "resize", "enter"} => f = "none",
         where = "waiting" => pc[c] = "waiting"
  PROVE  WaitInv'
<1> USE DEF WaitInv, TypeOK, LimiterTypeOK
<1>1. TypeOK' OBVIOUS
<1>2. QueueSound'
  <2>1. Keeps(waiters', {}) BY Unchanged
  <2>2. \A d \in Callers : Queued(d) => d \notin popped BY DEF QueueSound, Queued
  <2>3. QED BY <2>1, <2>2, KeepsSound
<1>3. FuturesSound'
  <2> SUFFICES ASSUME NEW d \in Callers
      PROVE  /\ d \in popped' => fut'[d] \in {"pending", "cancelled"}
             /\ fut'[d] = "cancelled" => pc'[d] \in {"waiting", "over"}
             /\ d \in Patient /\ fut'[d] = "pending" => pc'[d] = "waiting" /\ d \notin stop'
             /\ pc'[d] \in {"new", "budget", "config", "resize", "enter"} => fut'[d] = "none"
             /\ pc'[d] \in {"new", "resize", "enter"} => d \notin stop'
             /\ pc'[d] = "waiting" => fut'[d] # "none"
             /\ pc'[d] = "waiting" /\ fut'[d] = "pending" => Queued(d)' \/ d \in popped'
    BY DEF FuturesSound
  <2>1. Queued(d)' <=> Queued(d) BY DEF Queued
  <2>2. CASE d # c
    <3>1. pc'[d] = pc[d] /\ fut'[d] = fut[d] /\ (d \in stop' <=> d \in stop) BY <2>2
    <3>2. QED BY <2>1, <3>1 DEF FuturesSound
  <2>3. CASE d = c
    <3>1. pc'[c] = where /\ fut'[c] = f OBVIOUS
    <3>2. /\ c \in popped => fut[c] \in {"pending", "cancelled"}
          /\ c \in Patient /\ fut[c] = "pending" => pc[c] = "waiting"
          /\ pc[c] = "waiting" => fut[c] # "none"
          /\ pc[c] = "waiting" /\ fut[c] = "pending" => Queued(c) \/ c \in popped
      BY DEF FuturesSound
    <3>3. c \in popped' => f \in {"pending", "cancelled"} BY <3>2
    <3>4. c \in Patient /\ f = "pending" => where = "waiting" /\ c \notin stop' BY <3>2
    <3>5. where = "waiting" => f # "none" BY <3>2
    <3>6. where = "waiting" /\ f = "pending" => Queued(c)' \/ c \in popped' BY <2>1, <2>3, <3>2
    <3>7. f = "cancelled" => where \in {"waiting", "over"} OBVIOUS
    <3>8. where \in {"new", "resize", "enter"} => c \notin stop' OBVIOUS
    <3>9. QED BY <2>3, <3>1, <3>3, <3>4, <3>5, <3>6, <3>7, <3>8
  <2>4. QED BY <2>2, <2>3
<1>4. QED BY <1>1, <1>2, <1>3

LEMMA NextWait == WaitInv /\ [Next]_vars => WaitInv'
<1> SUFFICES ASSUME WaitInv, [Next]_vars PROVE WaitInv' OBVIOUS
<1> USE DEF WaitInv, TypeOK, LimiterTypeOK
<1>1. CASE UNCHANGED vars
  <2>1. TypeOK' BY <1>1 DEF vars, limiterVars
  <2>2. QueueSound' BY <1>1 DEF vars, limiterVars, QueueSound
  <2>3. FuturesSound' BY <1>1 DEF vars, limiterVars, FuturesSound, Queued
  <2>4. QED BY <2>1, <2>2, <2>3
<1>2. CASE Warm
  <2>1. TypeOK' BY <1>2 DEF Warm, CooldownEnds
  <2>2. QueueSound' BY <1>2 DEF Warm, CooldownEnds, QueueSound
  <2>3. FuturesSound' BY <1>2 DEF Warm, CooldownEnds, FuturesSound, Queued
  <2>4. QED BY <2>1, <2>2, <2>3
<1>3. ASSUME NEW c \in Callers,
             \/ Begin(c) \/ TakeBudget(c) \/ ToolEnds(c) \/ RateLimited(c) \/ Cancel(c)
             \/ SetLimit(c) /\ UNCHANGED budget
             \/ Resume(c) /\ UNCHANGED budget
             \/ Start(c) /\ UNCHANGED budget
      PROVE  WaitInv'
  <2>1. Queued(c) => pc[c] = "waiting" /\ fut[c] \in {"pending", "cancelled"}
    BY DEF QueueSound, Queued
  <2>2. /\ fut[c] = "cancelled" => pc[c] \in {"waiting", "over"}
        /\ c \in Patient /\ fut[c] = "pending" => pc[c] = "waiting" /\ c \notin stop
        /\ pc[c] \in {"new", "resize", "enter"} => c \notin stop
        /\ pc[c] = "waiting" => fut[c] # "none"
        /\ pc[c] \in {"new", "budget", "config", "resize", "enter"} => fut[c] = "none"
    BY DEF FuturesSound
  <2>3. UNCHANGED <<active, waiters, popped, seq, ticket, forced>>
    BY <1>3 DEF Begin, TakeBudget, ToolEnds, RateLimited, Cancel, SetLimit, Resume, Start, limiterVars
  <2>4. /\ limit' \in Limits /\ cooling' \in BOOLEAN /\ stop' \subseteq Callers
        /\ budget' \subseteq Callers
    BY <1>3 DEF Begin, TakeBudget, ToolEnds, RateLimited, Cancel, SetLimit, Resume, Start,
                limiterVars, GiveBudget
  <2>5. CASE Cancel(c)
    <3>0. stop' = stop \cup {c} /\ pc[c] \notin {"new", "resize", "enter"} BY <2>5 DEF Cancel
    <3>1. pc' = [pc EXCEPT ![c] = pc[c]] BY <2>5 DEF Cancel
    <3>2. CASE c \in Patient /\ fut[c] = "pending"
      <4>1. fut' = [fut EXCEPT ![c] = "cancelled"] BY <2>5, <3>2 DEF Cancel
      <4>2. QED BY <2>1, <2>2, <2>3, <2>4, <3>0, <3>1, <3>2, <4>1, QuietWait
    <3>3. CASE ~(c \in Patient /\ fut[c] = "pending")
      <4>1. fut' = [fut EXCEPT ![c] = fut[c]] BY <2>5, <3>3 DEF Cancel
      <4>2. QED BY <2>1, <2>2, <2>3, <2>4, <3>0, <3>1, <3>3, <4>1, QuietWait
    <3>4. QED BY <3>2, <3>3
  <2>6. CASE ~Cancel(c)
    <3>1. fut' = [fut EXCEPT ![c] = fut[c]]
      BY <1>3, <2>6 DEF Begin, TakeBudget, ToolEnds, RateLimited, SetLimit, Resume, Start, limiterVars
    <3>2. PICK where \in PC \ {"new", "waiting"} :
            /\ pc' = [pc EXCEPT ![c] = where]
            /\ where \in {"budget", "config", "resize", "enter"} =>
                 pc[c] \in {"new", "budget", "config"}
      BY <1>3, <2>6 DEF Begin, TakeBudget, ToolEnds, RateLimited, SetLimit, Resume, Start, To, PC
    <3>3. ~Queued(c) /\ ~(fut[c] = "pending" /\ pc[c] = "waiting") /\ fut[c] # "cancelled"
      BY <2>2, <1>3, <2>1, <2>6 DEF Begin, TakeBudget, ToolEnds, RateLimited, SetLimit, Resume, Start
    <3>4. /\ stop' = stop
          /\ where \in {"resize", "enter"} => c \notin stop
      BY <1>3, <2>6, <3>2 DEF Begin, TakeBudget, ToolEnds, RateLimited, SetLimit, Resume, Start, To, PC
    <3>5. QED BY <2>2, <2>3, <2>4, <3>1, <3>2, <3>3, <3>4, QuietWait
  <2>7. QED BY <2>5, <2>6
<1>4. ASSUME NEW c \in Callers, GrantNext(c), UNCHANGED budget PROVE WaitInv'
  <2>1. PICK w \in Callers :
           /\ Queued(w) /\ pc[w] = "waiting" /\ fut[w] = "pending" /\ w \notin popped
           /\ popped' = (popped \ {}) \cup {w}
           /\ Keeps(waiters', {w})
           /\ \A d \in Callers \ {w} : Queued(d) /\ fut[d] = "pending" => Queued(d)'
    BY <1>4, PopIs DEF GrantNext
  <2>2. TypeOK' BY <1>4, <2>1 DEF GrantNext, Keeps
  <2>3. \A d \in Callers : Queued(d) => d \notin popped BY DEF QueueSound, Queued
  <2>4. QueueSound' BY <1>4, <2>1, <2>3, KeepsSound DEF GrantNext
  <2>5. FuturesSound' BY <1>4, <2>1 DEF GrantNext, FuturesSound
  <2>6. QED BY <2>2, <2>4, <2>5
<1>5. ASSUME NEW c \in Callers, Granted(c), UNCHANGED budget PROVE WaitInv'
  <2>1. Keeps(waiters', {}) BY <1>5, Unchanged, Emptied DEF Granted
  <2>2. TypeOK' BY <1>5, <2>1 DEF Granted, Keeps, To, PC
  <2>3. \A d \in Callers : Queued(d) => d \notin popped /\ d # c
    BY <1>5 DEF QueueSound, Queued, Granted
  <2>4. QueueSound' BY <1>5, <2>1, <2>3, KeepsSound DEF Granted, To
  <2>5. \A d \in Callers : fut[d] = "pending" /\ Queued(d) => Queued(d)'
    BY <1>5 DEF Granted, NoneWaits, Queued, Done
  <2>6. FuturesSound' BY <1>5, <2>5 DEF Granted, FuturesSound, To
  <2>7. QED BY <2>2, <2>4, <2>6
<1>6. ASSUME NEW c \in Callers, EnterFree(c), UNCHANGED budget PROVE WaitInv'
  <2>1. TypeOK' BY <1>6 DEF EnterFree, To, PC
  <2>2. Keeps(waiters', {}) BY <1>6, Unchanged DEF EnterFree
  <2>3. \A d \in Callers : Queued(d) => d \notin popped /\ d # c
    BY <1>6 DEF QueueSound, Queued, EnterFree
  <2>4. QueueSound' BY <1>6, <2>2, <2>3, KeepsSound DEF EnterFree, To
  <2>5. FuturesSound' BY <1>6 DEF EnterFree, FuturesSound, To, Queued
  <2>6. QED BY <2>1, <2>4, <2>5
<1>7. ASSUME NEW c \in Callers, EnterQueue(c), UNCHANGED budget PROVE WaitInv'
  <2>1. /\ waiters' \in Seq(Callers) /\ Queued(c)' /\ waiters' # <<>>
        /\ \A i \in DOMAIN waiters' :
             /\ waiters'[i] = c \/ Queued(waiters'[i])
             /\ \A j \in DOMAIN waiters' : waiters'[i] = waiters'[j] => i = j
        /\ \A d \in Callers : Queued(d) => Queued(d)'
    BY <1>7, InsertIs DEF EnterQueue
  <2>2. TypeOK' BY <1>7, <2>1 DEF EnterQueue, To, PC
  <2>3. c \notin popped BY <1>7 DEF EnterQueue, FuturesSound
  <2>4. QueueSound'
    <3>1. ASSUME NEW i \in DOMAIN waiters'
          PROVE  /\ pc'[waiters'[i]] = "waiting" /\ waiters'[i] \notin popped'
                 /\ fut'[waiters'[i]] \in {"pending", "cancelled"}
      <4>1. waiters'[i] \in Callers BY <2>1, ElementOfSeq, LenProperties
      <4>2. CASE waiters'[i] = c BY <1>7, <2>3, <4>2 DEF EnterQueue, To
      <4>3. CASE waiters'[i] # c
        <5>1. Queued(waiters'[i]) BY <2>1, <4>3
        <5>2. /\ pc[waiters'[i]] = "waiting" /\ waiters'[i] \notin popped
              /\ fut[waiters'[i]] \in {"pending", "cancelled"}
          BY <5>1 DEF QueueSound, Queued
        <5>3. QED BY <1>7, <4>1, <4>3, <5>2 DEF EnterQueue, To
      <4>4. QED BY <4>2, <4>3
    <3>2. QED BY <2>1, <3>1 DEF QueueSound
  <2>5. FuturesSound' BY <1>7, <2>1, <2>3 DEF EnterQueue, FuturesSound, To
  <2>6. QED BY <2>2, <2>4, <2>5
<1>8. ASSUME NEW c \in Callers, Deliver(c), UNCHANGED budget PROVE WaitInv'
  <2>1. TypeOK' BY <1>8 DEF Deliver
  <2>2. Keeps(waiters', {}) BY <1>8, Unchanged DEF Deliver
  <2>3. \A d \in Callers : Queued(d) => d \notin popped /\ d # c
    BY <1>8 DEF QueueSound, Queued, Deliver
  <2>4. QueueSound' BY <1>8, <2>2, <2>3, KeepsSound DEF Deliver
  <2>5. FuturesSound' BY <1>8 DEF Deliver, FuturesSound, Queued
  <2>6. QED BY <2>1, <2>4, <2>5
<1>9. ASSUME NEW c \in Callers, Undeliverable(c), UNCHANGED budget PROVE WaitInv'
  BY <1>9, ReleaseWait DEF Undeliverable
<1>10. ASSUME NEW c \in Callers, WaitEnds(c) PROVE WaitInv'
  <2> USE <1>10 DEF WaitEnds, Timeout
  <2>1. CASE ~Queued(c)
    <3>1. TypeOK' BY <2>1 DEF To, PC
    <3>2. Keeps(waiters', {}) BY <2>1, Unchanged
    <3>3. \A d \in Callers : Queued(d) => d \notin popped /\ d # c
      BY <2>1 DEF QueueSound, Queued
    <3>4. QueueSound' BY <2>1, <3>2, <3>3, KeepsSound DEF To
    <3>5. FuturesSound' BY <2>1 DEF FuturesSound, Queued, To
    <3>6. QED BY <3>1, <3>4, <3>5
  <2>2. CASE Queued(c)
    <3>1. /\ Keeps(waiters', {c}) /\ \A d \in Callers \ {c} : Queued(d) => Queued(d)'
      BY <2>2, RemoveIs
    <3>2. TypeOK' BY <2>2, <3>1 DEF To, PC, Keeps
    <3>3. \A d \in Callers : Queued(d) => d \notin popped BY DEF QueueSound, Queued
    <3>4. QueueSound' BY <2>2, <3>1, <3>3, KeepsSound DEF To
    <3>5. FuturesSound' BY <2>2, <3>1 DEF FuturesSound, To
    <3>6. QED BY <3>2, <3>4, <3>5
  <2>3. QED BY <2>1, <2>2
<1>11. ASSUME NEW c \in Callers, InlineTool(c) \/ Ends(c) PROVE WaitInv'
  <2>1. Release({}) /\ UNCHANGED <<limit, fut, seq, ticket, forced, cooling, stop>>
    BY <1>11 DEF InlineTool, Ends, ReleaseSlot
  <2>2. budget' \in SUBSET Callers /\ pc[c] \in {"cooldown", "using", "failing"}
    BY <1>11 DEF InlineTool, Ends, GiveBudget
  <2>3. pc' = [pc EXCEPT ![c] = "over"] \/ pc' = [pc EXCEPT ![c] = "tool"]
    BY <1>11 DEF InlineTool, Ends, To
  <2>4. QED BY <2>1, <2>2, <2>3, ReleaseWait
<1>12. ASSUME NEW c \in Callers, Cancelled(c) PROVE WaitInv'
  <2>1. /\ budget' \in SUBSET Callers /\ pc' = [pc EXCEPT ![c] = "over"]
        /\ cooling' = cooling /\ stop' = stop /\ c \in stop
    BY <1>12 DEF Cancelled, GiveBudget, To
  <2>2. CASE ReleaseSlot /\ \/ pc[c] \in {"cooldown", "using", "failing"}
                            \/ pc[c] = "waiting" /\ fut[c] = "set"
    <3>1. Release({}) /\ UNCHANGED <<limit, fut, seq, ticket, forced>> BY <2>2 DEF ReleaseSlot
    <3>2. QED BY <2>1, <2>2, <3>1, ReleaseWait
  <2>3. CASE /\ pc[c] = "waiting" /\ Queued(c) /\ RemoveWaiter(c)
             /\ UNCHANGED <<limit, active, fut, popped, seq, ticket, forced>>
    <3>1. /\ Keeps(waiters', {c}) /\ \A d \in Callers \ {c} : Queued(d) => Queued(d)'
      BY <2>3, RemoveIs
    <3>2. TypeOK' BY <2>1, <2>3, <3>1 DEF PC, Keeps
    <3>3. \A d \in Callers : Queued(d) => d \notin popped BY DEF QueueSound, Queued
    <3>4. QueueSound' BY <2>1, <2>3, <3>1, <3>3, KeepsSound
    <3>5. FuturesSound' BY <2>1, <2>3, <3>1 DEF FuturesSound
    <3>6. QED BY <3>2, <3>4, <3>5
  <2>4. CASE /\ pc[c] = "waiting" /\ ~Queued(c) /\ fut[c] # "set"
             /\ fut' = [fut EXCEPT ![c] = "cancelled"]
             /\ UNCHANGED <<limit, active, waiters, popped, seq, ticket, forced>>
    <3>1. fut[c] \in {"pending", "cancelled"} BY <2>4 DEF FuturesSound
    <3>2. QED BY <2>1, <2>4, <3>1, QuietWait DEF PC
  <2>5. CASE /\ pc[c] \in {"budget", "config", "tool"}
             /\ UNCHANGED <<limit, active, waiters, fut, popped, seq, ticket, forced>>
    <3>1. ~Queued(c) /\ fut[c] # "cancelled" /\ (c \in Patient => fut[c] # "pending")
      BY <2>1, <2>5 DEF QueueSound, Queued, FuturesSound
    <3>2. fut' = [fut EXCEPT ![c] = fut[c]] BY <2>5
    <3>3. "over" \in PC BY DEF PC
    <3>4. QED BY <2>1, <2>5, <3>1, <3>2, <3>3, QuietWait, ZenonT(30)
  <2>6. QED BY <1>12, <2>2, <2>3, <2>4, <2>5 DEF Cancelled, CancelledWait
<1>13. QED
  BY <1>1, <1>2, <1>3, <1>4, <1>5, <1>6, <1>7, <1>8, <1>9, <1>10, <1>11, <1>12
     DEF Next, LimiterStep, Arrives

-----------------------------------------------------------------------------
(* What a step does to the slots: nothing, or one more is held while there *)
(* is room or by force, or one less, or one changes hands.                 *)
Same == Holders' = Holders /\ active' = active /\ forced' = forced /\ limit' \in Limits
OneMore == \E c \in Callers \ Holders :
             /\ Holders' = Holders \cup {c} /\ active' = active + 1 /\ limit' = limit
             /\ forced' = forced \cup {c} \/ (forced' = forced /\ ~Full)
OneLess == \E c \in Holders :
             /\ Holders' = Holders \ {c} /\ limit' = limit /\ forced' = forced
             /\ active' = IF active = 0 THEN 0 ELSE active - 1
HandedOn == \E c \in Holders, d \in Callers \ Holders :
              /\ Holders' = (Holders \ {c}) \cup {d} /\ active' = active
              /\ limit' = limit /\ forced' = forced /\ ~TooMany

LEMMA ReleaseHolders ==
  ASSUME WaitInv, NEW c \in Callers, NEW gone \in SUBSET {c}, Release(gone),
         fut' = fut, forced' = forced, limit' = limit,
         \/ pc' = pc /\ gone = {c} /\ fut[c] = "cancelled" /\ c \in popped
         \/ /\ gone = {} /\ pc[c] \in {"cooldown", "using", "failing"}
            /\ pc' = [pc EXCEPT ![c] = "over"] \/ pc' = [pc EXCEPT ![c] = "tool"]
         \/ gone = {} /\ pc[c] = "waiting" /\ fut[c] = "set" /\ pc' = [pc EXCEPT ![c] = "over"]
  PROVE  OneLess \/ HandedOn
<1> USE DEF WaitInv, TypeOK, LimiterTypeOK
<1>1. PICK new \in SUBSET Callers :
           /\ popped' = (popped \ gone) \cup new
           /\ Keeps(waiters', new)
           /\ \A w \in new : Queued(w) /\ pc[w] = "waiting" /\ fut[w] = "pending" /\ w \notin popped
           /\ \A d \in Callers \ new : Queued(d) /\ fut[d] = "pending" => Queued(d)'
           /\ \/ TooMany /\ new = {} /\ active' = active - 1 /\ waiters' = waiters
              \/ ~TooMany /\ active' = active /\ \E w \in Callers : new = {w}
              \/ /\ ~TooMany /\ new = {} /\ waiters' = <<>>
                 /\ active' = IF active = 0 THEN 0 ELSE active - 1
  BY ReleaseIs
<1>2. c \notin new /\ new \cap Holders = {} BY <1>1 DEF QueueSound, Queued, Holders, Holds
<1>3. c \in Holders
  <2>1. fut[c] = "cancelled" => pc[c] \in {"waiting", "over"} BY DEF FuturesSound
  <2>2. QED BY <2>1 DEF Holders, Holds
<1>4. Holders' = (Holders \ {c}) \cup new
  <2>1. ASSUME NEW d \in Callers, d # c
        PROVE  Holds(d)' <=> Holds(d) \/ d \in new
    <3>1. pc'[d] = pc[d] /\ fut'[d] = fut[d] /\ (d \in popped' <=> d \in popped \/ d \in new)
      BY <2>1, <1>1
    <3>2. d \in new => pc[d] = "waiting" BY <1>1
    <3>3. QED BY <3>1, <3>2 DEF Holds
  <2>2. ~Holds(c)'
    <3>1. CASE pc' = pc /\ gone = {c} /\ fut[c] = "cancelled"
      <4>1. pc[c] \in {"waiting", "over"} /\ c \notin popped'
        BY <3>1, <1>1, <1>2 DEF FuturesSound
      <4>2. QED BY <3>1, <4>1 DEF Holds
    <3>2. CASE pc[c] \in {"cooldown", "using", "failing"} /\ pc'[c] \in {"over", "tool"}
      BY <3>2 DEF Holds, FuturesSound
    <3>3. CASE fut[c] = "set" /\ pc'[c] = "over" BY <3>3 DEF Holds
    <3>4. QED BY <3>1, <3>2, <3>3
  <2>3. QED BY <1>2, <2>1, <2>2 DEF Holders
<1>5. CASE TooMany /\ new = {} /\ active' = active - 1
  <2>1. active # 0 BY <1>5, LimitsAssumption DEF TooMany
  <2>2. QED BY <1>3, <1>4, <1>5, <2>1 DEF OneLess
<1>6. CASE ~TooMany /\ active' = active /\ \E w \in Callers : new = {w}
  BY <1>2, <1>3, <1>4, <1>6 DEF HandedOn
<1>7. CASE new = {} /\ active' = IF active = 0 THEN 0 ELSE active - 1
  BY <1>3, <1>4, <1>7 DEF OneLess
<1>8. QED BY <1>1, <1>5, <1>6, <1>7

(* A cancelled request ends without giving a slot back, or gives back its  *)
(* own.                                                                    *)
EndsQuietly(c) ==
  /\ pc' = [pc EXCEPT ![c] = "over"] /\ UNCHANGED <<limit, active, popped, forced>>
  /\ \/ pc[c] = "waiting" /\ Queued(c) /\ UNCHANGED fut
     \/ /\ pc[c] = "waiting" /\ ~Queued(c) /\ fut[c] # "set"
        /\ fut' = [fut EXCEPT ![c] = "cancelled"]
     \/ pc[c] \in {"budget", "config", "tool"} /\ UNCHANGED fut
EndsGiving(c) ==
  /\ pc' = [pc EXCEPT ![c] = "over"] /\ ReleaseSlot
  /\ pc[c] \in {"cooldown", "using", "failing"} \/ (pc[c] = "waiting" /\ fut[c] = "set")

LEMMA CancelledIs == ASSUME NEW c \in Callers, Cancelled(c) PROVE EndsQuietly(c) \/ EndsGiving(c)
<1>1. pc' = [pc EXCEPT ![c] = "over"] BY DEF Cancelled, To
<1>2. CASE pc[c] = "waiting" /\ CancelledWait(c)
  BY <1>1, <1>2 DEF CancelledWait, EndsQuietly, EndsGiving
<1>3. CASE pc[c] \in {"cooldown", "using", "failing"} /\ ReleaseSlot
  BY <1>1, <1>3 DEF EndsGiving
<1>4. CASE /\ pc[c] \in {"budget", "config", "tool"}
           /\ UNCHANGED <<limit, active, waiters, fut, popped, seq, ticket, forced>>
  BY <1>1, <1>4 DEF EndsQuietly
<1>5. QED BY <1>2, <1>3, <1>4 DEF Cancelled

(* A step that gives no slot away leaves alone who has one.                *)
LEMMA QuietHolders ==
  ASSUME WaitInv, NEW c \in Callers,
         \/ Begin(c) \/ TakeBudget(c) \/ ToolEnds(c) \/ RateLimited(c) \/ Cancel(c)
         \/ SetLimit(c) \/ Resume(c) \/ Start(c)
         \/ Granted(c) \/ EnterQueue(c) \/ Deliver(c)
         \/ EndsQuietly(c)
  PROVE  Same
<1> USE DEF WaitInv, TypeOK, LimiterTypeOK
<1>1. CASE \/ Begin(c) \/ TakeBudget(c) \/ ToolEnds(c) \/ RateLimited(c) \/ Cancel(c)
           \/ SetLimit(c) \/ Resume(c) \/ Start(c)
  <2>1. /\ active' = active /\ forced' = forced /\ limit' \in Limits /\ popped' = popped
        /\ \A d \in Callers \ {c} : pc'[d] = pc[d] /\ fut'[d] = fut[d]
    BY <1>1 DEF Begin, TakeBudget, ToolEnds, RateLimited, Cancel, SetLimit, Resume, Start, To, limiterVars
  <2>2. Holds(c)' <=> Holds(c)
    <3>1. /\ fut[c] = "cancelled" => pc[c] \in {"waiting", "over"}
          /\ c \in Patient /\ fut[c] = "pending" => pc[c] = "waiting"
          /\ c \in popped => fut[c] \in {"pending", "cancelled"}
      BY DEF FuturesSound
    <3>2. CASE Begin(c) BY <3>1, <3>2, <2>1 DEF Begin, To, Holds, limiterVars
    <3>3. CASE TakeBudget(c) BY <3>1, <3>3, <2>1 DEF TakeBudget, To, Holds, limiterVars
    <3>4. CASE ToolEnds(c) BY <3>1, <3>4, <2>1 DEF ToolEnds, To, Holds, limiterVars
    <3>5. CASE RateLimited(c) BY <3>1, <3>5, <2>1 DEF RateLimited, To, Holds
    <3>6. CASE Cancel(c) BY <3>1, <3>6, <2>1 DEF Cancel, Holds
    <3>7. CASE SetLimit(c) BY <3>1, <3>7, <2>1 DEF SetLimit, To, Holds
    <3>8. CASE Resume(c) BY <3>1, <3>8, <2>1 DEF Resume, To, Holds, limiterVars
    <3>9. CASE Start(c) BY <3>1, <3>9, <2>1 DEF Start, To, Holds, limiterVars
    <3>10. QED BY <1>1, <3>2, <3>3, <3>4, <3>5, <3>6, <3>7, <3>8, <3>9
  <2>3. \A d \in Callers \ {c} : Holds(d)' <=> Holds(d) BY <2>1 DEF Holds
  <2>4. QED BY <2>1, <2>2, <2>3 DEF Same, Holders
<1>2. CASE Granted(c)
  <2>1. \A d \in Callers : Holds(d)' <=> Holds(d)
    BY <1>2 DEF Granted, To, Holds
  <2>2. QED BY <1>2, <2>1 DEF Granted, Same, Holders
<1>3. CASE EnterQueue(c)
  <2>1. c \notin popped BY <1>3 DEF EnterQueue, FuturesSound
  <2>2. \A d \in Callers : Holds(d)' <=> Holds(d) BY <1>3, <2>1 DEF EnterQueue, To, Holds
  <2>3. QED BY <1>3, <2>2 DEF EnterQueue, Same, Holders
<1>4. CASE Deliver(c)
  <2>1. \A d \in Callers : Holds(d)' <=> Holds(d) BY <1>4 DEF Deliver, Holds
  <2>2. QED BY <1>4, <2>1 DEF Deliver, Same, Holders
<1>5. CASE EndsQuietly(c)
  <2>1. pc' = [pc EXCEPT ![c] = "over"] /\ UNCHANGED <<limit, active, popped, forced>>
    BY <1>5 DEF EndsQuietly
  <2>2. CASE pc[c] = "waiting" /\ Queued(c) /\ UNCHANGED fut
    <3>1. c \notin popped /\ fut[c] # "set" BY <2>2 DEF QueueSound, Queued
    <3>2. \A d \in Callers : Holds(d)' <=> Holds(d) BY <2>1, <2>2, <3>1 DEF Holds
    <3>3. QED BY <2>1, <3>2 DEF Same, Holders
  <2>3. CASE /\ pc[c] = "waiting" /\ ~Queued(c) /\ fut[c] # "set"
             /\ fut' = [fut EXCEPT ![c] = "cancelled"]
    <3>1. \A d \in Callers : Holds(d)' <=> Holds(d) BY <2>1, <2>3 DEF Holds
    <3>2. QED BY <2>1, <3>1 DEF Same, Holders
  <2>4. CASE pc[c] \in {"budget", "config", "tool"} /\ UNCHANGED fut
    <3>1. fut[c] # "cancelled" BY <2>4 DEF FuturesSound
    <3>2. \A d \in Callers : Holds(d)' <=> Holds(d) BY <2>1, <2>4, <3>1 DEF Holds
    <3>3. QED BY <2>1, <3>2 DEF Same, Holders
  <2>5. QED BY <1>5, <2>2, <2>3, <2>4 DEF EndsQuietly
<1>6. QED BY <1>1, <1>2, <1>3, <1>4, <1>5

LEMMA NextHolders == WaitInv /\ [Next]_vars => Same \/ OneMore \/ OneLess \/ HandedOn
<1> SUFFICES ASSUME WaitInv, [Next]_vars PROVE Same \/ OneMore \/ OneLess \/ HandedOn OBVIOUS
<1> USE DEF WaitInv, TypeOK, LimiterTypeOK
<1>1. CASE UNCHANGED vars BY <1>1 DEF vars, limiterVars, Same, Holders, Holds
<1>2. CASE Warm BY <1>2 DEF Warm, CooldownEnds, Same, Holders, Holds
<1>3. ASSUME NEW c \in Callers,
             \/ Begin(c) \/ TakeBudget(c) \/ ToolEnds(c) \/ RateLimited(c) \/ Cancel(c)
             \/ SetLimit(c) \/ Resume(c) \/ Start(c)
             \/ Granted(c) \/ EnterQueue(c) \/ Deliver(c)
      PROVE  Same
  BY <1>3, QuietHolders
<1>4. ASSUME NEW c \in Callers, GrantNext(c) PROVE OneMore
  <2>1. PICK w \in Callers :
           /\ Queued(w) /\ pc[w] = "waiting" /\ fut[w] = "pending" /\ w \notin popped
           /\ popped' = (popped \ {}) \cup {w}
    BY <1>4, PopIs DEF GrantNext
  <2>2. ~Holds(w) BY <2>1 DEF Holds
  <2>3. Holders' = Holders \cup {w} BY <1>4, <2>1 DEF GrantNext, Holders, Holds
  <2>4. QED BY <1>4, <2>2, <2>3 DEF GrantNext, OneMore, Holders
<1>5. ASSUME NEW c \in Callers, EnterFree(c) PROVE OneMore
  <2>1. ~Holds(c) BY <1>5 DEF EnterFree, Holds
  <2>2. Holders' = Holders \cup {c} BY <1>5 DEF EnterFree, To, Holders, Holds
  <2>3. ~Full BY <1>5, LimitsAssumption DEF EnterFree, Full
  <2>4. QED BY <1>5, <2>1, <2>2, <2>3 DEF EnterFree, OneMore, Holders
<1>6. ASSUME NEW c \in Callers, Undeliverable(c) PROVE OneLess \/ HandedOn
  BY <1>6, ReleaseHolders DEF Undeliverable
<1>7. ASSUME NEW c \in Callers, WaitEnds(c) PROVE Same \/ OneMore
  <2> USE <1>7 DEF WaitEnds, Timeout, To
  <2>1. CASE Queued(c)
    <3>1. c \notin popped BY <2>1 DEF QueueSound, Queued
    <3>2. ~Holds(c) BY <3>1 DEF Holds
    <3>3. Holders' = Holders \cup {c} BY DEF Holders, Holds
    <3>4. QED BY <2>1, <3>2, <3>3 DEF OneMore, Holders
  <2>2. CASE ~Queued(c)
    <3>1. c \in popped BY <2>2 DEF FuturesSound
    <3>2. \A d \in Callers : Holds(d)' <=> Holds(d) BY <3>1 DEF Holds
    <3>3. QED BY <2>2, <3>2 DEF Same, Holders
  <2>3. QED BY <2>1, <2>2
<1>8. ASSUME NEW c \in Callers, InlineTool(c) \/ Ends(c) PROVE OneLess \/ HandedOn
  <2>1. Release({}) /\ UNCHANGED <<limit, fut, forced>> BY <1>8 DEF InlineTool, Ends, ReleaseSlot
  <2>2. pc[c] \in {"cooldown", "using", "failing"} BY <1>8 DEF InlineTool, Ends
  <2>3. pc' = [pc EXCEPT ![c] = "over"] \/ pc' = [pc EXCEPT ![c] = "tool"]
    BY <1>8 DEF InlineTool, Ends, To
  <2>4. QED BY <2>1, <2>2, <2>3, ReleaseHolders
<1>9. ASSUME NEW c \in Callers, Cancelled(c) PROVE Same \/ OneLess \/ HandedOn
  <2>1. CASE EndsGiving(c)
    <3>1. Release({}) /\ UNCHANGED <<limit, fut, forced>> BY <2>1 DEF EndsGiving, ReleaseSlot
    <3>2. QED BY <2>1, <3>1, ReleaseHolders DEF EndsGiving
  <2>2. CASE EndsQuietly(c) BY <2>2, QuietHolders
  <2>3. QED BY <1>9, <2>1, <2>2, CancelledIs
<1>10. QED
  BY <1>1, <1>2, <1>3, <1>4, <1>5, <1>6, <1>7, <1>8, <1>9 DEF Next, LimiterStep, Arrives

(* The counter counts the holders.                                         *)
LEMMA NextAccounted ==
  ASSUME WaitInv, SlotsAccounted, Same \/ OneMore \/ OneLess \/ HandedOn
  PROVE  SlotsAccounted'
<1>1. IsFiniteSet(Holders) /\ Holders \subseteq Callers
  BY CallersAssumption, FS_Subset DEF Holders
<1>2. CASE Same BY <1>2 DEF Same, SlotsAccounted
<1>3. CASE OneMore BY <1>1, <1>3, FS_AddElement DEF OneMore, SlotsAccounted
<1>4. CASE OneLess
  <2>1. PICK c \in Holders : /\ Holders' = Holders \ {c}
                             /\ active' = IF active = 0 THEN 0 ELSE active - 1
    BY <1>4 DEF OneLess
  <2>2. Cardinality(Holders \ {c}) = Cardinality(Holders) - 1 BY <1>1, FS_RemoveElement
  <2>3. Cardinality(Holders) \in Nat /\ Cardinality(Holders) # 0
    BY <1>1, FS_CardinalityType, FS_EmptySet
  <2>4. QED BY <2>1, <2>2, <2>3 DEF SlotsAccounted
<1>5. CASE HandedOn
  <2>1. PICK c \in Holders, d \in Callers \ Holders :
          Holders' = (Holders \ {c}) \cup {d} /\ active' = active
    BY <1>5 DEF HandedOn
  <2>2. IsFiniteSet(Holders \ {c}) /\ Cardinality(Holders \ {c}) = Cardinality(Holders) - 1
    BY <1>1, FS_RemoveElement
  <2>3. Cardinality((Holders \ {c}) \cup {d}) = Cardinality(Holders \ {c}) + 1
    BY <2>2, FS_AddElement
  <2>4. Cardinality(Holders) \in Nat BY <1>1, FS_CardinalityType
  <2>5. QED BY <2>1, <2>2, <2>3, <2>4 DEF SlotsAccounted
<1>6. QED BY <1>2, <1>3, <1>4, <1>5

LEMMA InitAccounted == Init => SlotsAccounted
<1> SUFFICES ASSUME Init PROVE SlotsAccounted OBVIOUS
<1>1. Holders = {} BY DEF Init, LimiterInit, Holders, Holds
<1>2. QED BY <1>1, FS_EmptySet DEF Init, LimiterInit, SlotsAccounted

(* The limiter's counter is exact in every reachable state: no slot is     *)
(* lost and none is given out twice (concurrency.py, _release, _deliver,   *)
(* and the timeout and cancellation of acquire).                           *)
THEOREM SlotsAreAccounted == Spec => []Consistent
<1>1. Init => WaitInv /\ SlotsAccounted BY InitWait, InitAccounted
<1>2. WaitInv /\ SlotsAccounted /\ [Next]_vars => (WaitInv /\ SlotsAccounted)'
  BY NextWait, NextHolders, NextAccounted
<1>3. WaitInv /\ SlotsAccounted => Consistent BY DEF WaitInv, Consistent
<1>4. QED BY <1>1, <1>2, <1>3, PTL DEF Spec

-----------------------------------------------------------------------------
(* There is only a queue while all slots are taken, or a raised limit is   *)
(* being given out: what is given back meanwhile is handed on.             *)
LEMMA NextBlocked == WaitInv /\ QueueOnlyWhenFull /\ [Next]_vars => QueueOnlyWhenFull'
<1> SUFFICES ASSUME WaitInv, QueueOnlyWhenFull, [Next]_vars, waiters' # <<>>,
                    ~ \E c \in Callers : pc'[c] = "resize"
             PROVE  Full'
  BY DEF QueueOnlyWhenFull
<1> USE DEF WaitInv, TypeOK, LimiterTypeOK
<1>0. limit \in Nat BY LimitsAssumption
<1>1. ASSUME limit' = limit, active' = active, \A c \in Callers : pc'[c] # "resize" => pc[c] # "resize"
      PROVE  waiters # <<>> => Full'
  BY <1>1 DEF QueueOnlyWhenFull, Full
<1>2. CASE UNCHANGED vars BY <1>1, <1>2 DEF vars, limiterVars
<1>3. CASE Warm BY <1>1, <1>3 DEF Warm, CooldownEnds
<1>4. ASSUME NEW gone, Release(gone), limit' = limit,
             \A c \in Callers : pc'[c] # "resize" => pc[c] # "resize"
      PROVE  Full'
  <2>1. CASE Retire(gone) BY <1>0, <2>1, <1>4 DEF Retire, TooMany, Full
  <2>2. CASE PassOn(gone)
    <3>1. waiters # <<>> BY <2>2 DEF PassOn, PopWaiter
    <3>2. QED BY <3>1, <1>1, <1>4, <2>2 DEF PassOn
  <2>3. CASE Free(gone) BY <2>3 DEF Free, PopNone
  <2>4. QED BY <2>1, <2>2, <2>3, <1>4 DEF Release
<1>5. ASSUME NEW c \in Callers,
             \/ Begin(c) \/ TakeBudget(c) \/ ToolEnds(c) \/ RateLimited(c) \/ Cancel(c)
             \/ Resume(c) \/ Start(c) \/ Deliver(c)
      PROVE  Full'
  BY <1>1, <1>5 DEF Begin, TakeBudget, ToolEnds, RateLimited, Cancel, Resume, Start, Deliver,
                    To, limiterVars
<1>6. ASSUME NEW c \in Callers, SetLimit(c) PROVE Full'
  <2>1. CASE limit' = limit BY <1>1, <1>6, <2>1 DEF SetLimit, To
  <2>2. CASE limit' # limit
    <3>1. pc'[c] = "resize" BY <1>6, <2>2 DEF SetLimit, To
    <3>2. QED BY <3>1
  <2>3. QED BY <2>1, <2>2
<1>7. ASSUME NEW c \in Callers, GrantNext(c) PROVE Full'
  BY <1>7 DEF GrantNext
<1>8. ASSUME NEW c \in Callers, Granted(c) PROVE Full'
  BY <1>8 DEF Granted, Full
<1>9. ASSUME NEW c \in Callers, EnterFree(c) PROVE Full'
  <2>1. waiters # <<>> BY <1>9 DEF EnterFree
  <2>2. limit = 0 BY <2>1, <1>9 DEF EnterFree
  <2>3. \A d \in Callers : pc'[d] # "resize" => pc[d] # "resize" BY <1>9 DEF EnterFree, To
  <2>4. QED BY <2>1, <2>2, <2>3 DEF QueueOnlyWhenFull, Full
<1>10. ASSUME NEW c \in Callers, EnterQueue(c) PROVE Full'
  <2>1. CASE waiters # <<>> BY <1>1, <1>10, <2>1 DEF EnterQueue, To
  <2>2. CASE waiters = <<>> BY <1>10, <2>2 DEF EnterQueue, Full
  <2>3. QED BY <2>1, <2>2
<1>11. ASSUME NEW c \in Callers, Undeliverable(c) PROVE Full'
  BY <1>4, <1>11 DEF Undeliverable
<1>12. ASSUME NEW c \in Callers, WaitEnds(c) PROVE Full'
  <2>1. waiters # <<>>
    <3>1. Queued(c) => waiters # <<>> BY DEF Queued
    <3>2. QED BY <1>12, <3>1 DEF WaitEnds, Timeout
  <2>2. Full BY <1>12, <2>1 DEF WaitEnds, Timeout, To, QueueOnlyWhenFull
  <2>3. QED BY <1>0, <1>12, <2>2 DEF WaitEnds, Timeout, Full
<1>13. ASSUME NEW c \in Callers, InlineTool(c) \/ Ends(c) PROVE Full'
  BY <1>4, <1>13 DEF InlineTool, Ends, ReleaseSlot, To
<1>14. ASSUME NEW c \in Callers, Cancelled(c) PROVE Full'
  <2>1. \A d \in Callers : pc'[d] # "resize" => pc[d] # "resize" BY <1>14 DEF Cancelled, To
  <2>2. CASE ReleaseSlot BY <1>4, <2>1, <2>2 DEF ReleaseSlot
  <2>3. CASE UNCHANGED <<limit, active>> /\ waiters # <<>> BY <1>1, <2>1, <2>3
  <2>4. Queued(c) => waiters # <<>> BY DEF Queued
  <2>5. QED BY <1>14, <2>2, <2>3, <2>4 DEF Cancelled, CancelledWait
<1>15. QED
  BY <1>2, <1>3, <1>5, <1>6, <1>7, <1>8, <1>9, <1>10, <1>11, <1>12, <1>13, <1>14
     DEF Next, LimiterStep, Arrives

(* Nobody waits while a slot is free: every slot that is given back, and   *)
(* every slot a raised limit adds, reaches whoever still waits             *)
(* (concurrency.py, _release and _grant_waiters).                          *)
THEOREM NobodyIsStranded == Spec => []NobodyStranded
<1>1. Init => WaitInv /\ QueueOnlyWhenFull
  BY InitWait DEF Init, LimiterInit, QueueOnlyWhenFull
<1>2. WaitInv /\ QueueOnlyWhenFull /\ [Next]_vars => (WaitInv /\ QueueOnlyWhenFull)'
  BY NextWait, NextBlocked
<1>3. QueueOnlyWhenFull => NobodyStranded
  BY DEF QueueOnlyWhenFull, NobodyStranded, NoneWaits
<1>4. QED BY <1>1, <1>2, <1>3, PTL DEF Spec

-----------------------------------------------------------------------------
(* The limiter implements the slot pool: a slot is only given out while    *)
(* there is room, or forced by a wait that timed out.                      *)
THEOREM LimiterImplementsPool == Spec => ImplementsPool
<1>1. Init => Pool!PoolInit
  BY DEF Init, LimiterInit, Pool!PoolInit, Holders, Holds
<1>2. WaitInv /\ SlotsAccounted /\ [Next]_vars => [Pool!Next]_(Pool!vars)
  <2> SUFFICES ASSUME WaitInv, SlotsAccounted, [Next]_vars PROVE [Pool!Next]_(Pool!vars)
    OBVIOUS
  <2> USE DEF Pool!Next, Pool!vars
  <2>0. Pool!Cardinality(Holders) = Cardinality(Holders) BY DEF Pool!Cardinality, Cardinality
  <2>1. Same \/ OneMore \/ OneLess \/ HandedOn BY NextHolders
  <2>2. Holders \subseteq Callers BY DEF Holders
  <2>3. limit \in Nat /\ active \in Nat
    BY LimitsAssumption DEF WaitInv, TypeOK, LimiterTypeOK
  <2>4. CASE Same
    <3>1. Pool!Resize(limit') BY <2>4 DEF Same, Pool!Resize
    <3>2. QED BY <3>1, <2>4 DEF Same
  <2>5. CASE OneMore
    <3>1. PICK c \in Callers \ Holders :
             /\ Holders' = Holders \cup {c} /\ limit' = limit
             /\ forced' = forced \cup {c} \/ (forced' = forced /\ ~Full)
      BY <2>5 DEF OneMore
    <3>2. CASE forced' = forced \cup {c}
      <4>1. Pool!Force(c) BY <3>1, <3>2 DEF Pool!Force
      <4>2. QED BY <4>1
    <3>3. CASE forced' = forced /\ ~Full
      <4>1. Pool!Cardinality(Holders) = active BY <2>0 DEF SlotsAccounted
      <4>2. Pool!Room(limit) BY <2>3, <3>3, <4>1 DEF Pool!Room, Full
      <4>3. Pool!Take(c) BY <3>1, <3>3, <4>2 DEF Pool!Take
      <4>4. QED BY <4>3
    <3>4. QED BY <3>1, <3>2, <3>3
  <2>6. CASE OneLess
    <3>1. PICK c \in Holders : Holders' = Holders \ {c} /\ limit' = limit /\ forced' = forced
      BY <2>6 DEF OneLess
    <3>2. Pool!Give(c) BY <3>1 DEF Pool!Give
    <3>3. QED BY <2>2, <3>1, <3>2
  <2>7. CASE HandedOn
    <3>1. PICK c \in Holders, d \in Callers \ Holders :
             /\ Holders' = (Holders \ {c}) \cup {d}
             /\ limit' = limit /\ forced' = forced /\ ~TooMany
      BY <2>7 DEF HandedOn
    <3>2. Pool!Room(limit + 1)
      <4>1. Pool!Cardinality(Holders) = active BY <2>0 DEF SlotsAccounted
      <4>2. QED BY <2>3, <3>1, <4>1 DEF Pool!Room, TooMany
    <3>3. Pool!Hand(c, d) BY <3>1, <3>2 DEF Pool!Hand
    <3>4. QED BY <2>2, <3>1, <3>3
  <2>8. QED BY <2>1, <2>4, <2>5, <2>6, <2>7
<1>3. Init => WaitInv /\ SlotsAccounted BY InitWait, InitAccounted
<1>4. WaitInv /\ SlotsAccounted /\ [Next]_vars => (WaitInv /\ SlotsAccounted)'
  BY NextWait, NextHolders, NextAccounted
<1>5. QED BY <1>1, <1>2, <1>3, <1>4, PTL DEF Spec, ImplementsPool, Pool!Spec

-----------------------------------------------------------------------------
(* The queue is in the order it is served, and the next arrival is later   *)
(* than every arrival in it.                                               *)
QueueInOrder ==
  \A i \in DOMAIN waiters :
    /\ ticket[waiters[i]] < seq
    /\ \A j \in DOMAIN waiters : i < j => Before(waiters[i], waiters[j])

(* Each position of the queue after a step holds what another one held     *)
(* before it, in the same order.                                           *)
SubQueue ==
  \E f \in [DOMAIN waiters' -> DOMAIN waiters] :
    \A i \in DOMAIN waiters' :
      /\ waiters'[i] = waiters[f[i]]
      /\ \A j \in DOMAIN waiters' : i < j => f[i] < f[j]

InFront(tickets, c, d) ==
  \/ Priority(c) < Priority(d)
  \/ Priority(c) = Priority(d) /\ tickets[c] < tickets[d]

LEMMA OrderKept ==
  ASSUME QueueInOrder, SubQueue, ticket' = ticket, seq' = seq
  PROVE  QueueInOrder'
<1>1. PICK f \in [DOMAIN waiters' -> DOMAIN waiters] :
        \A i \in DOMAIN waiters' :
          /\ waiters'[i] = waiters[f[i]]
          /\ \A j \in DOMAIN waiters' : i < j => f[i] < f[j]
  BY DEF SubQueue
<1>2. ASSUME NEW i \in DOMAIN waiters' PROVE ticket'[waiters'[i]] < seq'
  <2>1. f[i] \in DOMAIN waiters /\ waiters'[i] = waiters[f[i]] BY <1>1
  <2>2. QED BY <2>1 DEF QueueInOrder
<1>3. ASSUME NEW i \in DOMAIN waiters', NEW j \in DOMAIN waiters', i < j
      PROVE  InFront(ticket', waiters'[i], waiters'[j])
  <2>1. /\ f[i] \in DOMAIN waiters /\ waiters'[i] = waiters[f[i]]
        /\ f[j] \in DOMAIN waiters /\ waiters'[j] = waiters[f[j]] /\ f[i] < f[j]
    BY <1>1, <1>3
  <2>2. Before(waiters[f[i]], waiters[f[j]]) BY <2>1 DEF QueueInOrder
  <2>3. QED BY <2>1, <2>2 DEF Before, InFront
<1>4. QED BY <1>2, <1>3 DEF QueueInOrder, Before, InFront, Priority

LEMMA SameQueue == ASSUME WaitInv, waiters' = waiters PROVE SubQueue
<1> DEFINE f == [i \in DOMAIN waiters' |-> i]
<1>1. f \in [DOMAIN waiters' -> DOMAIN waiters] OBVIOUS
<1>2. \A i \in DOMAIN waiters' : waiters'[i] = waiters[f[i]] /\ f[i] = i OBVIOUS
<1>3. QED BY <1>1, <1>2 DEF SubQueue

LEMMA EmptyQueue == ASSUME waiters' = <<>> PROVE SubQueue
<1> DEFINE f == [i \in DOMAIN waiters' |-> i]
<1>1. DOMAIN waiters' = {} OBVIOUS
<1>2. f \in [DOMAIN waiters' -> DOMAIN waiters] BY <1>1
<1>3. QED BY <1>1, <1>2 DEF SubQueue

LEMMA PopSubQueue == ASSUME WaitInv, NEW gone, PopWaiter(gone) PROVE SubQueue
<1> USE DEF WaitInv, TypeOK, LimiterTypeOK
<1>1. PICK i \in DOMAIN waiters : waiters' = SubSeq(waiters, i + 1, Len(waiters))
  BY DEF PopWaiter
<1>2. i \in 1..Len(waiters) /\ Len(waiters) \in Nat /\ DOMAIN waiters = 1..Len(waiters)
  BY <1>1, LenProperties
<1>3. /\ waiters' \in Seq(Callers) /\ Len(waiters') = Len(waiters) - i
      /\ \A j \in 1..Len(waiters) - i : waiters'[j] = waiters[i + j]
  BY <1>1, <1>2, TailIs
<1>4. DOMAIN waiters' = 1..Len(waiters) - i BY <1>3, LenProperties
<1>5. ASSUME NEW j \in DOMAIN waiters'
      PROVE  i + j \in DOMAIN waiters /\ waiters'[j] = waiters[i + j]
  <2>1. j \in 1..Len(waiters) - i BY <1>4
  <2>2. i + j \in 1..Len(waiters) BY <2>1, <1>2
  <2>3. QED BY <2>1, <2>2, <1>2, <1>3
<1> DEFINE f == [j \in DOMAIN waiters' |-> i + j]
<1>6. f \in [DOMAIN waiters' -> DOMAIN waiters] BY <1>5
<1>7. ASSUME NEW j \in DOMAIN waiters', NEW k \in DOMAIN waiters', j < k
      PROVE  f[j] < f[k]
  <2>1. j \in Int /\ k \in Int /\ i \in Int BY <1>2, <1>4
  <2>2. QED BY <2>1, <1>7
<1>8. QED BY <1>5, <1>6, <1>7 DEF SubQueue

LEMMA RemoveSubQueue == ASSUME WaitInv, NEW c \in Callers, RemoveWaiter(c) PROVE SubQueue
<1> USE DEF WaitInv, TypeOK, LimiterTypeOK
<1>1. PICK i \in DOMAIN waiters : waiters' = RemoveAt(waiters, i)
  BY DEF RemoveWaiter
<1>2. i \in 1..Len(waiters) /\ Len(waiters) \in Nat /\ DOMAIN waiters = 1..Len(waiters)
  BY <1>1, LenProperties
<1>3. /\ waiters' \in Seq(Callers) /\ Len(waiters') = Len(waiters) - 1
      /\ \A j \in 1..Len(waiters) - 1 :
           waiters'[j] = IF j < i THEN waiters[j] ELSE waiters[j + 1]
  BY <1>1, <1>2, RemoveAtIs
<1>4. DOMAIN waiters' = 1..Len(waiters) - 1 BY <1>3, LenProperties
<1> DEFINE from(j) == IF j < i THEN j ELSE j + 1
<1>5. ASSUME NEW j \in DOMAIN waiters'
      PROVE  from(j) \in DOMAIN waiters /\ waiters'[j] = waiters[from(j)]
  <2>1. j \in 1..Len(waiters) - 1 BY <1>4
  <2>2. from(j) \in 1..Len(waiters) BY <2>1, <1>2
  <2>3. waiters'[j] = IF j < i THEN waiters[j] ELSE waiters[j + 1] BY <2>1, <1>3
  <2>4. QED BY <2>2, <2>3, <1>2
<1>6. \A j, k \in DOMAIN waiters' : j < k => from(j) < from(k) BY <1>2, <1>4
<1> HIDE DEF from
<1> DEFINE f == [j \in DOMAIN waiters' |-> from(j)]
<1>7. f \in [DOMAIN waiters' -> DOMAIN waiters] BY <1>5
<1>8. QED BY <1>5, <1>6, <1>7 DEF SubQueue

LEMMA ReleaseSubQueue == ASSUME WaitInv, NEW gone, Release(gone) PROVE SubQueue
<1>1. CASE Retire(gone) BY <1>1, SameQueue DEF Retire
<1>2. CASE PassOn(gone) BY <1>2, PopSubQueue DEF PassOn
<1>3. CASE Free(gone) BY <1>3, EmptyQueue DEF Free, PopNone
<1>4. QED BY <1>1, <1>2, <1>3 DEF Release

(* The newcomer stands behind those of its priority, which came before it, *)
(* and in front of those that may wait.                                    *)
LEMMA InsertOrder ==
  ASSUME WaitInv, QueueInOrder, NEW c \in Callers, EnterQueue(c)
  PROVE  QueueInOrder'
<1> USE DEF WaitInv, TypeOK, LimiterTypeOK
<1>1. PICK i \in 1..Len(waiters) + 1 :
        /\ \A j \in 1..i - 1 : Priority(waiters[j]) <= Priority(c)
        /\ i <= Len(waiters) => Priority(waiters[i]) > Priority(c)
        /\ waiters' = InsertAt(waiters, i, c)
  BY DEF EnterQueue, InsertWaiter
<1>2. i \in Nat /\ i > 0 /\ Len(waiters) \in Nat /\ DOMAIN waiters = 1..Len(waiters)
  BY LenProperties
<1>3. /\ waiters' \in Seq(Callers) /\ Len(waiters') = Len(waiters) + 1
      /\ \A j \in 1..Len(waiters) + 1 : waiters'[j] =
           IF j < i THEN waiters[j] ELSE IF j = i THEN c ELSE waiters[j - 1]
  <2>1. waiters \in Seq(Callers) /\ waiters' = InsertAt(waiters, i, c) BY <1>1
  <2> HIDE DEF WaitInv, TypeOK, LimiterTypeOK
  <2> DEFINE to == InsertAt(waiters, i, c)
  <2>2. /\ to \in Seq(Callers) /\ Len(to) = Len(waiters) + 1
        /\ \A j \in 1..Len(waiters) + 1 : to[j] =
             IF j < i THEN waiters[j] ELSE IF j = i THEN c ELSE waiters[j - 1]
    BY <2>1, InsertAtIs, SMTT(30)
  <2> HIDE DEF to
  <2>3. waiters' = to BY <2>1 DEF to
  <2>4. QED BY <2>2, <2>3, ZenonT(30)
<1>4. DOMAIN waiters' = 1..Len(waiters) + 1 BY <1>3, LenProperties
<1> DEFINE from(j) == IF j < i THEN j ELSE j - 1
<1>5. ASSUME NEW j \in DOMAIN waiters', j # i
      PROVE  from(j) \in DOMAIN waiters /\ waiters'[j] = waiters[from(j)]
  <2>1. j \in 1..Len(waiters) + 1 BY <1>4
  <2>2. from(j) \in 1..Len(waiters) BY <2>1, <1>2, <1>5
  <2>3. waiters'[j] = IF j < i THEN waiters[j] ELSE waiters[j - 1] BY <2>1, <1>3, <1>5
  <2>4. QED BY <2>2, <2>3, <1>2
<1>6. i \in DOMAIN waiters' /\ waiters'[i] = c BY <1>2, <1>3, <1>4
<1>7. /\ seq \in Nat /\ seq' = seq + 1 /\ ticket'[c] = seq
      /\ \A d \in Callers \ {c} : ticket'[d] = ticket[d]
  BY DEF EnterQueue
<1>8. ASSUME NEW k \in DOMAIN waiters
      PROVE  /\ waiters[k] \in Callers \ {c} /\ ticket[waiters[k]] < seq
             /\ ticket'[waiters[k]] = ticket[waiters[k]] /\ ticket[waiters[k]] \in Nat
  <2>1. waiters[k] \in Callers BY ElementOfSeq, LenProperties
  <2>2. waiters[k] # c BY DEF QueueSound, EnterQueue
  <2>3. QED BY <2>1, <2>2, <1>7 DEF QueueInOrder
<1>9. \A d \in Callers : Priority(d) \in Nat BY DEF Priority
<1>10. ASSUME NEW k \in DOMAIN waiters, k < i PROVE InFront(ticket', waiters[k], c)
  <2>1. Priority(waiters[k]) <= Priority(c)
    <3>1. k \in 1..i - 1 BY <1>2, <1>10
    <3>2. QED BY <3>1, <1>1
  <2>2. ticket'[waiters[k]] < ticket'[c] BY <1>7, <1>8
  <2>3. Priority(waiters[k]) \in Nat /\ Priority(c) \in Nat BY <1>8, <1>9
  <2>4. QED BY <2>1, <2>2, <2>3 DEF Before, InFront
<1>11. ASSUME NEW k \in DOMAIN waiters, k >= i PROVE InFront(ticket', c, waiters[k])
  <2>1. i \in DOMAIN waiters /\ i <= Len(waiters) BY <1>2, <1>11
  <2>2. Priority(waiters[i]) > Priority(c) BY <1>1, <2>1
  <2>3. Priority(waiters[i]) <= Priority(waiters[k])
    <3>1. CASE k = i BY <3>1, <1>8, <1>9
    <3>2. CASE i < k
      <4>1. Before(waiters[i], waiters[k]) BY <2>1, <3>2 DEF QueueInOrder
      <4>2. waiters[i] \in Callers /\ waiters[k] \in Callers BY <1>8, <2>1
      <4>3. Priority(waiters[i]) \in Nat /\ Priority(waiters[k]) \in Nat BY <4>2, <1>9
      <4>4. QED BY <4>1, <4>3 DEF Before
    <3>3. k = i \/ i < k BY <1>2, <1>11
    <3>4. QED BY <3>1, <3>2, <3>3, Zenon
  <2>4. /\ Priority(waiters[i]) \in Nat /\ Priority(waiters[k]) \in Nat /\ Priority(c) \in Nat
    BY <1>8, <1>9, <2>1
  <2>5. Priority(c) < Priority(waiters[k]) BY <2>2, <2>3, <2>4
  <2>6. QED BY <2>5 DEF Before, InFront
<1>12. ASSUME NEW k \in DOMAIN waiters, NEW l \in DOMAIN waiters, k < l
       PROVE  InFront(ticket', waiters[k], waiters[l])
  <2>1. Before(waiters[k], waiters[l]) BY <1>12 DEF QueueInOrder
  <2>2. QED BY <2>1, <1>8 DEF Before, InFront
<1>13. ASSUME NEW j \in DOMAIN waiters', NEW k \in DOMAIN waiters', j < k
       PROVE  InFront(ticket', waiters'[j], waiters'[k])
  <2>1. CASE j # i /\ k # i
    <3>1. from(j) < from(k) BY <2>1, <1>2, <1>4, <1>13
    <3> HIDE DEF from
    <3>2. QED BY <3>1, <2>1, <1>5, <1>12
  <2>2. CASE j = i
    <3>1. k # i /\ from(k) >= i BY <2>2, <1>2, <1>4, <1>13
    <3> HIDE DEF from
    <3>2. QED BY <3>1, <2>2, <1>5, <1>6, <1>11
  <2>3. CASE k = i
    <3>1. j # i /\ from(j) < i BY <2>3, <1>2, <1>4, <1>13
    <3> HIDE DEF from
    <3>2. QED BY <3>1, <2>3, <1>5, <1>6, <1>10
  <2>4. QED BY <2>1, <2>2, <2>3
<1>14. ASSUME NEW j \in DOMAIN waiters' PROVE ticket'[waiters'[j]] < seq'
  <2> HIDE DEF from
  <2>1. CASE j = i BY <2>1, <1>6, <1>7
  <2>2. CASE j # i
    <3>1. ticket'[waiters'[j]] \in Nat /\ ticket'[waiters'[j]] < seq BY <2>2, <1>5, <1>8
    <3>2. QED BY <3>1, <1>7
  <2>3. QED BY <2>1, <2>2
<1> HIDE DEF from
<1>15. QED BY <1>13, <1>14 DEF QueueInOrder, Before, InFront, Priority

(* Every step keeps the queue in order.                                    *)
LEMMA NextOrder == WaitInv /\ QueueInOrder /\ [Next]_vars => QueueInOrder'
<1> SUFFICES ASSUME WaitInv, QueueInOrder, [Next]_vars PROVE QueueInOrder' OBVIOUS
<1>1. ASSUME SubQueue, ticket' = ticket, seq' = seq PROVE QueueInOrder' BY <1>1, OrderKept
<1>2. ASSUME UNCHANGED <<waiters, ticket, seq>> PROVE QueueInOrder' BY <1>1, <1>2, SameQueue
<1>3. CASE UNCHANGED vars BY <1>2, <1>3 DEF vars, limiterVars
<1>4. CASE Warm BY <1>2, <1>4 DEF Warm, CooldownEnds
<1>5. ASSUME NEW c \in Callers,
             \/ Begin(c) \/ TakeBudget(c) \/ ToolEnds(c) \/ RateLimited(c) \/ Cancel(c)
             \/ SetLimit(c) \/ Resume(c) \/ Start(c) \/ EnterFree(c) \/ Deliver(c)
      PROVE  QueueInOrder'
  <2>1. UNCHANGED <<waiters, ticket, seq>>
    BY <1>5 DEF Begin, TakeBudget, ToolEnds, RateLimited, Cancel, SetLimit, Resume, Start,
                EnterFree, Deliver, limiterVars
  <2>2. QED BY <2>1, <1>2
<1>6. ASSUME NEW c \in Callers, EnterQueue(c) PROVE QueueInOrder' BY <1>6, InsertOrder
<1>7. ASSUME NEW c \in Callers, GrantNext(c) PROVE QueueInOrder'
  BY <1>1, <1>7, PopSubQueue DEF GrantNext
<1>8. ASSUME NEW c \in Callers, Granted(c) PROVE QueueInOrder'
  BY <1>1, <1>8, SameQueue, EmptyQueue DEF Granted
<1>9. ASSUME NEW c \in Callers, Undeliverable(c) PROVE QueueInOrder'
  BY <1>1, <1>9, ReleaseSubQueue DEF Undeliverable
<1>10. ASSUME NEW c \in Callers, WaitEnds(c) PROVE QueueInOrder'
  BY <1>1, <1>10, RemoveSubQueue, SameQueue DEF WaitEnds, Timeout
<1>11. ASSUME ReleaseSlot PROVE QueueInOrder'
  BY <1>1, <1>11, ReleaseSubQueue DEF ReleaseSlot
<1>12. ASSUME NEW c \in Callers, InlineTool(c) \/ Ends(c) PROVE QueueInOrder'
  BY <1>11, <1>12 DEF InlineTool, Ends
<1>13. ASSUME NEW c \in Callers, Cancelled(c) PROVE QueueInOrder'
  <2>1. CASE RemoveWaiter(c) /\ UNCHANGED <<seq, ticket>> BY <1>1, <2>1, RemoveSubQueue
  <2>2. CASE UNCHANGED <<waiters, seq, ticket>> BY <1>2, <2>2
  <2>3. QED BY <1>11, <1>13, <2>1, <2>2 DEF Cancelled, CancelledWait
<1>14. QED
  BY <1>3, <1>4, <1>5, <1>6, <1>7, <1>8, <1>9, <1>10, <1>12, <1>13
     DEF Next, LimiterStep, Arrives

(* A slot that is passed on goes to a waiter taken out of the queue in     *)
(* front of all that stay in it.                                           *)
LEMMA PopServes ==
  ASSUME WaitInv, QueueInOrder, NEW gone, PopWaiter(gone), NEW c \in popped' \ popped,
         NEW d \in Callers, Queued(d)'
  PROVE  pc[c] = "waiting" /\ Before(c, d)
<1> USE DEF WaitInv, TypeOK, LimiterTypeOK
<1>1. PICK i \in DOMAIN waiters :
        /\ waiters' = SubSeq(waiters, i + 1, Len(waiters))
        /\ popped' = (popped \ gone) \cup {waiters[i]}
  BY DEF PopWaiter
<1>2. i \in 1..Len(waiters) /\ Len(waiters) \in Nat /\ DOMAIN waiters = 1..Len(waiters)
  BY <1>1, LenProperties
<1>3. /\ waiters' \in Seq(Callers) /\ Len(waiters') = Len(waiters) - i
      /\ \A j \in 1..Len(waiters) - i : waiters'[j] = waiters[i + j]
  BY <1>1, <1>2, TailIs
<1>4. DOMAIN waiters' = 1..Len(waiters) - i BY <1>3, LenProperties
<1>5. c = waiters[i] BY <1>1
<1>6. PICK k \in DOMAIN waiters' : waiters'[k] = d BY DEF Queued
<1>7. i + k \in DOMAIN waiters /\ i < i + k /\ waiters[i + k] = d
  <2>1. k \in 1..Len(waiters) - i BY <1>4
  <2>2. i + k \in 1..Len(waiters) /\ i < i + k BY <2>1, <1>2
  <2>3. waiters[i + k] = d BY <2>1, <1>3, <1>6
  <2>4. QED BY <2>2, <2>3, <1>2
<1>8. QED BY <1>1, <1>5, <1>7 DEF QueueInOrder, QueueSound

(* A slot that is given back reaches only a waiter taken out of the queue. *)
LEMMA ReleaseServes ==
  ASSUME NEW gone, Release(gone), fut' = fut, NEW c \in Callers, pc'[c] = pc[c],
         ~Holds(c), Holds(c)'
  PROVE  PopWaiter(gone) /\ c \in popped' \ popped
<1>1. c \in popped' /\ c \notin popped BY DEF Holds
<1>2. ~Retire(gone) /\ ~Free(gone) BY <1>1 DEF Retire, Free, PopNone
<1>3. QED BY <1>1, <1>2 DEF Release, PassOn

(* Who comes to hold a slot other than by force walked in, or was taken    *)
(* out of the queue.                                                       *)
LEMMA NewHolders ==
  ASSUME WaitInv, [Next]_vars, NEW c \in Callers, ~Holds(c), Holds(c)', c \notin forced'
  PROVE  EnterFree(c) \/ \E gone \in SUBSET Callers : PopWaiter(gone) /\ c \in popped' \ popped
<1> USE DEF WaitInv, TypeOK, LimiterTypeOK
<1>1. ~Same BY DEF Same, Holders
<1>2. CASE UNCHANGED vars BY <1>2 DEF vars, limiterVars, Holds
<1>3. CASE Warm BY <1>3 DEF Warm, CooldownEnds, Holds
<1>4. ASSUME NEW d \in Callers,
             \/ Begin(d) \/ TakeBudget(d) \/ ToolEnds(d) \/ RateLimited(d) \/ Cancel(d)
             \/ SetLimit(d) \/ Resume(d) \/ Start(d)
             \/ Granted(d) \/ EnterQueue(d) \/ Deliver(d)
      PROVE  FALSE
  BY <1>1, <1>4, QuietHolders
<1>5. ASSUME NEW d \in Callers, GrantNext(d) PROVE PopWaiter({}) /\ c \in popped' \ popped
  BY <1>5 DEF GrantNext, Holds
<1>6. ASSUME NEW d \in Callers, EnterFree(d) PROVE c = d
  BY <1>6 DEF EnterFree, To, Holds
<1>7. ASSUME NEW d \in Callers, Undeliverable(d)
      PROVE  PopWaiter({d}) /\ c \in popped' \ popped
  BY <1>7, ReleaseServes DEF Undeliverable
<1>8. ASSUME NEW d \in Callers, WaitEnds(d) PROVE FALSE
  <2>1. c # d
    <3>1. pc[d] = "waiting" /\ fut[d] = "pending" /\ (d \in forced' \/ ~Queued(d))
      BY <1>8 DEF WaitEnds, Timeout
    <3>2. ~Queued(d) => d \in popped BY <3>1 DEF FuturesSound
    <3>3. QED BY <3>1, <3>2 DEF Holds
  <2>2. pc'[c] = pc[c] /\ fut' = fut /\ popped' = popped
    BY <1>8, <2>1 DEF WaitEnds, Timeout, To
  <2>3. QED BY <2>2 DEF Holds
<1>9. ASSUME NEW d \in Callers, ReleaseSlot,
             pc' = [pc EXCEPT ![d] = "over"] \/ pc' = [pc EXCEPT ![d] = "tool"],
             pc[d] \in {"cooldown", "using", "failing"} \/ (pc[d] = "waiting" /\ fut[d] = "set")
      PROVE  PopWaiter({}) /\ c \in popped' \ popped
  <2>1. c # d BY <1>9 DEF Holds
  <2>2. Release({}) /\ fut' = fut BY <1>9 DEF ReleaseSlot
  <2>3. pc'[c] = pc[c] BY <1>9, <2>1
  <2>4. QED BY <2>2, <2>3, ReleaseServes
<1>10. ASSUME NEW d \in Callers, InlineTool(d) \/ Ends(d)
       PROVE  PopWaiter({}) /\ c \in popped' \ popped
  BY <1>9, <1>10 DEF InlineTool, Ends, To
<1>11. ASSUME NEW d \in Callers, Cancelled(d) PROVE PopWaiter({}) /\ c \in popped' \ popped
  <2>1. CASE EndsQuietly(d) BY <1>1, <2>1, QuietHolders
  <2>2. CASE EndsGiving(d) BY <1>9, <2>2 DEF EndsGiving
  <2>3. QED BY <1>11, <2>1, <2>2, CancelledIs
<1>12. QED
  BY <1>2, <1>3, <1>4, <1>5, <1>6, <1>7, <1>8, <1>10, <1>11 DEF Next, LimiterStep, Arrives

(* Waiters are served by priority, then arrival, whatever times out or is  *)
(* cancelled between them, and nobody who did not have to wait overtakes   *)
(* (concurrency.py, acquire and _pop_next_waiter).                         *)
THEOREM RequestsAreServedInOrder == Spec => ServedInOrder
<1>1. Init => WaitInv /\ QueueInOrder
  BY InitWait DEF Init, LimiterInit, QueueInOrder
<1>2. WaitInv /\ QueueInOrder /\ [Next]_vars => (WaitInv /\ QueueInOrder)'
  BY NextWait, NextOrder
<1>3. ASSUME WaitInv, QueueInOrder, [Next]_vars, NEW c \in Callers, NEW d \in Callers,
             ~Holds(c), Holds(c)', c \notin forced', StillWaits(d), StillWaits(d)', limit # 0
      PROVE  pc[c] = "waiting" /\ Before(c, d)
  <2>1. Queued(d) /\ Queued(d)' BY <1>3 DEF StillWaits
  <2>2. ~EnterFree(c) BY <1>3, <2>1 DEF EnterFree, Queued
  <2>3. PICK gone \in SUBSET Callers : PopWaiter(gone) /\ c \in popped' \ popped
    BY <1>3, <2>2, NewHolders
  <2>4. QED BY <1>3, <2>1, <2>3, PopServes
<1>4. WaitInv /\ QueueInOrder /\ [Next]_vars =>
        [\A c, d \in Callers :
           /\ ~Holds(c) /\ Holds(c)' /\ c \notin forced'
           /\ StillWaits(d) /\ StillWaits(d)' /\ limit # 0
           => pc[c] = "waiting" /\ Before(c, d)]_vars
  BY <1>3
<1>5. QED BY <1>1, <1>2, <1>4, PTL DEF Spec, ServedInOrder
=============================================================================
