--------------------------- MODULE KafkaSourceProofs ---------------------------
(***************************************************************************)
(* Proofs about KafkaSource for any number of messages, replicas, attempts *)
(* and upsets, and any length of the batches and of the rebalance timeout. *)
(***************************************************************************)
EXTENDS KafkaSource, MailerServiceProofs

-----------------------------------------------------------------------------
(***************************************************************************)
(* The first invariant: where the loops are in the log, and that only the  *)
(* member which the group has given the topic to can commit.               *)
(***************************************************************************)

Owns(l) == owner[l[2]] = l[1]

\* The records below this offset are behind the loop.
From(l) == IF InBatch(l) THEN loop[l].first ELSE loop[l].position

\* The topics hold records of published messages.
LogOK ==
    /\ log \in [Topics -> Seq(Records)]
    /\ \A t \in Topics : \A i \in 1..Len(log[t]) : log[t][i].msg \in published
    /\ \A t \in Topics : committed[t] <= Len(log[t])

\* A batch is a part of the log, and the record in work is one of the batch.
BatchOK(l) ==
    LET p == loop[l] IN
    /\ p.position <= Len(log[l[2]])
    /\ InBatch(l) => /\ p.first <= p.current /\ p.current <= p.last
                     /\ p.last = p.position /\ p.last - p.first <= MaxBatch
    /\ p.pc = "applying" => /\ p.current < p.last
                            /\ p.attempt = kafkaAttempt(log[l[2]][p.current + 1].header)
                            /\ p.action \in {"done", "retry", "dead_letter"}

\* The group gives a topic only to processes that are up; they work on what is not committed.
OwnerOK(l) == Owns(l) => up[l[1]] # "down" /\ committed[l[2]] <= From(l)

\* Who works on a batch of a topic that it does not own was evicted.
EvictedOK(l) ==
    InBatch(l) /\ ~Owns(l) =>
        \A i \in (loop[l].first + 1)..loop[l].last : "evicted" \in upset[log[l[2]][i].msg]

LoopOK(l) == BatchOK(l) /\ OwnerOK(l) /\ EvictedOK(l)

BaseInv == TypeOK /\ LogOK /\ \A l \in Loops : LoopOK(l)

-----------------------------------------------------------------------------
(***************************************************************************)
(* The second invariant: a loop has resolved what is behind it.            *)
(***************************************************************************)

\* The record is resolved: its message is settled, or waits for its next attempt in the retry
\* topic; or its produce, or that of a record before it in a batch, was refused.
ResolvedAt(t, i) ==
    LET rec == log[t][i] IN
    \/ "refused" \in upset[rec.msg]
    \/ Settled(rec.msg)
    \/ \E j \in 1..Len(log["retry"]) :
          /\ log["retry"][j].msg = rec.msg
          /\ log["retry"][j].header = kafkaAttempt(rec.header) + 1

ResolvedUpTo(t, n) == \A i \in 1..n : ResolvedAt(t, i)

\* Only a cancelled loop leaves records behind that are not resolved, and it polls no more.
ProgressOK(l) ==
    LET p == loop[l] IN
    /\ Owns(l) /\ InBatch(l) => ResolvedUpTo(l[2], p.current)
    /\ Owns(l) /\ p.pc \in {"polling", "committing"} /\ up[l[1]] = "running" =>
          ResolvedUpTo(l[2], p.position)
    /\ p.pc = "applying" /\ p.action = "done" => Settled(log[l[2]][p.current + 1].msg)

ResolvedInv ==
    /\ \A t \in Topics : ResolvedUpTo(t, committed[t])
    /\ \A l \in Loops : ProgressOK(l)

-----------------------------------------------------------------------------
(***************************************************************************)
(* The third invariant: the records of a message form a chain, attempt by  *)
(* attempt, and the end of the chain is not lost.                          *)
(***************************************************************************)

\* The retry topic holds the record that follows this one.
Followed(t, i) ==
    \E j \in 1..Len(log["retry"]) :
        /\ log["retry"][j].msg = log[t][i].msg
        /\ log["retry"][j].header = kafkaAttempt(log[t][i].header) + 1

MainOnce ==
    \A i, j \in 1..Len(log["main"]) : log["main"][i].msg = log["main"][j].msg => i = j

\* A retry record follows the main record of its message or another retry record of it.
Lineage ==
    \A j \in 1..Len(log["retry"]) :
        LET rec == log["retry"][j] IN
        /\ rec.header \in Int
        /\ \E i \in 1..Len(log["main"]) :
              /\ log["main"][i].msg = rec.msg
              /\ kafkaAttempt(log["main"][i].header) < rec.header
              /\ \/ rec.header = kafkaAttempt(log["main"][i].header) + 1
                 \/ \E k \in 1..Len(log["retry"]) :
                       log["retry"][k].msg = rec.msg /\ log["retry"][k].header = rec.header - 1

ChainEnd(m) ==
    \E t \in Topics : \E i \in 1..Len(log[t]) : log[t][i].msg = m /\ ~Followed(t, i)

ChainInv ==
    /\ MainOnce
    /\ Lineage
    /\ \A m \in published : ChainEnd(m)

-----------------------------------------------------------------------------
(***************************************************************************)
(* The fourth invariant: of an undisturbed message, one record at a time   *)
(* is still to be processed.                                               *)
(***************************************************************************)

\* What makes a record be processed again after it was begun, or hides a success.
Repeats == {"crash", "shutdown", "evicted", "commit_failed", "ambiguous"}

\* The offset up to which the records of the batch were begun.
BegunTo(l) == IF loop[l].pc = "applying" THEN loop[l].current + 1 ELSE loop[l].current

\* The record is committed, or the owner of its topic has begun to process it.
Passed(t, i) ==
    \/ i <= committed[t]
    \/ \E l \in Loops : l[2] = t /\ Owns(l) /\ InBatch(l) /\ loop[l].first < i /\ i <= BegunTo(l)

IsRecordOf(t, i, m) == t \in Topics /\ i \in 1..Len(log[t]) /\ log[t][i].msg = m

\* l is between the handler and the resolution of a record of m.
Applying(l, m) ==
    Owns(l) /\ loop[l].pc = "applying" /\ log[l[2]][loop[l].current + 1].msg = m

AllPassed(m) == \A t \in Topics : \A i \in 1..Len(log[t]) : log[t][i].msg = m => Passed(t, i)

OneToPass(m) ==
    \A t, u \in Topics : \A i \in 1..Len(log[t]), j \in 1..Len(log[u]) :
        log[t][i].msg = m /\ log[u][j].msg = m /\ ~Passed(t, i) /\ ~Passed(u, j) => t = u /\ i = j

OnceOK(m) ==
    Undisturbed(m, Repeats) =>
        /\ OneToPass(m)
        /\ sent[m] <= 1
        /\ sent[m] > 0 => AllPassed(m)
        /\ \A l \in Loops : Applying(l, m) =>
              /\ AllPassed(m)
              /\ loop[l].action # "done" => sent[m] = 0
              /\ \A k \in Loops : Applying(k, m) => k = l

OnceInv ==
    /\ \A m \in Messages \ published : sent[m] = 0
    /\ \A m \in Messages : OnceOK(m)

USE KafkaAssumption DEF producerVars, brokerVars, worldVars

-----------------------------------------------------------------------------
(***************************************************************************)
(* Lemmas about the loops and the log.                                     *)
(***************************************************************************)

\* A loop is known by its replica and its topic.
LEMMA LoopFacts ==
    ASSUME NEW l \in Loops
    PROVE  /\ l[1] \in Replicas /\ l[2] \in Topics
           /\ \A k \in Loops : k[1] = l[1] /\ k[2] = l[2] => k = l
BY DEF Loops

\* What the record of a loop holds.
LEMMA LoopTypes ==
    ASSUME TypeOK, NEW l \in Loops
    PROVE  /\ loop[l].pc \in {"polling", "processing", "applying", "committing"}
           /\ loop[l].position \in Nat /\ loop[l].first \in Nat
           /\ loop[l].current \in Nat /\ loop[l].last \in Nat
           /\ loop[l].attempt \in Nat /\ loop[l].action \in Actions
BY DEF TypeOK, LoopRecords

\* The attempt read from a header is a positive number.
LEMMA AttemptFacts ==
    ASSUME NEW h \in Int \cup {NoAttempt}
    PROVE  /\ kafkaAttempt(h) \in Nat \ {0}
           /\ CanRetry(kafkaAttempt(h)) \in BOOLEAN
BY DEF kafkaAttempt, CanRetry

\* A step only appends to the log.
LogGrows ==
    \A t \in Topics :
        /\ Len(log[t]) <= Len(log'[t])
        /\ \A i \in 1..Len(log[t]) : log'[t][i] = log[t][i]

\* A loop that a step leaves alone stays in order, also when it loses its topic.
LEMMA Bystander ==
    ASSUME BaseInv, LogGrows, NEW l \in Loops, loop'[l] = loop[l],
           \A m \in Messages : upset[m] \subseteq upset'[m],
           Owns(l)' => Owns(l) /\ up'[l[1]] # "down" /\ committed'[l[2]] = committed[l[2]],
           InBatch(l) /\ ~Owns(l)' => ~Owns(l)
    PROVE  LoopOK(l)'
<1>1. /\ l[2] \in Topics
      /\ loop[l].pc \in {"polling", "processing", "applying", "committing"}
      /\ loop[l].position \in Nat /\ loop[l].first \in Nat
      /\ loop[l].current \in Nat /\ loop[l].last \in Nat
      /\ Len(log[l[2]]) \in Nat /\ Len(log'[l[2]]) \in Int
      /\ BatchOK(l) /\ OwnerOK(l) /\ EvictedOK(l)
  BY LoopFacts, LoopTypes DEF BaseInv, LoopOK, LogOK
<1>2. BatchOK(l)'
  <2>1. Len(log[l[2]]) <= Len(log'[l[2]]) /\ \A i \in 1..Len(log[l[2]]) : log'[l[2]][i] = log[l[2]][i]
    BY <1>1 DEF LogGrows
  <2>2. loop[l].pc = "applying" => loop[l].current + 1 \in 1..Len(log[l[2]])
    BY <1>1 DEF BatchOK, InBatch
  <2>3. loop'[l].position <= Len(log'[l[2]])
    BY <1>1, <2>1 DEF BatchOK
  <2>4. loop[l].pc = "applying" =>
          log'[l[2]][loop[l].current + 1] = log[l[2]][loop[l].current + 1]
    BY <2>1, <2>2
  <2> QED
    BY <1>1, <2>3, <2>4 DEF BatchOK, InBatch
<1>3. OwnerOK(l)'
  BY <1>1 DEF OwnerOK, From, InBatch
<1>4. EvictedOK(l)'
  <2> SUFFICES ASSUME InBatch(l), ~Owns(l), NEW i \in (loop[l].first + 1)..loop[l].last
               PROVE  "evicted" \in upset'[log'[l[2]][i].msg]
    BY DEF EvictedOK, InBatch
  <2>1. i \in 1..Len(log[l[2]])
    BY <1>1 DEF BatchOK
  <2>2. log'[l[2]][i] = log[l[2]][i] /\ log[l[2]][i].msg \in Messages
    BY <1>1, <2>1 DEF LogGrows, BaseInv, LogOK, TypeOK
  <2>3. "evicted" \in upset[log[l[2]][i].msg]
    BY <1>1 DEF EvictedOK
  <2> QED
    BY <2>2, <2>3
<1> QED
  BY <1>2, <1>3, <1>4 DEF LoopOK

\* A step of one loop leaves the others in order.
LEMMA Solo ==
    ASSUME BaseInv, LogGrows, NEW l \in Loops, NEW q, loop' = [loop EXCEPT ![l] = q],
           UNCHANGED << owner, up >>,
           \A t \in Topics : (t = l[2] /\ Owns(l)) \/ committed'[t] = committed[t],
           \A m \in Messages : upset[m] \subseteq upset'[m],
           LoopOK(l)'
    PROVE  \A k \in Loops : LoopOK(k)'
<1> SUFFICES ASSUME NEW k \in Loops, k # l PROVE LoopOK(k)'
  OBVIOUS
<1>1. loop'[k] = loop[k]
  BY DEF BaseInv, TypeOK
<1>2. Owns(k)' => Owns(k) /\ up'[k[1]] # "down" /\ committed'[k[2]] = committed[k[2]]
  <2>1. Owns(k) => up[k[1]] # "down"
    BY DEF BaseInv, LoopOK, OwnerOK
  <2>2. k[2] \in Topics /\ ~(Owns(k) /\ Owns(l) /\ k[2] = l[2])
    BY LoopFacts DEF Owns
  <2> QED
    BY <2>1, <2>2 DEF Owns
<1>3. InBatch(k) /\ ~Owns(k)' => ~Owns(k)
  BY DEF Owns
<1> QED
  BY <1>1, <1>2, <1>3, Bystander

\* A loop that goes on with its batch.
LEMMA BatchStep ==
    ASSUME BaseInv, LogGrows, NEW l \in Loops, NEW q \in LoopRecords, InBatch(l),
           loop' = [loop EXCEPT ![l] = q],
           q.pc # "polling",
           q.first = loop[l].first, q.last = loop[l].last, q.position = loop[l].position,
           q.first <= q.current, q.current <= q.last,
           q.pc = "applying" =>
              /\ q.current < q.last
              /\ q.attempt = kafkaAttempt(log[l[2]][q.current + 1].header)
              /\ q.action \in {"done", "retry", "dead_letter"},
           UNCHANGED << owner, up, committed >>,
           \A m \in Messages : upset[m] \subseteq upset'[m]
    PROVE  \A k \in Loops : LoopOK(k)'
<1>1. loop'[l] = q /\ l[2] \in Topics
  BY LoopFacts DEF BaseInv, TypeOK
<1>2. BatchOK(l) /\ OwnerOK(l) /\ EvictedOK(l)
  BY DEF BaseInv, LoopOK
<1>3. /\ Len(log[l[2]]) \in Nat /\ Len(log[l[2]]) <= Len(log'[l[2]])
      /\ \A i \in 1..Len(log[l[2]]) : log'[l[2]][i] = log[l[2]][i]
      /\ q.first \in Nat /\ q.last \in Nat /\ q.current \in Nat /\ q.position \in Nat
  <2>1. q.first \in Nat /\ q.last \in Nat /\ q.current \in Nat /\ q.position \in Nat
    BY DEF LoopRecords
  <2>2. log[l[2]] \in Seq(Records)
    BY <1>1 DEF BaseInv, LogOK
  <2> QED
    BY <1>1, <2>1, <2>2 DEF LogGrows
<1>4. BatchOK(l)'
  <2>1. q.position <= Len(log'[l[2]])
    BY <1>2, <1>3 DEF BatchOK
  <2>2. q.last = q.position /\ q.last - q.first <= MaxBatch
    BY <1>2, <1>3 DEF BatchOK
  <2>3. q.position <= Len(log[l[2]])
    BY <1>2 DEF BatchOK
  <2>4. q.pc = "applying" => log'[l[2]][q.current + 1] = log[l[2]][q.current + 1]
    <3>1. q.pc = "applying" => q.current + 1 \in 1..Len(log[l[2]])
      BY <1>3, <2>2, <2>3
    <3> QED
      BY <1>3, <3>1
  <2> QED
    BY <1>1, <2>1, <2>2, <2>4 DEF BatchOK, InBatch
<1>5. OwnerOK(l)'
  BY <1>1, <1>2 DEF OwnerOK, Owns, From, InBatch
<1>6. EvictedOK(l)'
  <2> SUFFICES ASSUME ~Owns(l), NEW i \in (q.first + 1)..q.last
               PROVE  "evicted" \in upset'[log'[l[2]][i].msg]
    BY <1>1 DEF EvictedOK, InBatch, Owns
  <2>1. i \in 1..Len(log[l[2]])
    BY <1>2, <1>3 DEF BatchOK
  <2>2. log'[l[2]][i] = log[l[2]][i] /\ log[l[2]][i].msg \in Messages
    BY <1>1, <1>3, <2>1 DEF BaseInv, LogOK, TypeOK
  <2>3. "evicted" \in upset[log[l[2]][i].msg]
    BY <1>2 DEF EvictedOK
  <2> QED
    BY <2>2, <2>3
<1>7. LoopOK(l)'
  BY <1>4, <1>5, <1>6 DEF LoopOK
<1>8. \A t \in Topics : (t = l[2] /\ Owns(l)) \/ committed'[t] = committed[t]
  OBVIOUS
<1> QED
  BY <1>7, <1>8, Solo

\* A loop that ends its batch, with or without a commit.
LEMMA EndStep ==
    ASSUME BaseInv, NEW l \in Loops, InBatch(l), EndBatch(l), UNCHANGED << log, owner, up >>,
           \/ committed' = committed
           \/ Owns(l) /\ committed' = [committed EXCEPT ![l[2]] = loop[l].current],
           \A m \in Messages : upset[m] \subseteq upset'[m]
    PROVE  /\ loop' \in [Loops -> LoopRecords]
           /\ committed' \in [Topics -> Nat]
           /\ \A t \in Topics : committed[t] <= committed'[t] /\ committed'[t] <= Len(log[t])
           /\ \A k \in Loops : LoopOK(k)'
<1> DEFINE q == [NoLoop EXCEPT !.position = IF owner[l[2]] = l[1] THEN loop[l].position ELSE 0]
<1>1. /\ l[2] \in Topics /\ loop[l].position \in Nat /\ loop[l].current \in Nat
      /\ loop[l].last \in Nat /\ loop[l].first \in Nat
  BY LoopFacts, LoopTypes DEF BaseInv
<1>2. q \in LoopRecords /\ q.pc = "polling" /\ q.position = IF Owns(l) THEN loop[l].position ELSE 0
  BY <1>1 DEF NoLoop, LoopRecords, Actions, Owns
<1>3. loop' = [loop EXCEPT ![l] = q] /\ loop'[l] = q
  BY DEF EndBatch, BaseInv, TypeOK
<1> HIDE DEF q
<1>4. BatchOK(l) /\ OwnerOK(l)
  BY DEF BaseInv, LoopOK
<1>5. \A t \in Topics : committed[t] \in Nat /\ committed[t] <= Len(log[t]) /\ Len(log[t]) \in Nat
  BY DEF BaseInv, LogOK, TypeOK
<1>6. /\ Owns(l) => committed[l[2]] <= loop[l].current
      /\ loop[l].current <= loop[l].position /\ loop[l].position <= Len(log[l[2]])
  BY <1>1, <1>4, <1>5 DEF BatchOK, OwnerOK, From
<1>7. committed' \in [Topics -> Nat]
  BY <1>1 DEF BaseInv, TypeOK
<1>8. /\ \A t \in Topics : (t = l[2] /\ Owns(l)) \/ committed'[t] = committed[t]
      /\ committed'[l[2]] \in {committed[l[2]], loop[l].current}
  BY <1>1 DEF BaseInv, TypeOK
<1>9. \A t \in Topics : committed[t] <= committed'[t] /\ committed'[t] <= Len(log[t])
  BY <1>1, <1>5, <1>6, <1>8
<1>10. LoopOK(l)'
  <2>1. BatchOK(l)'
    BY <1>1, <1>2, <1>3, <1>5, <1>6 DEF BatchOK, InBatch
  <2>2. OwnerOK(l)'
    BY <1>1, <1>2, <1>3, <1>4, <1>5, <1>6, <1>8 DEF OwnerOK, Owns, From, InBatch
  <2>3. EvictedOK(l)'
    BY <1>2, <1>3 DEF EvictedOK, InBatch
  <2> QED
    BY <2>1, <2>2, <2>3 DEF LoopOK
<1>11. LogGrows
  BY <1>5 DEF LogGrows
<1>12. loop' \in [Loops -> LoopRecords]
  BY <1>2, <1>3 DEF BaseInv, TypeOK
<1> QED
  BY <1>3, <1>7, <1>8, <1>9, <1>10, <1>11, <1>12, Solo

\* A new record of a published message at the end of a topic.
LEMMA AppendStep ==
    ASSUME TypeOK, LogOK, NEW t \in Topics, NEW rec \in Records,
           log' = [log EXCEPT ![t] = Append(@, rec)],
           published \subseteq published', rec.msg \in published', committed' = committed
    PROVE  /\ LogOK' /\ LogGrows
           /\ \A u \in Topics : \A i \in 1..Len(log'[u]) : log'[u][i] \in Records
           /\ Len(log'[t]) = Len(log[t]) + 1
           /\ log'[t][Len(log[t]) + 1] = rec
           /\ \A u \in Topics : u # t => log'[u] = log[u]
<1>1. log[t] \in Seq(Records) /\ log'[t] = Append(log[t], rec)
  BY DEF LogOK
<1>2. /\ Len(log'[t]) = Len(log[t]) + 1
      /\ log'[t][Len(log[t]) + 1] = rec
      /\ \A i \in 1..Len(log[t]) : log'[t][i] = log[t][i]
      /\ log'[t] \in Seq(Records)
  BY <1>1
<1>3. \A u \in Topics : u # t => log'[u] = log[u]
  BY DEF LogOK
<1>4. LogGrows
  BY <1>1, <1>2, <1>3 DEF LogGrows, LogOK
<1>5. log' \in [Topics -> Seq(Records)]
  BY <1>1, <1>2 DEF LogOK
<1>6. \A u \in Topics : Len(log'[u]) \in Nat /\ Len(log[u]) \in Nat /\ committed[u] \in Nat
  BY <1>5 DEF TypeOK, LogOK
<1>7. \A u \in Topics : \A i \in 1..Len(log'[u]) : log'[u][i].msg \in published'
  BY <1>1, <1>2, <1>3 DEF LogOK
<1>8. \A u \in Topics : committed'[u] <= Len(log'[u])
  BY <1>4, <1>6 DEF LogGrows, LogOK
<1>9. LogOK'
  BY <1>5, <1>7, <1>8 DEF LogOK
<1>10. \A u \in Topics : \A i \in 1..Len(log'[u]) : log'[u][i] \in Records
  BY <1>5
<1> QED
  BY <1>2, <1>3, <1>4, <1>9, <1>10

\* A step that appends nothing.
LEMMA SameLog ==
    ASSUME BaseInv, log' = log
    PROVE  LogGrows
<1>1. \A t \in Topics : Len(log[t]) \in Nat
  BY DEF BaseInv, LogOK
<1> QED
  BY <1>1 DEF LogGrows

\* Marking messages with a reason adds that reason to them and takes none away.
LEMMA MarkFacts ==
    ASSUME TypeOK, NEW ms, NEW reason \in Reasons, Mark(ms, reason)
    PROVE  /\ upset' \in [Messages -> SUBSET Reasons]
           /\ \A m \in Messages : upset[m] \subseteq upset'[m]
           /\ \A m \in Messages : m \in ms => reason \in upset'[m]
           /\ \A m \in Messages : m \notin ms => upset'[m] = upset[m]
BY DEF TypeOK, Mark

\* The idle loop.
LEMMA NoLoopFacts == NoLoop \in LoopRecords /\ NoLoop.pc = "polling" /\ NoLoop.position = 0
BY DEF NoLoop, LoopRecords, Actions

\* A loop without a topic is in order when it is idle.
LEMMA IdleStep ==
    ASSUME NEW l \in Loops, loop'[l] = NoLoop, ~Owns(l)', LogOK'
    PROVE  LoopOK(l)'
<1>1. Len(log'[l[2]]) \in Nat
  BY LoopFacts DEF LogOK
<1> QED
  BY <1>1, NoLoopFacts DEF LoopOK, BatchOK, OwnerOK, EvictedOK, InBatch

-----------------------------------------------------------------------------
(***************************************************************************)
(* Every action preserves the first invariant.                             *)
(***************************************************************************)

\* Nothing is published, and every loop is idle.
LEMMA InitBase == Init => BaseInv
<1> SUFFICES ASSUME Init PROVE BaseInv
  OBVIOUS
<1>1. TypeOK
  BY NoLoopFacts DEF Init, TypeOK, Reasons, Topics
<1>2. LogOK
  BY DEF Init, LogOK
<1>3. ASSUME NEW l \in Loops PROVE LoopOK(l)
  <2>1. loop[l] = NoLoop /\ log[l[2]] = << >> /\ owner[l[2]] = NoReplica /\ l[1] \in Replicas
    BY LoopFacts DEF Init
  <2> QED
    BY <2>1, NoLoopFacts DEF LoopOK, BatchOK, OwnerOK, EvictedOK, InBatch, Owns
<1> QED
  BY <1>1, <1>2, <1>3 DEF BaseInv

\* A producer appends to the main topic.
LEMMA PublishBase ==
    ASSUME BaseInv, NEW m \in Messages, Publish(m)
    PROVE  BaseInv' /\ LogGrows
<1>1. PICK h \in ProducerAttempts :
        log' = [log EXCEPT !["main"] = Append(@, [msg |-> m, header |-> h])]
  BY DEF Publish
<1>2. /\ published' = published \cup {m}
      /\ UNCHANGED << request, committed, dead, owner, up, loop, sent, told, upset, upsets >>
  BY DEF Publish
<1>3. [msg |-> m, header |-> h] \in Records /\ "main" \in Topics
  BY DEF Records, Topics
<1>4. /\ LogOK' /\ LogGrows
      /\ \A u \in Topics : \A i \in 1..Len(log'[u]) : log'[u][i] \in Records
  <2>1. TypeOK /\ LogOK
    BY DEF BaseInv
  <2>2. published \subseteq published' /\ [msg |-> m, header |-> h].msg \in published'
    BY <1>2
  <2> QED
    BY <1>1, <1>2, <1>3, <2>1, <2>2, AppendStep
<1>5. TypeOK'
  BY <1>2, <1>4 DEF BaseInv, TypeOK
<1>6. ASSUME NEW k \in Loops PROVE LoopOK(k)'
  BY <1>2, <1>4, Bystander DEF Owns, InBatch, BaseInv, LoopOK, OwnerOK
<1> QED
  BY <1>4, <1>5, <1>6 DEF BaseInv

\* A process starts, or its context is cancelled.
LEMMA ProcessBase ==
    ASSUME BaseInv, NEW r \in Replicas, Start(r) \/ Cancel(r)
    PROVE  BaseInv' /\ LogGrows
<1>1. /\ up' \in [Replicas -> {"down", "running", "cancelled"}]
      /\ \A s \in Replicas : up[s] # "down" => up'[s] # "down"
  BY DEF Start, Cancel, BaseInv, TypeOK
<1>2. /\ UNCHANGED << producerVars, brokerVars, loop, worldVars, upset >>
      /\ upsets' \in 0..MaxUpsets
  BY DEF Start, Cancel, Upset, BaseInv, TypeOK
<1>3. TypeOK' /\ LogOK' /\ LogGrows
  BY <1>1, <1>2, SameLog DEF BaseInv, TypeOK, LogOK
<1>4. ASSUME NEW k \in Loops PROVE LoopOK(k)'
  BY <1>1, <1>2, <1>3, Bystander, LoopFacts DEF Owns, InBatch, BaseInv, LoopOK, OwnerOK
<1> QED
  BY <1>3, <1>4 DEF BaseInv

\* A member is given the topic: it reads on from the committed offset.
LEMMA AssignBase ==
    ASSUME BaseInv, NEW l \in Loops, Assign(l)
    PROVE  BaseInv' /\ LogGrows
<1> DEFINE q == [NoLoop EXCEPT !.position = committed[l[2]]]
<1>1. l[1] \in Replicas /\ l[2] \in Topics
  BY LoopFacts
<1>2. q \in LoopRecords /\ q.pc = "polling" /\ q.position = committed[l[2]]
  BY <1>1 DEF NoLoop, LoopRecords, Actions, BaseInv, TypeOK
<1>3. /\ owner[l[2]] = NoReplica /\ up[l[1]] = "running"
      /\ owner' = [owner EXCEPT ![l[2]] = l[1]]
      /\ loop' = [loop EXCEPT ![l] = q]
      /\ UNCHANGED << producerVars, log, committed, dead, up, worldVars, upset, upsets >>
  BY DEF Assign
<1> HIDE DEF q
<1>4. TypeOK'
  BY <1>1, <1>2, <1>3 DEF BaseInv, TypeOK
<1>5. LogOK' /\ LogGrows
  BY <1>3, SameLog DEF BaseInv, LogOK
<1>6. ASSUME NEW k \in Loops, k # l PROVE LoopOK(k)'
  <2>1. loop'[k] = loop[k] /\ k[2] \in Topics /\ k[1] \in Replicas
    BY <1>3, <1>6, LoopFacts DEF BaseInv, TypeOK
  <2>2. Owns(k)' <=> Owns(k)
    BY <1>1, <1>3, <1>6, <2>1, LoopFacts DEF Owns, BaseInv, TypeOK
  <2> QED
    BY <1>3, <1>5, <2>1, <2>2, Bystander DEF BaseInv, LoopOK, OwnerOK
<1>7. LoopOK(l)'
  <2>1. loop'[l] = q
    BY <1>3 DEF BaseInv, TypeOK
  <2>2. committed[l[2]] \in Nat /\ committed[l[2]] <= Len(log[l[2]])
    BY <1>1 DEF BaseInv, TypeOK, LogOK
  <2> QED
    BY <1>2, <1>3, <2>1, <2>2 DEF LoopOK, BatchOK, OwnerOK, EvictedOK, InBatch, From
<1> QED
  BY <1>4, <1>5, <1>6, <1>7 DEF BaseInv

\* A polling member loses the topic.
LEMMA RevokeBase ==
    ASSUME BaseInv, NEW l \in Loops, Revoke(l)
    PROVE  BaseInv' /\ LogGrows
<1>1. l[1] \in Replicas /\ l[2] \in Topics
  BY LoopFacts
<1>2. /\ owner[l[2]] = l[1]
      /\ owner' = [owner EXCEPT ![l[2]] = NoReplica]
      /\ loop' = [loop EXCEPT ![l] = NoLoop]
      /\ upsets' \in 0..MaxUpsets
      /\ UNCHANGED << producerVars, log, committed, dead, up, worldVars, upset >>
  BY DEF Revoke, Upset, BaseInv, TypeOK
<1>3. TypeOK'
  BY <1>1, <1>2, NoLoopFacts DEF BaseInv, TypeOK
<1>4. LogOK' /\ LogGrows
  BY <1>2, SameLog DEF BaseInv, LogOK
<1>5. ASSUME NEW k \in Loops, k # l PROVE LoopOK(k)'
  <2>1. loop'[k] = loop[k] /\ k[2] \in Topics /\ k[1] \in Replicas
    BY <1>2, <1>5, LoopFacts DEF BaseInv, TypeOK
  <2>2. Owns(k)' <=> Owns(k)
    BY <1>1, <1>2, <1>5, <2>1, LoopFacts DEF Owns, BaseInv, TypeOK
  <2> QED
    BY <1>2, <1>4, <2>1, <2>2, Bystander DEF BaseInv, LoopOK, OwnerOK
<1>6. LoopOK(l)'
  BY <1>1, <1>2, <1>4, IdleStep DEF Owns, BaseInv, TypeOK
<1> QED
  BY <1>3, <1>4, <1>5, <1>6 DEF BaseInv

\* A member that works on a batch loses the topic: the messages of the batch are marked.
LEMMA EvictBase ==
    ASSUME BaseInv, NEW l \in Loops, Evict(l)
    PROVE  BaseInv' /\ LogGrows
<1>1. l[1] \in Replicas /\ l[2] \in Topics
  BY LoopFacts
<1>2. /\ owner[l[2]] = l[1]
      /\ owner' = [owner EXCEPT ![l[2]] = NoReplica]
      /\ upsets' \in 0..MaxUpsets
      /\ Mark(MessagesIn(l[2], loop[l].first, loop[l].last), "evicted")
      /\ UNCHANGED << producerVars, log, committed, dead, up, loop, worldVars >>
  BY DEF Evict, Upset, BaseInv, TypeOK
<1>3. /\ upset' \in [Messages -> SUBSET Reasons]
      /\ \A m \in Messages : upset[m] \subseteq upset'[m]
      /\ \A m \in Messages : m \in MessagesIn(l[2], loop[l].first, loop[l].last) =>
            "evicted" \in upset'[m]
  BY <1>2, MarkFacts DEF BaseInv, Reasons
<1>4. TypeOK'
  BY <1>1, <1>2, <1>3 DEF BaseInv, TypeOK
<1>5. LogOK' /\ LogGrows
  BY <1>2, SameLog DEF BaseInv, LogOK
<1>6. ASSUME NEW k \in Loops, k # l PROVE LoopOK(k)'
  <2>1. loop'[k] = loop[k] /\ k[2] \in Topics /\ k[1] \in Replicas
    BY <1>2, <1>6, LoopFacts DEF BaseInv, TypeOK
  <2>2. Owns(k)' <=> Owns(k)
    BY <1>1, <1>2, <1>6, <2>1, LoopFacts DEF Owns, BaseInv, TypeOK
  <2> QED
    BY <1>2, <1>3, <1>5, <2>1, <2>2, Bystander DEF BaseInv, LoopOK, OwnerOK
<1>7. LoopOK(l)'
  <2>1. BatchOK(l)'
    BY <1>2 DEF BaseInv, LoopOK, BatchOK, InBatch
  <2>2. ~Owns(l)'
    BY <1>1, <1>2 DEF Owns, BaseInv, TypeOK
  <2>3. EvictedOK(l)'
    <3> SUFFICES ASSUME InBatch(l), NEW i \in (loop[l].first + 1)..loop[l].last
                 PROVE  "evicted" \in upset'[log[l[2]][i].msg]
      BY <1>2 DEF EvictedOK, InBatch
    <3>1. i \in 1..Len(log[l[2]])
      <4>1. loop[l].last <= Len(log[l[2]])
        BY DEF BaseInv, LoopOK, BatchOK
      <4> QED
        BY <1>1, <4>1, LoopTypes DEF BaseInv, LogOK
    <3>2. log[l[2]][i].msg \in Messages
      BY <1>1, <3>1 DEF BaseInv, LogOK, TypeOK
    <3> QED
      BY <1>3, <3>2 DEF MessagesIn
  <2> QED
    BY <2>1, <2>2, <2>3 DEF LoopOK, OwnerOK
<1> QED
  BY <1>4, <1>5, <1>6, <1>7 DEF BaseInv

\* What a process leaves behind when it goes.
LEMMA LeaveBase ==
    ASSUME BaseInv, NEW r \in Replicas, Leave(r),
           UNCHANGED << producerVars, log, committed, dead, worldVars >>,
           \A m \in Messages : upset[m] \subseteq upset'[m]
    PROVE  /\ LogOK' /\ LogGrows
           /\ owner' \in [Topics -> Replicas \cup {NoReplica}]
           /\ up' \in [Replicas -> {"down", "running", "cancelled"}]
           /\ loop' \in [Loops -> LoopRecords]
           /\ \A k \in Loops : LoopOK(k)'
<1>1. LogOK' /\ LogGrows
  BY SameLog DEF BaseInv, LogOK
<1>2. /\ owner' \in [Topics -> Replicas \cup {NoReplica}]
      /\ up' \in [Replicas -> {"down", "running", "cancelled"}]
      /\ loop' \in [Loops -> LoopRecords]
  BY NoLoopFacts DEF Leave, BaseInv, TypeOK
<1>3. ASSUME NEW k \in Loops PROVE LoopOK(k)'
  <2>1. k[1] \in Replicas /\ k[2] \in Topics
    BY LoopFacts
  <2>2. CASE k[1] = r
    BY <1>1, <2>1, <2>2, IdleStep DEF Leave, Owns
  <2>3. CASE k[1] # r
    <3>1. loop'[k] = loop[k] /\ (Owns(k)' <=> Owns(k)) /\ up'[k[1]] = up[k[1]]
      BY <2>1, <2>3 DEF Leave, Owns, BaseInv, TypeOK
    <3> QED
      BY <1>1, <3>1, Bystander DEF BaseInv, LoopOK, OwnerOK
  <2> QED
    BY <2>2, <2>3
<1> QED
  BY <1>1, <1>2, <1>3

\* A process ends.
LEMMA ExitBase ==
    ASSUME BaseInv, NEW r \in Replicas, Exit(r)
    PROVE  BaseInv' /\ LogGrows
<1>1. /\ Leave(r)
      /\ UNCHANGED << producerVars, log, committed, dead, worldVars, upset, upsets >>
  BY DEF Exit
<1>2. \A m \in Messages : upset[m] \subseteq upset'[m]
  BY <1>1
<1> QED
  BY <1>1, <1>2, LeaveBase DEF BaseInv, TypeOK

\* A process dies.
LEMMA CrashBase ==
    ASSUME BaseInv, NEW r \in Replicas, Crash(r)
    PROVE  BaseInv' /\ LogGrows
<1>1. /\ Leave(r) /\ upsets' \in 0..MaxUpsets
      /\ Mark(UNION {Begun(<< r, t >>) : t \in Topics}, "crash")
      /\ UNCHANGED << producerVars, log, committed, dead, worldVars >>
  BY DEF Crash, Upset, BaseInv, TypeOK
<1>2. /\ upset' \in [Messages -> SUBSET Reasons]
      /\ \A m \in Messages : upset[m] \subseteq upset'[m]
  BY <1>1, MarkFacts DEF BaseInv, Reasons
<1> QED
  BY <1>1, <1>2, LeaveBase DEF BaseInv, TypeOK

\* The record in work is a record of a published message.
LEMMA WorkFacts ==
    ASSUME BaseInv, NEW l \in Loops, loop[l].current < loop[l].last, InBatch(l)
    PROVE  /\ l[2] \in Topics
           /\ loop[l].current + 1 \in 1..Len(log[l[2]])
           /\ log[l[2]][loop[l].current + 1] \in Records
           /\ log[l[2]][loop[l].current + 1].msg \in published
           /\ log[l[2]][loop[l].current + 1].msg \in Messages
<1>1. l[2] \in Topics
  BY LoopFacts
<1>2. BatchOK(l)
  BY DEF BaseInv, LoopOK
<1>3. loop[l].current + 1 \in 1..Len(log[l[2]])
  BY <1>1, <1>2, LoopTypes DEF BaseInv, LogOK, BatchOK
<1> QED
  BY <1>1, <1>3 DEF BaseInv, LogOK, TypeOK, Records

\* A poll takes a batch at the loop's position.
LEMMA PollBase ==
    ASSUME BaseInv, NEW l \in Loops, Poll(l)
    PROVE  BaseInv' /\ LogGrows
<1>1. PICK n \in 1..MaxBatch :
        /\ n <= Len(log[l[2]]) - loop[l].position
        /\ loop' = [loop EXCEPT ![l] =
              [loop[l] EXCEPT !.pc = "processing", !.first = loop[l].position,
                              !.current = loop[l].position, !.last = loop[l].position + n,
                              !.position = loop[l].position + n]]
  BY DEF Poll
<1>2. /\ up[l[1]] = "running" /\ Owns(l) /\ loop[l].pc = "polling"
      /\ UNCHANGED << producerVars, brokerVars, up, worldVars, upset, upsets >>
  BY DEF Poll, Owns
<1> DEFINE q == [loop[l] EXCEPT !.pc = "processing", !.first = loop[l].position,
                              !.current = loop[l].position, !.last = loop[l].position + n,
                              !.position = loop[l].position + n]
<1>3. /\ q \in LoopRecords /\ loop[l].position \in Nat
      /\ q.pc = "processing" /\ q.first = loop[l].position /\ q.current = loop[l].position
      /\ q.last = loop[l].position + n /\ q.position = loop[l].position + n
  <2>1. loop[l] \in LoopRecords /\ n \in Nat
    BY DEF BaseInv, TypeOK
  <2>2. loop[l].position \in Nat /\ loop[l].position + n \in Nat
    BY <2>1 DEF LoopRecords
  <2> QED
    BY <2>1, <2>2 DEF LoopRecords
<1>4. loop' = [loop EXCEPT ![l] = q] /\ loop'[l] = q
  BY <1>1 DEF BaseInv, TypeOK
<1> HIDE DEF q
<1>5. TypeOK'
  BY <1>2, <1>3, <1>4 DEF BaseInv, TypeOK
<1>6. LogOK' /\ LogGrows
  BY <1>2, SameLog DEF BaseInv, LogOK
<1>7. Len(log[l[2]]) \in Nat /\ l[2] \in Topics
  BY LoopFacts DEF BaseInv, LogOK
<1>8. LoopOK(l)'
  <2>1. BatchOK(l)'
    BY <1>1, <1>2, <1>3, <1>4, <1>7 DEF BatchOK, InBatch
  <2>2. OwnerOK(l)'
    BY <1>2, <1>3, <1>4 DEF BaseInv, LoopOK, OwnerOK, From, InBatch, Owns
  <2>3. EvictedOK(l)'
    BY <1>2 DEF EvictedOK, Owns
  <2> QED
    BY <2>1, <2>2, <2>3 DEF LoopOK
<1>9. \A k \in Loops : LoopOK(k)'
  BY <1>2, <1>4, <1>6, <1>8, Solo
<1> QED
  BY <1>5, <1>6, <1>9 DEF BaseInv

\* What a call of the handler does with m, the message of the record in work.
Handled(l, m, attempt, accepted, news, action) ==
    /\ m \in Messages
    /\ m = log[l[2]][loop[l].current + 1].msg
    /\ attempt = kafkaAttempt(log[l[2]][loop[l].current + 1].header)
    /\ sent' = [sent EXCEPT ![m] = @ + (IF accepted THEN 1 ELSE 0)]
    /\ told' = [told EXCEPT ![m] = @ \cup news]
    /\ action = "done" => accepted \/ "failed" \in news
    /\ accepted /\ action # "done" => "ambiguous" \in upset'[m]
    /\ loop' = [loop EXCEPT ![l] =
          [loop[l] EXCEPT !.pc = "applying", !.attempt = attempt, !.action = action]]

\* A call ends with an action; it is done only when the email or its failure was accepted.
LEMMA ProcessFacts ==
    ASSUME BaseInv, NEW l \in Loops, Process(l)
    PROVE  /\ InBatch(l) /\ loop[l].pc = "processing" /\ loop[l].current < loop[l].last
           /\ UNCHANGED << producerVars, brokerVars, up, upsets >>
           /\ upset' \in [Messages -> SUBSET Reasons]
           /\ \A n \in Messages : upset[n] \subseteq upset'[n]
           /\ \E m \in published, attempt \in Nat \ {0}, accepted \in BOOLEAN,
                 news \in SUBSET {"sent", "failed"}, action \in {"done", "retry", "dead_letter"} :
                 Handled(l, m, attempt, accepted, news, action)
<1> DEFINE rec == log[l[2]][loop[l].current + 1]
           m == rec.msg
           attempt == kafkaAttempt(rec.header)
           call == Handle(request[m], attempt, CanRetry(attempt))
<1>1. /\ loop[l].pc = "processing" /\ loop[l].current < loop[l].last /\ InBatch(l)
      /\ UNCHANGED << producerVars, brokerVars, up, upsets >>
  BY DEF Process, InBatch
<1>2. m \in published /\ m \in Messages /\ rec \in Records
  BY <1>1, WorkFacts
<1>3. attempt \in Nat \ {0} /\ CanRetry(attempt) \in BOOLEAN
  BY <1>2, AttemptFacts DEF Records
<1>4. request[m] \in Requests /\ SenderCodes \in SUBSET ErrorCodes
  BY <1>2 DEF BaseInv, TypeOK
<1>5. PICK res \in CallResults(request[m], call, SenderCodes) :
        /\ sent' = [sent EXCEPT ![m] = @ + (IF res.accepted THEN 1 ELSE 0)]
        /\ told' = [told EXCEPT ![m] = @ \cup res.told]
        /\ Mark(IF res.accepted /\ res.err # NoError THEN {m} ELSE {}, "ambiguous")
        /\ loop' = [loop EXCEPT ![l] =
              [loop[l] EXCEPT !.pc = "applying", !.attempt = attempt, !.action = res.job.action]]
  BY DEF Process
<1>6. /\ res.accepted \in BOOLEAN
      /\ res.told \in SUBSET {"sent", "failed"}
      /\ res.job.action \in {"done", "retry", "dead_letter"}
      /\ res.job.action = "done" => res.accepted \/ "failed" \in res.told
      /\ res.accepted /\ res.err = NoError => res.job.action = "done"
  BY <1>3, <1>4, CallFacts
<1>7. /\ upset' \in [Messages -> SUBSET Reasons]
      /\ \A n \in Messages : upset[n] \subseteq upset'[n]
      /\ res.accepted /\ res.err # NoError => "ambiguous" \in upset'[m]
  BY <1>2, <1>5, MarkFacts DEF BaseInv, Reasons
<1>8. res.accepted /\ res.job.action # "done" => "ambiguous" \in upset'[m]
  BY <1>6, <1>7
<1>9. Handled(l, m, attempt, res.accepted, res.told, res.job.action)
  BY <1>2, <1>5, <1>6, <1>8 DEF Handled
<1> HIDE DEF call, attempt, m
<1> QED
  BY <1>1, <1>2, <1>3, <1>6, <1>7, <1>9

\* The handler is called for the next record of the batch.
LEMMA CallBase ==
    ASSUME BaseInv, NEW l \in Loops, Process(l)
    PROVE  BaseInv' /\ LogGrows
<1>1. /\ InBatch(l) /\ loop[l].current < loop[l].last
      /\ UNCHANGED << producerVars, brokerVars, up, upsets >>
      /\ upset' \in [Messages -> SUBSET Reasons]
      /\ \A n \in Messages : upset[n] \subseteq upset'[n]
  BY ProcessFacts
<1>2. PICK m \in published, attempt \in Nat \ {0}, accepted \in BOOLEAN,
           news \in SUBSET {"sent", "failed"}, action \in {"done", "retry", "dead_letter"} :
           Handled(l, m, attempt, accepted, news, action)
  BY ProcessFacts
<1> DEFINE q == [loop[l] EXCEPT !.pc = "applying", !.attempt = attempt, !.action = action]
<1>3. /\ q \in LoopRecords
      /\ q.pc = "applying" /\ q.attempt = attempt /\ q.action = action
      /\ q.first = loop[l].first /\ q.current = loop[l].current
      /\ q.last = loop[l].last /\ q.position = loop[l].position
  <2>1. loop[l] \in LoopRecords
    BY DEF BaseInv, TypeOK
  <2> QED
    BY <2>1 DEF LoopRecords, Actions
<1>4. /\ m \in Messages
      /\ sent' = [sent EXCEPT ![m] = @ + (IF accepted THEN 1 ELSE 0)]
      /\ told' = [told EXCEPT ![m] = @ \cup news]
      /\ loop' = [loop EXCEPT ![l] = q]
      /\ attempt = kafkaAttempt(log[l[2]][loop[l].current + 1].header)
  BY <1>2 DEF Handled
<1> HIDE DEF q
<1>5. TypeOK'
  <2>1. sent \in [Messages -> Nat] /\ told \in [Messages -> SUBSET {"sent", "failed"}]
    BY DEF BaseInv, TypeOK
  <2>2. sent' \in [Messages -> Nat]
    <3>1. sent[m] + (IF accepted THEN 1 ELSE 0) \in Nat
      BY <1>4, <2>1
    <3> QED
      BY <1>4, <2>1, <3>1
  <2>3. told' \in [Messages -> SUBSET {"sent", "failed"}]
    BY <1>4, <2>1
  <2>4. loop' \in [Loops -> LoopRecords]
    BY <1>3, <1>4 DEF BaseInv, TypeOK
  <2> QED
    BY <1>1, <2>2, <2>3, <2>4 DEF BaseInv, TypeOK
<1>6. LogOK' /\ LogGrows
  BY <1>1, SameLog DEF BaseInv, LogOK
<1>7. loop[l].first <= loop[l].current
  BY <1>1 DEF BaseInv, LoopOK, BatchOK
<1>8. q.current <= q.last
  BY <1>1, <1>3, LoopTypes DEF BaseInv
<1>9. \A k \in Loops : LoopOK(k)'
  BY <1>1, <1>3, <1>4, <1>6, <1>7, <1>8, BatchStep
<1> QED
  BY <1>5, <1>6, <1>9 DEF BaseInv

\* The loop stays in its batch, at the same record or at the next one.
LEMMA GoOnFacts ==
    ASSUME BaseInv, NEW l \in Loops, InBatch(l),
           \/ /\ loop' = [loop EXCEPT ![l].pc = "committing"]
           \/ Stop(l)
           \/ loop[l].current < loop[l].last /\ Advance(l)
    PROVE  \E q \in LoopRecords :
              /\ loop' = [loop EXCEPT ![l] = q]
              /\ q.pc \in {"processing", "committing"}
              /\ q.first = loop[l].first /\ q.last = loop[l].last
              /\ q.position = loop[l].position
              /\ q.first <= q.current /\ q.current <= q.last
<1>1. loop \in [Loops -> LoopRecords] /\ loop[l] \in LoopRecords
  BY DEF BaseInv, TypeOK
<1>2. /\ loop[l].first \in Nat /\ loop[l].current \in Nat /\ loop[l].last \in Nat
      /\ loop[l].first <= loop[l].current /\ loop[l].current <= loop[l].last
  BY LoopTypes DEF BaseInv, LoopOK, BatchOK
<1>3. CASE loop' = [loop EXCEPT ![l].pc = "committing"]
  <2> DEFINE q == [loop[l] EXCEPT !.pc = "committing"]
  <2>1. q \in LoopRecords
    BY <1>1 DEF LoopRecords
  <2>2. loop' = [loop EXCEPT ![l] = q]
    BY <1>1, <1>3
  <2>3. /\ q.pc = "committing" /\ q.first = loop[l].first /\ q.last = loop[l].last
        /\ q.position = loop[l].position /\ q.current = loop[l].current
    BY <1>1 DEF LoopRecords
  <2> HIDE DEF q
  <2> QED
    BY <1>2, <2>1, <2>2, <2>3
<1>4. CASE Stop(l)
  <2> DEFINE q == [loop[l] EXCEPT !.pc = "committing", !.attempt = 0, !.action = "none"]
  <2>1. q \in LoopRecords
    BY <1>1 DEF LoopRecords, Actions
  <2>2. loop' = [loop EXCEPT ![l] = q]
    BY <1>1, <1>4 DEF Stop
  <2>3. /\ q.pc = "committing" /\ q.first = loop[l].first /\ q.last = loop[l].last
        /\ q.position = loop[l].position /\ q.current = loop[l].current
    BY <1>1 DEF LoopRecords
  <2> HIDE DEF q
  <2> QED
    BY <1>2, <2>1, <2>2, <2>3
<1>5. CASE loop[l].current < loop[l].last /\ Advance(l)
  <2> DEFINE q == [loop[l] EXCEPT !.pc = "processing", !.current = loop[l].current + 1,
                                  !.attempt = 0, !.action = "none"]
  <2>1. q \in LoopRecords
    <3>1. loop[l].current + 1 \in Nat /\ "none" \in Actions
      BY <1>2 DEF Actions
    <3> QED
      BY <1>1, <3>1 DEF LoopRecords
  <2>2. loop' = [loop EXCEPT ![l] = q]
    BY <1>1, <1>5 DEF Advance
  <2>3. /\ q.pc = "processing" /\ q.first = loop[l].first /\ q.last = loop[l].last
        /\ q.position = loop[l].position /\ q.current = loop[l].current + 1
    BY <1>1 DEF LoopRecords
  <2>4. q.first <= q.current /\ q.current <= q.last
    BY <1>2, <1>5, <2>3
  <2> HIDE DEF q
  <2> QED
    BY <2>1, <2>2, <2>3, <2>4
<1> QED
  BY <1>3, <1>4, <1>5

\* The broker has taken the next record of the message, or its dead letter.
LEMMA ProducedFacts ==
    ASSUME BaseInv, NEW l \in Loops, loop[l].pc = "applying", Produced(l),
           UNCHANGED << published, committed >>
    PROVE  LET rec == log[l[2]][loop[l].current + 1]
               next == [msg |-> rec.msg, header |-> kafkaAttempt(rec.header) + 1] IN
           /\ LogOK' /\ LogGrows
           /\ \A u \in Topics : \A i \in 1..Len(log'[u]) : log'[u][i] \in Records
           /\ dead' \subseteq Messages
           /\ rec.msg \in published /\ next \in Records
           /\ \/ /\ loop[l].action # "retry"
                 /\ dead' = dead \cup {rec.msg} /\ UNCHANGED log
              \/ /\ loop[l].action = "retry" /\ UNCHANGED dead
                 /\ log' = [log EXCEPT !["retry"] = Append(@, next)]
                 /\ Len(log'["retry"]) = Len(log["retry"]) + 1
                 /\ log'["retry"][Len(log["retry"]) + 1] = next
                 /\ log'["main"] = log["main"]
<1> DEFINE rec == log[l[2]][loop[l].current + 1]
           next == [msg |-> rec.msg, header |-> kafkaAttempt(rec.header) + 1]
<1>1. /\ BatchOK(l) /\ InBatch(l) /\ loop[l].current < loop[l].last
      /\ loop[l].attempt = kafkaAttempt(rec.header)
  BY DEF BaseInv, LoopOK, BatchOK, InBatch
<1>2. rec \in Records /\ rec.msg \in published /\ rec.msg \in Messages
  BY <1>1, WorkFacts
<1>3. kafkaAttempt(rec.header) \in Nat
  BY <1>2, AttemptFacts DEF Records
<1>4. next \in Records /\ next.msg = rec.msg
  BY <1>2, <1>3 DEF Records
<1>5. CASE loop[l].action = "retry"
  <2>1. log' = [log EXCEPT !["retry"] = Append(@, next)] /\ dead' = dead
    BY <1>1, <1>5 DEF Produced
  <2>2. "retry" \in Topics /\ "main" \in Topics /\ TypeOK /\ LogOK
    BY DEF Topics, BaseInv
  <2> HIDE DEF next, rec
  <2>3. /\ LogOK' /\ LogGrows
        /\ \A u \in Topics : \A i \in 1..Len(log'[u]) : log'[u][i] \in Records
        /\ Len(log'["retry"]) = Len(log["retry"]) + 1
        /\ log'["retry"][Len(log["retry"]) + 1] = next
        /\ \A u \in Topics : u # "retry" => log'[u] = log[u]
    BY <1>2, <1>4, <2>1, <2>2, AppendStep
  <2>4. dead' \subseteq Messages
    BY <2>1 DEF BaseInv, TypeOK
  <2> QED
    BY <1>2, <1>4, <1>5, <2>1, <2>2, <2>3, <2>4 DEF next, rec
<1>6. CASE loop[l].action # "retry"
  <2>1. dead' = dead \cup {rec.msg} /\ log' = log
    BY <1>6 DEF Produced
  <2> HIDE DEF next, rec
  <2>2. LogOK' /\ LogGrows
    BY <2>1, SameLog DEF BaseInv, LogOK
  <2>3. \A u \in Topics : \A i \in 1..Len(log'[u]) : log'[u][i] \in Records
    BY <2>1 DEF BaseInv, TypeOK
  <2>4. dead' \subseteq Messages
    BY <1>2, <2>1 DEF BaseInv, TypeOK
  <2> QED
    BY <1>2, <1>4, <1>6, <2>1, <2>2, <2>3, <2>4 DEF next, rec
<1> QED
  BY <1>5, <1>6

\* What the steps between two calls of the handler have in common.
LEMMA GoOnBase ==
    ASSUME BaseInv, NEW l \in Loops, InBatch(l), LogOK', LogGrows,
           \/ /\ loop' = [loop EXCEPT ![l].pc = "committing"]
           \/ Stop(l)
           \/ loop[l].current < loop[l].last /\ Advance(l),
           UNCHANGED << producerVars, committed, owner, up, worldVars >>,
           \A u \in Topics : \A i \in 1..Len(log'[u]) : log'[u][i] \in Records,
           dead' \subseteq Messages,
           upset' \in [Messages -> SUBSET Reasons], upsets' \in 0..MaxUpsets,
           \A m \in Messages : upset[m] \subseteq upset'[m]
    PROVE  BaseInv'
<1>1. PICK q \in LoopRecords :
        /\ loop' = [loop EXCEPT ![l] = q]
        /\ q.pc \in {"processing", "committing"}
        /\ q.first = loop[l].first /\ q.last = loop[l].last
        /\ q.position = loop[l].position
        /\ q.first <= q.current /\ q.current <= q.last
  BY GoOnFacts
<1>2. \A k \in Loops : LoopOK(k)'
  BY <1>1, BatchStep
<1>3. loop' \in [Loops -> LoopRecords]
  BY <1>1 DEF BaseInv, TypeOK
<1>4. TypeOK'
  BY <1>3 DEF BaseInv, TypeOK
<1> QED
  BY <1>2, <1>4 DEF BaseInv

\* Every step by which a loop goes on with its batch.
LEMMA ApplyBase ==
    ASSUME BaseInv, NEW l \in Loops,
           \/ StopWaiting(l) \/ ApplyDone(l) \/ Produce(l)
           \/ ProduceCancelled(l) \/ ProduceRefused(l)
    PROVE  BaseInv' /\ LogGrows
<1>1. TypeOK /\ BatchOK(l) /\ "refused" \in Reasons /\ "shutdown" \in Reasons
  BY DEF BaseInv, LoopOK, Reasons
<1>2. UNCHANGED << log, committed, published >> =>
        /\ LogOK' /\ LogGrows
        /\ \A u \in Topics : \A i \in 1..Len(log'[u]) : log'[u][i] \in Records
  BY SameLog DEF BaseInv, LogOK, TypeOK
<1>3. CASE StopWaiting(l)
  <2>1. /\ InBatch(l) /\ loop' = [loop EXCEPT ![l].pc = "committing"]
        /\ UNCHANGED << producerVars, brokerVars, up, worldVars, upset, upsets >>
    BY <1>3 DEF StopWaiting, InBatch
  <2> QED
    BY <1>1, <1>2, <2>1, GoOnBase DEF TypeOK
<1>4. CASE ApplyDone(l)
  <2>1. /\ InBatch(l) /\ Advance(l) /\ loop[l].current < loop[l].last
        /\ UNCHANGED << producerVars, brokerVars, up, worldVars, upset, upsets >>
    BY <1>1, <1>4 DEF ApplyDone, InBatch, BatchOK
  <2> QED
    BY <1>1, <1>2, <2>1, GoOnBase DEF TypeOK
<1>5. CASE Produce(l)
  <2>1. /\ InBatch(l) /\ Advance(l) /\ loop[l].current < loop[l].last /\ Produced(l)
        /\ loop[l].pc = "applying"
        /\ UNCHANGED << producerVars, committed, owner, up, worldVars, upset, upsets >>
    BY <1>1, <1>5 DEF Produce, InBatch, BatchOK
  <2>2. /\ LogOK' /\ LogGrows /\ dead' \subseteq Messages
        /\ \A u \in Topics : \A i \in 1..Len(log'[u]) : log'[u][i] \in Records
    BY <2>1, ProducedFacts
  <2> QED
    BY <1>1, <2>1, <2>2, GoOnBase DEF TypeOK
<1>6. CASE ProduceCancelled(l)
  <2>1. /\ InBatch(l) /\ Stop(l) /\ loop[l].pc = "applying"
        /\ Produced(l) \/ UNCHANGED << log, dead >>
        /\ Mark({log[l[2]][loop[l].current + 1].msg}, "shutdown")
        /\ UNCHANGED << producerVars, committed, owner, up, worldVars, upsets >>
    BY <1>6 DEF ProduceCancelled, InBatch
  <2>2. /\ LogOK' /\ LogGrows /\ dead' \subseteq Messages
        /\ \A u \in Topics : \A i \in 1..Len(log'[u]) : log'[u][i] \in Records
    BY <1>1, <1>2, <2>1, ProducedFacts DEF TypeOK
  <2>3. /\ upset' \in [Messages -> SUBSET Reasons]
        /\ \A m \in Messages : upset[m] \subseteq upset'[m]
    BY <1>1, <2>1, MarkFacts
  <2>4. upsets' \in 0..MaxUpsets
    BY <1>1, <2>1 DEF TypeOK
  <2> QED
    BY <2>1, <2>2, <2>3, <2>4, GoOnBase
<1>7. CASE ProduceRefused(l)
  <2>1. /\ InBatch(l) /\ Stop(l) /\ upsets' \in 0..MaxUpsets
        /\ Mark(MessagesIn(l[2], loop[l].current, loop[l].last), "refused")
        /\ UNCHANGED << producerVars, brokerVars, up, worldVars >>
    BY <1>1, <1>7 DEF ProduceRefused, InBatch, Upset, TypeOK
  <2>2. /\ upset' \in [Messages -> SUBSET Reasons]
        /\ \A m \in Messages : upset[m] \subseteq upset'[m]
    BY <1>1, <2>1, MarkFacts
  <2>3. /\ LogOK' /\ LogGrows /\ dead' \subseteq Messages
        /\ \A u \in Topics : \A i \in 1..Len(log'[u]) : log'[u][i] \in Records
    BY <1>1, <1>2, <2>1 DEF TypeOK
  <2> QED
    BY <2>1, <2>2, <2>3, GoOnBase
<1> QED
  BY <1>3, <1>4, <1>5, <1>6, <1>7

\* The end of a batch: the offset is committed, or it is not.
LEMMA EndBase ==
    ASSUME BaseInv, NEW l \in Loops, SkipCommit(l) \/ Commit(l) \/ CommitFailed(l)
    PROVE  /\ BaseInv' /\ LogGrows
           /\ \A t \in Topics : committed[t] <= committed'[t]
<1>1. /\ InBatch(l) /\ EndBatch(l)
      /\ UNCHANGED << producerVars, log, dead, owner, up, worldVars >>
      /\ \/ committed' = committed
         \/ Owns(l) /\ committed' = [committed EXCEPT ![l[2]] = loop[l].current]
  BY DEF SkipCommit, Commit, CommitFailed, BatchOver, InBatch, Owns
<1>2. /\ upset' \in [Messages -> SUBSET Reasons] /\ upsets' \in 0..MaxUpsets
      /\ \A m \in Messages : upset[m] \subseteq upset'[m]
  <2>1. CASE UNCHANGED << upset, upsets >>
    BY <2>1 DEF BaseInv, TypeOK
  <2>2. CASE CommitFailed(l)
    <3>1. upsets' \in 0..MaxUpsets
      BY <2>2 DEF CommitFailed, Upset, BaseInv, TypeOK
    <3>2. \E reason \in Reasons : Mark(Begun(l), reason)
      BY <2>2 DEF CommitFailed, Reasons
    <3> QED
      BY <3>1, <3>2, MarkFacts DEF BaseInv
  <2> QED
    BY <2>1, <2>2 DEF SkipCommit, Commit
<1>3. /\ loop' \in [Loops -> LoopRecords]
      /\ committed' \in [Topics -> Nat]
      /\ \A t \in Topics : committed[t] <= committed'[t] /\ committed'[t] <= Len(log[t])
      /\ \A k \in Loops : LoopOK(k)'
  BY <1>1, <1>2, EndStep
<1>4. TypeOK' /\ LogOK' /\ LogGrows
  BY <1>1, <1>2, <1>3, SameLog DEF BaseInv, TypeOK, LogOK
<1> QED
  BY <1>3, <1>4 DEF BaseInv

\* A step that changes nothing.
LEMMA StutterBase ==
    ASSUME BaseInv, UNCHANGED vars
    PROVE  BaseInv' /\ LogGrows
<1>1. LogGrows
  BY SameLog DEF vars
<1>2. TypeOK' /\ LogOK'
  BY DEF vars, BaseInv, TypeOK, LogOK
<1>3. ASSUME NEW k \in Loops PROVE LoopOK(k)'
  BY <1>1, Bystander DEF vars, BaseInv, LoopOK, OwnerOK, Owns, InBatch
<1> QED
  BY <1>1, <1>2, <1>3 DEF BaseInv

\* The first invariant is inductive, and the log only grows.
LEMMA NextBase == BaseInv /\ [Next]_vars => BaseInv' /\ LogGrows
<1> SUFFICES ASSUME BaseInv, [Next]_vars PROVE BaseInv' /\ LogGrows
  OBVIOUS
<1>1. ASSUME NEW l \in Loops, LoopStep(l) PROVE BaseInv' /\ LogGrows
  BY <1>1, AssignBase, PollBase, CallBase, ApplyBase, EndBase DEF LoopStep
<1>2. ASSUME NEW r \in Replicas, ProcessStep(r) \/ Cancel(r) \/ Crash(r)
      PROVE  BaseInv' /\ LogGrows
  BY <1>2, ProcessBase, ExitBase, CrashBase DEF ProcessStep
<1> QED
  BY <1>1, <1>2, PublishBase, RevokeBase, EvictBase, StutterBase DEF Next, Disturbance

\* The first invariant holds throughout: a loop works on a part of the log at or above the
\* committed offset as long as it owns the topic, and was evicted when it does not.
THEOREM BaseInvariant == Spec => []BaseInv
BY InitBase, NextBase, PTL DEF Spec

\* Every variable keeps its type (kafka_source.go:28-160).
THEOREM KafkaTypeCorrect == Spec => []TypeOK
BY BaseInvariant, PTL DEF BaseInv

\* No step moves a committed offset back, also not the late commit of an evicted member
\* (kafka_consume.go:32-37).
THEOREM OffsetsNeverMoveBack == Spec => CommitMonotone
<1>1. BaseInv /\ [Next]_vars => [\A t \in Topics : committed'[t] >= committed[t]]_vars
  <2> SUFFICES ASSUME BaseInv, Next PROVE \A t \in Topics : committed'[t] >= committed[t]
    BY DEF vars
  <2>1. \A t \in Topics : committed[t] \in Nat
    BY DEF BaseInv, TypeOK
  <2>2. ASSUME NEW l \in Loops, SkipCommit(l) \/ Commit(l) \/ CommitFailed(l)
        PROVE  \A t \in Topics : committed'[t] >= committed[t]
    <3>1. BaseInv' /\ \A t \in Topics : committed[t] <= committed'[t]
      BY <2>2, EndBase
    <3>2. \A t \in Topics : committed'[t] \in Nat
      BY <3>1 DEF BaseInv, TypeOK
    <3> QED
      BY <2>1, <3>1, <3>2
  <2>3. \/ \E l \in Loops : SkipCommit(l) \/ Commit(l) \/ CommitFailed(l)
        \/ UNCHANGED committed
    BY DEF Next, ProcessStep, LoopStep, Disturbance, Publish, Start, Exit, Cancel, Crash, Revoke,
           Evict, Assign, Poll, Process, StopWaiting, ApplyDone, Produce, ProduceCancelled,
           ProduceRefused
  <2> QED
    BY <2>1, <2>2, <2>3
<1> QED
  BY <1>1, BaseInvariant, PTL DEF Spec, CommitMonotone

-----------------------------------------------------------------------------
(***************************************************************************)
(* Every action preserves the second invariant.                            *)
(***************************************************************************)

\* A step takes back nothing that was sent, told, dead-lettered or marked.
OutcomesGrow ==
    /\ dead \subseteq dead'
    /\ \A m \in Messages :
          upset[m] \subseteq upset'[m] /\ told[m] \subseteq told'[m] /\ sent[m] <= sent'[m]

\* Outcomes are never taken back.
LEMMA OutcomesStay == BaseInv /\ [Next]_vars => OutcomesGrow
<1> SUFFICES ASSUME BaseInv, [Next]_vars PROVE OutcomesGrow
  OBVIOUS
<1>1. /\ \A m \in Messages : sent[m] \in Nat
      /\ \A m \in Messages : sent[m] <= sent[m]
  BY DEF BaseInv, TypeOK
<1>2. ASSUME NEW l \in Loops, Process(l) PROVE OutcomesGrow
  <2>1. /\ dead' = dead /\ \A m \in Messages : upset[m] \subseteq upset'[m]
    BY <1>2, ProcessFacts
  <2>2. PICK m \in published, attempt \in Nat \ {0}, accepted \in BOOLEAN,
             news \in SUBSET {"sent", "failed"}, action \in {"done", "retry", "dead_letter"} :
             Handled(l, m, attempt, accepted, news, action)
    BY <1>2, ProcessFacts
  <2>3. /\ m \in Messages
        /\ sent' = [sent EXCEPT ![m] = @ + (IF accepted THEN 1 ELSE 0)]
        /\ told' = [told EXCEPT ![m] = @ \cup news]
    BY <2>2 DEF Handled
  <2>4. /\ \A n \in Messages : told[n] \subseteq told'[n]
        /\ \A n \in Messages : sent[n] <= sent'[n]
    BY <1>1, <2>3 DEF BaseInv, TypeOK
  <2> QED
    BY <2>1, <2>4 DEF OutcomesGrow
<1>3. ASSUME NEW l \in Loops, Produce(l) \/ ProduceCancelled(l) PROVE OutcomesGrow
  <2>1. UNCHANGED << sent, told >> /\ dead \subseteq dead'
    BY <1>3 DEF Produce, ProduceCancelled, Produced
  <2>2. \A m \in Messages : upset[m] \subseteq upset'[m]
    BY <1>3, MarkFacts DEF Produce, ProduceCancelled, BaseInv, Reasons
  <2> QED
    BY <1>1, <2>1, <2>2 DEF OutcomesGrow
<1>4. ASSUME UNCHANGED << sent, told, dead >>,
             \/ UNCHANGED upset
             \/ \E reason \in Reasons : \E ms : Mark(ms, reason)
      PROVE  OutcomesGrow
  <2>1. \A m \in Messages : upset[m] \subseteq upset'[m]
    BY <1>4, MarkFacts DEF BaseInv
  <2> QED
    BY <1>1, <1>4, <2>1 DEF OutcomesGrow
<1>5. ASSUME NEW l \in Loops, LoopStep(l) PROVE OutcomesGrow
  <2>1. CASE Assign(l) \/ Poll(l) \/ StopWaiting(l) \/ ApplyDone(l) \/ SkipCommit(l) \/ Commit(l)
    BY <1>4, <2>1 DEF Assign, Poll, StopWaiting, ApplyDone, SkipCommit, Commit
  <2>2. CASE ProduceRefused(l) \/ CommitFailed(l)
    BY <1>4, <2>2 DEF ProduceRefused, CommitFailed, Reasons
  <2> QED
    BY <1>2, <1>3, <1>5, <2>1, <2>2 DEF LoopStep
<1>6. ASSUME NEW r \in Replicas, ProcessStep(r) \/ Cancel(r) \/ Crash(r) PROVE OutcomesGrow
  BY <1>4, <1>6 DEF ProcessStep, Start, Exit, Cancel, Crash, Reasons
<1>7. ASSUME NEW l \in Loops, Revoke(l) \/ Evict(l) PROVE OutcomesGrow
  BY <1>4, <1>7 DEF Revoke, Evict, Reasons
<1>8. CASE UNCHANGED vars
  BY <1>4, <1>8 DEF vars
<1>9. ASSUME NEW m \in Messages, Publish(m) PROVE OutcomesGrow
  BY <1>4, <1>9 DEF Publish
<1> QED
  BY <1>5, <1>6, <1>7, <1>8, <1>9 DEF Next, Disturbance

\* What is settled stays settled.
LEMMA SettledStays ==
    ASSUME BaseInv, BaseInv', OutcomesGrow, NEW m \in Messages, Settled(m)
    PROVE  Settled(m)'
<1>1. sent[m] \in Nat /\ sent'[m] \in Nat
  BY DEF BaseInv, TypeOK
<1>2. sent[m] <= sent'[m] /\ told[m] \subseteq told'[m] /\ dead \subseteq dead'
  BY DEF OutcomesGrow
<1> QED
  BY <1>1, <1>2 DEF Settled

\* What is resolved stays resolved.
LEMMA ResolvedStays ==
    ASSUME BaseInv, BaseInv', LogGrows, OutcomesGrow, NEW t \in Topics, NEW n \in Nat,
           n <= Len(log[t]), ResolvedUpTo(t, n)
    PROVE  ResolvedUpTo(t, n)'
<1> SUFFICES ASSUME NEW i \in 1..n PROVE ResolvedAt(t, i)'
  BY DEF ResolvedUpTo
<1>1. /\ i \in 1..Len(log[t]) /\ log'[t][i] = log[t][i] /\ log[t][i].msg \in Messages
      /\ "retry" \in Topics
  <2>1. Len(log[t]) \in Nat
    BY DEF BaseInv, LogOK
  <2>2. i \in 1..Len(log[t])
    BY <2>1
  <2>3. log[t][i] \in Records
    BY <2>2 DEF BaseInv, TypeOK
  <2> QED
    BY <2>2, <2>3 DEF LogGrows, Records, Topics
<1>2. ResolvedAt(t, i)
  BY DEF ResolvedUpTo
<1>3. CASE Settled(log[t][i].msg)
  <2>1. PICK m \in Messages : m = log[t][i].msg
    BY <1>1
  <2>2. Settled(m)'
    BY <1>3, <2>1, SettledStays
  <2> QED
    BY <1>1, <2>1, <2>2 DEF ResolvedAt
<1>4. CASE "refused" \in upset[log[t][i].msg]
  BY <1>1, <1>4 DEF ResolvedAt, OutcomesGrow
<1>5. CASE \E j \in 1..Len(log["retry"]) :
              /\ log["retry"][j].msg = log[t][i].msg
              /\ log["retry"][j].header = kafkaAttempt(log[t][i].header) + 1
  <2>1. PICK j \in 1..Len(log["retry"]) :
              /\ log["retry"][j].msg = log[t][i].msg
              /\ log["retry"][j].header = kafkaAttempt(log[t][i].header) + 1
    BY <1>5
  <2>2. j \in 1..Len(log'["retry"]) /\ log'["retry"][j] = log["retry"][j]
    <3>1. Len(log["retry"]) \in Nat /\ Len(log'["retry"]) \in Nat
      BY <1>1 DEF BaseInv, LogOK
    <3> QED
      BY <1>1, <3>1 DEF LogGrows
  <2>3. \E k \in 1..Len(log'["retry"]) :
              /\ log'["retry"][k].msg = log'[t][i].msg
              /\ log'["retry"][k].header = kafkaAttempt(log'[t][i].header) + 1
    BY <1>1, <2>1, <2>2
  <2> QED
    BY <2>3 DEF ResolvedAt
<1> QED
  BY <1>2, <1>3, <1>4, <1>5 DEF ResolvedAt

\* The offsets that a loop has to do with are in the log.
LEMMA OffsetFacts ==
    ASSUME BaseInv, NEW l \in Loops
    PROVE  /\ l[2] \in Topics /\ Len(log[l[2]]) \in Nat
           /\ committed[l[2]] \in Nat /\ committed[l[2]] <= Len(log[l[2]])
           /\ loop[l].position \in Nat /\ loop[l].position <= Len(log[l[2]])
           /\ loop[l].first \in Nat /\ loop[l].current \in Nat /\ loop[l].last \in Nat
           /\ InBatch(l) => /\ loop[l].first <= loop[l].current
                            /\ loop[l].current <= loop[l].last
                            /\ loop[l].last = loop[l].position
                            /\ loop[l].current <= Len(log[l[2]])
           /\ loop[l].pc = "applying" => InBatch(l) /\ loop[l].current < loop[l].last
<1>1. /\ l[2] \in Topics
      /\ loop[l].position \in Nat /\ loop[l].first \in Nat
      /\ loop[l].current \in Nat /\ loop[l].last \in Nat
  BY LoopFacts, LoopTypes DEF BaseInv
<1>2. /\ Len(log[l[2]]) \in Nat /\ committed[l[2]] \in Nat /\ committed[l[2]] <= Len(log[l[2]])
      /\ BatchOK(l)
  BY <1>1 DEF BaseInv, LogOK, TypeOK, LoopOK
<1> QED
  BY <1>1, <1>2 DEF BatchOK, InBatch

\* A loop that a step leaves alone has still resolved what is behind it.
LEMMA ProgressStays ==
    ASSUME BaseInv, BaseInv', LogGrows, OutcomesGrow, NEW l \in Loops, ProgressOK(l),
           loop'[l] = loop[l], Owns(l)' => Owns(l),
           Owns(l)' /\ up'[l[1]] = "running" => up[l[1]] = "running"
    PROVE  ProgressOK(l)'
<1>1. /\ l[2] \in Topics
      /\ loop[l].position \in Nat /\ loop[l].position <= Len(log[l[2]])
      /\ loop[l].current \in Nat
      /\ InBatch(l) => loop[l].current <= Len(log[l[2]])
  BY OffsetFacts
<1>2. Owns(l)' /\ InBatch(l) => ResolvedUpTo(l[2], loop[l].current)'
  BY <1>1, ResolvedStays DEF ProgressOK
<1>3. Owns(l)' /\ loop[l].pc \in {"polling", "committing"} /\ up'[l[1]] = "running" =>
        ResolvedUpTo(l[2], loop[l].position)'
  BY <1>1, ResolvedStays DEF ProgressOK
<1>4. loop[l].pc = "applying" /\ loop[l].action = "done" =>
        Settled(log[l[2]][loop[l].current + 1].msg)'
  <2> SUFFICES ASSUME loop[l].pc = "applying", loop[l].action = "done"
               PROVE  Settled(log[l[2]][loop[l].current + 1].msg)'
    OBVIOUS
  <2>1. InBatch(l) /\ loop[l].current < loop[l].last
    BY OffsetFacts
  <2>2. PICK i \in 1..Len(log[l[2]]) : i = loop[l].current + 1
    BY <1>1, <2>1, WorkFacts
  <2>3. PICK m \in Messages : m = log[l[2]][i].msg
    BY <2>1, <2>2, WorkFacts
  <2>4. Settled(m)'
    BY <2>2, <2>3, SettledStays DEF ProgressOK
  <2>5. log'[l[2]][i] = log[l[2]][i]
    BY <1>1 DEF LogGrows
  <2> QED
    BY <2>2, <2>3, <2>4, <2>5
<1> QED
  BY <1>2, <1>3, <1>4 DEF ProgressOK, InBatch

\* A step that changes one loop at most and moves no offset.
LEMMA ResolvedStep ==
    ASSUME BaseInv, BaseInv', ResolvedInv, LogGrows, OutcomesGrow, NEW l \in Loops,
           \A k \in Loops : k # l => loop'[k] = loop[k],
           UNCHANGED << committed, owner, up >>,
           ProgressOK(l)'
    PROVE  ResolvedInv'
<1>1. ASSUME NEW t \in Topics PROVE ResolvedUpTo(t, committed[t])'
  <2>1. ResolvedUpTo(t, committed[t]) /\ committed[t] \in Nat /\ committed[t] <= Len(log[t])
    BY <1>1 DEF ResolvedInv, BaseInv, TypeOK, LogOK
  <2> QED
    BY <2>1, ResolvedStays
<1>2. ASSUME NEW k \in Loops PROVE ProgressOK(k)'
  BY <1>2, ProgressStays DEF ResolvedInv, Owns
<1> QED
  BY <1>1, <1>2 DEF ResolvedInv

\* Nothing is behind a loop yet.
LEMMA InitResolved == Init => ResolvedInv
<1> SUFFICES ASSUME Init PROVE ResolvedInv
  OBVIOUS
<1>1. ASSUME NEW l \in Loops PROVE ProgressOK(l)
  <2>1. /\ loop[l] = NoLoop /\ owner[l[2]] = NoReplica /\ l[1] \in Replicas
    BY LoopFacts DEF Init
  <2> QED
    BY <2>1, NoLoopFacts DEF ProgressOK, Owns
<1>2. ASSUME NEW t \in Topics PROVE ResolvedUpTo(t, committed[t])
  BY <1>2 DEF Init, ResolvedUpTo
<1> QED
  BY <1>1, <1>2 DEF ResolvedInv

\* A loop resolves the record in work.
LEMMA AdvanceResolves ==
    ASSUME BaseInv, BaseInv', ResolvedInv, LogGrows, OutcomesGrow, NEW l \in Loops,
           loop[l].pc = "applying", Advance(l), UNCHANGED << committed, owner, up >>,
           NEW c \in Nat, c = loop[l].current + 1, Owns(l) => ResolvedAt(l[2], c)'
    PROVE  ResolvedInv'
<1>1. /\ loop'[l] = [loop[l] EXCEPT !.pc = "processing", !.current = @ + 1,
                                    !.attempt = 0, !.action = "none"]
      /\ \A k \in Loops : k # l => loop'[k] = loop[k]
  BY DEF Advance, BaseInv, TypeOK
<1>2. /\ loop'[l].pc = "processing" /\ loop'[l].current = loop[l].current + 1
      /\ loop[l].current \in Nat /\ InBatch(l) /\ loop[l].current <= Len(log[l[2]])
      /\ l[2] \in Topics
  <2>1. loop[l] \in LoopRecords
    BY DEF BaseInv, TypeOK
  <2> QED
    BY <1>1, <2>1, OffsetFacts DEF LoopRecords
<1>3. Owns(l) => ResolvedUpTo(l[2], c)'
  <2> SUFFICES ASSUME Owns(l), NEW i \in 1..c PROVE ResolvedAt(l[2], i)'
    BY DEF ResolvedUpTo
  <2>1. CASE i = c
    BY <2>1
  <2>2. CASE i # c
    <3>1. PICK n \in Nat : n = loop[l].current
      BY <1>2
    <3>2. ResolvedUpTo(l[2], n) /\ n <= Len(log[l[2]])
      BY <1>2, <3>1 DEF ResolvedInv, ProgressOK
    <3>3. ResolvedUpTo(l[2], n)'
      BY <1>2, <3>2, ResolvedStays
    <3>4. i \in 1..n
      BY <2>2, <3>1
    <3> QED
      BY <3>3, <3>4 DEF ResolvedUpTo
  <2> QED
    BY <2>1, <2>2
<1>4. ProgressOK(l)'
  BY <1>2, <1>3 DEF ProgressOK, Owns
<1> QED
  BY <1>1, <1>4, ResolvedStep

\* A step that moves no offset and gives the topics to nobody else: every loop is left alone, or
\* idle without a topic.
LEMMA IdleResolves ==
    ASSUME BaseInv, BaseInv', ResolvedInv, LogGrows, OutcomesGrow, committed' = committed,
           \A l \in Loops :
              \/ loop'[l] = NoLoop /\ ~Owns(l)'
              \/ /\ loop'[l] = loop[l]
                 /\ Owns(l)' => Owns(l) /\ (up'[l[1]] = "running" => up[l[1]] = "running")
    PROVE  ResolvedInv'
<1>1. ASSUME NEW t \in Topics PROVE ResolvedUpTo(t, committed[t])'
  <2>1. ResolvedUpTo(t, committed[t]) /\ committed[t] \in Nat /\ committed[t] <= Len(log[t])
    BY <1>1 DEF ResolvedInv, BaseInv, TypeOK, LogOK
  <2> QED
    BY <2>1, ResolvedStays
<1>2. ASSUME NEW l \in Loops PROVE ProgressOK(l)'
  <2>1. CASE loop'[l] = NoLoop /\ ~Owns(l)'
    BY <2>1, NoLoopFacts DEF ProgressOK
  <2>2. CASE /\ loop'[l] = loop[l]
             /\ Owns(l)' => Owns(l) /\ (up'[l[1]] = "running" => up[l[1]] = "running")
    BY <2>2, ProgressStays DEF ResolvedInv
  <2> QED
    BY <2>1, <2>2
<1> QED
  BY <1>1, <1>2 DEF ResolvedInv

\* What happens to processes and groups resolves nothing and forgets nothing.
LEMMA WorldResolved ==
    ASSUME BaseInv, BaseInv', ResolvedInv, LogGrows, OutcomesGrow,
           \/ \E m \in Messages : Publish(m)
           \/ \E r \in Replicas : ProcessStep(r)
           \/ Disturbance
           \/ UNCHANGED vars
    PROVE  ResolvedInv'
<1>1. CASE UNCHANGED << committed, owner, up, loop >>
  <2>1. \A l \in Loops : Owns(l)' <=> Owns(l)
    BY <1>1 DEF Owns
  <2> QED
    BY <1>1, <2>1, IdleResolves
<1>2. ASSUME NEW r \in Replicas, Start(r) PROVE ResolvedInv'
  <2>1. /\ UNCHANGED << committed, owner, loop >> /\ up[r] = "down"
        /\ \A s \in Replicas : s # r => up'[s] = up[s]
    BY <1>2 DEF Start, BaseInv, TypeOK
  <2>2. \A l \in Loops : Owns(l)' => Owns(l) /\ (up'[l[1]] = "running" => up[l[1]] = "running")
    BY <2>1, LoopFacts DEF Owns, BaseInv, LoopOK, OwnerOK
  <2> QED
    BY <2>1, <2>2, IdleResolves
<1>3. ASSUME NEW r \in Replicas, Cancel(r) PROVE ResolvedInv'
  <2>1. /\ UNCHANGED << committed, owner, loop >>
        /\ \A s \in Replicas : up'[s] = "running" => up[s] = "running"
    BY <1>3 DEF Cancel, BaseInv, TypeOK
  <2>2. \A l \in Loops : Owns(l)' => Owns(l) /\ (up'[l[1]] = "running" => up[l[1]] = "running")
    BY <2>1, LoopFacts DEF Owns
  <2> QED
    BY <2>1, <2>2, IdleResolves
<1>4. ASSUME NEW r \in Replicas, Exit(r) \/ Crash(r) PROVE ResolvedInv'
  <2>1. Leave(r) /\ committed' = committed
    BY <1>4 DEF Exit, Crash
  <2>2. ASSUME NEW l \in Loops
        PROVE  \/ loop'[l] = NoLoop /\ ~Owns(l)'
               \/ /\ loop'[l] = loop[l]
                  /\ Owns(l)' => Owns(l) /\ (up'[l[1]] = "running" => up[l[1]] = "running")
    <3>1. l[1] \in Replicas /\ l[2] \in Topics
      BY LoopFacts
    <3>2. CASE l[1] = r
      BY <2>1, <3>1, <3>2 DEF Leave, Owns
    <3>3. CASE l[1] # r
      BY <2>1, <3>1, <3>3 DEF Leave, Owns, BaseInv, TypeOK
    <3> QED
      BY <3>2, <3>3
  <2> QED
    BY <2>1, <2>2, IdleResolves
<1>5. ASSUME NEW l \in Loops, Revoke(l) \/ Evict(l) PROVE ResolvedInv'
  <2>1. /\ UNCHANGED << committed, up >> /\ owner' = [owner EXCEPT ![l[2]] = NoReplica]
        /\ loop' = loop \/ loop' = [loop EXCEPT ![l] = NoLoop]
        /\ l[1] \in Replicas /\ l[2] \in Topics
    BY <1>5, LoopFacts DEF Revoke, Evict
  <2>2. ~Owns(l)'
    BY <2>1 DEF Owns, BaseInv, TypeOK
  <2>3. ASSUME NEW k \in Loops, k # l
        PROVE  loop'[k] = loop[k] /\ (Owns(k)' => Owns(k))
    <3>1. k[1] \in Replicas /\ k[2] \in Topics
      BY LoopFacts
    <3> QED
      BY <2>1, <2>3, <3>1 DEF Owns, BaseInv, TypeOK
  <2>4. loop'[l] = NoLoop \/ loop'[l] = loop[l]
    BY <2>1 DEF BaseInv, TypeOK
  <2> QED
    BY <2>1, <2>2, <2>3, <2>4, IdleResolves
<1>6. ASSUME NEW m \in Messages, Publish(m) PROVE ResolvedInv'
  BY <1>1, <1>6 DEF Publish
<1> QED
  BY <1>1, <1>2, <1>3, <1>4, <1>5, <1>6 DEF ProcessStep, Disturbance, vars

\* A member that is given the topic starts where everything before is resolved.
LEMMA AssignResolved ==
    ASSUME BaseInv, BaseInv', ResolvedInv, LogGrows, OutcomesGrow, NEW l \in Loops, Assign(l)
    PROVE  ResolvedInv'
<1>1. /\ UNCHANGED << committed, up >> /\ owner' = [owner EXCEPT ![l[2]] = l[1]]
      /\ loop' = [loop EXCEPT ![l] = [NoLoop EXCEPT !.position = committed[l[2]]]]
      /\ l[1] \in Replicas /\ l[2] \in Topics
  BY LoopFacts DEF Assign
<1>2. /\ loop'[l] = [NoLoop EXCEPT !.position = committed[l[2]]]
      /\ \A k \in Loops : k # l => loop'[k] = loop[k]
  BY <1>1 DEF BaseInv, TypeOK
<1>3. loop'[l].pc = "polling" /\ loop'[l].position = committed[l[2]]
  BY <1>2 DEF NoLoop
<1>4. ASSUME NEW t \in Topics PROVE ResolvedUpTo(t, committed[t])'
  <2>1. ResolvedUpTo(t, committed[t]) /\ committed[t] \in Nat /\ committed[t] <= Len(log[t])
    BY <1>4 DEF ResolvedInv, BaseInv, TypeOK, LogOK
  <2> QED
    BY <1>1, <2>1, ResolvedStays
<1>5. ProgressOK(l)'
  <2>1. ResolvedUpTo(l[2], loop[l].position)'
    BY <1>1, <1>3, <1>4
  <2> QED
    BY <1>3, <2>1 DEF ProgressOK, InBatch
<1>6. ASSUME NEW k \in Loops, k # l PROVE ProgressOK(k)'
  <2>1. k[1] \in Replicas /\ k[2] \in Topics
    BY LoopFacts
  <2>2. Owns(k)' => Owns(k)
    BY <1>1, <1>6, <2>1, LoopFacts DEF Owns, BaseInv, TypeOK
  <2> QED
    BY <1>1, <1>2, <1>6, <2>2, ProgressStays DEF ResolvedInv
<1> QED
  BY <1>4, <1>5, <1>6 DEF ResolvedInv

\* A member polls on where everything before is resolved.
LEMMA PollResolved ==
    ASSUME BaseInv, BaseInv', ResolvedInv, LogGrows, OutcomesGrow, NEW l \in Loops, Poll(l)
    PROVE  ResolvedInv'
<1>1. PICK n \in 1..MaxBatch :
        loop' = [loop EXCEPT ![l] =
              [loop[l] EXCEPT !.pc = "processing", !.first = loop[l].position,
                              !.current = loop[l].position, !.last = loop[l].position + n,
                              !.position = loop[l].position + n]]
  BY DEF Poll
<1>2. /\ up[l[1]] = "running" /\ Owns(l) /\ loop[l].pc = "polling"
      /\ UNCHANGED << committed, owner, up >>
  BY DEF Poll, Owns
<1>3. /\ \A k \in Loops : k # l => loop'[k] = loop[k]
      /\ loop'[l].pc = "processing" /\ loop'[l].current = loop[l].position
  <2>1. loop \in [Loops -> LoopRecords] /\ loop[l] \in LoopRecords
    BY DEF BaseInv, TypeOK
  <2> QED
    BY <1>1, <2>1 DEF LoopRecords
<1>4. PICK c \in Nat : c = loop[l].position /\ c <= Len(log[l[2]])
  BY OffsetFacts
<1>5. ResolvedUpTo(l[2], c) /\ l[2] \in Topics
  BY <1>2, <1>4, OffsetFacts DEF ResolvedInv, ProgressOK
<1>6. ResolvedUpTo(l[2], c)'
  BY <1>4, <1>5, ResolvedStays
<1>7. ProgressOK(l)'
  BY <1>3, <1>4, <1>6 DEF ProgressOK
<1> QED
  BY <1>2, <1>3, <1>7, ResolvedStep

\* A call that is done has settled its message.
LEMMA CallResolved ==
    ASSUME BaseInv, BaseInv', ResolvedInv, LogGrows, OutcomesGrow, NEW l \in Loops, Process(l)
    PROVE  ResolvedInv'
<1>1. /\ InBatch(l) /\ loop[l].pc = "processing" /\ loop[l].current < loop[l].last
      /\ UNCHANGED << producerVars, brokerVars, up, upsets >>
  BY ProcessFacts
<1>2. PICK m \in published, attempt \in Nat \ {0}, accepted \in BOOLEAN,
           news \in SUBSET {"sent", "failed"}, action \in {"done", "retry", "dead_letter"} :
           Handled(l, m, attempt, accepted, news, action)
  BY ProcessFacts
<1>3. /\ m \in Messages /\ m = log[l[2]][loop[l].current + 1].msg
      /\ sent' = [sent EXCEPT ![m] = @ + (IF accepted THEN 1 ELSE 0)]
      /\ told' = [told EXCEPT ![m] = @ \cup news]
      /\ action = "done" => accepted \/ "failed" \in news
      /\ loop' = [loop EXCEPT ![l] =
            [loop[l] EXCEPT !.pc = "applying", !.attempt = attempt, !.action = action]]
  BY <1>2 DEF Handled
<1>4. /\ \A k \in Loops : k # l => loop'[k] = loop[k]
      /\ loop'[l].pc = "applying" /\ loop'[l].current = loop[l].current
      /\ loop'[l].action = action
  <2>1. loop \in [Loops -> LoopRecords] /\ loop[l] \in LoopRecords
    BY DEF BaseInv, TypeOK
  <2> QED
    BY <1>3, <2>1 DEF LoopRecords
<1>5. PICK c \in Nat : c = loop[l].current /\ c <= Len(log[l[2]])
  BY <1>1, OffsetFacts
<1>6. Owns(l) => ResolvedUpTo(l[2], c)'
  <2>1. Owns(l) => ResolvedUpTo(l[2], c)
    BY <1>1, <1>5 DEF ResolvedInv, ProgressOK
  <2> QED
    BY <1>5, <2>1, ResolvedStays, OffsetFacts
<1>7. action = "done" => Settled(m)'
  <2>1. /\ sent'[m] = sent[m] + (IF accepted THEN 1 ELSE 0)
        /\ told'[m] = told[m] \cup news /\ sent[m] \in Nat
    BY <1>3 DEF BaseInv, TypeOK
  <2>2. accepted => sent'[m] > 0
    BY <2>1
  <2>3. "failed" \in news => "failed" \in told'[m]
    BY <2>1
  <2>4. action = "done" => accepted \/ "failed" \in news
    BY <1>3
  <2> QED
    BY <2>2, <2>3, <2>4 DEF Settled
<1>8. ProgressOK(l)'
  <2>1. Owns(l)' => ResolvedUpTo(l[2], c)'
    BY <1>1, <1>6 DEF Owns
  <2> QED
    BY <1>1, <1>3, <1>4, <1>5, <1>7, <2>1 DEF ProgressOK
<1> QED
  BY <1>1, <1>4, <1>8, ResolvedStep

\* What a loop that stops at a record leaves behind.
LEMMA StopFacts ==
    ASSUME BaseInv, NEW l \in Loops, Stop(l) \/ loop' = [loop EXCEPT ![l].pc = "committing"]
    PROVE  /\ \A k \in Loops : k # l => loop'[k] = loop[k]
           /\ loop'[l].pc = "committing"
           /\ loop'[l].current = loop[l].current /\ loop'[l].position = loop[l].position
           /\ loop'[l].first = loop[l].first /\ loop'[l].last = loop[l].last
<1>1. loop \in [Loops -> LoopRecords] /\ loop[l] \in LoopRecords
  BY DEF BaseInv, TypeOK
<1>2. CASE Stop(l)
  BY <1>1, <1>2 DEF Stop, LoopRecords
<1>3. CASE loop' = [loop EXCEPT ![l].pc = "committing"]
  BY <1>1, <1>3 DEF LoopRecords
<1> QED
  BY <1>2, <1>3

\* A loop that stops at a record keeps what it has resolved; it polls on only when the rest of the
\* batch is resolved, or its context is done.
LEMMA StopResolves ==
    ASSUME BaseInv, BaseInv', ResolvedInv, LogGrows, OutcomesGrow, NEW l \in Loops, InBatch(l),
           Stop(l) \/ loop' = [loop EXCEPT ![l].pc = "committing"],
           UNCHANGED << committed, owner, up >>,
           NEW c \in Nat, c = loop[l].position,
           Owns(l) /\ up[l[1]] = "running" => ResolvedUpTo(l[2], c)'
    PROVE  ResolvedInv'
<1>1. /\ \A k \in Loops : k # l => loop'[k] = loop[k]
      /\ loop'[l].pc = "committing"
      /\ loop'[l].current = loop[l].current /\ loop'[l].position = loop[l].position
  BY StopFacts
<1>2. PICK n \in Nat : n = loop[l].current /\ n <= Len(log[l[2]])
  BY OffsetFacts
<1>3. Owns(l) => ResolvedUpTo(l[2], n)'
  <2>1. Owns(l) => ResolvedUpTo(l[2], n)
    BY <1>2 DEF ResolvedInv, ProgressOK
  <2> QED
    BY <1>2, <2>1, ResolvedStays, OffsetFacts
<1>4. ProgressOK(l)'
  <2>1. Owns(l)' => ResolvedUpTo(l[2], n)'
    BY <1>3 DEF Owns
  <2>2. Owns(l)' /\ up'[l[1]] = "running" => ResolvedUpTo(l[2], c)'
    BY DEF Owns
  <2> QED
    BY <1>1, <1>2, <2>1, <2>2 DEF ProgressOK
<1> QED
  BY <1>1, <1>4, ResolvedStep

\* A produced copy resolves its record.
LEMMA ProduceResolved ==
    ASSUME BaseInv, BaseInv', ResolvedInv, LogGrows, OutcomesGrow, NEW l \in Loops, Produce(l)
    PROVE  ResolvedInv'
<1>1. /\ loop[l].pc = "applying" /\ Produced(l) /\ Advance(l)
      /\ UNCHANGED << published, committed, owner, up >>
  BY DEF Produce
<1>2. /\ InBatch(l) /\ loop[l].current < loop[l].last
      /\ loop[l].current \in Nat /\ l[2] \in Topics
  BY <1>1, OffsetFacts
<1>3. PICK c \in Nat : c = loop[l].current + 1
  BY <1>2
<1>4. c \in 1..Len(log[l[2]]) /\ log'[l[2]][c] = log[l[2]][c]
  BY <1>2, <1>3, WorkFacts DEF LogGrows
<1>5. ResolvedAt(l[2], c)'
  <2>1. PICK rec \in Records : rec = log[l[2]][c] /\ rec = log'[l[2]][c]
    BY <1>2, <1>3, <1>4, WorkFacts
  <2>2. CASE dead' = dead \cup {rec.msg}
    <3>1. Settled(rec.msg)'
      BY <2>2 DEF Settled
    <3> QED
      BY <2>1, <3>1 DEF ResolvedAt
  <2>3. CASE /\ Len(log'["retry"]) = Len(log["retry"]) + 1
             /\ log'["retry"][Len(log["retry"]) + 1] =
                   [msg |-> rec.msg, header |-> kafkaAttempt(rec.header) + 1]
    <3>1. Len(log["retry"]) \in Nat
      BY DEF BaseInv, LogOK, Topics
    <3>2. Len(log["retry"]) + 1 \in 1..Len(log'["retry"])
      BY <2>3, <3>1
    <3>3. \E j \in 1..Len(log'["retry"]) :
             /\ log'["retry"][j].msg = log'[l[2]][c].msg
             /\ log'["retry"][j].header = kafkaAttempt(log'[l[2]][c].header) + 1
      BY <2>1, <2>3, <3>2
    <3> QED
      BY <3>3 DEF ResolvedAt
  <2> QED
    BY <1>1, <1>3, <2>1, <2>2, <2>3, ProducedFacts
<1> QED
  BY <1>1, <1>3, <1>5, AdvanceResolves

\* A refused produce marks the rest of the batch.
LEMMA RefusedResolved ==
    ASSUME BaseInv, BaseInv', ResolvedInv, LogGrows, OutcomesGrow, NEW l \in Loops,
           ProduceRefused(l)
    PROVE  ResolvedInv'
<1>1. /\ InBatch(l) /\ Stop(l) /\ loop[l].pc = "applying"
      /\ Mark(MessagesIn(l[2], loop[l].current, loop[l].last), "refused")
      /\ UNCHANGED << log, committed, owner, up >>
  BY DEF ProduceRefused, InBatch
<1>2. PICK c \in Nat : c = loop[l].position /\ c <= Len(log[l[2]]) /\ c = loop[l].last
  BY <1>1, OffsetFacts
<1>3. PICK n \in Nat : n = loop[l].current /\ n <= c
  BY <1>1, <1>2, OffsetFacts
<1>4. l[2] \in Topics /\ Len(log[l[2]]) \in Nat
  BY OffsetFacts
<1>5. Owns(l) => ResolvedUpTo(l[2], n)'
  <2>1. Owns(l) => ResolvedUpTo(l[2], n)
    BY <1>1, <1>3 DEF ResolvedInv, ProgressOK
  <2>2. n <= Len(log[l[2]])
    BY <1>2, <1>3, <1>4
  <2> QED
    BY <1>4, <2>1, <2>2, ResolvedStays
<1>6. ASSUME NEW i \in (n + 1)..c PROVE ResolvedAt(l[2], i)'
  <2>1. i \in 1..Len(log[l[2]])
    BY <1>2, <1>3, <1>4
  <2>2. log[l[2]][i].msg \in Messages
    <3>1. log[l[2]][i] \in Records
      BY <1>4, <2>1 DEF BaseInv, TypeOK
    <3> QED
      BY <3>1 DEF Records
  <2>3. log[l[2]][i].msg \in MessagesIn(l[2], loop[l].current, loop[l].last)
    BY <1>2, <1>3 DEF MessagesIn
  <2>4. "refused" \in upset'[log[l[2]][i].msg]
    BY <1>1, <2>2, <2>3, MarkFacts DEF BaseInv, Reasons
  <2> QED
    BY <1>1, <2>4 DEF ResolvedAt
<1>7. Owns(l) => ResolvedUpTo(l[2], c)'
  <2> SUFFICES ASSUME Owns(l), NEW i \in 1..c PROVE ResolvedAt(l[2], i)'
    BY DEF ResolvedUpTo
  <2>1. CASE i <= n
    BY <1>5, <2>1 DEF ResolvedUpTo
  <2>2. CASE ~(i <= n)
    <3>1. i \in (n + 1)..c
      BY <1>3, <2>2
    <3> QED
      BY <1>6, <3>1
  <2> QED
    BY <2>1, <2>2
<1> QED
  BY <1>1, <1>2, <1>7, StopResolves

\* Every step by which a loop goes on with its batch.
LEMMA ApplyResolved ==
    ASSUME BaseInv, BaseInv', ResolvedInv, LogGrows, OutcomesGrow, NEW l \in Loops,
           \/ StopWaiting(l) \/ ApplyDone(l) \/ Produce(l)
           \/ ProduceCancelled(l) \/ ProduceRefused(l)
    PROVE  ResolvedInv'
<1>1. CASE StopWaiting(l) \/ ProduceCancelled(l)
  <2>1. /\ InBatch(l) /\ up[l[1]] # "running"
        /\ Stop(l) \/ loop' = [loop EXCEPT ![l].pc = "committing"]
        /\ UNCHANGED << committed, owner, up >>
    BY <1>1 DEF StopWaiting, ProduceCancelled, InBatch
  <2>2. PICK c \in Nat : c = loop[l].position
    BY OffsetFacts
  <2> QED
    BY <2>1, <2>2, StopResolves
<1>2. CASE ApplyDone(l)
  <2>1. /\ loop[l].pc = "applying" /\ loop[l].action = "done" /\ Advance(l)
        /\ UNCHANGED << log, committed, owner, up, sent, told, dead, upset >>
    BY <1>2 DEF ApplyDone
  <2>2. PICK c \in Nat : c = loop[l].current + 1
    BY OffsetFacts
  <2>3. ResolvedAt(l[2], c)
    BY <2>1, <2>2 DEF ResolvedAt, ResolvedInv, ProgressOK
  <2>4. ResolvedAt(l[2], c)'
    BY <2>1, <2>3 DEF ResolvedAt, Settled
  <2> QED
    BY <2>1, <2>2, <2>4, AdvanceResolves
<1> QED
  BY <1>1, <1>2, ProduceResolved, RefusedResolved

\* What is committed at the end of a batch is resolved, and a running member polls on behind it.
LEMMA EndResolved ==
    ASSUME BaseInv, BaseInv', ResolvedInv, LogGrows, OutcomesGrow, NEW l \in Loops,
           SkipCommit(l) \/ Commit(l) \/ CommitFailed(l)
    PROVE  ResolvedInv'
<1>1. /\ BatchOver(l) /\ InBatch(l) /\ EndBatch(l)
      /\ UNCHANGED << log, owner, up >>
      /\ \/ committed' = committed
         \/ Owns(l) /\ committed' = [committed EXCEPT ![l[2]] = loop[l].current]
  BY DEF SkipCommit, Commit, CommitFailed, BatchOver, InBatch, Owns
<1>2. /\ \A k \in Loops : k # l => loop'[k] = loop[k]
      /\ loop'[l].pc = "polling"
      /\ Owns(l) => loop'[l].position = loop[l].position
  BY <1>1 DEF EndBatch, NoLoop, Owns, BaseInv, TypeOK
<1>3. PICK c \in Nat : c = loop[l].position /\ c <= Len(log[l[2]])
  BY OffsetFacts
<1>4. Owns(l) /\ up[l[1]] = "running" => ResolvedUpTo(l[2], c)
  <2>1. CASE loop[l].pc = "committing"
    BY <1>3, <2>1 DEF ResolvedInv, ProgressOK
  <2>2. CASE loop[l].pc = "processing" /\ loop[l].current = loop[l].last
    <3>1. loop[l].current = c
      BY <1>1, <1>3, <2>2, OffsetFacts
    <3> QED
      BY <1>1, <3>1 DEF ResolvedInv, ProgressOK
  <2> QED
    BY <1>1, <2>1, <2>2 DEF BatchOver
<1>5. ProgressOK(l)'
  <2>1. Owns(l) /\ up[l[1]] = "running" => ResolvedUpTo(l[2], c)'
    BY <1>3, <1>4, ResolvedStays, OffsetFacts
  <2> QED
    BY <1>1, <1>2, <1>3, <2>1 DEF ProgressOK, Owns, InBatch
<1>6. ASSUME NEW k \in Loops, k # l PROVE ProgressOK(k)'
  BY <1>1, <1>2, <1>6, ProgressStays DEF ResolvedInv, Owns
<1>7. ASSUME NEW t \in Topics PROVE ResolvedUpTo(t, committed[t])'
  <2>1. PICK n \in Nat : n = committed'[t] /\ n <= Len(log[t])
    BY <1>1, <1>7 DEF BaseInv, TypeOK, LogOK
  <2>2. ResolvedUpTo(t, n)
    <3>1. CASE committed'[t] = committed[t]
      BY <1>7, <2>1, <3>1 DEF ResolvedInv
    <3>2. CASE committed'[t] # committed[t]
      <4>1. t = l[2] /\ Owns(l) /\ n = loop[l].current
        BY <1>1, <1>7, <2>1, <3>2 DEF BaseInv, TypeOK
      <4> QED
        BY <1>1, <4>1 DEF ResolvedInv, ProgressOK
    <3> QED
      BY <3>1, <3>2
  <2>3. ResolvedUpTo(t, n)'
    BY <1>7, <2>1, <2>2, ResolvedStays
  <2> QED
    BY <2>1, <2>3
<1> QED
  BY <1>5, <1>6, <1>7 DEF ResolvedInv

\* The second invariant is inductive relative to the first.
LEMMA NextResolved == BaseInv /\ BaseInv' /\ ResolvedInv /\ [Next]_vars => ResolvedInv'
<1> SUFFICES ASSUME BaseInv, BaseInv', ResolvedInv, [Next]_vars PROVE ResolvedInv'
  OBVIOUS
<1>1. LogGrows /\ OutcomesGrow
  BY NextBase, OutcomesStay
<1>2. ASSUME NEW l \in Loops, LoopStep(l) PROVE ResolvedInv'
  BY <1>1, <1>2, AssignResolved, PollResolved, CallResolved, ApplyResolved, EndResolved
     DEF LoopStep
<1> QED
  BY <1>1, <1>2, WorldResolved DEF Next

\* The second invariant holds throughout: what a loop has gone past is settled, waits for its next
\* attempt, or was refused.
THEOREM ResolvedInvariant == Spec => []ResolvedInv
BY InitBase, InitResolved, NextBase, NextResolved, PTL DEF Spec

\* Offsets are committed only after each record is resolved, unless a produce in its batch was
\* refused (kafka_source.go:23-24, kafka_consume.go:32-65).
THEOREM CommitsAreResolved == Spec => []ResolvedUnlessRefused
<1>1. BaseInv /\ ResolvedInv => ResolvedUnlessRefused
  <2> SUFFICES ASSUME BaseInv, ResolvedInv, NEW t \in Topics, NEW i \in 1..committed[t],
                      Undisturbed(log[t][i].msg, {"refused"})
               PROVE  Resolved(log[t][i])
    BY DEF ResolvedUnlessRefused
  <2>1. ResolvedAt(t, i)
    BY DEF ResolvedInv, ResolvedUpTo
  <2> QED
    BY <2>1 DEF ResolvedAt, Resolved, Undisturbed
<1> QED
  BY <1>1, BaseInvariant, ResolvedInvariant, PTL

-----------------------------------------------------------------------------
(***************************************************************************)
(* Every action preserves the third invariant.                             *)
(***************************************************************************)

\* Nothing was published.
LEMMA InitChain == Init => ChainInv
BY DEF Init, ChainInv, MainOnce, Lineage, Topics

\* A record of the log, and what its header is read as.
LEMMA RecordFacts ==
    ASSUME BaseInv, NEW t \in Topics, NEW i \in 1..Len(log[t])
    PROVE  /\ log[t][i] \in Records
           /\ log[t][i].msg \in published /\ log[t][i].msg \in Messages
           /\ kafkaAttempt(log[t][i].header) \in Nat \ {0}
<1>1. log[t][i] \in Records /\ log[t][i].msg \in published
  BY DEF BaseInv, TypeOK, LogOK
<1> QED
  BY <1>1, AttemptFacts DEF Records

\* The retry topic counts on from the attempt of the main topic.
LEMMA RetryHeader ==
    ASSUME BaseInv, ChainInv, NEW j \in 1..Len(log["retry"])
    PROVE  /\ log["retry"][j].header \in Nat
           /\ kafkaAttempt(log["retry"][j].header) = log["retry"][j].header
           /\ \E i \in 1..Len(log["main"]) :
                 /\ log["main"][i].msg = log["retry"][j].msg
                 /\ kafkaAttempt(log["main"][i].header) < log["retry"][j].header
                 /\ \/ log["retry"][j].header = kafkaAttempt(log["main"][i].header) + 1
                    \/ \E k \in 1..Len(log["retry"]) :
                          /\ log["retry"][k].msg = log["retry"][j].msg
                          /\ log["retry"][k].header = log["retry"][j].header - 1
<1> DEFINE h == log["retry"][j].header
<1>1. /\ h \in Int
      /\ \E i \in 1..Len(log["main"]) :
            /\ log["main"][i].msg = log["retry"][j].msg
            /\ kafkaAttempt(log["main"][i].header) < h
            /\ \/ h = kafkaAttempt(log["main"][i].header) + 1
               \/ \E k \in 1..Len(log["retry"]) :
                     log["retry"][k].msg = log["retry"][j].msg /\ log["retry"][k].header = h - 1
  BY DEF ChainInv, Lineage
<1>2. PICK i \in 1..Len(log["main"]) : kafkaAttempt(log["main"][i].header) < h
  BY <1>1
<1>3. kafkaAttempt(log["main"][i].header) \in Nat \ {0}
  BY RecordFacts DEF Topics
<1>4. h \in Nat /\ h > 1
  BY <1>1, <1>2, <1>3
<1>5. kafkaAttempt(h) = h
  BY <1>4 DEF kafkaAttempt
<1> QED
  BY <1>1, <1>4, <1>5

\* The records of a message that is not published yet start a chain.
LEMMA PublishChain ==
    ASSUME BaseInv, BaseInv', ChainInv, NEW m \in Messages, Publish(m)
    PROVE  ChainInv'
<1>1. PICK h \in ProducerAttempts :
        log' = [log EXCEPT !["main"] = Append(@, [msg |-> m, header |-> h])]
  BY DEF Publish
<1>2. m \notin published /\ published' = published \cup {m}
  BY DEF Publish
<1>3. log["main"] \in Seq(Records) /\ log["retry"] \in Seq(Records) /\ "main" # "retry"
  BY DEF BaseInv, LogOK, Topics
<1>4. PICK len \in Nat : len = Len(log["main"])
  BY <1>3
<1>5. /\ Len(log'["main"]) = len + 1
      /\ log'["main"][len + 1].msg = m
      /\ \A i \in 1..len : log'["main"][i] = log["main"][i]
      /\ log'["retry"] = log["retry"]
  BY <1>1, <1>3, <1>4 DEF BaseInv, LogOK, Topics
<1>6. \A t \in Topics : \A i \in 1..Len(log[t]) : log[t][i].msg # m
  BY <1>2, RecordFacts
<1>7. MainOnce'
  <2> SUFFICES ASSUME NEW i \in 1..(len + 1), NEW j \in 1..(len + 1),
                      log'["main"][i].msg = log'["main"][j].msg
               PROVE  i = j
    BY <1>5 DEF MainOnce
  <2>1. \A k \in 1..(len + 1) : k \in 1..len \/ k = len + 1
    OBVIOUS
  <2>2. \A k \in 1..len : log'["main"][k].msg = log["main"][k].msg /\ log["main"][k].msg # m
    BY <1>4, <1>5, <1>6 DEF Topics
  <2>3. CASE i \in 1..len /\ j \in 1..len
    BY <1>4, <2>2, <2>3 DEF ChainInv, MainOnce
  <2> QED
    BY <1>5, <2>1, <2>2, <2>3
<1>8. Lineage'
  <2> SUFFICES ASSUME NEW j \in 1..Len(log["retry"])
               PROVE  /\ log["retry"][j].header \in Int
                      /\ \E i \in 1..(len + 1) :
                            /\ log'["main"][i].msg = log["retry"][j].msg
                            /\ kafkaAttempt(log'["main"][i].header) < log["retry"][j].header
                            /\ \/ log["retry"][j].header = kafkaAttempt(log'["main"][i].header) + 1
                               \/ \E k \in 1..Len(log["retry"]) :
                                     /\ log["retry"][k].msg = log["retry"][j].msg
                                     /\ log["retry"][k].header = log["retry"][j].header - 1
    BY <1>5 DEF Lineage
  <2>1. PICK i \in 1..Len(log["main"]) :
                 /\ log["main"][i].msg = log["retry"][j].msg
                 /\ kafkaAttempt(log["main"][i].header) < log["retry"][j].header
                 /\ \/ log["retry"][j].header = kafkaAttempt(log["main"][i].header) + 1
                    \/ \E k \in 1..Len(log["retry"]) :
                          /\ log["retry"][k].msg = log["retry"][j].msg
                          /\ log["retry"][k].header = log["retry"][j].header - 1
    BY RetryHeader
  <2>2. i \in 1..(len + 1) /\ log'["main"][i] = log["main"][i]
    BY <1>4, <1>5
  <2>3. log["retry"][j].header \in Int
    BY RetryHeader
  <2> QED
    BY <2>1, <2>2, <2>3
<1>9. ASSUME NEW n \in published' PROVE ChainEnd(n)'
  <2>1. CASE n = m
    <3>1. len + 1 \in 1..Len(log'["main"]) /\ log'["main"][len + 1].msg = n
      BY <1>5, <2>1
    <3>2. ~(\E j \in 1..Len(log'["retry"]) :
              /\ log'["retry"][j].msg = log'["main"][len + 1].msg
              /\ log'["retry"][j].header = kafkaAttempt(log'["main"][len + 1].header) + 1)
      BY <1>5, <1>6, <2>1 DEF Topics
    <3> QED
      BY <3>1, <3>2 DEF ChainEnd, Followed, Topics
  <2>2. CASE n # m
    <3>9. ChainEnd(n)
      <4>1. n \in published
        BY <1>2, <2>2
      <4> QED
        BY <4>1 DEF ChainInv
    <3>0. PICK t \in Topics : \E i \in 1..Len(log[t]) : log[t][i].msg = n /\ ~Followed(t, i)
      BY <3>9 DEF ChainEnd
    <3>1. PICK i \in 1..Len(log[t]) : log[t][i].msg = n /\ ~Followed(t, i)
      BY <3>0
    <3>2. i \in 1..Len(log'[t]) /\ log'[t][i] = log[t][i]
      BY <1>4, <1>5 DEF Topics
    <3>3. ~Followed(t, i)'
      BY <1>5, <3>1, <3>2 DEF Followed
    <3> QED
      BY <3>1, <3>2, <3>3 DEF ChainEnd
  <2> QED
    BY <2>1, <2>2
<1> QED
  BY <1>7, <1>8, <1>9 DEF ChainInv

\* A retry record continues the chain of its message.
LEMMA RetryChain ==
    ASSUME BaseInv, BaseInv', ChainInv, NEW t \in Topics, NEW i \in 1..Len(log[t]),
           Len(log'["retry"]) = Len(log["retry"]) + 1,
           log'["retry"][Len(log["retry"]) + 1] =
              [msg |-> log[t][i].msg, header |-> kafkaAttempt(log[t][i].header) + 1],
           log'["main"] = log["main"], LogGrows, published' = published
    PROVE  ChainInv'
<1>1. PICK len \in Nat : len = Len(log["retry"])
  BY DEF BaseInv, LogOK, Topics
<1>2. PICK m \in published : m = log[t][i].msg
  BY RecordFacts
<1>3. PICK a \in Nat \ {0} : a = kafkaAttempt(log[t][i].header)
  BY RecordFacts
<1>4. /\ Len(log'["retry"]) = len + 1 /\ len + 1 \in 1..(len + 1)
      /\ log'["retry"][len + 1].msg = m /\ log'["retry"][len + 1].header = a + 1
      /\ \A k \in 1..len : log'["retry"][k] = log["retry"][k] /\ k \in 1..(len + 1)
      /\ \A k \in 1..(len + 1) : k \in 1..len \/ k = len + 1
  BY <1>1, <1>2, <1>3 DEF LogGrows, Topics
<1>5. MainOnce /\ MainOnce'
  BY DEF ChainInv, MainOnce
<1>6. Lineage'
  <2> SUFFICES ASSUME NEW j \in 1..(len + 1)
               PROVE  /\ log'["retry"][j].header \in Int
                      /\ \E k \in 1..Len(log'["main"]) :
                            /\ log'["main"][k].msg = log'["retry"][j].msg
                            /\ kafkaAttempt(log'["main"][k].header) < log'["retry"][j].header
                            /\ \/ log'["retry"][j].header =
                                     kafkaAttempt(log'["main"][k].header) + 1
                               \/ \E n \in 1..Len(log'["retry"]) :
                                     /\ log'["retry"][n].msg = log'["retry"][j].msg
                                     /\ log'["retry"][n].header = log'["retry"][j].header - 1
    BY <1>4 DEF Lineage
  <2>1. CASE j \in 1..len
    <3>1. log'["retry"][j] = log["retry"][j] /\ log["retry"][j].header \in Int
      BY <1>1, <1>4, <2>1, RetryHeader
    <3>2. PICK i2 \in 1..Len(log["main"]) :
             /\ log["main"][i2].msg = log["retry"][j].msg
             /\ kafkaAttempt(log["main"][i2].header) < log["retry"][j].header
             /\ \/ log["retry"][j].header = kafkaAttempt(log["main"][i2].header) + 1
                \/ \E k \in 1..Len(log["retry"]) :
                      /\ log["retry"][k].msg = log["retry"][j].msg
                      /\ log["retry"][k].header = log["retry"][j].header - 1
      BY <1>1, <2>1, RetryHeader
    <3>3. \/ log["retry"][j].header = kafkaAttempt(log["main"][i2].header) + 1
          \/ \E k \in 1..Len(log'["retry"]) :
                      /\ log'["retry"][k].msg = log["retry"][j].msg
                      /\ log'["retry"][k].header = log["retry"][j].header - 1
      <4>1. \A k \in 1..Len(log["retry"]) :
               k \in 1..Len(log'["retry"]) /\ log'["retry"][k] = log["retry"][k]
        BY <1>1, <1>4
      <4> QED
        BY <3>2, <4>1
    <3> QED
      BY <3>1, <3>2, <3>3
  <2>2. CASE j = len + 1
    <3>1. log'["retry"][j].msg = m /\ log'["retry"][j].header = a + 1
      BY <1>4, <2>2
    <3>2. CASE t = "main"
      <4>1. i \in 1..Len(log'["main"]) /\ log'["main"][i].msg = m
            /\ kafkaAttempt(log'["main"][i].header) = a
        BY <1>2, <1>3, <3>2
      <4> QED
        BY <3>1, <4>1
    <3>3. CASE t = "retry"
      <4>1. log["retry"][i].header = a /\ log["retry"][i].msg = m
        BY <1>2, <1>3, <3>3, RetryHeader
      <4>2. PICK k \in 1..Len(log["main"]) :
               log["main"][k].msg = m /\ kafkaAttempt(log["main"][k].header) < a
        BY <3>3, <4>1, RetryHeader
      <4>3. kafkaAttempt(log["main"][k].header) \in Nat
        BY RecordFacts DEF Topics
      <4>4. i \in 1..len /\ log'["retry"][i] = log["retry"][i] /\ i \in 1..Len(log'["retry"])
        BY <1>1, <1>4, <3>3
      <4>5. kafkaAttempt(log["main"][k].header) < a + 1 /\ (a + 1) - 1 = a
        BY <4>2, <4>3
      <4>6. log'["retry"][i].msg = m /\ log'["retry"][i].header = (a + 1) - 1
        BY <4>1, <4>4, <4>5
      <4> QED
        BY <3>1, <4>2, <4>4, <4>5, <4>6
    <3> QED
      BY <3>2, <3>3 DEF Topics
  <2> QED
    BY <1>4, <2>1, <2>2
<1>7. ASSUME NEW n \in published' PROVE ChainEnd(n)'
  <2>1. ChainEnd(n)
    <3>1. n \in published
      OBVIOUS
    <3> QED
      BY <3>1 DEF ChainInv
  <2>0. PICK u \in Topics : \E j \in 1..Len(log[u]) : log[u][j].msg = n /\ ~Followed(u, j)
    BY <2>1 DEF ChainEnd
  <2>2. PICK j \in 1..Len(log[u]) : log[u][j].msg = n /\ ~Followed(u, j)
    BY <2>0
  <2>3. PICK b \in Nat \ {0} : b = kafkaAttempt(log[u][j].header)
    BY RecordFacts
  <2>4. \A k \in 1..len : log["retry"][k].msg = n => log["retry"][k].header # b + 1
    BY <1>1, <2>2, <2>3 DEF Followed
  <2>5. CASE n # m \/ b # a
    <3>1. j \in 1..Len(log'[u]) /\ log'[u][j] = log[u][j]
      <4>1. Len(log[u]) \in Nat /\ Len(log'[u]) \in Nat
        BY DEF BaseInv, LogOK
      <4> QED
        BY <4>1 DEF LogGrows
    <3>2. \A k \in 1..(len + 1) :
             ~(log'["retry"][k].msg = n /\ log'["retry"][k].header = b + 1)
      <4>1. \A k \in 1..len :
               ~(log'["retry"][k].msg = n /\ log'["retry"][k].header = b + 1)
        BY <1>4, <2>4
      <4>2. ~(log'["retry"][len + 1].msg = n /\ log'["retry"][len + 1].header = b + 1)
        BY <1>4, <2>5
      <4> QED
        BY <1>4, <4>1, <4>2
    <3>3. ~Followed(u, j)'
      BY <1>4, <2>2, <2>3, <3>1, <3>2 DEF Followed
    <3> QED
      BY <2>2, <3>1, <3>3 DEF ChainEnd
  <2>6. CASE n = m /\ b = a
    <3>1. ASSUME NEW k \in 1..len, log["retry"][k].msg = m, log["retry"][k].header = a + 2
          PROVE  FALSE
      <4>1. PICK x \in 1..Len(log["main"]) :
               /\ log["main"][x].msg = log["retry"][k].msg
               /\ \/ log["retry"][k].header = kafkaAttempt(log["main"][x].header) + 1
                  \/ \E y \in 1..Len(log["retry"]) :
                        /\ log["retry"][y].msg = log["retry"][k].msg
                        /\ log["retry"][y].header = log["retry"][k].header - 1
        BY <1>1, RetryHeader
      <4>2. PICK c \in Nat \ {0} : c = kafkaAttempt(log["main"][x].header)
        BY RecordFacts DEF Topics
      <4>3. c = a + 1
        <5>1. ASSUME NEW y \in 1..Len(log["retry"]),
                     log["retry"][y].msg = log["retry"][k].msg,
                     log["retry"][y].header = log["retry"][k].header - 1
              PROVE  FALSE
          <6>1. log["retry"][y].header = b + 1 /\ log["retry"][y].msg = n
            BY <2>6, <3>1, <5>1
          <6> QED
            BY <1>1, <2>4, <6>1
        <5>2. log["retry"][k].header = c + 1
          BY <4>1, <4>2, <5>1
        <5> QED
          BY <3>1, <5>2
      <4>4. log["main"][x].msg = m
        BY <3>1, <4>1
      <4>5. CASE u = "main"
        <5>1. j = x
          BY <1>5, <2>2, <2>6, <4>4, <4>5 DEF MainOnce
        <5>2. b = c
          BY <2>3, <4>2, <4>5, <5>1
        <5>3. c # a
          BY <4>3
        <5> QED
          BY <2>6, <5>2, <5>3
      <4>6. CASE u = "retry"
        <5>1. PICK z \in 1..Len(log["main"]) :
                 /\ log["main"][z].msg = log["retry"][j].msg
                 /\ kafkaAttempt(log["main"][z].header) < log["retry"][j].header
          BY <4>6, RetryHeader
        <5>2. z = x
          BY <1>5, <2>2, <2>6, <4>4, <4>6, <5>1 DEF MainOnce
        <5>3. log["retry"][j].header = b
          BY <2>3, <4>6, RetryHeader
        <5>4. c < b
          BY <4>2, <5>1, <5>2, <5>3
        <5> QED
          BY <2>6, <4>3, <5>4
      <4> QED
        BY <4>5, <4>6 DEF Topics
    <3>2. \A k \in 1..(len + 1) :
             ~(log'["retry"][k].msg = m /\ log'["retry"][k].header = (a + 1) + 1)
      <4>1. \A k \in 1..len :
               ~(log'["retry"][k].msg = m /\ log'["retry"][k].header = a + 2)
        BY <1>4, <3>1
      <4>2. log'["retry"][len + 1].header # a + 2
        BY <1>4
      <4> QED
        BY <1>4, <4>1, <4>2
    <3>3. kafkaAttempt(a + 1) = a + 1
      BY DEF kafkaAttempt
    <3>4. ~(\E k \in 1..Len(log'["retry"]) :
              /\ log'["retry"][k].msg = log'["retry"][len + 1].msg
              /\ log'["retry"][k].header = kafkaAttempt(log'["retry"][len + 1].header) + 1)
      BY <1>4, <3>2, <3>3
    <3>5. \E k \in 1..Len(log'["retry"]) :
             /\ log'["retry"][k].msg = n
             /\ ~(\E y \in 1..Len(log'["retry"]) :
                     /\ log'["retry"][y].msg = log'["retry"][k].msg
                     /\ log'["retry"][y].header = kafkaAttempt(log'["retry"][k].header) + 1)
      BY <1>4, <2>6, <3>4
    <3> QED
      BY <3>5 DEF ChainEnd, Followed, Topics
  <2> QED
    BY <2>5, <2>6
<1> QED
  BY <1>5, <1>6, <1>7 DEF ChainInv

\* The third invariant is inductive relative to the first.
LEMMA NextChain == BaseInv /\ BaseInv' /\ ChainInv /\ [Next]_vars => ChainInv'
<1> SUFFICES ASSUME BaseInv, BaseInv', ChainInv, [Next]_vars PROVE ChainInv'
  OBVIOUS
<1>1. CASE UNCHANGED << log, published >>
  BY <1>1 DEF ChainInv, MainOnce, Lineage, ChainEnd, Followed
<1>2. ASSUME NEW l \in Loops, Produce(l) \/ ProduceCancelled(l) PROVE ChainInv'
  <2>1. UNCHANGED << published, committed >> /\ loop[l].pc = "applying"
    BY <1>2 DEF Produce, ProduceCancelled
  <2>2. CASE UNCHANGED log
    BY <1>1, <2>1, <2>2
  <2>3. CASE ~UNCHANGED log
    <3>1. Produced(l)
      BY <1>2, <2>3 DEF Produce, ProduceCancelled
    <3>2. PICK i \in 1..Len(log[l[2]]) : i = loop[l].current + 1
      BY <2>1, OffsetFacts, WorkFacts
    <3> QED
      BY <2>1, <2>3, <3>1, <3>2, OffsetFacts, ProducedFacts, RetryChain
  <2> QED
    BY <2>2, <2>3
<1>3. \/ UNCHANGED << log, published >>
      \/ \E m \in Messages : Publish(m)
      \/ \E l \in Loops : Produce(l) \/ ProduceCancelled(l)
  BY DEF Next, ProcessStep, LoopStep, Disturbance, Start, Exit, Cancel, Crash, Revoke,
         Evict, Assign, Poll, Process, StopWaiting, ApplyDone, ProduceRefused,
         SkipCommit, Commit, CommitFailed, vars
<1> QED
  BY <1>1, <1>2, <1>3, PublishChain

\* The third invariant holds throughout: the records of a message form one chain.
THEOREM ChainInvariant == Spec => []ChainInv
BY InitBase, InitChain, NextBase, NextChain, PTL DEF Spec

\* No message is lost, whatever crashes, shutdowns, evictions and failed commits happen, unless a
\* produce was refused (kafka_consume.go:44-65, kafka_dispatch.go:17-42).
THEOREM LostOnlyByRefusal == Spec => []LostOnlyAfterRefusal
<1>1. BaseInv /\ ResolvedInv /\ ChainInv => LostOnlyAfterRefusal
  <2> SUFFICES ASSUME BaseInv, ResolvedInv, ChainInv, NEW m \in published,
                      Undisturbed(m, {"refused"}), ~Settled(m)
               PROVE  m \in Owed
    BY DEF LostOnlyAfterRefusal
  <2>1. ChainEnd(m) /\ "refused" \notin upset[m]
    BY DEF ChainInv, Undisturbed
  <2>0. PICK t \in Topics : \E i \in 1..Len(log[t]) : log[t][i].msg = m /\ ~Followed(t, i)
    BY <2>1 DEF ChainEnd
  <2>2. PICK i \in 1..Len(log[t]) : log[t][i].msg = m /\ ~Followed(t, i)
    BY <2>0
  <2>3. ~ResolvedAt(t, i)
    BY <2>1, <2>2 DEF ResolvedAt, Followed
  <2>4. committed[t] \in Nat /\ Len(log[t]) \in Nat
    BY DEF BaseInv, TypeOK, LogOK
  <2>5. i \in (committed[t] + 1)..Len(log[t])
    BY <2>3, <2>4 DEF ResolvedInv, ResolvedUpTo
  <2> QED
    BY <2>2, <2>5 DEF Owed, MessagesIn
<1> QED
  BY <1>1, BaseInvariant, ResolvedInvariant, ChainInvariant, PTL

-----------------------------------------------------------------------------
(***************************************************************************)
(* Who works on a record.                                                  *)
(***************************************************************************)

\* Two members work on a record only when one of them was evicted with that record in its batch,
\* however long a batch takes (kafka_source.go:113-126, kafka_consume.go:14-40).
THEOREM OnlyEvictionDoubles == Spec => []TwoMembersOnlyAfterEviction
<1>1. BaseInv => TwoMembersOnlyAfterEviction
  <2> SUFFICES ASSUME BaseInv, NEW k \in Loops, NEW l \in Loops, WorkedOnByTwo(k, l)
               PROVE  "evicted" \in upset[log[l[2]][loop[l].current + 1].msg]
    BY DEF TwoMembersOnlyAfterEviction
  <2>1. k # l /\ k[2] = l[2] /\ loop[k].pc = "applying" /\ loop[l].pc = "applying"
        /\ loop[k].current = loop[l].current
    BY DEF WorkedOnByTwo
  <2>2. ~Owns(k) \/ ~Owns(l)
    BY <2>1, LoopFacts DEF Owns
  <2>3. ASSUME NEW h \in Loops, loop[h].pc = "applying", ~Owns(h)
        PROVE  "evicted" \in upset[log[h[2]][loop[h].current + 1].msg]
    <3>1. EvictedOK(h) /\ InBatch(h)
      BY <2>3 DEF BaseInv, LoopOK, InBatch
    <3>2. /\ loop[h].first \in Nat /\ loop[h].current \in Nat /\ loop[h].last \in Nat
          /\ loop[h].first <= loop[h].current /\ loop[h].current < loop[h].last
      BY <2>3, OffsetFacts
    <3>3. loop[h].current + 1 \in (loop[h].first + 1)..loop[h].last
      BY <3>2
    <3> QED
      BY <2>3, <3>1, <3>3 DEF EvictedOK
  <2> QED
    BY <2>1, <2>2, <2>3
<1> QED
  BY <1>1, BaseInvariant, PTL

-----------------------------------------------------------------------------
(***************************************************************************)
(* Every action preserves the fourth invariant.                            *)
(***************************************************************************)

\* Nothing was published, and nothing sent.
LEMMA InitOnce == Init => OnceInv
<1> SUFFICES ASSUME Init PROVE OnceInv
  OBVIOUS
<1>1. \A t \in Topics : log[t] = << >>
  BY DEF Init
<1>2. \A m \in Messages : sent[m] = 0
  BY DEF Init
<1>3. \A l \in Loops : loop[l].pc = "polling"
  BY NoLoopFacts DEF Init
<1>4. ASSUME NEW m \in Messages PROVE OnceOK(m)
  <2>1. OneToPass(m)
    BY <1>1 DEF OneToPass
  <2>2. \A l \in Loops : ~Applying(l, m)
    BY <1>3 DEF Applying
  <2> QED
    BY <1>2, <2>1, <2>2 DEF OnceOK
<1> QED
  BY <1>2, <1>4 DEF OnceInv

\* l, the owner of its topic, has begun record i in its batch.
BegunBy(l, i) == Owns(l) /\ InBatch(l) /\ loop[l].first < i /\ i <= BegunTo(l)

\* A message that is not processed and gets no new record: it stays in order when the records of it
\* that the owners have begun remain so, or are committed.
LEMMA OnceStays ==
    ASSUME BaseInv, BaseInv', LogGrows, NEW m \in Messages, OnceOK(m),
           \A t \in Topics : \A i \in 1..Len(log'[t]) :
              log'[t][i].msg = m => i \in 1..Len(log[t]),
           \A t \in Topics : committed[t] <= committed'[t],
           upset[m] \subseteq upset'[m], sent'[m] = sent[m],
           Undisturbed(m, Repeats)' =>
              \A l \in Loops : \A i \in 1..Len(log[l[2]]) :
                 log[l[2]][i].msg = m /\ BegunBy(l, i) => i <= committed'[l[2]] \/ BegunBy(l, i)',
           Undisturbed(m, Repeats)' =>
              \A l \in Loops : Applying(l, m)' => Applying(l, m) /\ loop'[l].action = loop[l].action
    PROVE  OnceOK(m)'
<1> SUFFICES ASSUME Undisturbed(m, Repeats)'
             PROVE  (/\ OneToPass(m)
                     /\ sent[m] <= 1
                     /\ sent[m] > 0 => AllPassed(m)
                     /\ \A l \in Loops : Applying(l, m) =>
                           /\ AllPassed(m)
                           /\ loop[l].action # "done" => sent[m] = 0
                           /\ \A k \in Loops : Applying(k, m) => k = l)'
  BY DEF OnceOK
<1>1. Undisturbed(m, Repeats)
  BY DEF Undisturbed
<1>2. /\ OneToPass(m)
      /\ sent[m] <= 1
      /\ sent[m] > 0 => AllPassed(m)
      /\ \A l \in Loops : Applying(l, m) =>
            /\ AllPassed(m)
            /\ loop[l].action # "done" => sent[m] = 0
            /\ \A k \in Loops : Applying(k, m) => k = l
  BY <1>1 DEF OnceOK
<1>3. ASSUME NEW t \in Topics, NEW i \in 1..Len(log[t]), log[t][i].msg = m, Passed(t, i)
      PROVE  Passed(t, i)'
  <2>1. committed[t] \in Nat /\ committed'[t] \in Nat /\ i \in Nat
    BY DEF BaseInv, TypeOK
  <2>2. CASE i <= committed[t]
    <3>1. i <= committed'[t]
      BY <2>1, <2>2
    <3> QED
      BY <3>1 DEF Passed
  <2>3. CASE \E l \in Loops : l[2] = t /\ BegunBy(l, i)
    BY <1>3, <2>3 DEF Passed, BegunBy
  <2> QED
    BY <1>3, <2>2, <2>3 DEF Passed, BegunBy
<1>4. ASSUME NEW t \in Topics, NEW i \in 1..Len(log'[t]), log'[t][i].msg = m
      PROVE  i \in 1..Len(log[t]) /\ log[t][i].msg = m
  BY <1>4 DEF LogGrows
<1>5. OneToPass(m)'
  <2> SUFFICES ASSUME NEW t \in Topics, NEW u \in Topics,
                      NEW i \in 1..Len(log'[t]), NEW j \in 1..Len(log'[u]),
                      log'[t][i].msg = m, log'[u][j].msg = m, ~Passed(t, i)', ~Passed(u, j)'
               PROVE  t = u /\ i = j
    BY DEF OneToPass
  <2>1. ~Passed(t, i) /\ ~Passed(u, j)
    BY <1>3, <1>4
  <2> QED
    BY <1>2, <1>4, <2>1 DEF OneToPass
<1>6. AllPassed(m) => AllPassed(m)'
  BY <1>3, <1>4 DEF AllPassed
<1>7. \A l \in Loops : Applying(l, m)' => Applying(l, m) /\ loop'[l].action = loop[l].action
  OBVIOUS
<1> QED
  BY <1>2, <1>5, <1>6, <1>7

\* A step that touches no record of a message.
LEMMA OnceQuiet ==
    ASSUME BaseInv, BaseInv', OnceInv, LogGrows, NEW m \in Messages,
           UNCHANGED << log, committed >>, upset[m] \subseteq upset'[m], sent'[m] = sent[m],
           \A k \in Loops :
              \/ loop'[k] = loop[k] /\ (Owns(k)' <=> Owns(k))
              \/ /\ \A i \in 1..Len(log[k[2]]) :
                       log[k[2]][i].msg = m /\ BegunBy(k, i) =>
                          "crash" \in upset'[m] \/ "shutdown" \in upset'[m]
                          \/ "evicted" \in upset'[m] \/ "commit_failed" \in upset'[m]
                          \/ BegunBy(k, i)'
                 /\ loop'[k].pc # "applying" \/ ~Owns(k)'
    PROVE  OnceOK(m)'
<1>1. \A t \in Topics : \A i \in 1..Len(log'[t]) : log'[t][i].msg = m => i \in 1..Len(log[t])
  OBVIOUS
<1>2. \A t \in Topics : committed[t] <= committed'[t]
  BY DEF BaseInv, TypeOK
<1>3. ASSUME Undisturbed(m, Repeats)', NEW l \in Loops, NEW i \in 1..Len(log[l[2]]),
             log[l[2]][i].msg = m, BegunBy(l, i)
      PROVE  BegunBy(l, i)'
  <2>1. CASE loop'[l] = loop[l] /\ (Owns(l)' <=> Owns(l))
    BY <1>3, <2>1 DEF BegunBy, InBatch, BegunTo
  <2>2. CASE ~(loop'[l] = loop[l] /\ (Owns(l)' <=> Owns(l)))
    BY <1>3, <2>2 DEF Undisturbed, Repeats
  <2> QED
    BY <2>1, <2>2
<1>4. ASSUME Undisturbed(m, Repeats)', NEW l \in Loops, Applying(l, m)'
      PROVE  Applying(l, m) /\ loop'[l].action = loop[l].action
  BY <1>4 DEF Applying
<1>5. OnceOK(m)
  BY DEF OnceInv
<1> QED
  BY <1>1, <1>2, <1>3, <1>4, <1>5, OnceStays

\* A step after which every message is in order, and that sends nothing.
LEMMA OnceAll ==
    ASSUME BaseInv, OnceInv, sent' = sent, published \subseteq published',
           \A m \in Messages : OnceOK(m)'
    PROVE  OnceInv'
<1>1. \A m \in Messages \ published' : sent'[m] = 0
  BY DEF OnceInv
<1> QED
  BY <1>1 DEF OnceInv

\* The first record of a message.
LEMMA PublishOnce ==
    ASSUME BaseInv, BaseInv', OnceInv, LogGrows, NEW n \in Messages, Publish(n)
    PROVE  OnceInv'
<1>1. PICK h \in ProducerAttempts :
        log' = [log EXCEPT !["main"] = Append(@, [msg |-> n, header |-> h])]
  BY DEF Publish
<1>2. /\ n \notin published /\ published' = published \cup {n}
      /\ UNCHANGED << committed, owner, loop, sent, upset >>
  BY DEF Publish
<1>3. log["main"] \in Seq(Records) /\ log["retry"] \in Seq(Records) /\ "main" # "retry"
  BY DEF BaseInv, LogOK, Topics
<1>4. PICK len \in Nat : len = Len(log["main"])
  BY <1>3
<1>5. /\ Len(log'["main"]) = len + 1
      /\ log'["main"][len + 1].msg = n
      /\ \A i \in 1..len : log'["main"][i] = log["main"][i]
      /\ log'["retry"] = log["retry"]
  BY <1>1, <1>3, <1>4 DEF BaseInv, LogOK, Topics
<1>6. \A t \in Topics : \A i \in 1..Len(log[t]) : log[t][i].msg # n
  BY <1>2, RecordFacts
<1>7. ASSUME NEW l \in Loops, loop[l].pc = "applying"
      PROVE  log'[l[2]][loop[l].current + 1] = log[l[2]][loop[l].current + 1]
             /\ log[l[2]][loop[l].current + 1].msg # n
  BY <1>2, <1>7, OffsetFacts, WorkFacts DEF LogGrows
<1>8. ASSUME NEW m \in Messages, m # n PROVE OnceOK(m)'
  <2>1. \A t \in Topics : \A i \in 1..Len(log'[t]) : log'[t][i].msg = m => i \in 1..Len(log[t])
    <3>1. \A i \in 1..(len + 1) : i \in 1..len \/ i = len + 1
      OBVIOUS
    <3> QED
      BY <1>4, <1>5, <1>8, <3>1 DEF Topics
  <2>2. \A t \in Topics : committed[t] <= committed'[t]
    BY <1>2 DEF BaseInv, TypeOK
  <2>3. ASSUME NEW l \in Loops, NEW i \in 1..Len(log[l[2]]), BegunBy(l, i) PROVE BegunBy(l, i)'
    BY <1>2, <2>3 DEF BegunBy, Owns, InBatch, BegunTo
  <2>4. ASSUME NEW l \in Loops, Applying(l, m)'
        PROVE  Applying(l, m) /\ loop'[l].action = loop[l].action
    BY <1>2, <1>7, <2>4 DEF Applying, Owns
  <2>5. OnceOK(m) /\ upset[m] \subseteq upset'[m] /\ sent'[m] = sent[m]
    BY <1>2 DEF OnceInv
  <2> QED
    BY <2>1, <2>2, <2>3, <2>4, <2>5, OnceStays
<1>9. OnceOK(n)'
  <2>1. sent'[n] = 0
    BY <1>2 DEF OnceInv
  <2>2. \A t \in Topics : \A i \in 1..Len(log'[t]) :
           log'[t][i].msg = n => t = "main" /\ i = len + 1
    <3>1. \A i \in 1..(len + 1) : i \in 1..len \/ i = len + 1
      OBVIOUS
    <3> QED
      BY <1>4, <1>5, <1>6, <3>1 DEF Topics
  <2>3. OneToPass(n)'
    BY <2>2 DEF OneToPass
  <2>4. \A l \in Loops : ~Applying(l, n)'
    BY <1>2, <1>7 DEF Applying
  <2> QED
    BY <2>1, <2>3, <2>4 DEF OnceOK
<1> QED
  BY <1>2, <1>8, <1>9, OnceAll

\* What happens to processes and groups disturbs the messages in work, or none.
LEMMA WorldOnce ==
    ASSUME BaseInv, BaseInv', OnceInv, LogGrows, OutcomesGrow,
           \/ \E r \in Replicas : ProcessStep(r)
           \/ Disturbance
           \/ UNCHANGED vars
    PROVE  OnceInv'
<1>1. UNCHANGED << log, committed, sent, published >>
  BY DEF ProcessStep, Start, Exit, Disturbance, Cancel, Crash, Revoke, Evict, vars
<1>2. ASSUME \A m \in Messages : \A k \in Loops :
              \/ loop'[k] = loop[k] /\ (Owns(k)' <=> Owns(k))
              \/ /\ \A i \in 1..Len(log[k[2]]) :
                       log[k[2]][i].msg = m /\ BegunBy(k, i) =>
                          "crash" \in upset'[m] \/ "shutdown" \in upset'[m]
                          \/ "evicted" \in upset'[m] \/ "commit_failed" \in upset'[m]
                          \/ BegunBy(k, i)'
                 /\ loop'[k].pc # "applying" \/ ~Owns(k)'
      PROVE  OnceInv'
  <2>1. ASSUME NEW m \in Messages PROVE OnceOK(m)'
    BY <1>1, <1>2, OnceQuiet DEF OutcomesGrow
  <2> QED
    BY <1>1, <2>1, OnceAll
<1>3. CASE UNCHANGED << loop, owner >>
  BY <1>2, <1>3 DEF Owns
<1>4. ASSUME NEW r \in Replicas, Exit(r) \/ Crash(r) PROVE OnceInv'
  <2>1. Leave(r)
    BY <1>4 DEF Exit, Crash
  <2>2. ASSUME NEW m \in Messages, NEW k \in Loops
        PROVE \/ loop'[k] = loop[k] /\ (Owns(k)' <=> Owns(k))
              \/ /\ \A i \in 1..Len(log[k[2]]) :
                       log[k[2]][i].msg = m /\ BegunBy(k, i) => "crash" \in upset'[m]
                 /\ loop'[k].pc # "applying" \/ ~Owns(k)'
    <3>1. k[1] \in Replicas /\ k[2] \in Topics
      BY LoopFacts
    <3>2. CASE k[1] # r
      BY <2>1, <3>1, <3>2 DEF Leave, Owns, BaseInv, TypeOK
    <3>3. CASE k[1] = r
      <4>1. ~Owns(k)'
        BY <2>1, <3>1, <3>3 DEF Leave, Owns
      <4>2. ASSUME NEW i \in 1..Len(log[k[2]]), log[k[2]][i].msg = m, BegunBy(k, i)
            PROVE  "crash" \in upset'[m]
        <5>1. k = << r, k[2] >>
          BY <3>3 DEF Loops
        <5>2. InBatch(k) /\ loop[k].first < i /\ i <= BegunTo(k)
          BY <4>2 DEF BegunBy
        <5>3. Mark(UNION {Begun(<< r, t >>) : t \in Topics}, "crash")
          BY <1>4, <3>1, <5>1, <5>2 DEF Exit, Crash
        <5>4. m \in Begun(k)
          <6>1. i \in (loop[k].first + 1)..BegunTo(k)
            BY <5>2, OffsetFacts DEF BegunTo
          <6> QED
            BY <4>2, <6>1 DEF Begun, MessagesIn, BegunTo
        <5>5. m \in UNION {Begun(<< r, t >>) : t \in Topics}
          BY <3>1, <5>1, <5>4
        <5> QED
          BY <5>3, <5>5, MarkFacts DEF BaseInv, Reasons
      <4> QED
        BY <4>1, <4>2
    <3> QED
      BY <3>2, <3>3
  <2> QED
    BY <1>2, <2>2
<1>5. ASSUME NEW l \in Loops, Revoke(l) \/ Evict(l) PROVE OnceInv'
  <2>1. /\ owner' = [owner EXCEPT ![l[2]] = NoReplica]
        /\ \A k \in Loops : k # l => loop'[k] = loop[k]
        /\ owner[l[2]] = l[1]
    BY <1>5 DEF Revoke, Evict, BaseInv, TypeOK
  <2>2. ASSUME NEW m \in Messages, NEW k \in Loops
        PROVE \/ loop'[k] = loop[k] /\ (Owns(k)' <=> Owns(k))
              \/ /\ \A i \in 1..Len(log[k[2]]) :
                       log[k[2]][i].msg = m /\ BegunBy(k, i) => "evicted" \in upset'[m]
                 /\ loop'[k].pc # "applying" \/ ~Owns(k)'
    <3>1. k[1] \in Replicas /\ k[2] \in Topics /\ l[2] \in Topics /\ l[1] \in Replicas
      BY LoopFacts
    <3>2. CASE k # l
      BY <2>1, <3>1, <3>2, LoopFacts DEF Owns, BaseInv, TypeOK
    <3>3. CASE k = l
      <4>1. ~Owns(l)'
        BY <2>1, <3>1 DEF Owns, BaseInv, TypeOK
      <4>2. ASSUME NEW i \in 1..Len(log[l[2]]), log[l[2]][i].msg = m, BegunBy(l, i)
            PROVE  "evicted" \in upset'[m]
        <5>1. InBatch(l) /\ loop[l].first < i /\ i <= BegunTo(l)
          BY <4>2 DEF BegunBy
        <5>2. Mark(MessagesIn(l[2], loop[l].first, loop[l].last), "evicted")
          BY <1>5, <5>1 DEF Revoke, Evict
        <5>3. i \in (loop[l].first + 1)..loop[l].last
          BY <5>1, OffsetFacts DEF BegunTo
        <5> QED
          BY <4>2, <5>2, <5>3, MarkFacts DEF BaseInv, Reasons, MessagesIn
      <4> QED
        BY <3>3, <4>1, <4>2
    <3> QED
      BY <3>2, <3>3
  <2> QED
    BY <1>2, <2>2
<1> QED
  BY <1>3, <1>4, <1>5 DEF ProcessStep, Start, Disturbance, Cancel, vars

\* A step of one loop that begins no record and adds none to the log.
LEMMA LoopQuiet ==
    ASSUME BaseInv, BaseInv', OnceInv, LogGrows, OutcomesGrow, NEW l \in Loops,
           UNCHANGED << log, committed, sent, published >>,
           \A k \in Loops : k # l => loop'[k] = loop[k] /\ (Owns(k)' <=> Owns(k)),
           loop'[l].pc # "applying",
           \A i \in 1..Len(log[l[2]]) :
              BegunBy(l, i) =>
                 \/ "shutdown" \in upset'[log[l[2]][i].msg]
                 \/ "evicted" \in upset'[log[l[2]][i].msg]
                 \/ "commit_failed" \in upset'[log[l[2]][i].msg]
                 \/ BegunBy(l, i)'
    PROVE  OnceInv'
<1>1. ASSUME NEW m \in Messages PROVE OnceOK(m)'
  BY OnceQuiet DEF OutcomesGrow
<1> QED
  BY <1>1, OnceAll

\* A poll, and the steps that resolve a record or find nothing to resolve.
LEMMA QuietOnce ==
    ASSUME BaseInv, BaseInv', OnceInv, LogGrows, OutcomesGrow, NEW l \in Loops,
           \/ Assign(l) \/ Poll(l) \/ StopWaiting(l) \/ ApplyDone(l) \/ SkipCommit(l)
           \/ CommitFailed(l)
    PROVE  OnceInv'
<1>1. /\ loop \in [Loops -> LoopRecords] /\ loop[l] \in LoopRecords
      /\ owner \in [Topics -> Replicas \cup {NoReplica}]
      /\ l[1] \in Replicas /\ l[2] \in Topics
      /\ loop[l].first \in Nat /\ loop[l].current \in Nat
  BY LoopFacts, OffsetFacts DEF BaseInv, TypeOK
<1>2. CASE Assign(l)
  <2>1. /\ owner' = [owner EXCEPT ![l[2]] = l[1]] /\ owner[l[2]] = NoReplica
        /\ loop' = [loop EXCEPT ![l] = [NoLoop EXCEPT !.position = committed[l[2]]]]
        /\ ~InBatch(l) /\ UNCHANGED << log, committed, sent, published >>
    BY <1>2 DEF Assign
  <2>2. ASSUME NEW k \in Loops, k # l
        PROVE  loop'[k] = loop[k] /\ (Owns(k)' <=> Owns(k))
    <3>1. k[1] \in Replicas /\ k[2] \in Topics
      BY LoopFacts
    <3> QED
      BY <1>1, <2>1, <2>2, <3>1, LoopFacts DEF Owns
  <2>3. loop'[l].pc # "applying"
    BY <1>1, <2>1 DEF NoLoop
  <2>4. \A i \in 1..Len(log[l[2]]) : ~BegunBy(l, i)
    BY <2>1 DEF BegunBy
  <2> QED
    BY <2>1, <2>2, <2>3, <2>4, LoopQuiet
<1>3. CASE ~Assign(l)
  <2>1. /\ UNCHANGED << log, committed, sent, published, owner >>
        /\ \A k \in Loops : k # l => loop'[k] = loop[k]
    BY <1>1, <1>3 DEF Poll, StopWaiting, ApplyDone, SkipCommit, CommitFailed, Advance, EndBatch
  <2>2. \A k \in Loops : k # l => loop'[k] = loop[k] /\ (Owns(k)' <=> Owns(k))
    BY <2>1 DEF Owns
  <2>3. CASE Poll(l)
    <3>1. ~InBatch(l) /\ loop'[l].pc = "processing"
      BY <1>1, <2>3 DEF Poll, InBatch, LoopRecords
    <3> QED
      BY <2>1, <2>2, <3>1, LoopQuiet DEF BegunBy
  <2>4. CASE StopWaiting(l) \/ ApplyDone(l)
    <3>1. /\ InBatch(l) /\ InBatch(l)' /\ loop'[l].pc # "applying"
          /\ loop'[l].first = loop[l].first
          /\ loop'[l].current = BegunTo(l)
      <4>1. CASE StopWaiting(l)
        <5>1. /\ loop[l].pc = "processing" /\ loop'[l].pc = "committing"
              /\ loop'[l].first = loop[l].first /\ loop'[l].current = loop[l].current
          BY <1>1, <4>1 DEF StopWaiting, LoopRecords
        <5> QED
          BY <5>1 DEF InBatch, BegunTo
      <4>2. CASE ApplyDone(l)
        <5>1. /\ loop[l].pc = "applying" /\ loop'[l].pc = "processing"
              /\ loop'[l].first = loop[l].first /\ loop'[l].current = loop[l].current + 1
          BY <1>1, <4>2 DEF ApplyDone, Advance, LoopRecords
        <5> QED
          BY <5>1 DEF InBatch, BegunTo
      <4> QED
        BY <2>4, <4>1, <4>2
    <3>2. \A i \in 1..Len(log[l[2]]) : BegunBy(l, i) => BegunBy(l, i)'
      BY <2>1, <3>1 DEF BegunBy, BegunTo, Owns
    <3> QED
      BY <2>1, <2>2, <3>1, <3>2, LoopQuiet
  <2>5. CASE SkipCommit(l)
    <3>1. loop[l].current = loop[l].first /\ loop[l].pc # "applying" /\ loop'[l].pc = "polling"
      BY <1>1, <2>5 DEF SkipCommit, BatchOver, EndBatch, NoLoop
    <3>2. \A i \in 1..Len(log[l[2]]) : ~BegunBy(l, i)
      BY <1>1, <3>1 DEF BegunBy, BegunTo
    <3> QED
      BY <2>1, <2>2, <3>1, <3>2, LoopQuiet
  <2>6. CASE CommitFailed(l)
    <3>1. loop[l].pc # "applying" /\ loop'[l].pc = "polling"
      BY <1>1, <2>6 DEF CommitFailed, BatchOver, EndBatch, NoLoop
    <3>2. PICK reason \in {"evicted", "shutdown", "commit_failed"} : Mark(Begun(l), reason)
      BY <2>6 DEF CommitFailed
    <3>3. ASSUME NEW i \in 1..Len(log[l[2]]), BegunBy(l, i)
          PROVE  reason \in upset'[log[l[2]][i].msg]
      <4>1. i \in (loop[l].first + 1)..loop[l].current
        BY <1>1, <3>1, <3>3 DEF BegunBy, BegunTo
      <4>2. log[l[2]][i].msg \in Begun(l)
        BY <3>1, <4>1 DEF Begun, MessagesIn
      <4>3. log[l[2]][i].msg \in Messages
        BY <1>1, RecordFacts
      <4> QED
        BY <3>2, <4>2, <4>3, MarkFacts DEF BaseInv, Reasons
    <3>4. \A i \in 1..Len(log[l[2]]) :
             BegunBy(l, i) =>
                \/ "shutdown" \in upset'[log[l[2]][i].msg]
                \/ "evicted" \in upset'[log[l[2]][i].msg]
                \/ "commit_failed" \in upset'[log[l[2]][i].msg]
      BY <3>3
    <3> QED
      BY <2>1, <2>2, <3>1, <3>4, LoopQuiet
  <2> QED
    BY <1>3, <2>3, <2>4, <2>5, <2>6
<1> QED
  BY <1>2, <1>3

\* What the owner had begun is committed.
LEMMA CommitOnce ==
    ASSUME BaseInv, BaseInv', OnceInv, LogGrows, OutcomesGrow, NEW l \in Loops, Commit(l)
    PROVE  OnceInv'
<1>1. /\ BatchOver(l) /\ Owns(l)
      /\ committed' = [committed EXCEPT ![l[2]] = loop[l].current]
      /\ EndBatch(l) /\ UNCHANGED << log, sent, owner, published, upset >>
      /\ l[2] \in Topics
  BY OffsetFacts DEF Commit, Owns
<1>2. /\ loop[l].pc # "applying" /\ loop'[l].pc = "polling"
      /\ \A k \in Loops : k # l => loop'[k] = loop[k]
  BY <1>1 DEF BatchOver, EndBatch, NoLoop, BaseInv, TypeOK
<1>3. \A t \in Topics : committed[t] <= committed'[t]
  BY EndBase
<1>4. ASSUME NEW m \in Messages PROVE OnceOK(m)'
  <2>1. \A t \in Topics : \A i \in 1..Len(log'[t]) : log'[t][i].msg = m => i \in 1..Len(log[t])
    BY <1>1
  <2>2. ASSUME NEW k \in Loops, NEW i \in 1..Len(log[k[2]]), BegunBy(k, i)
        PROVE  i <= committed'[k[2]] \/ BegunBy(k, i)'
    <3>1. CASE k = l
      <4>1. committed'[l[2]] = loop[l].current
        BY <1>1 DEF BaseInv, TypeOK
      <4> QED
        BY <1>2, <2>2, <3>1, <4>1 DEF BegunBy, BegunTo
    <3>2. CASE k # l
      BY <1>1, <1>2, <2>2, <3>2 DEF BegunBy, Owns, InBatch, BegunTo
    <3> QED
      BY <3>1, <3>2
  <2>3. ASSUME NEW k \in Loops, Applying(k, m)'
        PROVE  Applying(k, m) /\ loop'[k].action = loop[k].action
    <3>1. k # l
      BY <1>2, <2>3 DEF Applying
    <3> QED
      BY <1>1, <1>2, <2>3, <3>1 DEF Applying, Owns
  <2>4. OnceOK(m) /\ upset[m] \subseteq upset'[m] /\ sent'[m] = sent[m]
    BY <1>1 DEF OnceInv
  <2> QED
    BY <1>3, <2>1, <2>2, <2>3, <2>4, OnceStays
<1> QED
  BY <1>1, <1>4, OnceAll

\* The record in work: the message of one that is not the owner's is marked, and it is the next one
\* after those that the owner has begun.
LEMMA NextRecord ==
    ASSUME BaseInv, NEW l \in Loops, InBatch(l), loop[l].current < loop[l].last
    PROVE  /\ ~Owns(l) => "evicted" \in upset[log[l[2]][loop[l].current + 1].msg]
           /\ Owns(l) /\ loop[l].pc # "applying" => ~Passed(l[2], loop[l].current + 1)
<1>1. /\ loop[l].first \in Nat /\ loop[l].current \in Nat /\ loop[l].last \in Nat
      /\ loop[l].first <= loop[l].current
      /\ l[2] \in Topics /\ committed[l[2]] \in Nat
  BY OffsetFacts
<1>2. EvictedOK(l) /\ OwnerOK(l)
  BY DEF BaseInv, LoopOK
<1>3. loop[l].current + 1 \in (loop[l].first + 1)..loop[l].last
  BY <1>1
<1>4. ~Owns(l) => "evicted" \in upset[log[l[2]][loop[l].current + 1].msg]
  BY <1>2, <1>3 DEF EvictedOK
<1>5. ASSUME Owns(l), loop[l].pc # "applying" PROVE ~Passed(l[2], loop[l].current + 1)
  <2>1. ~(loop[l].current + 1 <= committed[l[2]])
    BY <1>1, <1>2, <1>5 DEF OwnerOK, From
  <2>2. ASSUME NEW k \in Loops, k[2] = l[2], Owns(k), loop[l].current + 1 <= BegunTo(k)
        PROVE  FALSE
    <3>1. k = l
      BY <1>5, <2>2, LoopFacts DEF Owns
    <3> QED
      BY <1>1, <1>5, <2>2, <3>1 DEF BegunTo
  <2> QED
    BY <2>1, <2>2 DEF Passed
<1> QED
  BY <1>4, <1>5

\* An undisturbed message is processed once for each of its records, one after the other.
LEMMA CallOnce ==
    ASSUME BaseInv, BaseInv', OnceInv, LogGrows, OutcomesGrow, NEW l \in Loops, Process(l)
    PROVE  OnceInv'
<1>1. /\ InBatch(l) /\ loop[l].pc = "processing" /\ loop[l].current < loop[l].last
      /\ UNCHANGED << log, committed, owner, published >>
  BY ProcessFacts
<1>2. PICK m \in published, attempt \in Nat \ {0}, accepted \in BOOLEAN,
           news \in SUBSET {"sent", "failed"}, action \in {"done", "retry", "dead_letter"} :
           Handled(l, m, attempt, accepted, news, action)
  BY ProcessFacts
<1>3. /\ m \in Messages /\ m = log[l[2]][loop[l].current + 1].msg
      /\ sent' = [sent EXCEPT ![m] = @ + (IF accepted THEN 1 ELSE 0)]
      /\ accepted /\ action # "done" => "ambiguous" \in upset'[m]
      /\ loop' = [loop EXCEPT ![l] =
            [loop[l] EXCEPT !.pc = "applying", !.attempt = attempt, !.action = action]]
  BY <1>2 DEF Handled
<1>4. /\ \A k \in Loops : k # l => loop'[k] = loop[k]
      /\ loop'[l].pc = "applying" /\ loop'[l].current = loop[l].current
      /\ loop'[l].first = loop[l].first /\ loop'[l].action = action
  <2>1. loop \in [Loops -> LoopRecords] /\ loop[l] \in LoopRecords
    BY DEF BaseInv, TypeOK
  <2> QED
    BY <1>3, <2>1 DEF LoopRecords
<1>5. PICK c \in 1..Len(log[l[2]]) :
        c = loop[l].current + 1 /\ log[l[2]][c].msg = m /\ l[2] \in Topics
  BY <1>1, <1>3, WorkFacts
<1>6. \A k \in Loops : Owns(k)' <=> Owns(k)
  BY <1>1 DEF Owns
<1>7. ASSUME NEW k \in Loops, NEW i \in 1..Len(log[k[2]]), BegunBy(k, i)
      PROVE  BegunBy(k, i)'
  <2>1. CASE k = l
    <3>1. i <= loop[l].current /\ loop[l].first < i
      BY <1>1, <1>7, <2>1 DEF BegunBy, BegunTo
    <3>2. i <= loop[l].current + 1
      BY <3>1, OffsetFacts
    <3> QED
      BY <1>4, <1>6, <1>7, <2>1, <3>1, <3>2 DEF BegunBy, BegunTo, InBatch
  <2>2. CASE k # l
    BY <1>4, <1>6, <1>7, <2>2 DEF BegunBy, BegunTo, InBatch
  <2> QED
    BY <2>1, <2>2
<1>8. ASSUME NEW n \in Messages, n # m PROVE OnceOK(n)'
  <2>1. \A t \in Topics : \A i \in 1..Len(log'[t]) : log'[t][i].msg = n => i \in 1..Len(log[t])
    BY <1>1
  <2>2. \A t \in Topics : committed[t] <= committed'[t]
    BY <1>1 DEF BaseInv, TypeOK
  <2>3. ASSUME NEW k \in Loops, Applying(k, n)'
        PROVE  Applying(k, n) /\ loop'[k].action = loop[k].action
    <3>1. k # l
      BY <1>1, <1>3, <1>4, <1>8, <2>3 DEF Applying
    <3> QED
      BY <1>1, <1>4, <1>6, <2>3, <3>1 DEF Applying
  <2>4. OnceOK(n) /\ upset[n] \subseteq upset'[n] /\ sent'[n] = sent[n]
    BY <1>3, <1>8 DEF OnceInv, OutcomesGrow, BaseInv, TypeOK
  <2> QED
    BY <1>7, <2>1, <2>2, <2>3, <2>4, OnceStays
<1>9. OnceOK(m)'
  <2> SUFFICES ASSUME Undisturbed(m, Repeats)'
               PROVE  (/\ OneToPass(m)
                       /\ sent[m] <= 1
                       /\ sent[m] > 0 => AllPassed(m)
                       /\ \A k \in Loops : Applying(k, m) =>
                             /\ AllPassed(m)
                             /\ loop[k].action # "done" => sent[m] = 0
                             /\ \A h \in Loops : Applying(h, m) => h = k)'
    BY DEF OnceOK
  <2>1. Undisturbed(m, Repeats) /\ "ambiguous" \notin upset'[m]
    BY <1>3 DEF Undisturbed, Repeats, OutcomesGrow
  <2>2. Owns(l)
    BY <1>1, <1>3, <2>1, NextRecord DEF Undisturbed, Repeats
  <2>3. ~Passed(l[2], c)
    BY <1>1, <1>5, <2>2, NextRecord
  <2>4. /\ OneToPass(m)
        /\ sent[m] > 0 => AllPassed(m)
        /\ \A k \in Loops : Applying(k, m) => AllPassed(m)
    BY <1>3, <2>1 DEF OnceInv, OnceOK
  <2>5. ~AllPassed(m)
    BY <1>5, <2>3 DEF AllPassed
  <2>6. sent[m] = 0 /\ \A k \in Loops : ~Applying(k, m)
    <3>1. sent[m] \in Nat
      BY <1>3 DEF BaseInv, TypeOK
    <3> QED
      BY <2>4, <2>5, <3>1
  <2>7. ASSUME NEW t \in Topics, NEW i \in 1..Len(log[t]), log[t][i].msg = m PROVE Passed(t, i)'
    <3>1. CASE t = l[2] /\ i = c
      <4>1. loop'[l].first < c /\ c <= BegunTo(l)' /\ InBatch(l)'
        BY <1>1, <1>4, <1>5, OffsetFacts DEF BegunTo, InBatch
      <4> QED
        BY <1>6, <2>2, <3>1, <4>1 DEF Passed
    <3>2. CASE ~(t = l[2] /\ i = c)
      <4>1. Passed(t, i)
        BY <1>5, <2>3, <2>4, <2>7, <3>2 DEF OneToPass
      <4> QED
        BY <1>1, <1>7, <2>7, <4>1 DEF Passed, BegunBy
    <3> QED
      BY <3>1, <3>2
  <2>8. AllPassed(m)' /\ OneToPass(m)'
    BY <1>1, <2>7 DEF AllPassed, OneToPass
  <2>9. sent'[m] = (IF accepted THEN 1 ELSE 0)
    <3>1. sent'[m] = sent[m] + (IF accepted THEN 1 ELSE 0)
      BY <1>3 DEF BaseInv, TypeOK
    <3> QED
      BY <2>6, <3>1
  <2>10. accepted => action = "done"
    BY <1>3, <2>1
  <2>11. \A k \in Loops : Applying(k, m)' => k = l
    BY <1>1, <1>4, <1>6, <2>6 DEF Applying
  <2>12. sent'[m] <= 1 /\ (action # "done" => sent'[m] = 0)
    BY <2>9, <2>10
  <2> QED
    BY <1>4, <2>8, <2>11, <2>12
<1>10. \A n \in Messages \ published' : sent'[n] = 0
  BY <1>1, <1>2, <1>3 DEF OnceInv, BaseInv, TypeOK
<1> QED
  BY <1>8, <1>9, <1>10 DEF OnceInv

\* Resolving a record, or giving it up, concerns its message only.
LEMMA OthersOnce ==
    ASSUME BaseInv, BaseInv', OnceInv, LogGrows, OutcomesGrow, NEW l \in Loops,
           loop[l].pc = "applying",
           \A k \in Loops : k # l => loop'[k] = loop[k],
           loop'[l].pc \in {"processing", "committing"}, loop'[l].first = loop[l].first,
           loop'[l].current = loop[l].current \/ loop'[l].current = loop[l].current + 1,
           UNCHANGED << committed, owner, sent >>,
           NEW m \in Messages, m # log[l[2]][loop[l].current + 1].msg,
           \A t \in Topics : \A i \in 1..Len(log'[t]) : log'[t][i].msg = m => i \in 1..Len(log[t])
    PROVE  OnceOK(m)'
<1>1. \A t \in Topics : committed[t] <= committed'[t]
  BY DEF BaseInv, TypeOK
<1>2. ASSUME NEW k \in Loops, NEW i \in 1..Len(log[k[2]]), log[k[2]][i].msg = m, BegunBy(k, i)
      PROVE  BegunBy(k, i)'
  <2>1. CASE k = l
    <3>1. i <= loop[l].current + 1 /\ i # loop[l].current + 1 /\ loop[l].first < i
      BY <1>2, <2>1 DEF BegunBy, BegunTo
    <3>2. i <= loop'[l].current
      BY <3>1, OffsetFacts
    <3> QED
      BY <1>2, <2>1, <3>1, <3>2 DEF BegunBy, BegunTo, InBatch, Owns
  <2>2. CASE k # l
    BY <1>2, <2>2 DEF BegunBy, BegunTo, InBatch, Owns
  <2> QED
    BY <2>1, <2>2
<1>3. ASSUME NEW k \in Loops, Applying(k, m)'
      PROVE  Applying(k, m) /\ loop'[k].action = loop[k].action
  <2>1. k # l
    BY <1>3 DEF Applying
  <2>2. loop'[k] = loop[k] /\ Owns(k) /\ loop[k].pc = "applying"
    BY <1>3, <2>1 DEF Applying, Owns
  <2>3. log'[k[2]][loop[k].current + 1] = log[k[2]][loop[k].current + 1]
    BY <2>2, OffsetFacts, WorkFacts DEF LogGrows
  <2> QED
    BY <1>3, <2>2, <2>3 DEF Applying
<1>4. OnceOK(m) /\ upset[m] \subseteq upset'[m] /\ sent'[m] = sent[m]
  BY DEF OnceInv, OutcomesGrow
<1> QED
  BY <1>1, <1>2, <1>3, <1>4, OnceStays

\* The copy of a record is the only one of its message that is still to be processed.
LEMMA ProduceOnce ==
    ASSUME BaseInv, BaseInv', OnceInv, LogGrows, OutcomesGrow, NEW l \in Loops,
           Produce(l) \/ ProduceCancelled(l)
    PROVE  OnceInv'
<1>1. /\ loop[l].pc = "applying" /\ loop[l].action # "done"
      /\ UNCHANGED << published, committed, owner, sent >>
      /\ Produced(l) \/ UNCHANGED log
  BY DEF Produce, ProduceCancelled
<1>2. /\ InBatch(l) /\ loop[l].current < loop[l].last
      /\ loop[l].current \in Nat /\ l[2] \in Topics
  BY <1>1, OffsetFacts
<1>3. PICK m \in Messages : m = log[l[2]][loop[l].current + 1].msg
  BY <1>2, WorkFacts
<1>4. /\ \A k \in Loops : k # l => loop'[k] = loop[k]
      /\ loop'[l].pc \in {"processing", "committing"} /\ loop'[l].first = loop[l].first
      /\ loop'[l].current = loop[l].current \/ loop'[l].current = loop[l].current + 1
      /\ Produce(l) => loop'[l].pc = "processing" /\ loop'[l].current = loop[l].current + 1
  <2>1. loop \in [Loops -> LoopRecords] /\ loop[l] \in LoopRecords
    BY DEF BaseInv, TypeOK
  <2>2. CASE Produce(l)
    BY <2>1, <2>2 DEF Produce, Advance, LoopRecords
  <2>3. CASE ~Produce(l)
    BY <2>1, <2>3, StopFacts DEF ProduceCancelled
  <2> QED
    BY <2>2, <2>3
<1>5. PICK len \in Nat : len = Len(log["retry"])
  BY DEF BaseInv, LogOK, Topics
<1>6. /\ \A t \in Topics : \A i \in 1..Len(log'[t]) :
            i \in 1..Len(log[t]) \/ (t = "retry" /\ i = len + 1 /\ log'[t][i].msg = m)
      /\ \A t \in Topics : \A i \in 1..Len(log[t]) : log'[t][i] = log[t][i]
  <2>1. CASE UNCHANGED log
    BY <2>1
  <2>2. CASE ~UNCHANGED log
    <3>1. /\ Len(log'["retry"]) = len + 1 /\ log'["retry"][len + 1].msg = m
          /\ log'["main"] = log["main"]
      <4>1. Produced(l) /\ ~UNCHANGED log
        BY <1>1, <2>2
      <4>2. /\ Len(log'["retry"]) = Len(log["retry"]) + 1
            /\ log'["retry"][Len(log["retry"]) + 1] =
                  [msg |-> log[l[2]][loop[l].current + 1].msg,
                   header |-> kafkaAttempt(log[l[2]][loop[l].current + 1].header) + 1]
            /\ log'["main"] = log["main"]
        BY <1>1, <4>1, ProducedFacts
      <4> QED
        BY <1>3, <1>5, <4>2
    <3>2. \A i \in 1..(len + 1) : i \in 1..len \/ i = len + 1
      OBVIOUS
    <3> QED
      BY <1>5, <3>1, <3>2 DEF LogGrows, Topics
  <2> QED
    BY <2>1, <2>2
<1>7. ASSUME NEW n \in Messages, n # m PROVE OnceOK(n)'
  <2>1. \A t \in Topics : \A i \in 1..Len(log'[t]) : log'[t][i].msg = n => i \in 1..Len(log[t])
    BY <1>6, <1>7
  <2> QED
    BY <1>1, <1>3, <1>4, <1>7, <2>1, OthersOnce
<1>8. OnceOK(m)'
  <2> SUFFICES ASSUME Undisturbed(m, Repeats)'
               PROVE  (/\ OneToPass(m)
                       /\ sent[m] <= 1
                       /\ sent[m] > 0 => AllPassed(m)
                       /\ \A k \in Loops : Applying(k, m) =>
                             /\ AllPassed(m)
                             /\ loop[k].action # "done" => sent[m] = 0
                             /\ \A h \in Loops : Applying(h, m) => h = k)'
    BY DEF OnceOK
  <2>1. Undisturbed(m, Repeats)
    BY DEF Undisturbed, OutcomesGrow
  <2>2. Produce(l)
    <3>1. "shutdown" \notin upset'[m]
      BY DEF Undisturbed, Repeats
    <3>2. ProduceCancelled(l) => "shutdown" \in upset'[m]
      BY <1>3, MarkFacts DEF ProduceCancelled, BaseInv, Reasons
    <3> QED
      BY <3>1, <3>2
  <2>3. Owns(l)
    BY <1>2, <1>3, <2>1, NextRecord DEF Undisturbed, Repeats
  <2>4. Applying(l, m)
    BY <1>1, <1>3, <2>3 DEF Applying
  <2>5. AllPassed(m) /\ sent[m] = 0 /\ \A k \in Loops : Applying(k, m) => k = l
    BY <1>1, <2>1, <2>4 DEF OnceInv, OnceOK
  <2>6. ASSUME NEW k \in Loops PROVE ~Applying(k, m)'
    <3>1. CASE k = l
      BY <1>4, <2>2, <3>1 DEF Applying
    <3>2. CASE k # l
      <4>1. SUFFICES ASSUME Owns(k), loop[k].pc = "applying"
                     PROVE  log'[k[2]][loop[k].current + 1].msg # m
        BY <1>1, <1>4, <3>2 DEF Applying, Owns
      <4>2. log'[k[2]][loop[k].current + 1] = log[k[2]][loop[k].current + 1]
        BY <1>6, <4>1, OffsetFacts, WorkFacts
      <4> QED
        BY <2>5, <3>2, <4>1, <4>2 DEF Applying
    <3> QED
      BY <3>1, <3>2
  <2>7. ASSUME NEW t \in Topics, NEW i \in 1..Len(log[t]), log[t][i].msg = m PROVE Passed(t, i)'
    <3>1. Passed(t, i)
      BY <2>5, <2>7 DEF AllPassed
    <3>2. CASE i <= committed[t]
      BY <1>1, <3>2 DEF Passed
    <3>3. ASSUME NEW k \in Loops, k[2] = t, BegunBy(k, i) PROVE BegunBy(k, i)'
      <4>1. CASE k = l
        BY <1>1, <1>2, <1>4, <2>2, <3>3, <4>1 DEF BegunBy, BegunTo, InBatch, Owns
      <4>2. CASE k # l
        BY <1>1, <1>4, <3>3, <4>2 DEF BegunBy, BegunTo, InBatch, Owns
      <4> QED
        BY <4>1, <4>2
    <3> QED
      BY <3>1, <3>2, <3>3 DEF Passed, BegunBy
  <2>8. ASSUME NEW t \in Topics, NEW i \in 1..Len(log'[t]), log'[t][i].msg = m, ~Passed(t, i)'
        PROVE  t = "retry" /\ i = len + 1
    BY <1>6, <2>7, <2>8
  <2>9. OneToPass(m)'
    BY <2>8 DEF OneToPass
  <2>10. sent'[m] = 0
    BY <1>1, <2>5
  <2> QED
    BY <2>6, <2>9, <2>10
<1> QED
  BY <1>1, <1>7, <1>8, OnceAll

\* After a refused produce the record is to be processed again, and it was not sent.
LEMMA RefusedOnce ==
    ASSUME BaseInv, BaseInv', OnceInv, LogGrows, OutcomesGrow, NEW l \in Loops, ProduceRefused(l)
    PROVE  OnceInv'
<1>1. /\ loop[l].pc = "applying" /\ loop[l].action # "done" /\ Stop(l)
      /\ UNCHANGED << published, log, committed, owner, sent >>
  BY DEF ProduceRefused
<1>2. /\ InBatch(l) /\ loop[l].current < loop[l].last
      /\ loop[l].current \in Nat /\ l[2] \in Topics
  BY <1>1, OffsetFacts
<1>3. PICK m \in Messages : m = log[l[2]][loop[l].current + 1].msg
  BY <1>2, WorkFacts
<1>4. /\ \A k \in Loops : k # l => loop'[k] = loop[k]
      /\ loop'[l].pc = "committing" /\ loop'[l].first = loop[l].first
      /\ loop'[l].current = loop[l].current
  BY <1>1, StopFacts
<1>5. ASSUME NEW n \in Messages, n # m PROVE OnceOK(n)'
  <2>1. \A t \in Topics : \A i \in 1..Len(log'[t]) : log'[t][i].msg = n => i \in 1..Len(log[t])
    BY <1>1
  <2> QED
    BY <1>1, <1>3, <1>4, <1>5, <2>1, OthersOnce
<1>6. OnceOK(m)'
  <2> SUFFICES ASSUME Undisturbed(m, Repeats)'
               PROVE  (/\ OneToPass(m)
                       /\ sent[m] <= 1
                       /\ sent[m] > 0 => AllPassed(m)
                       /\ \A k \in Loops : Applying(k, m) =>
                             /\ AllPassed(m)
                             /\ loop[k].action # "done" => sent[m] = 0
                             /\ \A h \in Loops : Applying(h, m) => h = k)'
    BY DEF OnceOK
  <2>1. Undisturbed(m, Repeats)
    BY DEF Undisturbed, OutcomesGrow
  <2>2. Owns(l)
    BY <1>2, <1>3, <2>1, NextRecord DEF Undisturbed, Repeats
  <2>3. Applying(l, m)
    BY <1>1, <1>3, <2>2 DEF Applying
  <2>4. AllPassed(m) /\ sent[m] = 0 /\ \A k \in Loops : Applying(k, m) => k = l
    BY <1>1, <2>1, <2>3 DEF OnceInv, OnceOK
  <2>5. ASSUME NEW k \in Loops PROVE ~Applying(k, m)'
    <3>1. k = l => ~Applying(k, m)'
      BY <1>4 DEF Applying
    <3>2. k # l => ~Applying(k, m)'
      BY <1>1, <1>4, <2>4 DEF Applying, Owns
    <3> QED
      BY <3>1, <3>2
  <2>6. ASSUME NEW t \in Topics, NEW i \in 1..Len(log[t]), log[t][i].msg = m, ~Passed(t, i)'
        PROVE  t = l[2] /\ i = loop[l].current + 1
    <3>1. Passed(t, i)
      BY <2>4, <2>6 DEF AllPassed
    <3>2. ~(i <= committed[t])
      BY <1>1, <2>6 DEF Passed
    <3>3. PICK k \in Loops : k[2] = t /\ BegunBy(k, i)
      BY <3>1, <3>2 DEF Passed, BegunBy
    <3>4. ~BegunBy(k, i)'
      BY <2>6, <3>3 DEF Passed, BegunBy
    <3>5. k = l
      BY <1>1, <1>4, <3>3, <3>4 DEF BegunBy, BegunTo, InBatch, Owns
    <3>6. i <= loop[l].current + 1 /\ loop[l].first < i
      BY <1>1, <3>3, <3>5 DEF BegunBy, BegunTo
    <3>7. ~(i <= loop[l].current)
      BY <1>1, <1>4, <2>2, <3>4, <3>5, <3>6 DEF BegunBy, BegunTo, InBatch, Owns
    <3> QED
      BY <1>2, <3>3, <3>5, <3>6, <3>7
  <2>7. OneToPass(m)'
    BY <1>1, <2>6 DEF OneToPass
  <2>8. sent'[m] = 0
    BY <1>1, <2>4
  <2> QED
    BY <2>5, <2>7, <2>8
<1> QED
  BY <1>1, <1>5, <1>6, OnceAll

\* The fourth invariant is inductive relative to the first.
LEMMA NextOnce == BaseInv /\ BaseInv' /\ OnceInv /\ [Next]_vars => OnceInv'
<1> SUFFICES ASSUME BaseInv, BaseInv', OnceInv, [Next]_vars PROVE OnceInv'
  OBVIOUS
<1>1. LogGrows /\ OutcomesGrow
  BY NextBase, OutcomesStay
<1>2. ASSUME NEW l \in Loops, LoopStep(l) PROVE OnceInv'
  BY <1>1, <1>2, QuietOnce, CommitOnce, CallOnce, ProduceOnce, RefusedOnce DEF LoopStep
<1> QED
  BY <1>1, <1>2, PublishOnce, WorldOnce DEF Next

\* An email is sent twice only if its replica crashed, was stopped or was evicted before the commit,
\* if the commit failed, or if the provider accepted it unknown to the sender (README.md:374-375).
THEOREM KafkaSentOnce == Spec => []NoDuplicateSend
<1>1. OnceInv => NoDuplicateSend
  BY DEF OnceInv, OnceOK, NoDuplicateSend, Repeats
<1> QED
  BY <1>1, InitBase, InitOnce, NextBase, NextOnce, PTL DEF Spec

-----------------------------------------------------------------------------
(***************************************************************************)
(* Every step is a step of the contract.                                   *)
(***************************************************************************)

\* The messages with a record above the committed offset.
LEMMA OwedFacts ==
    ASSUME BaseInv, NEW m
    PROVE  m \in Owed <=> \E t \in Topics : \E i \in 1..Len(log[t]) :
                             committed[t] < i /\ log[t][i].msg = m
<1>1. \A t \in Topics : committed[t] \in Nat /\ Len(log[t]) \in Nat
  BY DEF BaseInv, TypeOK, LogOK
<1>2. ASSUME NEW t \in Topics
      PROVE  m \in MessagesIn(t, committed[t], Len(log[t])) <=>
                \E i \in 1..Len(log[t]) : committed[t] < i /\ log[t][i].msg = m
  BY <1>1, <1>2 DEF MessagesIn
<1> QED
  BY <1>2 DEF Owed

\* The same of the next state.
LEMMA OwedNext ==
    ASSUME BaseInv', NEW m
    PROVE  m \in Owed' <=> \E t \in Topics : \E i \in 1..Len(log'[t]) :
                              committed'[t] < i /\ log'[t][i].msg = m
<1>1. \A t \in Topics : committed'[t] \in Nat /\ Len(log'[t]) \in Nat
  BY DEF BaseInv, TypeOK, LogOK
<1>2. ASSUME NEW t \in Topics
      PROVE  m \in MessagesIn(t, committed[t], Len(log[t]))' <=>
                \E i \in 1..Len(log'[t]) : committed'[t] < i /\ log'[t][i].msg = m
  BY <1>1, <1>2 DEF MessagesIn
<1> QED
  BY <1>2 DEF Owed

\* Who has sent, told and dead-lettered nothing new has reached no further outcome.
LEMMA SameOutcomesReached ==
    ASSUME UNCHANGED << sent, told, dead >>
    PROVE  OutcomesReached' = OutcomesReached
BY DEF OutcomesReached

\* The exceptions the contract makes stay the same.
SameExceptions == Evicted' = Evicted /\ Refused' = Refused

\* Marking messages for another reason makes no exception of them.
LEMMA MarkSame ==
    ASSUME BaseInv, NEW ms, NEW reason, Mark(ms, reason), reason # "evicted", reason # "refused"
    PROVE  SameExceptions
<1>1. \A n \in Messages : upset'[n] = upset[n] \/ upset'[n] = upset[n] \cup {reason}
  BY DEF Mark
<1> QED
  BY <1>1 DEF SameExceptions, Evicted, Refused

\* A step after which one message may have reached further outcomes.
LEMMA ReachStep ==
    ASSUME BaseInv, BaseInv', OutcomesGrow, NEW m \in published, published' = published,
           Owed' = Owed, SameExceptions,
           \A n \in Messages : n # m => /\ sent'[n] = sent[n] /\ told'[n] = told[n]
                                        /\ n \in dead' <=> n \in dead
    PROVE  Contract!ContractNext
<1>1. PICK os \in SUBSET Contract!Outcomes : os = OutcomesReached'[m]
  BY DEF OutcomesReached, Contract!Outcomes, BaseInv, TypeOK
<1>2. m \in Messages /\ sent[m] \in Nat /\ sent'[m] \in Nat
  BY DEF BaseInv, TypeOK
<1>3. OutcomesReached[m] \subseteq os
  <2>1. sent[m] <= sent'[m] /\ told[m] \subseteq told'[m] /\ dead \subseteq dead'
    BY <1>2 DEF OutcomesGrow
  <2>2. sent[m] > 0 => sent'[m] > 0
    BY <1>2, <2>1
  <2> QED
    BY <1>1, <1>2, <2>1, <2>2 DEF OutcomesReached
<1>4. \A n \in Messages : n # m => OutcomesReached'[n] = OutcomesReached[n]
  BY DEF OutcomesReached
<1>5. OutcomesReached' = [OutcomesReached EXCEPT ![m] = @ \cup os]
  <2>1. OutcomesReached = [n \in Messages |-> OutcomesReached[n]]
    BY DEF OutcomesReached
  <2>2. OutcomesReached' = [n \in Messages |-> OutcomesReached'[n]]
    BY DEF OutcomesReached
  <2> QED
    BY <1>1, <1>2, <1>3, <1>4, <2>1, <2>2
<1>6. Contract!Reach(m, os)
  BY <1>5 DEF Contract!Reach, SameExceptions
<1> QED
  BY <1>2, <1>6 DEF Contract!ContractNext

\* The initial states owe nothing.
LEMMA ContractInitially == Init => Contract!ContractInit
<1> SUFFICES ASSUME Init PROVE Contract!ContractInit
  OBVIOUS
<1>1. BaseInv
  BY InitBase
<1>2. Owed = {}
  <2>1. \A t \in Topics : log[t] = << >>
    BY DEF Init
  <2> QED
    BY <1>1, <2>1, OwedFacts
<1>3. OutcomesReached = [m \in Messages |-> {}]
  BY DEF Init, OutcomesReached
<1> QED
  BY <1>2, <1>3 DEF Init, Contract!ContractInit, Evicted, Refused

\* A publish is an acceptance: the message is owed from now on.
LEMMA PublishContract ==
    ASSUME BaseInv, BaseInv', NEW m \in Messages, Publish(m)
    PROVE  Contract!Accept(m)
<1>1. PICK h \in ProducerAttempts :
        log' = [log EXCEPT !["main"] = Append(@, [msg |-> m, header |-> h])]
  BY DEF Publish
<1>2. /\ m \notin published /\ published' = published \cup {m}
      /\ UNCHANGED << committed, sent, told, dead, upset >>
  BY DEF Publish
<1>3. log["main"] \in Seq(Records) /\ log["retry"] \in Seq(Records) /\ "main" # "retry"
  BY DEF BaseInv, LogOK, Topics
<1>4. PICK len \in Nat : len = Len(log["main"]) /\ committed["main"] <= len
  BY <1>3 DEF BaseInv, LogOK, Topics
<1>5. /\ Len(log'["main"]) = len + 1
      /\ log'["main"][len + 1].msg = m
      /\ \A i \in 1..len : log'["main"][i] = log["main"][i]
      /\ log'["retry"] = log["retry"]
  BY <1>1, <1>3, <1>4 DEF BaseInv, LogOK, Topics
<1>6. ASSUME NEW n PROVE n \in Owed' <=> n \in Owed \cup {m}
  <2>1. n \in Owed' <=> \E t \in Topics : \E i \in 1..Len(log'[t]) :
                             committed'[t] < i /\ log'[t][i].msg = n
    BY OwedNext
  <2>2. n \in Owed <=> \E t \in Topics : \E i \in 1..Len(log[t]) :
                             committed[t] < i /\ log[t][i].msg = n
    BY OwedFacts
  <2>3. committed["main"] < len + 1
    BY <1>4 DEF BaseInv, TypeOK, Topics
  <2>4. \A i \in 1..(len + 1) : i \in 1..len \/ i = len + 1
    OBVIOUS
  <2>5. n = m => n \in Owed'
    BY <1>2, <1>5, <2>1, <2>3 DEF Topics
  <2>6. n \in Owed => n \in Owed'
    <3>1. ASSUME NEW t \in Topics, NEW i \in 1..Len(log[t])
          PROVE  i \in 1..Len(log'[t]) /\ log'[t][i] = log[t][i]
      BY <1>4, <1>5 DEF Topics
    <3> QED
      BY <1>2, <2>1, <2>2, <3>1
  <2>7. n \in Owed' /\ n # m => n \in Owed
    <3>1. ASSUME NEW t \in Topics, NEW i \in 1..Len(log'[t]), log'[t][i].msg # m
          PROVE  i \in 1..Len(log[t]) /\ log'[t][i] = log[t][i]
      BY <1>4, <1>5, <2>4, <3>1 DEF Topics
    <3> QED
      BY <1>2, <2>1, <2>2, <3>1
  <2> QED
    BY <2>5, <2>6, <2>7
<1>7. Owed' = Owed \cup {m}
  BY <1>6
<1>8. OutcomesReached' = OutcomesReached
  BY <1>2, SameOutcomesReached
<1> QED
  BY <1>2, <1>7, <1>8 DEF Contract!Accept, Evicted, Refused

\* What the produced copy changes: nothing of what is owed, when the member has the topic, as the
\* record in work is still to be committed.  An evicted member may make its message owed again.
LEMMA ProduceOwes ==
    ASSUME BaseInv, BaseInv', LogGrows, NEW l \in Loops, loop[l].pc = "applying",
           NEW m \in Messages, m = log[l[2]][loop[l].current + 1].msg,
           Produced(l), UNCHANGED << published, committed >>
    PROVE  Owed' = Owed \/ (m \in Evicted /\ Owed' = Owed \cup {m})
<1>1. /\ InBatch(l) /\ loop[l].current < loop[l].last
      /\ loop[l].current \in Nat /\ l[2] \in Topics
      /\ loop[l].first <= loop[l].current /\ loop[l].first \in Nat /\ loop[l].last \in Nat
      /\ committed[l[2]] \in Nat
  BY OffsetFacts
<1>3. m \in Owed \/ m \in Evicted
  <2>1. CASE Owns(l)
    <3>1. committed[l[2]] < loop[l].current + 1
      BY <1>1, <2>1 DEF BaseInv, LoopOK, OwnerOK, From
    <3> QED
      BY <1>1, <3>1, OwedFacts, WorkFacts
  <2>2. CASE ~Owns(l)
    <3>1. loop[l].current + 1 \in (loop[l].first + 1)..loop[l].last
      BY <1>1
    <3> QED
      BY <1>1, <2>2, <3>1 DEF BaseInv, LoopOK, EvictedOK, Evicted
  <2> QED
    BY <2>1, <2>2
<1>4. PICK len \in Nat : len = Len(log["retry"]) /\ committed["retry"] <= len
  BY DEF BaseInv, LogOK, Topics
<1>5. /\ \A t \in Topics : \A i \in 1..Len(log'[t]) :
            i \in 1..Len(log[t]) \/ (t = "retry" /\ i = len + 1 /\ log'[t][i].msg = m)
      /\ \A t \in Topics : \A i \in 1..Len(log[t]) :
            i \in 1..Len(log'[t]) /\ log'[t][i] = log[t][i]
  <2>1. CASE UNCHANGED log
    BY <2>1
  <2>2. CASE ~UNCHANGED log
    <3>1. /\ Len(log'["retry"]) = Len(log["retry"]) + 1
          /\ log'["retry"][Len(log["retry"]) + 1] =
                [msg |-> log[l[2]][loop[l].current + 1].msg,
                 header |-> kafkaAttempt(log[l[2]][loop[l].current + 1].header) + 1]
          /\ log'["main"] = log["main"]
      BY <2>2, ProducedFacts
    <3>2. Len(log'["retry"]) = len + 1 /\ log'["retry"][len + 1].msg = m
      BY <1>4, <3>1
    <3>3. \A i \in 1..(len + 1) : i \in 1..len \/ i = len + 1
      OBVIOUS
    <3>4. \A i \in 1..len : i \in 1..(len + 1)
      OBVIOUS
    <3> QED
      BY <1>4, <3>1, <3>2, <3>3, <3>4 DEF LogGrows, Topics
  <2> QED
    BY <2>1, <2>2
<1>6. ASSUME NEW n, n \in Owed PROVE n \in Owed'
  BY <1>5, <1>6, OwedFacts, OwedNext
<1>7. ASSUME NEW n, n \in Owed' PROVE n \in Owed \cup {m}
  BY <1>5, <1>7, OwedFacts, OwedNext
<1> QED
  BY <1>3, <1>6, <1>7

\* What holds of every state: nothing is lost without an exception.
ContractInv == BaseInv /\ LostOnlyAfterRefusal

\* The records of a batch.
LEMMA BatchFacts ==
    ASSUME BaseInv, NEW l \in Loops, InBatch(l), NEW i \in (loop[l].first + 1)..loop[l].last
    PROVE  /\ i \in 1..Len(log[l[2]])
           /\ log[l[2]][i].msg \in published /\ log[l[2]][i].msg \in Messages
<1>1. /\ loop[l].first \in Nat /\ loop[l].last \in Nat /\ Len(log[l[2]]) \in Nat
      /\ loop[l].last <= Len(log[l[2]])
  BY OffsetFacts DEF BaseInv, LoopOK, BatchOK
<1>2. i \in 1..Len(log[l[2]])
  BY <1>1
<1> QED
  BY <1>2, LoopFacts, RecordFacts

\* What the group takes from a member in a batch is still owed.
LEMMA EvictContract ==
    ASSUME BaseInv, NEW l \in Loops, Evict(l)
    PROVE  Contract!ContractNext
<1>1. /\ InBatch(l) /\ Owns(l) /\ l[2] \in Topics
      /\ Mark(MessagesIn(l[2], loop[l].first, loop[l].last), "evicted")
      /\ UNCHANGED << published, log, committed, dead, sent, told >>
  BY LoopFacts DEF Evict, Owns
<1>2. PICK ms \in SUBSET Messages : ms = MessagesIn(l[2], loop[l].first, loop[l].last)
  <2>1. \A i \in (loop[l].first + 1)..loop[l].last : log[l[2]][i].msg \in Messages
    BY <1>1, BatchFacts
  <2> QED
    BY <2>1 DEF MessagesIn
<1>3. ms \subseteq Owed
  <2>1. committed[l[2]] <= loop[l].first
    BY <1>1 DEF BaseInv, LoopOK, OwnerOK, From
  <2>2. committed[l[2]] \in Nat /\ loop[l].first \in Nat /\ loop[l].last \in Nat
    BY <1>1, OffsetFacts
  <2>3. \A i \in (loop[l].first + 1)..loop[l].last :
           i \in 1..Len(log[l[2]]) /\ committed[l[2]] < i
    BY <1>1, <2>1, <2>2, BatchFacts
  <2> QED
    BY <1>1, <1>2, <2>3, OwedFacts DEF MessagesIn
<1>4. Evicted' = Evicted \cup ms /\ Refused' = Refused
  <2>1. \A n \in Messages :
           upset'[n] = IF n \in ms THEN upset[n] \cup {"evicted"} ELSE upset[n]
    BY <1>1, <1>2 DEF Mark
  <2>2. ASSUME NEW n \in Messages
        PROVE  /\ n \in Evicted' <=> n \in Evicted \cup ms
               /\ n \in Refused' <=> n \in Refused
    <3>1. CASE n \in ms
      <4>1. upset'[n] = upset[n] \cup {"evicted"}
        BY <2>1, <3>1
      <4>2. "evicted" \in upset'[n]
        BY <4>1
      <4>3. "refused" \in upset'[n] <=> "refused" \in upset[n]
        BY <4>1
      <4> QED
        BY <3>1, <4>2, <4>3 DEF Evicted, Refused
    <3>2. CASE n \notin ms
      <4>1. upset'[n] = upset[n]
        BY <2>1, <3>2
      <4> QED
        BY <3>2, <4>1 DEF Evicted, Refused
    <3> QED
      BY <3>1, <3>2
  <2> QED
    BY <2>2 DEF Evicted, Refused
<1>5. Owed' = Owed
  BY <1>1 DEF Owed, MessagesIn
<1>6. Contract!Double(ms)
  BY <1>1, <1>3, <1>4, <1>5, SameOutcomesReached DEF Contract!Double
<1> QED
  BY <1>6 DEF Contract!ContractNext

\* A refused produce makes exceptions of the messages in the rest of its batch.
LEMMA RefuseContract ==
    ASSUME BaseInv, NEW l \in Loops, ProduceRefused(l)
    PROVE  Contract!ContractNext
<1>1. /\ InBatch(l) /\ l[2] \in Topics
      /\ Mark(MessagesIn(l[2], loop[l].current, loop[l].last), "refused")
      /\ UNCHANGED << published, log, committed, dead, sent, told >>
  BY LoopFacts DEF ProduceRefused, InBatch
<1>2. /\ MessagesIn(l[2], loop[l].current, loop[l].last) \subseteq Messages
      /\ MessagesIn(l[2], loop[l].current, loop[l].last) \subseteq published
  <2>1. loop[l].current \in Nat /\ loop[l].first \in Nat /\ loop[l].last \in Nat
        /\ loop[l].first <= loop[l].current
    BY <1>1, OffsetFacts DEF ProduceRefused
  <2>2. \A i \in (loop[l].current + 1)..loop[l].last : i \in (loop[l].first + 1)..loop[l].last
    BY <2>1
  <2>3. \A i \in (loop[l].current + 1)..loop[l].last :
           log[l[2]][i].msg \in Messages /\ log[l[2]][i].msg \in published
    BY <1>1, <2>2, BatchFacts
  <2> QED
    BY <2>3 DEF MessagesIn
<1>3. PICK ms \in SUBSET Messages : ms = MessagesIn(l[2], loop[l].current, loop[l].last)
  BY <1>2
<1>4. Refused' = Refused \cup ms /\ Evicted' = Evicted
  <2>1. \A n \in Messages :
           upset'[n] = IF n \in ms THEN upset[n] \cup {"refused"} ELSE upset[n]
    BY <1>1, <1>3 DEF Mark
  <2>2. ASSUME NEW n \in Messages
        PROVE  /\ n \in Refused' <=> n \in Refused \cup ms
               /\ n \in Evicted' <=> n \in Evicted
    <3>1. CASE n \in ms
      <4>1. upset'[n] = upset[n] \cup {"refused"}
        BY <2>1, <3>1
      <4>2. "refused" \in upset'[n]
        BY <4>1
      <4>3. "evicted" \in upset'[n] <=> "evicted" \in upset[n]
        BY <4>1
      <4> QED
        BY <3>1, <4>2, <4>3 DEF Evicted, Refused
    <3>2. CASE n \notin ms
      <4>1. upset'[n] = upset[n]
        BY <2>1, <3>2
      <4> QED
        BY <3>2, <4>1 DEF Evicted, Refused
    <3> QED
      BY <3>1, <3>2
  <2> QED
    BY <2>2 DEF Evicted, Refused
<1>5. Owed' = Owed
  BY <1>1 DEF Owed, MessagesIn
<1>6. Contract!Excuse(ms)
  BY <1>1, <1>2, <1>3, <1>4, <1>5, SameOutcomesReached DEF Contract!Excuse
<1> QED
  BY <1>6 DEF Contract!ContractNext

\* A call of the handler marks messages whose outcome is ambiguous only.
LEMMA ProcessMarks ==
    ASSUME NEW l \in Loops, Process(l)
    PROVE  \E ms \in SUBSET Messages : Mark(ms, "ambiguous")
<1>1. PICK ms : Mark(ms, "ambiguous")
  BY DEF Process
<1>2. Mark(ms \cap Messages, "ambiguous")
  BY <1>1 DEF Mark
<1> QED
  BY <1>2

\* A produce that is not refused makes no exception.
LEMMA ProduceSame ==
    ASSUME BaseInv, NEW l \in Loops, Produce(l) \/ ProduceCancelled(l)
    PROVE  SameExceptions
<1>1. CASE Produce(l)
  BY <1>1 DEF Produce, SameExceptions, Evicted, Refused
<1>2. CASE ProduceCancelled(l)
  BY <1>2, MarkSame DEF ProduceCancelled
<1> QED
  BY <1>1, <1>2

\* Who finds out at the commit that it was evicted is marked already.
LEMMA CommitFailedSame ==
    ASSUME BaseInv, NEW l \in Loops, CommitFailed(l)
    PROVE  SameExceptions
<1>1. CASE Mark(Begun(l), "shutdown") \/ Mark(Begun(l), "commit_failed")
  BY <1>1, MarkSame
<1>2. CASE owner[l[2]] # l[1] /\ Mark(Begun(l), "evicted")
  <2>1. InBatch(l) /\ ~Owns(l)
    BY <1>2 DEF CommitFailed, BatchOver, InBatch, Owns
  <2>2. \A i \in (loop[l].first + 1)..loop[l].last : "evicted" \in upset[log[l[2]][i].msg]
    BY <2>1 DEF BaseInv, LoopOK, EvictedOK
  <2>3. Begun(l) \subseteq MessagesIn(l[2], loop[l].first, loop[l].last)
    <3>1. /\ loop[l].first \in Nat /\ loop[l].current \in Nat /\ loop[l].last \in Nat
          /\ loop[l].current <= loop[l].last /\ loop[l].pc # "applying"
      BY <2>1, OffsetFacts DEF CommitFailed, BatchOver
    <3>2. \A i \in (loop[l].first + 1)..loop[l].current : i \in (loop[l].first + 1)..loop[l].last
      BY <3>1
    <3> QED
      BY <3>1, <3>2 DEF Begun, MessagesIn
  <2>4. \A n \in Messages : n \in Begun(l) => "evicted" \in upset[n]
    BY <2>2, <2>3 DEF MessagesIn
  <2>5. \A n \in Messages : upset'[n] = IF n \in Begun(l) THEN upset[n] \cup {"evicted"} ELSE upset[n]
    BY <1>2 DEF Mark
  <2> QED
    BY <2>4, <2>5 DEF SameExceptions, Evicted, Refused
<1> QED
  BY <1>1, <1>2 DEF CommitFailed

\* A commit lets go of settled messages only.
LEMMA CommitContract ==
    ASSUME ContractInv, ContractInv', NEW l \in Loops, Commit(l)
    PROVE  Contract!ContractNext
<1>1. UNCHANGED << published, log, dead, sent, told, upset >>
  BY DEF Commit
<1>2. \A t \in Topics : committed[t] <= committed'[t]
  BY EndBase DEF ContractInv
<1>3. \A t \in Topics : committed[t] \in Nat /\ committed'[t] \in Nat
  BY DEF ContractInv, BaseInv, TypeOK
<1>4. ASSUME NEW n, n \in Owed' PROVE n \in Owed
  <2>1. \A t \in Topics : \A i \in 1..Len(log[t]) : committed'[t] < i => committed[t] < i
    BY <1>2, <1>3
  <2> QED
    BY <1>1, <1>4, <2>1, OwedFacts, OwedNext DEF ContractInv
<1>5. OutcomesReached' = OutcomesReached
  BY <1>1, SameOutcomesReached
<1>6. ASSUME NEW m \in Owed \ Owed' PROVE OutcomesReached[m] # {} \/ m \in Refused
  <2>1. m \in published' /\ m \in Messages
    <3>1. PICK t \in Topics : \E i \in 1..Len(log[t]) : log[t][i].msg = m
      BY <1>6, OwedFacts DEF ContractInv
    <3> QED
      BY <1>1, <3>1, RecordFacts DEF ContractInv
  <2>2. CASE m \in Refused
    BY <2>2
  <2>3. CASE m \notin Refused
    <3>1. Settled(m)'
      BY <1>1, <1>6, <2>1, <2>3 DEF ContractInv, LostOnlyAfterRefusal, Undisturbed, Refused
    <3> QED
      BY <1>1, <2>1, <3>1 DEF Settled, OutcomesReached
  <2> QED
    BY <2>2, <2>3
<1>7. PICK ms \in SUBSET Messages : ms = Owed \ Owed'
  <2>1. ASSUME NEW m \in Owed PROVE m \in Messages
    BY <2>1, OwedFacts, RecordFacts DEF ContractInv
  <2> QED
    BY <2>1
<1>8. Contract!LetGo(ms)
  <2>1. Owed' = Owed \ ms
    BY <1>4, <1>7
  <2>2. ms \subseteq Owed /\ \A m \in ms : OutcomesReached[m] # {} \/ m \in Refused
    BY <1>6, <1>7
  <2> QED
    BY <1>1, <1>5, <2>1, <2>2 DEF Contract!LetGo, Evicted, Refused
<1> QED
  BY <1>8 DEF Contract!ContractNext

\* Every step is a step of the contract, or none.
LEMMA NextContract ==
    ContractInv /\ ContractInv' /\ [Next]_vars =>
        [Contract!ContractNext]_(Contract!contractVars)
<1> SUFFICES ASSUME ContractInv, ContractInv', [Next]_vars
             PROVE  [Contract!ContractNext]_(Contract!contractVars)
  OBVIOUS
<1>1. BaseInv /\ BaseInv' /\ LogGrows /\ OutcomesGrow
  BY NextBase, OutcomesStay DEF ContractInv
<1>2. CASE UNCHANGED << published, log, committed, dead, sent, told >> /\ SameExceptions
  <2>1. Owed' = Owed
    BY <1>2 DEF Owed, MessagesIn
  <2> QED
    BY <1>2, <2>1, SameOutcomesReached DEF Contract!contractVars, SameExceptions
<1>3. ASSUME NEW m \in Messages, Publish(m) PROVE Contract!ContractNext
  BY <1>1, <1>3, PublishContract DEF Contract!ContractNext
<1>4. ASSUME NEW l \in Loops, Process(l) PROVE Contract!ContractNext
  <2>1. UNCHANGED << published, log, committed, dead >>
    BY <1>1, <1>4, ProcessFacts
  <2>2. PICK m \in published, attempt \in Nat \ {0}, accepted \in BOOLEAN,
             news \in SUBSET {"sent", "failed"}, action \in {"done", "retry", "dead_letter"} :
             Handled(l, m, attempt, accepted, news, action)
    BY <1>1, <1>4, ProcessFacts
  <2>3. \A n \in Messages : n # m => sent'[n] = sent[n] /\ told'[n] = told[n]
    BY <1>1, <2>2 DEF Handled, BaseInv, TypeOK
  <2>4. Owed' = Owed
    BY <2>1 DEF Owed, MessagesIn
  <2>5. SameExceptions
    <3>1. PICK ms \in SUBSET Messages : Mark(ms, "ambiguous")
      BY <1>1, <1>4, ProcessMarks
    <3> QED
      BY <1>1, <3>1, MarkSame
  <2> QED
    BY <1>1, <2>1, <2>3, <2>4, <2>5, ReachStep
<1>5. ASSUME NEW l \in Loops, Produced(l), Produce(l) \/ ProduceCancelled(l)
      PROVE  Contract!ContractNext
  <2>1. UNCHANGED << published, committed, sent, told >> /\ loop[l].pc = "applying"
    BY <1>5 DEF Produce, ProduceCancelled
  <2>2. SameExceptions
    BY <1>1, <1>5, ProduceSame
  <2>3. PICK m \in published : m = log[l[2]][loop[l].current + 1].msg
    BY <1>1, <2>1, OffsetFacts, WorkFacts
  <2>4. m \in Messages
    BY <1>1 DEF BaseInv, TypeOK
  <2>5. Owed' = Owed \/ (m \in Evicted /\ Owed' = Owed \cup {m})
    BY <1>1, <1>5, <2>1, <2>3, <2>4, ProduceOwes
  <2>6. CASE UNCHANGED log
    <3>1. Owed' = Owed
      BY <2>1, <2>6 DEF Owed, MessagesIn
    <3>2. \A n \in Messages : n # m => (n \in dead' <=> n \in dead)
      BY <1>5, <2>3 DEF Produced
    <3> QED
      BY <1>1, <2>1, <2>2, <2>3, <3>1, <3>2, ReachStep
  <2>7. CASE ~UNCHANGED log
    <3>1. UNCHANGED dead
      BY <1>5, <2>7 DEF Produced
    <3>2. OutcomesReached' = OutcomesReached
      BY <2>1, <3>1, SameOutcomesReached
    <3>3. CASE Owed' = Owed
      BY <1>1, <2>1, <2>2, <2>3, <3>1, <3>3, ReachStep
    <3>4. CASE m \in Evicted /\ Owed' = Owed \cup {m}
      <4>1. Contract!OweAgain(m)
        BY <2>1, <2>2, <3>2, <3>4 DEF Contract!OweAgain, SameExceptions
      <4> QED
        BY <2>4, <4>1 DEF Contract!ContractNext
    <3> QED
      BY <2>5, <3>3, <3>4
  <2> QED
    BY <2>6, <2>7
<1>6. ASSUME NEW l \in Loops, LoopStep(l) PROVE [Contract!ContractNext]_(Contract!contractVars)
  <2>1. \/ UNCHANGED << published, log, committed, dead, sent, told >> /\ SameExceptions
        \/ Process(l) \/ Commit(l) \/ ProduceRefused(l)
        \/ Produced(l) /\ (Produce(l) \/ ProduceCancelled(l))
    <3>1. CASE Assign(l) \/ Poll(l) \/ StopWaiting(l) \/ ApplyDone(l) \/ SkipCommit(l)
      BY <3>1 DEF Assign, Poll, StopWaiting, ApplyDone, SkipCommit, SameExceptions, Evicted,
         Refused, brokerVars, producerVars, worldVars
    <3>2. CASE CommitFailed(l)
      BY <1>1, <3>2, CommitFailedSame DEF CommitFailed, brokerVars, producerVars, worldVars
    <3>3. CASE ProduceCancelled(l) /\ ~Produced(l)
      BY <1>1, <3>3, ProduceSame DEF ProduceCancelled, producerVars, worldVars
    <3> QED
      BY <1>6, <3>1, <3>2, <3>3 DEF LoopStep, Produce
  <2> QED
    BY <1>1, <1>2, <1>4, <1>5, <2>1, CommitContract, RefuseContract
<1>7. ASSUME NEW r \in Replicas, Crash(r) PROVE SameExceptions
  BY <1>1, <1>7, MarkSame DEF Crash
<1>8. \/ UNCHANGED << published, log, committed, dead, sent, told >> /\ SameExceptions
      \/ \E m \in Messages : Publish(m)
      \/ \E l \in Loops : LoopStep(l) \/ Evict(l)
  <2>1. CASE \E r \in Replicas : Crash(r)
    BY <1>7, <2>1 DEF Crash, producerVars, worldVars
  <2>2. CASE UNCHANGED vars \/ \E r \in Replicas : ProcessStep(r) \/ Cancel(r)
    BY <2>2 DEF ProcessStep, Start, Exit, Cancel, vars, producerVars, brokerVars, worldVars,
       SameExceptions, Evicted, Refused
  <2>3. CASE \E l \in Loops : Revoke(l)
    BY <2>3 DEF Revoke, producerVars, worldVars, SameExceptions, Evicted, Refused
  <2> QED
    BY <2>1, <2>2, <2>3 DEF Next, Disturbance
<1> QED
  BY <1>1, <1>2, <1>3, <1>6, <1>8, EvictContract DEF Contract!ContractNext

\* The source keeps the at-least-once contract with its two exceptions, whatever crashes, shutdowns,
\* rebalances, evictions, failed commits and refused produces happen: it lets go of a message only
\* when it has reached an outcome or a produce was refused, and what it let go of is owed again only
\* after an eviction (kafka_consume.go:14-65, kafka_dispatch.go:17-42).
THEOREM KafkaContractKept == Spec => KeepsContract
<1>1. Spec => []ContractInv
  BY BaseInvariant, LostOnlyByRefusal, PTL DEF ContractInv
<1> QED
  BY <1>1, ContractInitially, NextContract, PTL DEF Spec, KeepsContract, Contract!ContractSpec

=============================================================================
