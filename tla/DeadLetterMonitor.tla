--------------------------- MODULE DeadLetterMonitor ---------------------------
(***************************************************************************)
(* The dead letters and the queue counts as the dev console shows them     *)
(* (.dev/console/internal/service/console.go, monitor/rabbitmq.go and      *)
(* monitor/kafka.go).  Every panel of the page asks again each 3 seconds,  *)
(* so that requests overlap: each is a series of calls to the RabbitMQ     *)
(* management API and to the Kafka admin API, between which letters        *)
(* arrive, consumers commit, and another request may purge.                *)
(*                                                                         *)
(* A letter of the RabbitMQ queue is the number of its arrival.  Of Kafka  *)
(* there is one topic: the dead-letter topic, or a topic that the mailer   *)
(* consumes, of which only the lag is shown.  The calls to one broker do   *)
(* not depend on what the other holds, so that only one of them holds      *)
(* anything: holds = "letters" (of RabbitMQ), "records" (the dead-letter   *)
(* topic) or "lag" (the consumed topic).                                   *)
(***************************************************************************)
EXTENDS Integers, FiniteSetsExt

CONSTANTS
    Panels,         \* the requests served at the same time
    Partitions,     \* of the topic
    PeekLimit,      \* deadLetterPeekLimit
    MaxLetters      \* bound on the letters of the queue and the records of a partition

ASSUME MonitorAssumption ==
    /\ IsFiniteSet(Partitions)
    /\ PeekLimit \in Nat \ {0} /\ MaxLetters \in Nat

VARIABLES
    holds,      \* what there is to look at
    arrived,    \* the letters that came to the RabbitMQ queue
    ready,      \* those it holds that nobody has taken
    peeked,     \* those that the call of the panel has taken and not yet requeued
    start,      \* the first offset kept in each partition
    end,        \* the offset of the next record
    committed,  \* the offset committed by the consumers' group, or None
    panel       \* the request of each panel

brokerVars == << arrived, ready, peeked, start, end, committed >>
monitorVars == << holds, brokerVars, panel >>

\* The offset of what has none: a partition without a commit, and one that is answered with an
\* error.
None == -1

NoOffsets == [p \in Partitions |-> 0]

\* unknown: the partitions whose start or commit came with an error.
Idle == [kind |-> "none", at |-> "idle", starts |-> NoOffsets, ends |-> NoOffsets,
         pos |-> NoOffsets, left |-> 0, count |-> 0, errors |-> {}, unknown |-> {},
         refused |-> {}, held |-> {},
         before |-> [letters |-> {}, from |-> NoOffsets, end |-> NoOffsets]]

Larger(a, b) == IF a >= b THEN a ELSE b

Total(f) == MapThenSumSet(LAMBDA p : f[p], Partitions)

\* The first offset of each partition that the group has not consumed.
Unconsumed == [p \in Partitions |-> Larger(start[p], committed[p])]

\* The letters of the RabbitMQ queue, taken or not.
Letters == ready \cup UNION {peeked[c] : c \in Panels}

\* The answer is there; of a view nothing is kept.
Rendered(q) ==
    IF q.kind # "status" THEN [Idle EXCEPT !.kind = q.kind, !.at = "rendered"]
    ELSE [Idle EXCEPT !.kind = q.kind, !.at = "rendered", !.count = q.count, !.errors = q.errors,
                      !.unknown = q.unknown, !.before = q.before]

\* A purge goes on to show what is left.
Purged(q) == [Idle EXCEPT !.kind = "purged", !.at = "get", !.errors = q.errors,
                          !.refused = q.refused, !.held = q.held, !.before = q.before]

Is(c, at) == panel[c].at = at

-----------------------------------------------------------------------------
(***************************************************************************)
(* The brokers, the mailer and the retention of the topic.                 *)
(***************************************************************************)

Arrive ==
    /\ holds = "letters"
    /\ arrived < MaxLetters
    /\ arrived' = arrived + 1
    /\ ready' = ready \cup {arrived'}
    /\ UNCHANGED << holds, peeked, start, end, committed, panel >>

AppendRecord(p) ==
    /\ holds # "letters"
    /\ end[p] < MaxLetters
    /\ end' = [end EXCEPT ![p] = @ + 1]
    /\ UNCHANGED << holds, arrived, ready, peeked, start, committed, panel >>

\* The group commits: it starts from the first record there is.
Consume(p) ==
    /\ holds = "lag"
    /\ Unconsumed[p] < end[p]
    /\ committed' = [committed EXCEPT ![p] = Unconsumed[p] + 1]
    /\ UNCHANGED << holds, arrived, ready, peeked, start, end, panel >>

Expire(p) ==
    /\ holds = "lag"
    /\ start[p] < end[p]
    /\ start' = [start EXCEPT ![p] = @ + 1]
    /\ UNCHANGED << holds, arrived, ready, peeked, end, committed, panel >>

-----------------------------------------------------------------------------
(***************************************************************************)
(* A request.  When a call fails, the other broker is asked all the same;  *)
(* the errors of a purge or a count are kept, those of a view only shown.  *)
(***************************************************************************)

First == [view |-> "get", purge |-> "purge", status |-> "starts"]

\* What the properties compare the outcome of the request with.
Before(kind) ==
    CASE kind = "view" -> Idle.before
      [] kind = "purge" -> [Idle.before EXCEPT !.letters = Letters, !.end = end]
      [] kind = "status" -> [Idle.before EXCEPT !.from = Unconsumed, !.end = end]

\* Counts change nothing, so that they need not overlap each other.
Open(c, kind) ==
    /\ Is(c, "idle")
    /\ holds = "lag" => kind = "status" /\ \A d \in Panels : Is(d, "idle")
    /\ panel' = [panel EXCEPT ![c] =
                    [Idle EXCEPT !.kind = kind, !.at = First[kind], !.before = Before(kind)]]
    /\ UNCHANGED << holds, brokerVars >>

\* Kafka is asked next.  After a purge the rest is a view.
Listing(q) == IF q.kind = "purge" THEN [q EXCEPT !.at = "starts"]
              ELSE [Idle EXCEPT !.kind = "view", !.at = "starts"]

\* Mutant: the Kafka topic is left alone when the RabbitMQ queue could not be purged.
RabbitFailsAll(c) ==
    /\ Is(c, "get") \/ Is(c, "purge")
    /\ LET q == [panel[c] EXCEPT !.errors = @ \cup {"rabbitmq"}] IN
       panel' = [panel EXCEPT ![c] = IF q.at = "purge" THEN Purged(q) ELSE Listing(q)]
    /\ UNCHANGED << holds, brokerVars >>

\* The management API does not answer, or with an error.
RabbitFails(c) ==
    /\ Is(c, "get") \/ Is(c, "purge")
    /\ panel' = [panel EXCEPT ![c] = Listing([panel[c] EXCEPT !.errors = @ \cup {"rabbitmq"}])]
    /\ UNCHANGED << holds, brokerVars >>

\* The queue is purged of the letters nobody has taken.
PurgeRabbit(c) ==
    /\ Is(c, "purge")
    /\ ready' = {}
    /\ panel' = [panel EXCEPT ![c].at = "starts", ![c].held = Letters \ ready]
    /\ UNCHANGED << holds, arrived, peeked, start, end, committed >>

\* The first letters are taken, to be requeued.
Get(c) ==
    LET Oldest == {l \in ready : Cardinality({k \in ready : k < l}) < PeekLimit} IN
    /\ Is(c, "get")
    /\ peeked' = [peeked EXCEPT ![c] = Oldest]
    /\ ready' = ready \ Oldest
    /\ panel' = [panel EXCEPT ![c] = [Listing(@) EXCEPT !.at = "requeue"]]
    /\ UNCHANGED << holds, arrived, start, end, committed >>

\* They are back in the queue, whether the answer is still awaited or not.
Requeue(c) ==
    /\ Is(c, "requeue")
    /\ ready' = ready \cup peeked[c]
    /\ peeked' = [peeked EXCEPT ![c] = {}]
    /\ panel' = [panel EXCEPT ![c].at = "starts"]
    /\ UNCHANGED << holds, arrived, start, end, committed >>

-----------------------------------------------------------------------------
KafkaFails(c) ==
    /\ panel[c].at \in {"starts", "ends", "commits", "delete"}
    /\ LET q == [panel[c] EXCEPT !.errors = @ \cup {"kafka"}] IN
       panel' = [panel EXCEPT ![c] = IF q.kind = "purge" THEN Purged(q) ELSE Rendered(q)]
    /\ UNCHANGED << holds, brokerVars >>

\* A partition may be answered with an error, and without an offset, which is not looked at; a
\* purge does not look at the starts at all.
ListStarts(c) ==
    \E failed \in SUBSET Partitions :
        /\ Is(c, "starts")
        /\ panel' = [panel EXCEPT ![c] =
              IF @.kind = "purge" THEN [@ EXCEPT !.at = "ends"]
              ELSE [@ EXCEPT !.at = "ends", !.unknown = failed,
                             !.starts = [p \in Partitions |-> IF p \in failed THEN None
                                                              ELSE start[p]]]]
        /\ UNCHANGED << holds, brokerVars >>

\* recordCount
RecordCount(starts, ends) == Total([p \in Partitions |-> ends[p] - starts[p]])

\* Mutant: the first record of the partition is not looked at.
PeekFromEnd(starts, ends) == [p \in Partitions |-> ends[p] - PeekLimit]

\* The latest records of each partition begin here.
PeekFrom(starts, ends) == [p \in Partitions |-> Larger(ends[p] - PeekLimit, starts[p])]

\* What each kind of request does with the starts and the ends, none of which came with an error.
ListEnds(c) ==
    LET q == panel[c]
        from == PeekFrom(q.starts, end)
        expected == RecordCount(from, end)
        listed == [q EXCEPT !.ends = end]
    IN  /\ q.at = "ends"
        /\ panel' = [panel EXCEPT ![c] =
              CASE q.kind = "purge" -> [listed EXCEPT !.at = "delete"]
                [] q.kind = "status" /\ holds = "lag" -> [listed EXCEPT !.at = "commits"]
                [] q.kind = "status" /\ holds # "lag" ->
                      Rendered([q EXCEPT !.count = RecordCount(q.starts, end)])
                [] OTHER ->
                      IF expected = 0 THEN Rendered(q)
                      ELSE [listed EXCEPT !.at = "read", !.pos = from, !.left = expected]]
        /\ UNCHANGED << holds, brokerVars >>

\* Mutant: a commit past the end that was listed counts as less than nothing.
PendingSigned(starts, commits, ends) ==
    Total([p \in Partitions |-> ends[p] - Larger(starts[p], commits[p])])

\* Partitions without a commit count from the start.
Pending(starts, commits, ends) ==
    Total([p \in Partitions |-> Larger(ends[p] - Larger(starts[p], commits[p]), 0)])

\* A partition answered with an error has no commit.
FetchCommits(c) ==
    \E failed \in SUBSET Partitions :
        LET q == panel[c]
            commits == [p \in Partitions |-> IF p \in failed THEN None ELSE committed[p]]
        IN  /\ q.at = "commits"
            /\ panel' = [panel EXCEPT ![c] =
                  Rendered([q EXCEPT !.count = Pending(q.starts, commits, q.ends),
                                     !.unknown = @ \cup failed])]
            /\ UNCHANGED << holds, brokerVars >>

\* DeleteRecords up to the ends listed.  A partition may refuse: its error is in the answer, which
\* is not looked at.
DeleteRecords(c) ==
    \E refused \in SUBSET Partitions :
        /\ Is(c, "delete")
        /\ start' = [p \in Partitions |-> IF p \in refused THEN start[p]
                                          ELSE Larger(start[p], panel[c].ends[p])]
        /\ panel' = [panel EXCEPT ![c] = Purged([@ EXCEPT !.refused = refused])]
        /\ UNCHANGED << holds, arrived, ready, peeked, end, committed >>

\* A reader placed at no offset begins at the end.
Seek(c) ==
    LET q == panel[c] IN
    /\ q.at = "read"
    /\ \E p \in Partitions : q.pos[p] = None
    /\ panel' = [panel EXCEPT ![c].pos = [p \in Partitions |-> IF q.pos[p] = None THEN end[p]
                                                              ELSE q.pos[p]]]
    /\ UNCHANGED << holds, brokerVars >>

\* One poll: records of some partitions, from where the reader is or, when that is gone, from the
\* first record.
Poll(c) ==
    LET q == panel[c]
        From == [p \in Partitions |-> Larger(q.pos[p], start[p])]
    IN  \E to \in [Partitions -> 0..MaxLetters] :
            LET got == RecordCount(From, to) IN
            /\ q.at = "read"
            /\ \A p \in Partitions : q.pos[p] # None
            /\ \A p \in Partitions :
                  IF q.starts[p] = q.ends[p] THEN to[p] = From[p] ELSE to[p] \in From[p]..end[p]
            /\ got > 0
            /\ panel' = [panel EXCEPT ![c] = IF got >= q.left THEN Rendered(q)
                                             ELSE [q EXCEPT !.pos = to, !.left = @ - got]]
            /\ UNCHANGED << holds, brokerVars >>

\* kafkaPeekTimeout: what was read so far is shown.
PeekTimeout(c) ==
    /\ Is(c, "read")
    /\ panel' = [panel EXCEPT ![c] = Rendered(@)]
    /\ UNCHANGED << holds, brokerVars >>

\* The page has its answer.
Render(c) ==
    /\ Is(c, "rendered")
    /\ panel' = [panel EXCEPT ![c] = Idle]
    /\ UNCHANGED << holds, brokerVars >>

-----------------------------------------------------------------------------
MonitorInit ==
    /\ holds \in {"letters", "records", "lag"}
    /\ arrived = 0
    /\ ready = {}
    /\ peeked = [c \in Panels |-> {}]
    /\ start = NoOffsets
    /\ end = NoOffsets
    /\ committed = [p \in Partitions |-> None]
    /\ panel = [c \in Panels |-> Idle]

Request(c) ==
    \/ RabbitFails(c) \/ PurgeRabbit(c) \/ Get(c) \/ Requeue(c)
    \/ KafkaFails(c) \/ ListStarts(c) \/ ListEnds(c) \/ FetchCommits(c) \/ DeleteRecords(c)
    \/ Seek(c) \/ Poll(c) \/ PeekTimeout(c) \/ Render(c)

MonitorNext ==
    \/ Arrive
    \/ \E p \in Partitions : AppendRecord(p) \/ Consume(p) \/ Expire(p)
    \/ \E c \in Panels : Request(c) \/ \E kind \in {"view", "purge", "status"} : Open(c, kind)

-----------------------------------------------------------------------------
(***************************************************************************)
(* A count is never wrong by more than what happened while it was taken:   *)
(* it has every record that was there when the request began and is still  *)
(* to be consumed when it ends, and none that was consumed or deleted      *)
(* before it began - also while records arrive, groups commit, and a purge *)
(* or the retention deletes (kafka.go:63-82, 140-165).  Of a partition     *)
(* whose start or commit came with an error (kafka.go:161 sees the ends    *)
(* only) it may have every record there ever was, and one more, and is no  *)
(* count of "the records of topic not yet committed" (kafka.go:61).        *)
(***************************************************************************)
CountIsPlausible ==
    \A c \in Panels :
        LET q == panel[c] IN
        q.at = "rendered" /\ q.kind = "status" /\ q.errors = {} =>
            /\ q.count >= Total([p \in Partitions |-> Larger(q.before.end[p] - Unconsumed[p], 0)])
            /\ q.count <= Total([p \in Partitions |->
                            end[p] - IF p \in q.unknown THEN None ELSE q.before.from[p]])

(***************************************************************************)
(* Of the letters that were there when a purge began, it leaves those that *)
(* a view had taken at that moment, those of a partition that refused, and *)
(* those of a broker whose failure it reports; a failure of one broker     *)
(* does not spare the other (console.go:171-174).                          *)
(***************************************************************************)
PurgeLeavesOnlyHeldLetters ==
    \A c \in Panels :
        LET q == panel[c] IN
        q.kind = "purged" =>
            /\ "rabbitmq" \notin q.errors => q.before.letters \cap Letters \subseteq q.held
            /\ "kafka" \notin q.errors =>
                  \A p \in Partitions \ q.refused : start[p] >= q.before.end[p]

(***************************************************************************)
(* A view whose starts came without an error does not wait its whole       *)
(* timeout for records that do not exist: there is one to read as long as  *)
(* it waits, unless a purge ran since it listed the offsets (kafka.go:     *)
(* 94-106, 124-138).  A start with an error puts the reader at the end, so *)
(* that it returns no "latest records" (kafka.go:84).                      *)
(***************************************************************************)
WaitsOnlyForLetters ==
    \A c \in Panels :
        LET q == panel[c] IN
        q.at = "read" /\ q.unknown = {} /\ start = q.starts =>
            \E p \in Partitions : q.starts[p] < q.ends[p] /\ q.pos[p] < end[p]

=============================================================================
