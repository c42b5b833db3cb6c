---------------------------- MODULE DevStackProofs ----------------------------
(***************************************************************************)
(* The tools of the development stack, proved for any number of panels,    *)
(* partitions, letters, emails and operators.                              *)
(***************************************************************************)
EXTENDS DevStack, MailerServiceProofs, FiniteSetTheorems, WellFoundedInduction

USE MonitorAssumption, BenchAssumption

-----------------------------------------------------------------------------
(***************************************************************************)
(* The bench: what a reset leaves.                                         *)
(***************************************************************************)

\* A side that answered all the calls of a reset, and nobody has changed since, injects nothing.
ResetOK ==
    /\ reset \in [Operators -> [at: {"idle", "read", "write", "mock", "returned"},
                                quiets: SUBSET Sides]]
    /\ \A o \in Operators :
          /\ reset[o].at \in {"mock", "returned"} =>
                ("mailpit" \in reset[o].quiets => Quiet("mailpit"))
          /\ reset[o].at = "returned" =>
                ("mockapi" \in reset[o].quiets => Quiet("mockapi"))

\* The failures that the mock API has still to answer.
MockOK == mock \in [failNext: Nat, preset: mockPresets]

ResetInv == ResetOK /\ MockOK

LEMMA KeepsReset ==
    ASSUME ResetInv, BenchNext PROVE ResetInv'
<1> USE DEF ResetInv
<1>1. ASSUME NEW triggers \in TriggerChoices, SetSMTPChaos(triggers) PROVE ResetInv'
  BY <1>1 DEF SetSMTPChaos, Change, ResetOK, MockOK, Quiet, Sides
<1>2. ASSUME NEW preset \in mockPresets, NEW n \in 0..MaxFailNext, ConfigureMockAPI(preset, n)
      PROVE  ResetInv'
  BY <1>2 DEF ConfigureMockAPI, Change, ResetOK, MockOK, Quiet, Sides
<1>3. ASSUME NEW o \in Operators, ResetBegins(o) PROVE ResetInv'
  BY <1>3 DEF ResetBegins, ResetOK, MockOK, Quiet, Sides
<1>4. ASSUME NEW o \in Operators, ResetReads(o) PROVE ResetInv'
  BY <1>4 DEF ResetReads, MayFail, ResetGoes, ResetOK, MockOK, Quiet, Sides
<1>5. ASSUME NEW o \in Operators, ResetWrites(o) PROVE ResetInv'
  BY <1>5 DEF ResetWrites, MayFail, ResetGoes, ResetOK, MockOK, Quiet, Sides
<1>6. ASSUME NEW o \in Operators, ResetMock(o) PROVE ResetInv'
  BY <1>6 DEF ResetMock, MayFail, ResetGoes, ResetOK, MockOK, MockDefault, mockPresets, Quiet,
              Sides
<1>7. ASSUME NEW e \in BenchEmails, Post(e) PROVE ResetInv'
  <2>1. UNCHANGED << stack, chaos, reset >>
    BY <1>7 DEF Post
  <2>2. CASE mock' = mock
    BY <2>1, <2>2 DEF ResetOK, MockOK, Quiet
  <2>3. CASE mock' # mock
    <3>1. mock.failNext > 0 /\ mock' = [mock EXCEPT !.failNext = @ - 1]
      BY <1>7, <2>3 DEF Post
    <3>2. mock' \in [failNext: Nat, preset: mockPresets] /\ ~Quiet("mockapi")
      BY <3>1 DEF MockOK, Quiet
    <3>3. Quiet("mailpit")' <=> Quiet("mailpit")
      BY <2>1 DEF Quiet
    <3> QED
      BY <2>1, <3>2, <3>3 DEF ResetOK, MockOK
  <2> QED
    BY <2>2, <2>3
<1>8. CASE UNCHANGED << stack, failureVars >>
  BY <1>8 DEF failureVars, ResetOK, MockOK, Quiet
<1>9. ASSUME NEW e \in BenchEmails, Deliver(e) \/ \E form \in BenchForms : Send(e, form)
      PROVE  UNCHANGED << stack, failureVars >> \/ Post(e)
  BY <1>9 DEF Deliver, Decode, Command, Write, Notify, Redeliver, Send
<1> QED
  BY <1>1, <1>2, <1>3, <1>4, <1>5, <1>6, <1>7, <1>8, <1>9 DEF BenchNext, ChangeFailures

LEMMA ResetInvariant == DevSpec => []ResetInv
<1>1. DevInit => ResetInv
  BY DEF DevInit, BenchInit, ResetInv, ResetOK, MockOK, MockDefault, mockPresets, Sides
<1>2. ResetInv /\ [DevNext]_devVars => ResetInv'
  <2>1. CASE UNCHANGED benchVars
    BY <2>1 DEF benchVars, failureVars, ResetInv, ResetOK, MockOK, Quiet
  <2> QED
    BY <2>1, KeepsReset DEF DevNext, devVars, UsePanel, UseBench
<1> QED
  BY <1>1, <1>2, PTL DEF DevSpec

\* A reset leaves no failure on a side that answered its calls, unless the page has changed that
\* side since, whatever becomes of the other side (.dev/console/internal/service/chaos.go:41-49).
THEOREM ResetEndsFailures == DevSpec => []ResetStopsInjection
<1>1. ResetInv => ResetStopsInjection
  BY DEF ResetInv, ResetOK, ResetStopsInjection, Sides
<1> QED
  BY <1>1, ResetInvariant, PTL

-----------------------------------------------------------------------------
(***************************************************************************)
(* The panel: the dead letters.                                            *)
(***************************************************************************)

Offsets == [Partitions -> Nat]

OffsetsOK ==
    /\ start \in Offsets /\ end \in Offsets
    /\ committed \in [Partitions -> Int]

\* Every letter is in one place: in the queue, or taken by one call.
LettersOK ==
    /\ arrived \in Nat
    /\ ready \subseteq 1..arrived
    /\ peeked \in [Panels -> SUBSET (1..arrived)]
    /\ \A c \in Panels : peeked[c] \cap ready = {}
    /\ \A c, d \in Panels : c # d => peeked[c] \cap peeked[d] = {}

\* What a purge has done so far.
PurgeOK(q) ==
    /\ q.kind = "purge" => q.at \in {"purge", "starts", "ends", "delete"}
    /\ q.kind = "purged" => q.at = "get"
    /\ q.before.letters \subseteq 1..arrived
    /\ q.at # "purge" /\ "rabbitmq" \notin q.errors =>
          q.before.letters \cap Letters \subseteq q.held
    /\ \A p \in Partitions : q.before.end[p] <= end[p]
    /\ q.at = "delete" => \A p \in Partitions : q.before.end[p] <= q.ends[p]
    /\ q.kind = "purged" /\ "kafka" \notin q.errors =>
          \A p \in Partitions \ q.refused : start[p] >= q.before.end[p]

Fields == {"kind", "at", "starts", "ends", "pos", "left", "count", "errors", "unknown", "refused",
           "held", "before"}

RequestOK(q) ==
    /\ DOMAIN q = Fields
    /\ q = [f \in DOMAIN q |-> q[f]]
    /\ q.before \in [letters: SUBSET Nat, from: [Partitions -> Int], end: Offsets]
    /\ q.ends \in Offsets
    /\ q.at \in {"purge", "delete"} => q.kind = "purge"
    /\ q.kind \in {"purge", "purged"} => PurgeOK(q)

PanelsOK ==
    /\ panel = [c \in Panels |-> panel[c]]
    /\ \A c \in Panels : RequestOK(panel[c])
    /\ \A c \in Panels : panel[c].at # "requeue" => peeked[c] = {}

MonitorInv == OffsetsOK /\ LettersOK /\ PanelsOK

LEMMA IdleFacts ==
    /\ DOMAIN Idle = Fields /\ Idle = [f \in DOMAIN Idle |-> Idle[f]]
    /\ Idle.before \in [letters: SUBSET Nat, from: [Partitions -> Int], end: Offsets]
    /\ Idle.ends \in Offsets
    /\ Idle.kind = "none" /\ Idle.at = "idle" /\ Idle.errors = {} /\ Idle.refused = {}
    /\ Idle.before.letters = {}
<1>1. NoOffsets \in Offsets /\ NoOffsets \in [Partitions -> Int]
  BY DEF NoOffsets, Offsets
<1> QED
  BY <1>1 DEF Idle, Fields

\* What a request is after it was answered, purged or went on to Kafka.
LEMMA RenderedFacts ==
    ASSUME NEW q, RequestOK(q)
    PROVE  /\ Rendered(q).at = "rendered" /\ Rendered(q).kind = q.kind
           /\ q.kind \notin {"purge", "purged"} => RequestOK(Rendered(q))
<1> DEFINE r == Rendered(q)
<1>1. CASE q.kind # "status"
  <2> DEFINE t == [Idle EXCEPT !.kind = q.kind, !.at = "rendered"]
  <2>1. r = t
    BY <1>1 DEF Rendered
  <2>2. /\ DOMAIN t = Fields /\ t = [f \in DOMAIN t |-> t[f]]
        /\ t.before = Idle.before /\ t.ends = Idle.ends /\ t.at = "rendered" /\ t.kind = q.kind
    BY IdleFacts DEF Fields
  <2> HIDE DEF t
  <2> QED
    BY <2>1, <2>2, IdleFacts DEF RequestOK, Fields
<1>2. CASE q.kind = "status"
  <2> DEFINE t == [Idle EXCEPT !.kind = q.kind, !.at = "rendered", !.count = q.count,
                               !.errors = q.errors, !.unknown = q.unknown, !.before = q.before]
  <2>1. r = t
    BY <1>2 DEF Rendered
  <2>2. /\ DOMAIN t = Fields /\ t = [f \in DOMAIN t |-> t[f]]
        /\ t.before = q.before /\ t.ends = Idle.ends /\ t.at = "rendered" /\ t.kind = q.kind
    BY IdleFacts DEF Fields
  <2> HIDE DEF t
  <2> QED
    BY <1>2, <2>1, <2>2, IdleFacts DEF RequestOK, Fields
<1> QED
  BY <1>1, <1>2

LEMMA PurgedFacts ==
    ASSUME NEW q, RequestOK(q)
    PROVE  /\ Purged(q).at = "get" /\ Purged(q).kind = "purged"
           /\ Purged(q).errors = q.errors /\ Purged(q).refused = q.refused
           /\ Purged(q).held = q.held /\ Purged(q).before = q.before
           /\ DOMAIN Purged(q) = Fields /\ Purged(q) = [f \in DOMAIN Purged(q) |-> Purged(q)[f]]
           /\ Purged(q).ends \in Offsets
           /\ PurgeOK(Purged(q)) => RequestOK(Purged(q))
<1> DEFINE r == Purged(q)
<1>1. /\ DOMAIN r = Fields /\ r = [f \in DOMAIN r |-> r[f]]
      /\ r.before = q.before /\ r.ends = Idle.ends /\ r.at = "get" /\ r.kind = "purged"
      /\ r.errors = q.errors /\ r.refused = q.refused /\ r.held = q.held
  BY IdleFacts DEF Purged, Fields
<1> QED
  BY <1>1, IdleFacts DEF RequestOK, Fields

LEMMA ListingFacts ==
    ASSUME NEW q, RequestOK(q), q.kind # "purge"
    PROVE  Listing(q).at = "starts" /\ Listing(q).kind = "view" /\ RequestOK(Listing(q))
<1> DEFINE r == Listing(q)
<1> DEFINE t == [Idle EXCEPT !.kind = "view", !.at = "starts"]
<1>1. r = t
  BY DEF Listing
<1>2. /\ DOMAIN t = Fields /\ t = [f \in DOMAIN t |-> t[f]]
      /\ t.before = Idle.before /\ t.ends = Idle.ends /\ t.at = "starts" /\ t.kind = "view"
  BY IdleFacts DEF Fields
<1> HIDE DEF t
<1> QED
  BY <1>1, <1>2, IdleFacts DEF RequestOK, Fields

\* Letters only leave, and offsets only grow.
Onward ==
    /\ arrived <= arrived' /\ Letters' \cap (1..arrived) \subseteq Letters
    /\ \A p \in Partitions : start[p] <= start'[p] /\ end[p] <= end'[p]

LEMMA KeepsRequestOK ==
    ASSUME MonitorInv, OffsetsOK', LettersOK', Onward, NEW r, RequestOK(r) PROVE RequestOK(r)'
<1>1. r.kind \in {"purge", "purged"} => PurgeOK(r)'
  <2> SUFFICES ASSUME r.kind \in {"purge", "purged"} PROVE PurgeOK(r)'
    OBVIOUS
  <2>1. PurgeOK(r)
    BY DEF RequestOK
  <2>2. r.before.letters \subseteq 1..arrived'
    BY <2>1 DEF PurgeOK, Onward, MonitorInv, LettersOK
  <2>3. r.at # "purge" /\ "rabbitmq" \notin r.errors =>
           r.before.letters \cap Letters' \subseteq r.held
    BY <2>1 DEF PurgeOK, Onward
  <2>4. r.before.end \in [Partitions -> Nat]
    BY DEF RequestOK, Offsets
  <2>5. \A p \in Partitions : r.before.end[p] <= end'[p]
    BY <2>1, <2>4 DEF PurgeOK, Onward, MonitorInv, OffsetsOK, Offsets
  <2>6. r.kind = "purged" /\ "kafka" \notin r.errors =>
           \A p \in Partitions \ r.refused : start'[p] >= r.before.end[p]
    BY <2>1, <2>4 DEF PurgeOK, Onward, MonitorInv, OffsetsOK, Offsets
  <2> QED
    BY <2>1, <2>2, <2>3, <2>5, <2>6 DEF PurgeOK
<1> QED
  BY <1>1 DEF RequestOK

\* A step that changes no more than one request.
LEMMA KeepsPanels ==
    ASSUME MonitorInv, OffsetsOK', LettersOK', Onward,
           NEW c \in Panels, NEW q, panel' = [panel EXCEPT ![c] = q], RequestOK(q)',
           \A d \in Panels : d # c => peeked'[d] = peeked[d],
           q.at # "requeue" => peeked'[c] = {}
    PROVE  MonitorInv'
<1>1. \A d \in Panels : panel'[d] = IF d = c THEN q ELSE panel[d]
  BY DEF MonitorInv, PanelsOK
<1>2. panel' = [d \in Panels |-> panel'[d]]
  BY DEF MonitorInv, PanelsOK
<1>3. ASSUME NEW d \in Panels PROVE RequestOK(panel[d])'
  <2>1. PICK r : r = panel'[d]
    OBVIOUS
  <2>2. RequestOK(r)'
    BY <1>1, <2>1, KeepsRequestOK DEF MonitorInv, PanelsOK
  <2> QED
    BY <2>1, <2>2 DEF RequestOK, PurgeOK
<1>4. \A d \in Panels : panel'[d].at # "requeue" => peeked'[d] = {}
  BY <1>1 DEF MonitorInv, PanelsOK
<1> QED
  BY <1>2, <1>3, <1>4 DEF MonitorInv, PanelsOK

\* A step that changes no request.
LEMMA KeepsBrokers ==
    ASSUME MonitorInv, OffsetsOK', LettersOK', Onward, UNCHANGED << panel, peeked >>
    PROVE  MonitorInv'
<1>1. ASSUME NEW d \in Panels PROVE RequestOK(panel[d])'
  <2>1. PICK r : r = panel'[d]
    OBVIOUS
  <2>2. RequestOK(r)'
    BY <2>1, KeepsRequestOK DEF MonitorInv, PanelsOK
  <2> QED
    BY <2>1, <2>2 DEF RequestOK, PurgeOK
<1> QED
  BY <1>1 DEF MonitorInv, PanelsOK

\* A step of a request that leaves the brokers alone.
LEMMA KeepsQuiet ==
    ASSUME MonitorInv, UNCHANGED brokerVars, NEW c \in Panels, panel[c].at # "requeue",
           NEW q, panel' = [panel EXCEPT ![c] = q], RequestOK(q)
    PROVE  MonitorInv'
<1> USE DEF brokerVars
<1>1. OffsetsOK' /\ LettersOK'
  BY DEF MonitorInv, OffsetsOK, LettersOK
<1>2. Onward
  BY DEF Onward, Letters, MonitorInv, OffsetsOK, LettersOK, Offsets
<1>3. RequestOK(q)'
  BY <1>1, <1>2, KeepsRequestOK
<1>4. peeked' = peeked /\ peeked[c] = {}
  BY DEF MonitorInv, PanelsOK
<1> QED
  BY <1>1, <1>2, <1>3, <1>4, KeepsPanels

LEMMA KeepsArrive == ASSUME MonitorInv, Arrive PROVE MonitorInv'
<1>1. OffsetsOK' /\ LettersOK'
  BY DEF Arrive, MonitorInv, OffsetsOK, LettersOK
<1>2. Onward
  BY DEF Arrive, Onward, Letters, MonitorInv, OffsetsOK, LettersOK, Offsets
<1> QED
  BY <1>1, <1>2, KeepsBrokers DEF Arrive

LEMMA LettersArrived == MonitorInv => Letters \subseteq 1..arrived /\ Letters \subseteq Nat
<1> SUFFICES ASSUME MonitorInv, NEW l \in Letters PROVE l \in 1..arrived /\ l \in Nat
  OBVIOUS
<1>1. l \in ready \/ \E c \in Panels : l \in peeked[c]
  BY DEF Letters
<1>2. l \in 1..arrived /\ arrived \in Nat
  BY <1>1 DEF MonitorInv, LettersOK
<1> QED
  BY <1>2

LEMMA KeepsTopic ==
    ASSUME MonitorInv, NEW p \in Partitions, AppendRecord(p) \/ Consume(p) \/ Expire(p)
    PROVE  MonitorInv'
<1>1. OffsetsOK' /\ LettersOK'
  <2>1. CASE AppendRecord(p)
    BY <2>1 DEF AppendRecord, MonitorInv, OffsetsOK, LettersOK, Offsets
  <2>2. CASE Consume(p)
    <3>1. Unconsumed[p] + 1 \in Int
      BY DEF Unconsumed, Larger, MonitorInv, OffsetsOK, Offsets
    <3> QED
      BY <2>2, <3>1 DEF Consume, MonitorInv, OffsetsOK, LettersOK, Offsets
  <2>3. CASE Expire(p)
    BY <2>3 DEF Expire, MonitorInv, OffsetsOK, LettersOK, Offsets
  <2> QED
    BY <2>1, <2>2, <2>3
<1>2. Onward
  BY DEF AppendRecord, Consume, Expire, Onward, Letters, MonitorInv, OffsetsOK, LettersOK, Offsets
<1> QED
  BY <1>1, <1>2, KeepsBrokers DEF AppendRecord, Consume, Expire

LEMMA KeepsOpen ==
    ASSUME MonitorInv, NEW c \in Panels, NEW kind \in {"view", "purge", "status"}, Open(c, kind)
    PROVE  MonitorInv'
<1> DEFINE q == [Idle EXCEPT !.kind = kind, !.at = First[kind], !.before = Before(kind)]
<1>1. /\ DOMAIN q = Fields /\ q = [f \in DOMAIN q |-> q[f]]
      /\ q.before = Before(kind) /\ q.ends = Idle.ends /\ q.at = First[kind] /\ q.kind = kind
  BY IdleFacts DEF Fields
<1>2. Before(kind) \in [letters: SUBSET Nat, from: [Partitions -> Int], end: Offsets]
  <2>1. Letters \subseteq Nat
    BY LettersArrived
  <2>2. Unconsumed \in [Partitions -> Int]
    BY DEF Unconsumed, Larger, MonitorInv, OffsetsOK, Offsets
  <2> QED
    BY <2>1, <2>2, IdleFacts DEF Before, MonitorInv, OffsetsOK
<1>3. First[kind] \notin {"delete", "requeue"} /\ (First[kind] = "purge" <=> kind = "purge")
  BY DEF First
<1>4. kind = "purge" => PurgeOK(q)
  <2> SUFFICES ASSUME kind = "purge" PROVE PurgeOK(q)
    OBVIOUS
  <2>1. Before(kind).letters = Letters /\ Before(kind).end = end
    BY IdleFacts DEF Before
  <2>2. Letters \subseteq 1..arrived
    BY LettersArrived
  <2> HIDE DEF q
  <2> QED
    BY <1>1, <1>3, <2>1, <2>2 DEF PurgeOK, MonitorInv, OffsetsOK, Offsets
<1>5. panel' = [panel EXCEPT ![c] = q] /\ UNCHANGED brokerVars /\ panel[c].at = "idle"
  BY DEF Open, Is
<1> HIDE DEF q
<1>6. RequestOK(q)
  BY <1>1, <1>2, <1>3, <1>4, IdleFacts DEF RequestOK
<1>7. PICK r : r = q
  OBVIOUS
<1> QED
  BY <1>5, <1>6, <1>7, KeepsQuiet

LEMMA KeepsRabbitFails ==
    ASSUME MonitorInv, NEW c \in Panels, RabbitFails(c) PROVE MonitorInv'
<1> DEFINE q == [panel[c] EXCEPT !.errors = @ \cup {"rabbitmq"}]
<1>1. /\ panel' = [panel EXCEPT ![c] = Listing(q)]
      /\ UNCHANGED brokerVars /\ panel[c].at \in {"get", "purge"}
  BY DEF RabbitFails, Is
<1>2. RequestOK(panel[c])
  BY DEF MonitorInv, PanelsOK
<1>3. RequestOK(q) /\ q.kind = panel[c].kind /\ q.at = panel[c].at /\ "rabbitmq" \in q.errors
  BY <1>2 DEF RequestOK, PurgeOK, Fields
<1> HIDE DEF q
<1>4. RequestOK(Listing(q))
  <2>1. CASE q.kind # "purge"
    BY <1>3, <2>1, ListingFacts
  <2>2. CASE q.kind = "purge"
    <3> DEFINE r == [q EXCEPT !.at = "starts"]
    <3>1. Listing(q) = r
      BY <2>2 DEF Listing
    <3>2. RequestOK(r)
      BY <1>3, <2>2 DEF RequestOK, PurgeOK, Fields
    <3> QED
      BY <3>1, <3>2
  <2> QED
    BY <2>1, <2>2
<1>5. PICK r : r = Listing(q)
  OBVIOUS
<1> QED
  BY <1>1, <1>4, <1>5, KeepsQuiet

LEMMA KeepsPurgeRabbit ==
    ASSUME MonitorInv, NEW c \in Panels, PurgeRabbit(c) PROVE MonitorInv'
<1> DEFINE q == [panel[c] EXCEPT !.at = "starts", !.held = Letters \ ready]
<1>1. /\ panel' = [panel EXCEPT ![c] = q] /\ panel[c].at = "purge"
      /\ ready' = {} /\ UNCHANGED << arrived, peeked, start, end, committed >>
  BY DEF PurgeRabbit, Is, MonitorInv, PanelsOK
<1>2. OffsetsOK' /\ LettersOK'
  BY <1>1 DEF MonitorInv, OffsetsOK, LettersOK
<1>3. Onward
  BY <1>1 DEF Onward, Letters, MonitorInv, OffsetsOK, LettersOK, Offsets
<1>4. RequestOK(panel[c]) /\ panel[c].kind = "purge" /\ PurgeOK(panel[c])
  BY <1>1 DEF MonitorInv, PanelsOK, RequestOK
<1>5. Letters' \subseteq Letters \ ready
  BY <1>1 DEF Letters, MonitorInv, LettersOK
<1>6. /\ DOMAIN q = Fields /\ q = [f \in DOMAIN q |-> q[f]]
      /\ q.before = panel[c].before /\ q.ends = panel[c].ends /\ q.at = "starts"
      /\ q.kind = "purge" /\ q.held = Letters \ ready
  BY <1>4 DEF RequestOK, Fields
<1> HIDE DEF q
<1>7. PICK r : r = q
  OBVIOUS
<1>8. RequestOK(r)'
  <2>1. PurgeOK(r)'
    BY <1>1, <1>4, <1>5, <1>6, <1>7 DEF PurgeOK
  <2> QED
    BY <1>4, <1>6, <1>7, <2>1 DEF RequestOK
<1>9. peeked[c] = {} /\ peeked' = peeked
  BY <1>1 DEF MonitorInv, PanelsOK
<1> QED
  BY <1>1, <1>2, <1>3, <1>6, <1>7, <1>8, <1>9, KeepsPanels

\* Taking letters and putting them back moves them, and nothing else.
LEMMA GetMoves ==
    ASSUME MonitorInv, NEW c \in Panels, Get(c)
    PROVE  /\ LettersOK' /\ Letters' = Letters
           /\ \A d \in Panels : d # c => peeked'[d] = peeked[d]
<1>1. PICK oldest : /\ oldest \subseteq ready /\ peeked' = [peeked EXCEPT ![c] = oldest]
                    /\ ready' = ready \ oldest /\ arrived' = arrived
  BY DEF Get
<1>2. peeked[c] = {}
  BY DEF Get, Is, MonitorInv, PanelsOK
<1>3. \A d \in Panels : peeked'[d] = IF d = c THEN oldest ELSE peeked[d]
  BY <1>1 DEF MonitorInv, LettersOK
<1>4. LettersOK'
  BY <1>1, <1>3 DEF MonitorInv, LettersOK
<1>5. Letters' = Letters
  <2>1. \A l : l \in Letters <=> l \in ready \/ \E d \in Panels : l \in peeked[d]
    BY DEF Letters
  <2>2. \A l : l \in Letters' <=> l \in ready' \/ \E d \in Panels : l \in peeked'[d]
    BY DEF Letters
  <2>3. \A l : l \in Letters' <=> l \in Letters
    BY <1>1, <1>2, <1>3, <2>1, <2>2
  <2> QED
    BY <2>3
<1> QED
  BY <1>3, <1>4, <1>5

LEMMA RequeueMoves ==
    ASSUME MonitorInv, NEW c \in Panels, Requeue(c)
    PROVE  /\ LettersOK' /\ Letters' = Letters /\ peeked'[c] = {}
           /\ \A d \in Panels : d # c => peeked'[d] = peeked[d]
<1>1. /\ ready' = ready \cup peeked[c] /\ peeked' = [peeked EXCEPT ![c] = {}]
      /\ arrived' = arrived
  BY DEF Requeue
<1>2. \A d \in Panels : peeked'[d] = IF d = c THEN {} ELSE peeked[d]
  BY <1>1 DEF MonitorInv, LettersOK
<1>3. LettersOK'
  BY <1>1, <1>2 DEF MonitorInv, LettersOK
<1>4. Letters' = Letters
  <2>1. \A l : l \in Letters <=> l \in ready \/ \E d \in Panels : l \in peeked[d]
    BY DEF Letters
  <2>2. \A l : l \in Letters' <=> l \in ready' \/ \E d \in Panels : l \in peeked'[d]
    BY DEF Letters
  <2>3. \A l : l \in Letters' <=> l \in Letters
    BY <1>1, <1>2, <2>1, <2>2
  <2> QED
    BY <2>3
<1> QED
  BY <1>2, <1>3, <1>4

LEMMA KeepsGet == ASSUME MonitorInv, NEW c \in Panels, Get(c) PROVE MonitorInv'
<1> DEFINE q == [Listing(panel[c]) EXCEPT !.at = "requeue"]
<1>1. /\ panel' = [panel EXCEPT ![c] = q] /\ panel[c].at = "get"
      /\ UNCHANGED << arrived, start, end, committed >>
  BY DEF Get, Is
<1>2. OffsetsOK'
  BY <1>1 DEF MonitorInv, OffsetsOK
<1>3. Onward
  BY <1>1, GetMoves DEF Onward, MonitorInv, OffsetsOK, LettersOK, Offsets
<1>4. RequestOK(panel[c]) /\ panel[c].kind # "purge"
  BY <1>1 DEF MonitorInv, PanelsOK, RequestOK, PurgeOK
<1>5. RequestOK(Listing(panel[c])) /\ Listing(panel[c]).kind = "view"
  BY <1>4, ListingFacts
<1>6. RequestOK(q) /\ q.at = "requeue"
  BY <1>5 DEF RequestOK, Fields
<1> HIDE DEF q
<1>7. PICK r : r = q
  OBVIOUS
<1>8. RequestOK(r)'
  BY <1>2, <1>3, <1>6, <1>7, GetMoves, KeepsRequestOK
<1> QED
  BY <1>1, <1>2, <1>3, <1>6, <1>7, <1>8, GetMoves, KeepsPanels

LEMMA KeepsRequeue == ASSUME MonitorInv, NEW c \in Panels, Requeue(c) PROVE MonitorInv'
<1> DEFINE q == [panel[c] EXCEPT !.at = "starts"]
<1>1. /\ panel' = [panel EXCEPT ![c] = q] /\ panel[c].at = "requeue"
      /\ UNCHANGED << arrived, start, end, committed >>
  BY DEF Requeue, Is
<1>2. OffsetsOK'
  BY <1>1 DEF MonitorInv, OffsetsOK
<1>3. Onward
  BY <1>1, RequeueMoves DEF Onward, MonitorInv, OffsetsOK, LettersOK, Offsets
<1>4. RequestOK(panel[c]) /\ panel[c].kind \notin {"purge", "purged"}
  BY <1>1 DEF MonitorInv, PanelsOK, RequestOK, PurgeOK
<1>5. RequestOK(q)
  BY <1>4 DEF RequestOK, Fields
<1> HIDE DEF q
<1>6. PICK r : r = q
  OBVIOUS
<1>7. RequestOK(r)'
  BY <1>2, <1>3, <1>5, <1>6, RequeueMoves, KeepsRequestOK
<1> QED
  BY <1>1, <1>2, <1>3, <1>6, <1>7, RequeueMoves, KeepsPanels

LEMMA KeepsKafkaFails == ASSUME MonitorInv, NEW c \in Panels, KafkaFails(c) PROVE MonitorInv'
<1> DEFINE q == [panel[c] EXCEPT !.errors = @ \cup {"kafka"}]
           next == IF q.kind = "purge" THEN Purged(q) ELSE Rendered(q)
<1>1. /\ panel' = [panel EXCEPT ![c] = next] /\ UNCHANGED brokerVars
      /\ panel[c].at \in {"starts", "ends", "commits", "delete"}
  BY DEF KafkaFails
<1>2. RequestOK(panel[c])
  BY DEF MonitorInv, PanelsOK
<1>3. RequestOK(q) /\ q.kind = panel[c].kind /\ q.at = panel[c].at /\ "kafka" \in q.errors
  BY <1>2 DEF RequestOK, PurgeOK, Fields
<1>4. RequestOK(next)
  <2> HIDE DEF q
  <2>1. CASE q.kind = "purge"
    <3>1. PurgeOK(q)
      BY <1>3, <2>1 DEF RequestOK
    <3>2. PurgeOK(Purged(q))
      BY <1>1, <1>3, <3>1, PurgedFacts DEF PurgeOK
    <3> QED
      BY <1>3, <2>1, <3>2, PurgedFacts
  <2>2. CASE q.kind # "purge"
    <3>1. q.kind # "purged"
      BY <1>1, <1>3 DEF RequestOK, PurgeOK
    <3> QED
      BY <1>3, <2>2, <3>1, RenderedFacts
  <2> QED
    BY <2>1, <2>2
<1> HIDE DEF next
<1>5. PICK r : r = next
  OBVIOUS
<1> QED
  BY <1>1, <1>4, <1>5, KeepsQuiet

LEMMA KeepsListStarts == ASSUME MonitorInv, NEW c \in Panels, ListStarts(c) PROVE MonitorInv'
<1>1. PICK failed \in SUBSET Partitions :
         /\ panel[c].at = "starts" /\ UNCHANGED brokerVars
         /\ panel' = [panel EXCEPT ![c] =
              IF @.kind = "purge" THEN [@ EXCEPT !.at = "ends"]
              ELSE [@ EXCEPT !.at = "ends", !.unknown = failed,
                             !.starts = [p \in Partitions |-> IF p \in failed THEN None
                                                              ELSE start[p]]]]
  BY DEF ListStarts, Is
<1> DEFINE starts == [p \in Partitions |-> IF p \in failed THEN None ELSE start[p]]
           q == IF panel[c].kind = "purge" THEN [panel[c] EXCEPT !.at = "ends"]
                ELSE [panel[c] EXCEPT !.at = "ends", !.unknown = failed, !.starts = starts]
<1>2. RequestOK(panel[c]) /\ panel' = [panel EXCEPT ![c] = q]
  BY <1>1 DEF MonitorInv, PanelsOK
<1> HIDE DEF starts
<1>3. RequestOK(q)
  <2>1. CASE panel[c].kind = "purge"
    <3> DEFINE r == [panel[c] EXCEPT !.at = "ends"]
    <3>1. RequestOK(r)
      BY <1>1, <1>2, <2>1 DEF RequestOK, PurgeOK, Fields
    <3> QED
      BY <2>1, <3>1
  <2>2. CASE panel[c].kind # "purge"
    <3> DEFINE r == [panel[c] EXCEPT !.at = "ends", !.unknown = failed, !.starts = starts]
    <3>1. /\ DOMAIN r = Fields /\ r = [f \in DOMAIN r |-> r[f]]
          /\ r.before = panel[c].before /\ r.ends = panel[c].ends
          /\ r.at = "ends" /\ r.kind = panel[c].kind
      BY <1>2 DEF RequestOK, Fields
    <3>2. q = r
      BY <2>2
    <3> HIDE DEF r, q
    <3>3. r.kind \notin {"purge", "purged"}
      BY <1>1, <1>2, <2>2, <3>1 DEF RequestOK, PurgeOK
    <3> QED
      BY <1>2, <3>1, <3>2, <3>3 DEF RequestOK
  <2> QED
    BY <2>1, <2>2
<1> HIDE DEF q
<1>4. PICK r : r = q
  OBVIOUS
<1> QED
  BY <1>1, <1>2, <1>3, <1>4, KeepsQuiet

LEMMA KeepsListEnds == ASSUME MonitorInv, NEW c \in Panels, ListEnds(c) PROVE MonitorInv'
<1> DEFINE q == panel[c]
           from == PeekFrom(q.starts, end)
           expected == RecordCount(from, end)
           listed == [q EXCEPT !.ends = end]
           counted == [q EXCEPT !.count = RecordCount(q.starts, end)]
           reading == [listed EXCEPT !.at = "read", !.pos = from, !.left = expected]
           next == CASE q.kind = "purge" -> [listed EXCEPT !.at = "delete"]
                     [] q.kind = "status" /\ holds = "lag" -> [listed EXCEPT !.at = "commits"]
                     [] q.kind = "status" /\ holds # "lag" -> Rendered(counted)
                     [] OTHER -> IF expected = 0 THEN Rendered(q) ELSE reading
<1>1. panel' = [panel EXCEPT ![c] = next] /\ UNCHANGED brokerVars /\ q.at = "ends"
  BY DEF ListEnds
<1> HIDE DEF from, expected
<1>2. RequestOK(q) /\ q.kind # "purged" /\ end \in Offsets
  BY <1>1 DEF MonitorInv, PanelsOK, OffsetsOK, RequestOK, PurgeOK
<1>3. RequestOK(next)
  <2>1. CASE q.kind = "purge"
    <3> DEFINE r == [listed EXCEPT !.at = "delete"]
    <3>1. next = r
      BY <2>1
    <3>2. /\ DOMAIN r = Fields /\ r = [f \in DOMAIN r |-> r[f]]
          /\ r.before = q.before /\ r.ends = end /\ r.at = "delete" /\ r.kind = "purge"
          /\ r.errors = q.errors /\ r.held = q.held
      BY <1>2, <2>1 DEF RequestOK, Fields
    <3> HIDE DEF r, listed, next
    <3>3. PurgeOK(r)
      BY <1>1, <1>2, <2>1, <3>2 DEF RequestOK, PurgeOK
    <3> QED
      BY <1>2, <3>1, <3>2, <3>3 DEF RequestOK
  <2>2. CASE q.kind = "status" /\ holds = "lag"
    <3> DEFINE r == [listed EXCEPT !.at = "commits"]
    <3>1. next = r
      BY <2>2
    <3>2. RequestOK(r)
      BY <1>2, <2>2 DEF RequestOK, Fields
    <3> QED
      BY <3>1, <3>2
  <2>3. CASE q.kind = "status" /\ holds # "lag"
    <3>1. next = Rendered(counted)
      BY <2>3
    <3>2. RequestOK(counted) /\ counted.kind = "status"
      BY <1>2, <2>3 DEF RequestOK, Fields
    <3> QED
      BY <3>1, <3>2, RenderedFacts
  <2>4. CASE q.kind \notin {"purge", "status"}
    <3>1. next = IF expected = 0 THEN Rendered(q) ELSE reading
      BY <2>4
    <3>2. RequestOK(reading)
      BY <1>2, <2>4 DEF RequestOK, Fields
    <3>3. RequestOK(Rendered(q))
      BY <1>2, <2>4, RenderedFacts
    <3> QED
      BY <3>1, <3>2, <3>3
  <2> QED
    BY <2>1, <2>2, <2>3, <2>4
<1> HIDE DEF next
<1>4. PICK r : r = next
  OBVIOUS
<1> QED
  BY <1>1, <1>3, <1>4, KeepsQuiet

LEMMA KeepsFetchCommits == ASSUME MonitorInv, NEW c \in Panels, FetchCommits(c) PROVE MonitorInv'
<1>1. PICK failed, count :
         /\ panel[c].at = "commits" /\ UNCHANGED brokerVars
         /\ panel' = [panel EXCEPT ![c] =
              Rendered([panel[c] EXCEPT !.count = count, !.unknown = @ \cup failed])]
  BY DEF FetchCommits
<1> DEFINE counted == [panel[c] EXCEPT !.count = count, !.unknown = @ \cup failed]
<1>2. RequestOK(panel[c]) /\ panel[c].kind \notin {"purge", "purged"}
  BY <1>1 DEF MonitorInv, PanelsOK, RequestOK, PurgeOK
<1>3. RequestOK(counted) /\ counted.kind = panel[c].kind
  BY <1>2 DEF RequestOK, Fields
<1>4. panel' = [panel EXCEPT ![c] = Rendered(counted)]
  BY <1>1 DEF MonitorInv, PanelsOK
<1> HIDE DEF counted
<1>5. RequestOK(Rendered(counted))
  BY <1>2, <1>3, RenderedFacts
<1>6. PICK r : r = Rendered(counted)
  OBVIOUS
<1> QED
  BY <1>1, <1>4, <1>5, <1>6, KeepsQuiet

LEMMA KeepsDeleteRecords ==
    ASSUME MonitorInv, NEW c \in Panels, DeleteRecords(c) PROVE MonitorInv'
<1>1. PICK refused \in SUBSET Partitions :
         /\ panel[c].at = "delete"
         /\ start' = [p \in Partitions |-> IF p \in refused THEN start[p]
                                           ELSE Larger(start[p], panel[c].ends[p])]
         /\ panel' = [panel EXCEPT ![c] = Purged([panel[c] EXCEPT !.refused = refused])]
         /\ UNCHANGED << arrived, ready, peeked, end, committed >>
  BY DEF DeleteRecords, Is
<1> DEFINE q == [panel[c] EXCEPT !.refused = refused]
<1>2. RequestOK(panel[c]) /\ panel[c].kind = "purge" /\ PurgeOK(panel[c])
  BY <1>1 DEF MonitorInv, PanelsOK, RequestOK
<1>3. /\ RequestOK(q) /\ q.refused = refused /\ q.at = "delete" /\ q.ends = panel[c].ends
      /\ q.kind = "purge" /\ PurgeOK(q) /\ q.ends \in Offsets /\ q.before.end \in Offsets
  BY <1>1, <1>2 DEF RequestOK, PurgeOK, Fields
<1>4. \A p \in Partitions :
         /\ start'[p] \in Nat /\ start[p] <= start'[p]
         /\ p \notin refused => start'[p] >= q.ends[p]
  BY <1>1, <1>3 DEF Larger, MonitorInv, OffsetsOK, Offsets
<1>5. OffsetsOK' /\ LettersOK'
  BY <1>1, <1>4 DEF MonitorInv, OffsetsOK, LettersOK, Offsets
<1>6. Onward
  BY <1>1, <1>4 DEF Onward, Letters, MonitorInv, OffsetsOK, LettersOK, Offsets
<1> HIDE DEF q
<1>7. PICK u : u = q
  OBVIOUS
<1>8. PICK t : t = Purged(u)
  OBVIOUS
<1>9. RequestOK(u) /\ PurgeOK(u)'
  <2>1. RequestOK(u)'
    BY <1>3, <1>5, <1>6, <1>7, KeepsRequestOK
  <2> QED
    BY <1>3, <1>7, <2>1 DEF RequestOK
<1>10. PurgeOK(t)'
  <2>1. \A p \in Partitions \ u.refused : start'[p] >= u.before.end[p]
    BY <1>3, <1>4, <1>7 DEF PurgeOK, Offsets
  <2> QED
    BY <1>3, <1>7, <1>8, <1>9, <2>1, PurgedFacts DEF PurgeOK
<1>11. RequestOK(t)'
  BY <1>3, <1>7, <1>8, <1>9, <1>10, PurgedFacts DEF RequestOK
<1>12. panel' = [panel EXCEPT ![c] = t] /\ t.at # "requeue"
  BY <1>1, <1>7, <1>8, <1>9, PurgedFacts DEF q
<1>13. peeked[c] = {} /\ peeked' = peeked
  BY <1>1 DEF MonitorInv, PanelsOK
<1> QED
  BY <1>5, <1>6, <1>11, <1>12, <1>13, KeepsPanels

LEMMA KeepsSeek == ASSUME MonitorInv, NEW c \in Panels, Seek(c) PROVE MonitorInv'
<1> DEFINE q == panel[c]
<1>1. /\ q.at = "read" /\ UNCHANGED brokerVars
      /\ \E to : panel' = [panel EXCEPT ![c] = [q EXCEPT !.pos = to]]
  BY DEF Seek, MonitorInv, PanelsOK
<1>2. RequestOK(q) /\ q.kind \notin {"purge", "purged"}
  BY <1>1 DEF MonitorInv, PanelsOK, RequestOK, PurgeOK
<1>3. \A to : RequestOK([q EXCEPT !.pos = to])
  BY <1>2 DEF RequestOK, Fields
<1>4. PICK r : panel' = [panel EXCEPT ![c] = r] /\ RequestOK(r)
  BY <1>1, <1>3
<1> QED
  BY <1>1, <1>4, KeepsQuiet

LEMMA KeepsPoll == ASSUME MonitorInv, NEW c \in Panels, Poll(c) PROVE MonitorInv'
<1> DEFINE q == panel[c]
<1>1. /\ q.at = "read" /\ UNCHANGED brokerVars
      /\ \E to, left : panel' = [panel EXCEPT ![c] = [q EXCEPT !.pos = to, !.left = left]]
                     \/ panel' = [panel EXCEPT ![c] = Rendered(q)]
  BY DEF Poll
<1>2. RequestOK(q) /\ q.kind \notin {"purge", "purged"}
  BY <1>1 DEF MonitorInv, PanelsOK, RequestOK, PurgeOK
<1>3. RequestOK(Rendered(q))
  BY <1>2, RenderedFacts
<1>4. ASSUME NEW to, NEW left PROVE RequestOK([q EXCEPT !.pos = to, !.left = left])
  <2> DEFINE r == [q EXCEPT !.pos = to, !.left = left]
  <2>1. /\ DOMAIN r = Fields /\ r = [f \in DOMAIN r |-> r[f]]
        /\ r.before = q.before /\ r.ends = q.ends /\ r.at = q.at /\ r.kind = q.kind
    BY <1>2 DEF RequestOK, Fields
  <2> HIDE DEF r
  <2>2. RequestOK(r)
    BY <1>2, <2>1 DEF RequestOK
  <2> QED
    BY <2>2 DEF r
<1>5. PICK r : panel' = [panel EXCEPT ![c] = r] /\ RequestOK(r)
  BY <1>1, <1>3, <1>4
<1> QED
  BY <1>1, <1>5, KeepsQuiet

LEMMA KeepsAnswer ==
    ASSUME MonitorInv, NEW c \in Panels, PeekTimeout(c) \/ Render(c) PROVE MonitorInv'
<1>1. panel[c].at \in {"read", "rendered"} /\ UNCHANGED brokerVars
  BY DEF PeekTimeout, Render, Is
<1>2. RequestOK(panel[c]) /\ panel[c].kind \notin {"purge", "purged"}
  BY <1>1 DEF MonitorInv, PanelsOK, RequestOK, PurgeOK
<1>3. RequestOK(Rendered(panel[c])) /\ RequestOK(Idle)
  BY <1>2, RenderedFacts, IdleFacts DEF RequestOK
<1>4. PICK r : panel' = [panel EXCEPT ![c] = r] /\ RequestOK(r)
  BY <1>3 DEF PeekTimeout, Render
<1> QED
  BY <1>1, <1>4, KeepsQuiet

LEMMA NextMonitor == MonitorInv /\ [DevNext]_devVars => MonitorInv'
<1> SUFFICES ASSUME MonitorInv, [DevNext]_devVars PROVE MonitorInv'
  OBVIOUS
<1>1. CASE UNCHANGED monitorVars
  <2>1. UNCHANGED << arrived, ready, peeked, start, end, committed, panel >>
    BY <1>1 DEF monitorVars, brokerVars
  <2>2. OffsetsOK' /\ LettersOK'
    BY <2>1 DEF MonitorInv, OffsetsOK, LettersOK
  <2>3. Onward
    BY <2>1 DEF Onward, Letters, MonitorInv, OffsetsOK, LettersOK, Offsets
  <2> QED
    BY <2>1, <2>2, <2>3, KeepsBrokers
<1>2. ASSUME NEW c \in Panels, Request(c) PROVE MonitorInv'
  BY <1>2, KeepsRabbitFails, KeepsPurgeRabbit, KeepsGet, KeepsRequeue, KeepsKafkaFails,
     KeepsListStarts, KeepsListEnds, KeepsFetchCommits, KeepsDeleteRecords, KeepsSeek, KeepsPoll,
     KeepsAnswer
  DEF Request
<1>3. CASE MonitorNext
  BY <1>2, <1>3, KeepsArrive, KeepsTopic, KeepsOpen DEF MonitorNext
<1> QED
  BY <1>1, <1>3 DEF DevNext, devVars, UsePanel, UseBench

\* What is true of the panels and the brokers they look at, all the time.
LEMMA MonitorInvariant == DevSpec => []MonitorInv
<1>1. DevInit => MonitorInv
  <2> SUFFICES ASSUME DevInit PROVE MonitorInv
    OBVIOUS
  <2> USE DEF DevInit, MonitorInit
  <2>1. OffsetsOK /\ LettersOK
    BY DEF OffsetsOK, Offsets, NoOffsets, None, LettersOK
  <2>2. RequestOK(Idle)
    BY IdleFacts DEF RequestOK
  <2>3. PanelsOK
    BY <2>2 DEF PanelsOK
  <2> QED
    BY <2>1, <2>3 DEF MonitorInv
<1> QED
  BY <1>1, NextMonitor, PTL DEF DevSpec

\* A purge leaves the letters that a view had taken, those of a partition that refused, and those
\* of a broker whose failure it reports (.dev/console/internal/service/console.go:171-174).
THEOREM PurgesLeaveOnlyHeldLetters == DevSpec => []PurgeLeavesOnlyHeldLetters
<1>1. MonitorInv => PurgeLeavesOnlyHeldLetters
  BY DEF MonitorInv, PanelsOK, RequestOK, PurgeOK, PurgeLeavesOnlyHeldLetters
<1> QED
  BY <1>1, MonitorInvariant, PTL

-----------------------------------------------------------------------------
(***************************************************************************)
(* The bench: the scenarios.                                               *)
(***************************************************************************)

Codes == ErrorCodes \cup {NoError}

Emails ==
    [form: Forms, at: {"form", "decode", "post", "write", "reported"} \cup Triggers,
     attempt: Nat, job: Jobs, injected: Seq(Codes), inbox: Nat]

\* The attempts that the channel of an email allows.
Limit(m) == IF m.form.channel = "http" THEN 1 ELSE BenchAttempts

\* The failure that the last attempt met.
Met(m) == m.injected[m.attempt]

\* An email under way: every attempt but the last met a temporary failure.
UnderWayOK(m) ==
    /\ m.attempt \in 1..Limit(m)
    /\ Len(m.injected) = m.attempt
    /\ \A i \in 1..m.attempt - 1 : Retryable(m.injected[i])
    /\ m.job.canRetry <=> m.attempt < Limit(m)

\* A report says what the attempt met; status is what the callback server answers.
ReportOK(m, status) ==
    /\ m.job.code = Met(m)
    /\ m.inbox = IF Met(m) = NoError THEN 1 ELSE 0
    /\ m.job.stage # "send"
    /\ m.job.stage # "outcome" => m.job.action = "none"
    /\ m.job.stage = "notify_success" => Met(m) = NoError /\ m.form.success
    /\ m.job.stage = "notify_failure" =>
          Met(m) # NoError /\ m.form.failure /\ ~(m.job.canRetry /\ Retryable(Met(m)))
    /\ m.job.stage = "outcome" =>
          IF m.job.canRetry /\ Retryable(Met(m)) THEN m.job.action = "retry"
          ELSE m.job.action = IF Met(m) = NoError \/ (m.form.failure /\ status = 204)
                              THEN "done" ELSE "dead_letter"

EmailOK(m, status) ==
    /\ m \in Emails
    /\ m.at = "form" => m.attempt = 0 /\ m.injected = << >>
    /\ m.at # "form" => UnderWayOK(m)
    /\ m.at # "reported" => m.inbox = 0 /\ m.job.action = "none" /\ m.job.code = NoError
    /\ m.at = "reported" => ReportOK(m, status)

\* The callback server has heard of the outcome of this email.
Heard(m, failed) ==
    /\ m.at = "reported" /\ m.job.stage = "outcome" /\ m.job.action # "retry"
    /\ IF failed THEN Met(m) # NoError /\ m.form.failure ELSE Met(m) = NoError /\ m.form.success

\* The events of an email.
HeardOK(e, m, received) ==
    \A failed \in BOOLEAN :
        {ev \in received : ev.email = e /\ ev.failed = failed} =
            IF Heard(m, failed) THEN {[email |-> e, attempt |-> m.attempt, failed |-> failed]}
            ELSE {}

BenchInv ==
    /\ email = [e \in BenchEmails |-> email[e]]
    /\ \A e \in BenchEmails :
          /\ EmailOK(email[e], stack.callbackStatus)
          /\ HeardOK(e, email[e], events)

-----------------------------------------------------------------------------
\* What a step of one email leaves to be shown.
LEMMA KeepsEmails ==
    ASSUME BenchInv, UNCHANGED stack, NEW e \in BenchEmails, NEW q,
           email' = [email EXCEPT ![e] = q],
           EmailOK(q, stack.callbackStatus), HeardOK(e, q, events'),
           \A d \in BenchEmails \ {e} :
               {ev \in events' : ev.email = d} = {ev \in events : ev.email = d}
    PROVE  BenchInv'
<1>1. email' = [d \in BenchEmails |-> email'[d]]
  BY DEF BenchInv
<1>2. \A d \in BenchEmails : email'[d] = IF d = e THEN q ELSE email[d]
  BY DEF BenchInv
<1>3. ASSUME NEW d \in BenchEmails PROVE EmailOK(email[d], stack.callbackStatus)'
  <2>1. PICK r : r = email'[d]
    OBVIOUS
  <2>2. EmailOK(r, stack.callbackStatus)
    BY <1>2, <2>1 DEF BenchInv
  <2> QED
    BY <2>1, <2>2 DEF EmailOK, ReportOK, UnderWayOK, Met, Limit
<1>4. ASSUME NEW d \in BenchEmails PROVE HeardOK(d, email[d], events)'
  <2>1. PICK r, s : r = email'[d] /\ s = events'
    OBVIOUS
  <2>2. HeardOK(d, r, s)
    <3>1. CASE d = e
      BY <1>2, <2>1, <3>1
    <3>2. CASE d # e
      <4>1. \A ev : ev \in s /\ ev.email = d <=> ev \in events /\ ev.email = d
        <5>1. d \in BenchEmails \ {e}
          BY <3>2
        <5>2. {ev \in s : ev.email = d} = {ev \in events : ev.email = d}
          BY <2>1, <5>1
        <5> QED
          BY <5>2
      <4>2. r = email[d] /\ HeardOK(d, r, events)
        BY <1>2, <2>1, <3>2 DEF BenchInv
      <4> QED
        BY <4>1, <4>2 DEF HeardOK
    <3> QED
      BY <3>1, <3>2
  <2> QED
    BY <2>1, <2>2 DEF HeardOK, Heard, Met
<1> QED
  BY <1>1, <1>3, <1>4 DEF BenchInv

\* What each preset of the page makes the Resend sender report is what the page announces.
LEMMA PresetsAreExpected ==
    ASSUME NEW p \in mockPresets
    PROVE  /\ describeAPIError("resend", p.answer, doRequest(p.answer, TRUE)) = p.expected
           /\ p.expected \in ErrorCodes
<1> DEFINE a == p.answer
<1>1. /\ a.readable /\ a.status \in {401, 403, 422, 429, 503}
      /\ p.expected \in APICodes
      /\ p.expected = resendErrorCode(a.status, a.name, a.mention)
  <2>1. CASE p = Preset(429, "rate_limit_exceeded", "nothing", "api_rate_limited")
    BY <2>1 DEF Preset, resendErrorCode, fieldCode, APICodes
  <2>2. CASE p = Preset(503, "service_unavailable", "nothing", "api_provider_unavailable")
    BY <2>2 DEF Preset, resendErrorCode, fieldCode, APICodes
  <2>3. CASE p = Preset(422, "validation_error", "recipient", "api_invalid_receiver")
    BY <2>3 DEF Preset, resendErrorCode, fieldCode, APICodes
  <2>4. CASE p = Preset(403, "validation_error", "nothing", "api_sender_not_allowed")
    BY <2>4 DEF Preset, resendErrorCode, fieldCode, APICodes
  <2>5. CASE p = Preset(401, "validation_error", "nothing", "api_authorization_denied")
    BY <2>5 DEF Preset, resendErrorCode, fieldCode, APICodes
  <2> QED
    BY <2>1, <2>2, <2>3, <2>4, <2>5 DEF mockPresets
<1> HIDE DEF a
<1>2. doRequest(a, TRUE) = "status"
  <2>1. a # NoAnswer /\ IsError(a.status)
    BY <1>1 DEF NoAnswer, IsError
  <2> QED
    BY <2>1 DEF doRequest
<1>3. classify("resend", a) = p.expected
  BY <1>1 DEF classify
<1>4. p.expected # Unclassified
  BY <1>1 DEF APICodes, Unclassified
<1>5. describeAPIError("resend", a, doRequest(a, TRUE)) = p.expected
  BY <1>2, <1>3, <1>4 DEF describeAPIError
<1> QED
  BY <1>1, <1>5 DEF a, ErrorCodes

\* The codes that the session and the body report.
LEMMA StepCodes ==
    /\ "message_invalid_body" \in ErrorCodes
    /\ \A s \in Triggers : \A reply : smtpCode(stepCode[s], reply) \in ErrorCodes
BY DEF ErrorCodes, MessageCodes, SMTPCodes, Triggers, stepCode, smtpCode

\* A new attempt of an email that is not yet sent, or that is to be tried again.
LEMMA AttemptFacts ==
    ASSUME NEW m \in Emails, NEW n \in 1..Limit(m), NEW status,
           n = m.attempt + 1, Len(m.injected) = m.attempt, m.inbox = 0,
           \A i \in 1..m.attempt : Retryable(m.injected[i])
    PROVE  /\ EmailOK(Attempt(m, n), status)
           /\ Attempt(m, n).at \notin {"form", "reported"}
<1> DEFINE more == m.form.channel # "http" /\ n < BenchAttempts
           j == Handle(Build(m.form), n, more)
           at == IF m.form.invalidBody THEN "decode"
                 ELSE IF SideInUse(stack) = "mailpit" THEN "Authentication" ELSE "post"
           q == [m EXCEPT !.attempt = n, !.injected = Append(m.injected, NoError), !.job = j,
                          !.at = at]
<1>1. /\ m.form \in Forms /\ m.attempt \in Nat /\ m.injected \in Seq(Codes) /\ m.inbox \in Nat
      /\ n \in Nat \ {0}
  BY DEF Emails, Limit
<1>2. Build(m.form) \in Requests /\ Build(m.form).json
  BY <1>1 DEF Build, Requests, Forms
<1>3. j \in Jobs /\ j.action = "none" /\ j.code = NoError /\ j.canRetry = more
  <2>1. more \in BOOLEAN
    OBVIOUS
  <2> HIDE DEF more
  <2>2. j = [stage |-> "send", attempt |-> n, canRetry |-> more, code |-> NoError,
             action |-> "none"]
    BY <1>2 DEF Handle
  <2> QED
    BY <1>1, <2>1, <2>2 DEF Jobs, Stages, Actions
<1>4. at \in {"decode", "post", "Authentication"}
  OBVIOUS
<1>5. Attempt(m, n) = q
  BY DEF Attempt
<1>6. Append(m.injected, NoError) \in Seq(Codes)
  BY <1>1 DEF Codes
<1> HIDE DEF j, at
<1>7. /\ q \in Emails
      /\ q.at = at /\ q.job = j /\ q.attempt = n /\ q.form = m.form /\ q.inbox = m.inbox
      /\ q.injected = Append(m.injected, NoError)
  BY <1>1, <1>3, <1>4, <1>6 DEF Emails, Triggers
<1> HIDE DEF q
<1>8. UnderWayOK(q)
  <2>1. Limit(q) = Limit(m) /\ Limit(m) \in Nat
    BY <1>7 DEF Limit
  <2>2. Len(q.injected) = n /\ \A i \in 1..n - 1 : q.injected[i] = m.injected[i]
    BY <1>1, <1>7
  <2>3. more <=> n < Limit(m)
    <3>1. CASE m.form.channel = "http"
      <4>1. Limit(m) = 1
        BY <3>1 DEF Limit
      <4> QED
        BY <1>1, <3>1, <4>1
    <3>2. CASE m.form.channel # "http"
      BY <3>2 DEF Limit
    <3> QED
      BY <3>1, <3>2
  <2>4. q.job.canRetry <=> n < Limit(m)
    <3> HIDE DEF more
    <3> QED
      BY <1>3, <1>7, <2>3
  <2> QED
    BY <1>1, <1>7, <2>1, <2>2, <2>4 DEF UnderWayOK
<1>9. EmailOK(q, status)
  BY <1>3, <1>4, <1>7, <1>8 DEF EmailOK
<1> QED
  BY <1>4, <1>5, <1>7, <1>9

\* The callback server has heard nothing of it.
Unheard(m) == \A failed \in BOOLEAN : ~Heard(m, failed)

\* What the report of the sender makes of an email that is under way: no callback that the form
\* asks for is passed over.
LEMMA SentFacts ==
    ASSUME NEW status, NEW m, EmailOK(m, status), m.at \notin {"form", "reported"},
           NEW err \in Codes, NEW q,
           q = [m EXCEPT !.job = AfterSend(Build(m.form), m.job, err), !.at = "reported",
                         !.injected = [m.injected EXCEPT ![m.attempt] = err],
                         !.inbox = m.inbox + (IF err = NoError THEN 1 ELSE 0)]
    PROVE  EmailOK(q, status) /\ Unheard(q)
<1> DEFINE j == AfterSend(Build(m.form), m.job, err)
           met == [m.injected EXCEPT ![m.attempt] = err]
           inbox == m.inbox + (IF err = NoError THEN 1 ELSE 0)
           t == [m EXCEPT !.job = j, !.at = "reported", !.injected = met, !.inbox = inbox]
<1>1. /\ m \in Emails /\ m.form \in Forms /\ m.attempt \in Nat /\ m.job \in Jobs
      /\ m.injected \in Seq(Codes) /\ m.inbox = 0 /\ m.job.action = "none"
      /\ m.job.code = NoError /\ UnderWayOK(m)
  BY DEF EmailOK, Emails
<1>2. Build(m.form) \in Requests /\ Build(m.form).json
      /\ Build(m.form).success = m.form.success /\ Build(m.form).failure = m.form.failure
  BY <1>1 DEF Build, Requests, Forms
<1>3. /\ met \in Seq(Codes) /\ Len(met) = m.attempt /\ met[m.attempt] = err
      /\ \A i \in 1..m.attempt - 1 : met[i] = m.injected[i]
  BY <1>1 DEF UnderWayOK
<1>4. inbox = IF err = NoError THEN 1 ELSE 0
  BY <1>1
<1>5. /\ j \in Jobs /\ j.stage # "send" /\ j.canRetry = m.job.canRetry /\ j.code = err
      /\ j.stage # "outcome" => j.action = "none"
      /\ (j.stage = "notify_success") <=> (err = NoError /\ m.form.success)
      /\ (j.stage = "notify_failure") <=>
            (err # NoError /\ m.form.failure /\ ~(m.job.canRetry /\ Retryable(err)))
      /\ j.stage = "outcome" =>
            j.action = IF m.job.canRetry /\ Retryable(err) THEN "retry"
                       ELSE IF err = NoError THEN "done" ELSE "dead_letter"
  <2>1. /\ j \in Jobs /\ j.stage # "send" /\ j.canRetry = m.job.canRetry
        /\ j.stage # "outcome" => j.action = "none"
    BY <1>1, <1>2, AfterSendFacts, SendKeeps DEF Codes
  <2>2. ~Retryable(NoError)
    BY DEF Retryable, NoError
  <2>3. CASE err # NoError /\ m.job.canRetry /\ Retryable(err)
    <3>1. j = Outcome([m.job EXCEPT !.code = err], "retry")
      BY <2>3 DEF AfterSend, handleFailure
    <3>2. j.code = err /\ j.stage = "outcome" /\ j.action = "retry"
      BY <1>1, <3>1 DEF Outcome, Jobs
    <3> QED
      BY <2>1, <2>3, <3>2
  <2>4. CASE err # NoError /\ ~(m.job.canRetry /\ Retryable(err)) /\ m.form.failure
    <3>1. j = [[m.job EXCEPT !.code = err] EXCEPT !.stage = "notify_failure"]
      BY <1>2, <2>4 DEF AfterSend, handleFailure
    <3>2. j.code = err /\ j.stage = "notify_failure"
      BY <1>1, <3>1 DEF Jobs
    <3> QED
      BY <2>1, <2>4, <3>2
  <2>5. CASE err # NoError /\ ~(m.job.canRetry /\ Retryable(err)) /\ ~m.form.failure
    <3>1. j = Outcome([m.job EXCEPT !.code = err], "dead_letter")
      BY <1>2, <2>5 DEF AfterSend, handleFailure
    <3>2. j.code = err /\ j.stage = "outcome" /\ j.action = "dead_letter"
      BY <1>1, <3>1 DEF Outcome, Jobs
    <3> QED
      BY <2>1, <2>5, <3>2
  <2>6. CASE err = NoError /\ m.form.success
    <3>1. j = [m.job EXCEPT !.stage = "notify_success"]
      BY <1>2, <2>6 DEF AfterSend
    <3>2. j.code = NoError /\ j.stage = "notify_success"
      BY <1>1, <3>1 DEF Jobs
    <3> QED
      BY <2>1, <2>6, <3>2
  <2>7. CASE err = NoError /\ ~m.form.success
    <3>1. j = Outcome(m.job, "done")
      BY <1>2, <2>7 DEF AfterSend
    <3>2. j.code = NoError /\ j.stage = "outcome" /\ j.action = "done"
      BY <1>1, <3>1 DEF Outcome, Jobs
    <3> QED
      BY <2>1, <2>2, <2>7, <3>2
  <2> QED
    BY <2>3, <2>4, <2>5, <2>6, <2>7
<1> HIDE DEF j, met, inbox
<1>6. /\ q \in Emails /\ q.at = "reported" /\ q.job = j /\ q.attempt = m.attempt
      /\ q.form = m.form /\ q.inbox = inbox /\ q.injected = met
  <2>1. q = t
    BY DEF j, met, inbox
  <2>2. /\ t \in Emails /\ t.at = "reported" /\ t.job = j /\ t.attempt = m.attempt
        /\ t.form = m.form /\ t.inbox = inbox /\ t.injected = met
    BY <1>1, <1>3, <1>4, <1>5 DEF Emails
  <2> HIDE DEF t
  <2> QED
    BY <2>1, <2>2
<1>7. UnderWayOK(q)
  <2>1. Limit(q) = Limit(m)
    BY <1>6 DEF Limit
  <2> QED
    BY <1>1, <1>3, <1>5, <1>6, <2>1 DEF UnderWayOK
<1>8. Met(q) = err
  BY <1>3, <1>6 DEF Met
<1>9. Unheard(q)
  BY <1>5, <1>6, <1>8 DEF Heard, Unheard
<1>10. ReportOK(q, status)
  <2>1. ~Retryable(NoError)
    BY DEF Retryable, NoError
  <2> QED
    BY <1>4, <1>5, <1>6, <1>8, <2>1 DEF ReportOK
<1>11. EmailOK(q, status)
  BY <1>6, <1>7, <1>10 DEF EmailOK
<1> QED
  BY <1>9, <1>11

\* An email of which nobody was told anything, before and after.
LEMMA NothingHeard ==
    ASSUME BenchInv, NEW e \in BenchEmails, NEW q, UNCHANGED << stack, events >>,
           Unheard(email[e]), Unheard(q),
           EmailOK(q, stack.callbackStatus), email' = [email EXCEPT ![e] = q]
    PROVE  BenchInv'
<1>1. HeardOK(e, email[e], events)
  BY DEF BenchInv
<1>2. HeardOK(e, q, events')
  BY <1>1 DEF HeardOK, Unheard
<1> QED
  BY <1>2, KeepsEmails

\* The sender of an email that is under way returns.
LEMMA KeepsSent ==
    ASSUME BenchInv, NEW e \in BenchEmails, email[e].at \notin {"form", "reported"},
           NEW err \in Codes, Sent(e, err, err), UNCHANGED << stack, events >>
    PROVE  BenchInv'
<1>1. PICK m : m = email[e]
  OBVIOUS
<1>2. PICK status : status = stack.callbackStatus
  OBVIOUS
<1>3. PICK q : q = [m EXCEPT !.job = AfterSend(Build(m.form), m.job, err), !.at = "reported",
                              !.injected = [m.injected EXCEPT ![m.attempt] = err],
                              !.inbox = m.inbox + (IF err = NoError THEN 1 ELSE 0)]
  OBVIOUS
<1>4. EmailOK(m, status)
  BY <1>1, <1>2 DEF BenchInv, EmailOK, ReportOK
<1>5. EmailOK(q, status) /\ Unheard(q)
  BY <1>1, <1>3, <1>4, SentFacts
<1>6. email' = [email EXCEPT ![e] = q]
  BY <1>1, <1>3 DEF Sent, RequestOfForm
<1>7. EmailOK(q, stack.callbackStatus)
  BY <1>2, <1>5 DEF EmailOK, ReportOK
<1>8. Unheard(email[e])
  BY DEF Heard, Unheard
<1> QED
  BY <1>5, <1>6, <1>7, <1>8, NothingHeard

\* The call of a sender under way, whatever the failures are at that moment.
LEMMA KeepsDelivery ==
    ASSUME BenchInv, MockOK, NEW e \in BenchEmails, Decode(e) \/ Command(e) \/ Write(e) \/ Post(e)
    PROVE  BenchInv'
<1>1. email[e].at \notin {"form", "reported"} /\ UNCHANGED << stack, events >>
  BY DEF Decode, Command, Write, Post, Triggers, failureVars
<1>2. NoError \in Codes
  BY DEF Codes
<1>3. CASE Decode(e)
  BY <1>1, <1>3, StepCodes, KeepsSent DEF Decode, Codes
<1>4. CASE Write(e)
  BY <1>1, <1>2, <1>4, KeepsSent DEF Write
<1>5. CASE Command(e)
  <2> DEFINE at == email[e].at
             err == smtpCode(stepCode[at], chaos[at])
  <2>1. CASE chaos[at] = "off"
    <3>1. PICK q : q = [email[e] EXCEPT !.at = nextStep[at]]
      OBVIOUS
    <3>2. email' = [email EXCEPT ![e] = q]
      BY <1>5, <2>1, <3>1 DEF Command, BenchInv
    <3>3. /\ at \in Triggers /\ nextStep[at] \in {"write"} \cup Triggers
          /\ EmailOK(email[e], stack.callbackStatus)
      BY <1>5 DEF Command, nextStep, Triggers, BenchInv
    <3>4. EmailOK(q, stack.callbackStatus)
      BY <3>1, <3>3 DEF EmailOK, Emails, UnderWayOK, Limit, Triggers
    <3>5. Unheard(email[e]) /\ Unheard(q)
      BY <1>1, <3>1, <3>3 DEF Heard, Unheard, Triggers, EmailOK, Emails
    <3> QED
      BY <1>1, <3>2, <3>4, <3>5, NothingHeard
  <2>2. CASE chaos[at] # "off"
    <3>1. err = IF chaos[at] = "4xx" THEN "smtp_temporary_failure" ELSE stepCode[at]
      BY DEF smtpCode
    <3>2. PICK code : code = err
      OBVIOUS
    <3>3. Sent(e, code, code)
      BY <1>5, <2>2, <3>1, <3>2 DEF Command
    <3>4. code \in Codes
      BY <1>5, <3>2, StepCodes DEF Command, Codes
    <3> QED
      BY <1>1, <3>3, <3>4, KeepsSent
  <2> QED
    BY <2>1, <2>2
<1>6. CASE Post(e)
  <2>1. CASE mock.failNext > 0
    <3>1. PICK code : code = mock.preset.expected
      OBVIOUS
    <3>2. /\ describeAPIError("resend", mock.preset.answer,
                              doRequest(mock.preset.answer, TRUE)) = code
          /\ code \in Codes
      BY <3>1, PresetsAreExpected DEF MockOK, Codes
    <3>3. Sent(e, code, code)
      BY <1>6, <2>1, <3>1, <3>2 DEF Post
    <3> QED
      BY <1>1, <3>2, <3>3, KeepsSent
  <2>2. CASE ~(mock.failNext > 0)
    BY <1>1, <1>2, <1>6, <2>2, KeepsSent DEF Post
  <2> QED
    BY <2>1, <2>2
<1> QED
  BY <1>3, <1>4, <1>5, <1>6

\* The event of an email, and what its answer makes of the request.
LEMMA KeepsNotify ==
    ASSUME BenchInv, NEW e \in BenchEmails, Notify(e) PROVE BenchInv'
<1>1. PICK m, status : m = email[e] /\ status = stack.callbackStatus
  OBVIOUS
<1>2. PICK failed \in BOOLEAN : failed <=> m.job.stage = "notify_failure"
  OBVIOUS
<1> DEFINE action == IF failed /\ status # 204 THEN "dead_letter" ELSE "done"
           j == [m.job EXCEPT !.stage = "outcome", !.action = action]
<1>3. PICK q : q = [m EXCEPT !.job = j]
  OBVIOUS
<1>4. /\ m.at = "reported" /\ m.job.stage \in {"notify_success", "notify_failure"}
      /\ UNCHANGED stack
  BY <1>1 DEF Notify
<1>5. EmailOK(m, status) /\ m \in Emails /\ m.job \in Jobs
  BY <1>1 DEF BenchInv, EmailOK, ReportOK, Emails
<1>6. events' = events \cup {[email |-> e, attempt |-> m.attempt, failed |-> failed]}
  BY <1>1, <1>2 DEF Notify
<1>7. email' = [email EXCEPT ![e] = q]
  <2>1. CASE failed
    <3>1. email' = [email EXCEPT ![e].job = AfterNotifyFailure(m.job, status = 204)]
      BY <1>1, <1>2, <2>1 DEF Notify
    <3>2. AfterNotifyFailure(m.job, status = 204) = j
      BY <2>1 DEF AfterNotifyFailure, Outcome
    <3> QED
      BY <1>1, <1>3, <3>1, <3>2 DEF BenchInv
  <2>2. CASE ~failed
    <3>1. email' = [email EXCEPT ![e].job = AfterNotifySuccess(m.job)]
      BY <1>1, <1>2, <2>2 DEF Notify
    <3>2. AfterNotifySuccess(m.job) = j
      BY <2>2 DEF AfterNotifySuccess, Outcome
    <3> QED
      BY <1>1, <1>3, <3>1, <3>2 DEF BenchInv
  <2> QED
    BY <2>1, <2>2
<1>8. /\ j \in Jobs /\ j.stage = "outcome" /\ j.action = action /\ j.code = m.job.code
      /\ j.canRetry = m.job.canRetry
  BY <1>5 DEF Jobs, Stages, Actions
<1> HIDE DEF j
<1>9. /\ q \in Emails /\ q.job = j /\ q.at = "reported" /\ q.attempt = m.attempt
      /\ q.form = m.form /\ q.injected = m.injected /\ q.inbox = m.inbox
  BY <1>3, <1>4, <1>5, <1>8 DEF Emails
<1>10. Met(q) = Met(m) /\ ~Retryable(NoError)
  BY <1>9 DEF Met, Retryable, NoError
<1>11. EmailOK(q, status)
  <2>1. UnderWayOK(q)
    BY <1>4, <1>5, <1>8, <1>9 DEF EmailOK, UnderWayOK, Limit
  <2>2. ReportOK(m, status)
    BY <1>4, <1>5 DEF EmailOK
  <2>3. ReportOK(q, status)
    BY <1>2, <1>4, <1>8, <1>9, <1>10, <2>2 DEF ReportOK
  <2> QED
    BY <1>9, <2>1, <2>3 DEF EmailOK
<1>12. EmailOK(q, stack.callbackStatus)
  BY <1>1, <1>11 DEF EmailOK, ReportOK
<1>13. HeardOK(e, q, events')
  <2>1. Unheard(m)
    BY <1>4 DEF Heard, Unheard
  <2>2. \A f \in BOOLEAN : {ev \in events : ev.email = e /\ ev.failed = f} = {}
    BY <1>1, <2>1 DEF BenchInv, HeardOK, Unheard
  <2>3. \A f \in BOOLEAN : Heard(q, f) <=> (f <=> failed)
    <3>1. ReportOK(m, status)
      BY <1>4, <1>5 DEF EmailOK
    <3> QED
      BY <1>2, <1>4, <1>8, <1>9, <1>10, <3>1 DEF Heard, ReportOK
  <2>4. ASSUME NEW f \in BOOLEAN
        PROVE  {ev \in events' : ev.email = e /\ ev.failed = f} =
                   IF f <=> failed THEN {[email |-> e, attempt |-> m.attempt, failed |-> f]}
                   ELSE {}
    BY <1>6, <2>2
  <2> QED
    BY <1>9, <2>3, <2>4 DEF HeardOK
<1>14. \A d \in BenchEmails \ {e} :
          {ev \in events' : ev.email = d} = {ev \in events : ev.email = d}
  BY <1>6
<1> QED
  BY <1>4, <1>7, <1>12, <1>13, <1>14, KeepsEmails

\* An attempt begins: the first, of an email that is sent from the page, or the next after a
\* temporary failure.
LEMMA KeepsAttempt ==
    ASSUME BenchInv, NEW e \in BenchEmails,
           Redeliver(e) \/ \E form \in BenchForms : Send(e, form)
    PROVE  BenchInv'
<1>1. PICK m, status : m = email[e] /\ status = stack.callbackStatus
  OBVIOUS
<1>2. EmailOK(m, status) /\ m \in Emails /\ UNCHANGED << stack, events >>
  BY <1>1 DEF BenchInv, EmailOK, ReportOK, Redeliver, Send, failureVars
<1> DEFINE Begins(k, n) ==
             /\ n = k.attempt + 1 /\ Len(k.injected) = k.attempt /\ k.inbox = 0
             /\ \A i \in 1..k.attempt : Retryable(k.injected[i])
             /\ email' = [email EXCEPT ![e] = Attempt(k, n)]
             /\ Unheard(m)
<1>3. \E k \in Emails : \E n \in 1..Limit(k) : Begins(k, n)
  <2>1. ASSUME NEW form \in BenchForms, Send(e, form)
        PROVE  \E k \in Emails : \E n \in 1..Limit(k) : Begins(k, n)
    <3> DEFINE k == [m EXCEPT !.form = form]
    <3>1. m.at = "form" /\ m.attempt = 0 /\ m.injected = << >> /\ m.inbox = 0
      BY <1>1, <1>2, <2>1 DEF Send, EmailOK
    <3>2. email' = [email EXCEPT ![e] = Attempt(k, 1)]
      BY <1>1, <2>1 DEF Send
    <3>3. k \in Emails /\ k.attempt = 0 /\ k.injected = << >> /\ k.inbox = 0
      BY <1>2, <3>1 DEF Emails
    <3> HIDE DEF k
    <3>4. 1 \in 1..Limit(k)
      BY DEF Limit
    <3>5. Unheard(m)
      BY <3>1 DEF Heard, Unheard
    <3>6. /\ 1 = k.attempt + 1 /\ Len(k.injected) = k.attempt
          /\ \A i \in 1..k.attempt : Retryable(k.injected[i])
      BY <3>3
    <3> QED
      BY <3>2, <3>3, <3>4, <3>5, <3>6
  <2>2. CASE Redeliver(e)
    <3>1. /\ m.at = "reported" /\ m.job.action = "retry"
          /\ email' = [email EXCEPT ![e] = Attempt(m, m.attempt + 1)]
      BY <1>1, <2>2 DEF Redeliver
    <3>2. UnderWayOK(m) /\ ReportOK(m, status)
      BY <1>2, <3>1 DEF EmailOK
    <3>3. m.job.canRetry /\ Retryable(Met(m)) /\ m.inbox = 0
      BY <3>1, <3>2 DEF ReportOK, Retryable, NoError
    <3>4. /\ m.attempt + 1 \in 1..Limit(m) /\ Len(m.injected) = m.attempt
          /\ \A i \in 1..m.attempt : Retryable(m.injected[i])
      BY <1>2, <3>2, <3>3 DEF UnderWayOK, Met, Limit, Emails
    <3>5. Unheard(m)
      BY <3>1 DEF Heard, Unheard
    <3> QED
      BY <1>2, <3>1, <3>3, <3>4, <3>5
  <2> QED
    BY <2>1, <2>2
<1>9. PICK k \in Emails : \E n \in 1..Limit(k) : Begins(k, n)
  BY <1>3
<1>4. PICK n \in 1..Limit(k) : Begins(k, n)
  BY <1>9
<1>5. PICK q : q = Attempt(k, n)
  OBVIOUS
<1>6. EmailOK(q, status) /\ q.at \notin {"form", "reported"}
  BY <1>4, <1>5, AttemptFacts
<1>7. Unheard(q)
  BY <1>6 DEF Heard, Unheard
<1>8. EmailOK(q, stack.callbackStatus)
  BY <1>1, <1>6 DEF EmailOK, ReportOK
<1> QED
  BY <1>1, <1>2, <1>4, <1>5, <1>7, <1>8, NothingHeard

LEMMA InitBench == BenchInit => BenchInv
<1> SUFFICES ASSUME BenchInit PROVE BenchInv
  OBVIOUS
<1>1. /\ NotSent \in Emails /\ NotSent.at = "form" /\ NotSent.attempt = 0
      /\ NotSent.injected = << >> /\ NotSent.inbox = 0
      /\ NotSent.job.action = "none" /\ NotSent.job.code = NoError
  <2> DEFINE request == Build([invalidBody |-> FALSE, success |-> FALSE, failure |-> FALSE])
             j == Handle(request, 1, FALSE)
  <2>1. request.json
    BY DEF Build
  <2>2. j = [stage |-> "send", attempt |-> 1, canRetry |-> FALSE, code |-> NoError,
             action |-> "none"]
    BY <2>1 DEF Handle
  <2> DEFINE form == [channel |-> "http", invalidBody |-> FALSE, success |-> FALSE,
                      failure |-> FALSE]
  <2>3. NotSent = [form |-> form, at |-> "form", attempt |-> 0, job |-> j, injected |-> << >>,
                   inbox |-> 0]
    BY DEF NotSent
  <2> HIDE DEF j
  <2>4. j \in Jobs
    BY <2>2 DEF Jobs, Stages, Actions
  <2>5. form \in Forms /\ << >> \in Seq(Codes)
    BY DEF Forms
  <2> HIDE DEF form
  <2> QED
    BY <2>2, <2>3, <2>4, <2>5 DEF Emails
<1>2. EmailOK(NotSent, stack.callbackStatus) /\ Unheard(NotSent)
  BY <1>1 DEF EmailOK, Heard, Unheard
<1>3. email = [e \in BenchEmails |-> NotSent] /\ events = {}
  BY DEF BenchInit
<1>4. ASSUME NEW e \in BenchEmails PROVE HeardOK(e, NotSent, events)
  BY <1>2, <1>3 DEF HeardOK, Unheard
<1> QED
  BY <1>2, <1>3, <1>4 DEF BenchInv

LEMMA BenchInvariant == DevSpec => []BenchInv
<1>1. DevInit => BenchInv
  BY InitBench DEF DevInit
<1>2. BenchInv /\ ResetInv /\ [DevNext]_devVars => BenchInv'
  <2> SUFFICES ASSUME BenchInv, ResetInv, [DevNext]_devVars PROVE BenchInv'
    OBVIOUS
  <2>1. CASE UNCHANGED << stack, email, events >>
    BY <2>1 DEF BenchInv, EmailOK, ReportOK, UnderWayOK, Met, Limit, HeardOK, Heard
  <2>2. CASE ChangeFailures
    <3>1. UNCHANGED << stack, email, events >>
      BY <2>2 DEF ChangeFailures, SetSMTPChaos, ConfigureMockAPI, ResetBegins, ResetReads,
                  ResetWrites, ResetMock, Change
    <3> QED
      BY <2>1, <3>1
  <2>3. ASSUME NEW e \in BenchEmails, Deliver(e) \/ \E form \in BenchForms : Send(e, form)
        PROVE  BenchInv'
    BY <2>3, KeepsDelivery, KeepsNotify, KeepsAttempt DEF Deliver, ResetInv
  <2>4. CASE UNCHANGED benchVars
    BY <2>1, <2>4 DEF benchVars, failureVars
  <2> QED
    BY <2>2, <2>3, <2>4 DEF DevNext, devVars, UsePanel, UseBench, BenchNext
<1> QED
  BY <1>1, <1>2, ResetInvariant, PTL DEF DevSpec

\* Every email ends as the table of .dev/README.md says, whoever changes the failures while it is
\* on its way (.dev/console/internal/monitor/chaos.go:62-84, mockapi.go:33-60).
THEOREM ScenariosComeOut == DevSpec => []ScenarioTable
<1>1. BenchInv => ScenarioTable
  <2> SUFFICES ASSUME BenchInv PROVE ScenarioTable
    OBVIOUS
  <2>1. ASSUME NEW e \in BenchEmails, NEW m, m = email[e],
               m.at = "reported", m.job.stage = "outcome", m.job.action # "retry"
        PROVE  LET last == m.injected[m.attempt]
                   ok == last = NoError
               IN  /\ m.job.code = last
                   /\ \A i \in 1..m.attempt - 1 : Retryable(m.injected[i])
                   /\ Retryable(last) =>
                         m.attempt = IF m.form.channel = "http" THEN 1 ELSE BenchAttempts
                   /\ m.inbox = IF ok THEN 1 ELSE 0
                   /\ Cardinality(EventsOf(e, FALSE)) = IF ok /\ m.form.success THEN 1 ELSE 0
                   /\ Cardinality(EventsOf(e, TRUE)) = IF ~ok /\ m.form.failure THEN 1 ELSE 0
                   /\ m.job.action = IF ok \/ (m.form.failure /\ stack.callbackStatus = 204)
                                     THEN "done" ELSE "dead_letter"
    <3>1. /\ m \in Emails /\ UnderWayOK(m) /\ ReportOK(m, stack.callbackStatus)
          /\ HeardOK(e, m, events)
      BY <2>1 DEF BenchInv, EmailOK
    <3>2. /\ m.job.code = Met(m)
          /\ m.inbox = IF Met(m) = NoError THEN 1 ELSE 0
          /\ ~(m.job.canRetry /\ Retryable(Met(m)))
          /\ m.job.action = IF Met(m) = NoError \/ (m.form.failure /\ stack.callbackStatus = 204)
                            THEN "done" ELSE "dead_letter"
      BY <2>1, <3>1 DEF ReportOK
    <3>3. Retryable(Met(m)) => m.attempt = IF m.form.channel = "http" THEN 1 ELSE BenchAttempts
      BY <3>1, <3>2 DEF UnderWayOK, Limit, Emails
    <3>4. /\ Heard(m, FALSE) <=> Met(m) = NoError /\ m.form.success
          /\ Heard(m, TRUE) <=> Met(m) # NoError /\ m.form.failure
      BY <2>1 DEF Heard
    <3>5. Cardinality(EventsOf(e, FALSE)) = IF Heard(m, FALSE) THEN 1 ELSE 0
      <4> DEFINE ev == [email |-> e, attempt |-> m.attempt, failed |-> FALSE]
      <4>1. EventsOf(e, FALSE) = IF Heard(m, FALSE) THEN {ev} ELSE {}
        BY <3>1 DEF HeardOK, EventsOf
      <4> HIDE DEF ev
      <4> QED
        BY <4>1, FS_Singleton, FS_EmptySet
    <3>6. Cardinality(EventsOf(e, TRUE)) = IF Heard(m, TRUE) THEN 1 ELSE 0
      <4> DEFINE ev == [email |-> e, attempt |-> m.attempt, failed |-> TRUE]
      <4>1. EventsOf(e, TRUE) = IF Heard(m, TRUE) THEN {ev} ELSE {}
        BY <3>1 DEF HeardOK, EventsOf
      <4> HIDE DEF ev
      <4> QED
        BY <4>1, FS_Singleton, FS_EmptySet
    <3> QED
      BY <3>1, <3>2, <3>3, <3>4, <3>5, <3>6 DEF UnderWayOK, Met
  <2> QED
    BY <2>1 DEF ScenarioTable
<1> QED
  BY <1>1, BenchInvariant, PTL

-----------------------------------------------------------------------------
(***************************************************************************)
(* The panel: sums over the partitions.  A sum is taken in the order that  *)
(* CHOOSE gives, which is the same for every summed function, so that no   *)
(* lemma about that order is needed.                                       *)
(***************************************************************************)

\* A set of numbers has a least one.
LEMMA LeastNumber ==
    ASSUME NEW T \in SUBSET Nat, T # {} PROVE \E n \in T : \A m \in T : n <= m
<1>1. PICK n \in T : \A m \in T : ~(<< m, n >> \in OpToRel(<, Nat))
  BY NatLessThanWellFounded, WFMin
<1>2. ASSUME NEW m \in T PROVE n <= m
  <2>1. << m, n >> \in OpToRel(<, Nat) <=> m < n
    <3>1. OpToRel(<, Nat) = {ss \in Nat \X Nat : ss[1] < ss[2]}
      BY DEF OpToRel
    <3> QED
      BY <3>1
  <2>2. ~(m < n)
    BY <1>1, <2>1, Zenon
  <2>3. m \in Nat /\ n \in Nat
    OBVIOUS
  <2> QED
    BY <2>2, <2>3
<1> QED
  BY <1>2

\* g[s] is the sum of f over s, for every set s of partitions.
Sums(g, f) ==
    g = [s \in SUBSET Partitions |->
            IF s = {} THEN 0
            ELSE f[CHOOSE x \in s : TRUE] + g[s \ {CHOOSE x \in s : TRUE}]]

LEMMA TotalIsSum ==
    ASSUME NEW f PROVE Total(f) = (CHOOSE g : Sums(g, f))[Partitions]
  BY DEF Total, MapThenSumSet, MapThenFoldSet, Sums

\* The same for the sets of at most n partitions.
SumsUpTo(g, f, n) ==
    /\ g = [s \in {s \in SUBSET Partitions : Cardinality(s) <= n} |-> g[s]]
    /\ g[{}] = 0
    /\ \A s \in SUBSET Partitions :
          s # {} /\ Cardinality(s) <= n =>
              g[s] = f[CHOOSE x \in s : TRUE] + g[s \ {CHOOSE x \in s : TRUE}]

\* One element less.
LEMMA WithoutOne ==
    ASSUME NEW s \in SUBSET Partitions, s # {},
           NEW x, x = CHOOSE y \in s : TRUE
    PROVE  /\ x \in s /\ s \ {x} \in SUBSET Partitions
           /\ Cardinality(s) \in Nat /\ Cardinality(s \ {x}) \in Nat
           /\ Cardinality(s \ {x}) = Cardinality(s) - 1
<1>1. IsFiniteSet(s)
  BY FS_Subset
<1>2. x \in s
  OBVIOUS
<1> QED
  BY <1>1, <1>2, FS_RemoveElement, FS_CardinalityType

LEMMA SumsExist ==
    ASSUME NEW f, NEW n \in Nat PROVE \E g : SumsUpTo(g, f, n)
<1> DEFINE T == {m \in Nat : ~\E g : SumsUpTo(g, f, m)}
<1> SUFFICES ASSUME T # {} PROVE FALSE
  OBVIOUS
<1>1. PICK m \in T : \A k \in T : m <= k
  BY LeastNumber
<1>2. \A s \in SUBSET Partitions : IsFiniteSet(s) /\ Cardinality(s) \in Nat
  BY FS_Subset, FS_CardinalityType
<1>3. \A s \in SUBSET Partitions : Cardinality(s) = 0 <=> s = {}
  BY <1>2, FS_EmptySet
<1>4. m # 0
  <2> DEFINE g == [s \in {s \in SUBSET Partitions : Cardinality(s) <= 0} |-> 0]
  <2>1. SumsUpTo(g, f, 0)
    BY <1>2, <1>3 DEF SumsUpTo
  <2> QED
    BY <2>1
<1>5. m - 1 \in Nat /\ m - 1 \notin T
  BY <1>1, <1>4
<1>6. PICK g : SumsUpTo(g, f, m - 1)
  BY <1>5
<1> DEFINE h == [s \in {s \in SUBSET Partitions : Cardinality(s) <= m} |->
                    IF Cardinality(s) <= m - 1 THEN g[s]
                    ELSE f[CHOOSE x \in s : TRUE] + g[s \ {CHOOSE x \in s : TRUE}]]
<1>7. ASSUME NEW s \in SUBSET Partitions, s # {}, Cardinality(s) <= m
      PROVE  h[s] = f[CHOOSE x \in s : TRUE] + h[s \ {CHOOSE x \in s : TRUE}]
  <2>1. PICK x : x = CHOOSE y \in s : TRUE
    OBVIOUS
  <2>2. /\ s \ {x} \in SUBSET Partitions /\ Cardinality(s) \in Nat
        /\ Cardinality(s \ {x}) = Cardinality(s) - 1
    BY <1>7, <2>1, WithoutOne
  <2>3. h[s \ {x}] = g[s \ {x}]
    BY <1>7, <2>2
  <2>4. h[s] = f[x] + g[s \ {x}]
    BY <1>6, <1>7, <2>1, <2>2 DEF SumsUpTo
  <2> QED
    BY <2>1, <2>3, <2>4
<1>8. h = [s \in {s \in SUBSET Partitions : Cardinality(s) <= m} |-> h[s]]
  OBVIOUS
<1>9. h[{}] = 0
  BY <1>3, <1>4, <1>5, <1>6 DEF SumsUpTo
<1> HIDE DEF h
<1>10. SumsUpTo(h, f, m)
  BY <1>7, <1>8, <1>9 DEF SumsUpTo
<1> QED
  BY <1>10

LEMMA SumOf ==
    ASSUME NEW f PROVE \E g : Sums(g, f) /\ Total(f) = g[Partitions]
<1>1. Cardinality(Partitions) \in Nat
  BY FS_CardinalityType
<1>2. PICK g : SumsUpTo(g, f, Cardinality(Partitions))
  BY <1>1, SumsExist
<1>3. \A s \in SUBSET Partitions : Cardinality(s) <= Cardinality(Partitions)
  BY FS_Subset
<1>4. {s \in SUBSET Partitions : Cardinality(s) <= Cardinality(Partitions)} = SUBSET Partitions
  BY <1>3
<1>5. g = [s \in SUBSET Partitions |-> g[s]]
  BY <1>2, <1>4 DEF SumsUpTo
<1>6. Sums(g, f)
  <2>1. \A s \in SUBSET Partitions :
           g[s] = IF s = {} THEN 0
                  ELSE f[CHOOSE x \in s : TRUE] + g[s \ {CHOOSE x \in s : TRUE}]
    BY <1>2, <1>3 DEF SumsUpTo
  <2> QED
    BY <1>5, <2>1 DEF Sums
<1>7. Sums(CHOOSE h : Sums(h, f), f)
  BY <1>6
<1> QED
  BY <1>7, TotalIsSum

\* What holds of the sums over the sets smaller by one holds of all sums: if B has a set with s
\* whenever it has none without one element of s, then it has none.
LEMMA NoBadSet ==
    ASSUME NEW B \in SUBSET (SUBSET Partitions), {} \notin B,
           \A s \in B : s # {} => s \ {CHOOSE x \in s : TRUE} \in B
    PROVE  B = {}
<1> SUFFICES ASSUME B # {} PROVE FALSE
  OBVIOUS
<1> DEFINE T == {Cardinality(s) : s \in B}
<1>1. \A s \in SUBSET Partitions : Cardinality(s) \in Nat
  BY FS_Subset, FS_CardinalityType
<1>2. PICK n \in T : \A m \in T : n <= m
  BY <1>1, LeastNumber
<1>3. PICK s \in B : n = Cardinality(s)
  BY <1>2
<1>4. PICK x : x = CHOOSE y \in s : TRUE
  OBVIOUS
<1>5. s # {} /\ s \ {x} \in B
  BY <1>4
<1>6. Cardinality(s \ {x}) = n - 1 /\ n \in Nat
  BY <1>1, <1>3, <1>4, <1>5, WithoutOne
<1> QED
  BY <1>2, <1>5, <1>6

LEMMA TotalMinus ==
    ASSUME NEW f \in [Partitions -> Int], NEW g \in [Partitions -> Int],
           NEW h, h = [p \in Partitions |-> f[p] - g[p]]
    PROVE  Total(f) \in Int /\ Total(g) \in Int /\ Total(h) = Total(f) - Total(g)
<1>1. PICK F : Sums(F, f) /\ Total(f) = F[Partitions]
  BY SumOf
<1>2. PICK G : Sums(G, g) /\ Total(g) = G[Partitions]
  BY SumOf
<1>3. PICK H : Sums(H, h) /\ Total(h) = H[Partitions]
  BY SumOf
<1> DEFINE Good(s) == F[s] \in Int /\ G[s] \in Int /\ H[s] = F[s] - G[s]
           B == {s \in SUBSET Partitions : ~Good(s)}
<1>4. {} \notin B
  BY <1>1, <1>2, <1>3 DEF Sums
<1>5. ASSUME NEW s \in B, s # {} PROVE s \ {CHOOSE x \in s : TRUE} \in B
  <2>1. PICK x : x = CHOOSE y \in s : TRUE
    OBVIOUS
  <2>2. x \in Partitions /\ s \ {x} \in SUBSET Partitions
    BY <1>5, <2>1, WithoutOne
  <2>3. /\ F[s] = f[x] + F[s \ {x}]
        /\ G[s] = g[x] + G[s \ {x}]
        /\ H[s] = h[x] + H[s \ {x}]
    <3>1. F[s] = f[x] + F[s \ {x}]
      BY <1>1, <1>5, <2>1 DEF Sums
    <3>2. G[s] = g[x] + G[s \ {x}]
      BY <1>2, <1>5, <2>1 DEF Sums
    <3>3. H[s] = h[x] + H[s \ {x}]
      BY <1>3, <1>5, <2>1 DEF Sums
    <3> QED
      BY <3>1, <3>2, <3>3
  <2>4. h[x] = f[x] - g[x] /\ f[x] \in Int /\ g[x] \in Int
    BY <2>2
  <2>5. ASSUME Good(s \ {x}) PROVE Good(s)
    BY <2>3, <2>4, <2>5
  <2> HIDE DEF Good
  <2> QED
    BY <2>1, <2>2, <2>5
<1>6. B = {}
  <2> HIDE DEF B
  <2>1. B \in SUBSET (SUBSET Partitions)
    BY DEF B
  <2> QED
    BY <1>4, <1>5, <2>1, NoBadSet
<1>7. Good(Partitions)
  BY <1>6
<1> QED
  BY <1>1, <1>2, <1>3, <1>7

LEMMA TotalNotNegative ==
    ASSUME NEW f \in [Partitions -> Nat] PROVE Total(f) >= 0
<1>1. PICK F : Sums(F, f) /\ Total(f) = F[Partitions]
  BY SumOf
<1> DEFINE Good(s) == F[s] \in Nat
           B == {s \in SUBSET Partitions : ~Good(s)}
<1>2. {} \notin B
  BY <1>1 DEF Sums
<1>3. ASSUME NEW s \in B, s # {} PROVE s \ {CHOOSE x \in s : TRUE} \in B
  <2>1. PICK x : x = CHOOSE y \in s : TRUE
    OBVIOUS
  <2>2. x \in Partitions /\ s \ {x} \in SUBSET Partitions
    BY <1>3, <2>1, WithoutOne
  <2>3. F[s] = f[x] + F[s \ {x}]
    BY <1>1, <1>3, <2>1 DEF Sums
  <2>4. ASSUME Good(s \ {x}) PROVE Good(s)
    BY <2>2, <2>3, <2>4
  <2> HIDE DEF Good
  <2> QED
    BY <2>1, <2>2, <2>4
<1>4. B = {}
  <2> HIDE DEF B
  <2>1. B \in SUBSET (SUBSET Partitions)
    BY DEF B
  <2> QED
    BY <1>2, <1>3, <2>1, NoBadSet
<1>5. Good(Partitions)
  BY <1>4
<1> QED
  BY <1>1, <1>5

\* A sum grows with what is summed.
LEMMA TotalMonotone ==
    ASSUME NEW f \in [Partitions -> Int], NEW g \in [Partitions -> Int],
           \A p \in Partitions : f[p] <= g[p]
    PROVE  Total(f) <= Total(g)
<1>1. PICK h : h = [p \in Partitions |-> g[p] - f[p]]
  OBVIOUS
<1>2. h \in [Partitions -> Nat]
  BY <1>1
<1>3. Total(h) >= 0
  BY <1>2, TotalNotNegative
<1>4. Total(f) \in Int /\ Total(g) \in Int /\ Total(h) = Total(g) - Total(f)
  BY <1>1, TotalMinus
<1> QED
  BY <1>3, <1>4

\* A sum above zero has a part above zero.
LEMMA TotalPositive ==
    ASSUME NEW f \in [Partitions -> Int], Total(f) > 0
    PROVE  \E p \in Partitions : f[p] > 0
<1>1. NoOffsets \in [Partitions -> Int] /\ \A p \in Partitions : NoOffsets[p] = 0
  BY DEF NoOffsets
<1>2. Total(f) \in Int
  BY TotalMinus
<1>3. Total(NoOffsets) = 0
  <2>1. NoOffsets = [p \in Partitions |-> NoOffsets[p] - NoOffsets[p]]
    BY DEF NoOffsets
  <2>2. Total(NoOffsets) \in Int /\ Total(NoOffsets) = Total(NoOffsets) - Total(NoOffsets)
    BY <1>1, <2>1, TotalMinus
  <2> QED
    BY <2>2
<1> SUFFICES ASSUME \A p \in Partitions : f[p] <= 0 PROVE FALSE
  OBVIOUS
<1>4. Total(f) <= Total(NoOffsets)
  BY <1>1, TotalMonotone
<1> QED
  BY <1>2, <1>3, <1>4

-----------------------------------------------------------------------------
(***************************************************************************)
(* The panel: counts and views of the topic.                               *)
(***************************************************************************)

\* What is left of the records before e, when s is the first kept and k committed.
Remaining(e, s, k) == [p \in Partitions |-> Larger(e[p] - Larger(s[p], k[p]), 0)]

Between(s, e) == [p \in Partitions |-> e[p] - s[p]]

NotAfter(s, e) == \A p \in Partitions : s[p] <= e[p]

\* What is answered of each partition: an offset, or None.
Listed == {s \in [Partitions -> Int] : \A p \in Partitions : s[p] >= None}

LEMMA NothingListed == NoOffsets \in Offsets /\ NoOffsets \in Listed
  BY DEF NoOffsets, Offsets, Listed, None

\* The mailer commits only what it consumes, of a topic that it consumes.
TopicOK ==
    /\ NotAfter(start, end) /\ NotAfter(committed, end)
    /\ \A p \in Partitions : committed[p] >= None
    /\ holds # "lag" => \A p \in Partitions : committed[p] = None

\* The offsets a request has listed are those of a moment that is past.
ListedOK(q) ==
    /\ q.starts \in Listed /\ q.pos \in Listed
    /\ q.at = "ends" /\ q.kind # "purge" => NotAfter(q.starts, start)
    /\ q.at \in {"commits", "read"} => NotAfter(q.starts, start) /\ NotAfter(q.starts, q.ends)
    /\ q.at \in {"commits", "delete", "read"} => NotAfter(q.ends, end)
    /\ q.at = "commits" => q.kind = "status" /\ holds = "lag"
    /\ q.at = "read" => q.kind # "status"

\* When a count began is past.
BeforeOK(q) ==
    /\ NotAfter(q.before.from, end) /\ NotAfter(q.before.end, end)
    /\ \A p \in Partitions : q.before.from[p] <= Larger(start[p], committed[p])

\* What a count may begin from: of a partition that came with an error, anywhere.
From(q) == [p \in Partitions |-> IF p \in q.unknown THEN None ELSE q.before.from[p]]

LEMMA FromListed == ASSUME NEW q, RequestOK(q) PROVE From(q) \in [Partitions -> Int]
  BY DEF From, None, RequestOK

CountRight(q) ==
    /\ q.count \in Int
    /\ q.count >= Total(Remaining(q.before.end, start, committed))
    /\ q.count <= Total(Between(From(q), end))

\* What a count has to be at most and at least, at every moment of the request.
StatusOK(q) ==
    /\ BeforeOK(q)
    /\ q.at \in {"ends", "commits"} =>
          \A p \in Partitions \ q.unknown : q.before.from[p] <= Larger(q.starts[p], committed[p])
    /\ q.at = "commits" => NotAfter(q.before.end, q.ends)
    /\ q.at = "rendered" /\ q.errors = {} => CountRight(q)

\* A reader waits for exactly what it has not read, until a purge moves the start.
ReadOK(q) ==
    /\ NotAfter(q.starts, q.pos)
    /\ start = q.starts =>
          /\ \A p \in Partitions : q.starts[p] = q.ends[p] => q.pos[p] = q.ends[p]
          /\ q.left = Total(Between(q.pos, q.ends)) /\ q.left > 0

CountOK(q) ==
    /\ ListedOK(q)
    /\ q.kind = "status" => StatusOK(q)
    /\ q.at = "read" => ReadOK(q)

TopicInv == TopicOK /\ \A c \in Panels : CountOK(panel[c])

\* Fewer records remain as offsets grow, and more lie between offsets that part.
LEMMA RemainingMonotone ==
    ASSUME NEW e \in Offsets, NEW s \in Offsets, NEW k \in [Partitions -> Int],
           NEW e2 \in Offsets, NEW s2 \in Offsets, NEW k2 \in [Partitions -> Int],
           NotAfter(e, e2), NotAfter(s2, s), NotAfter(k2, k)
    PROVE  /\ Total(Remaining(e, s, k)) \in Int /\ Total(Remaining(e2, s2, k2)) \in Int
           /\ Total(Remaining(e, s, k)) <= Total(Remaining(e2, s2, k2))
<1>1. PICK r : r = Remaining(e, s, k)
  OBVIOUS
<1>2. PICK r2 : r2 = Remaining(e2, s2, k2)
  OBVIOUS
<1>3. r \in [Partitions -> Int] /\ r2 \in [Partitions -> Int]
  BY <1>1, <1>2 DEF Remaining, Larger, Offsets
<1>4. \A p \in Partitions : r[p] <= r2[p]
  BY <1>1, <1>2 DEF Remaining, Larger, Offsets, NotAfter
<1> QED
  BY <1>1, <1>2, <1>3, <1>4, TotalMonotone, TotalMinus

LEMMA BetweenMonotone ==
    ASSUME NEW s \in [Partitions -> Int], NEW e \in Offsets,
           NEW s2 \in [Partitions -> Int], NEW e2 \in Offsets, NotAfter(s2, s), NotAfter(e, e2)
    PROVE  /\ Total(Between(s, e)) \in Int /\ Total(Between(s2, e2)) \in Int
           /\ Total(Between(s, e)) <= Total(Between(s2, e2))
<1>1. PICK r : r = Between(s, e)
  OBVIOUS
<1>2. PICK r2 : r2 = Between(s2, e2)
  OBVIOUS
<1>3. r \in [Partitions -> Int] /\ r2 \in [Partitions -> Int]
  BY <1>1, <1>2 DEF Between, Offsets
<1>4. \A p \in Partitions : r[p] <= r2[p]
  BY <1>1, <1>2 DEF Between, Offsets, NotAfter
<1> QED
  BY <1>1, <1>2, <1>3, <1>4, TotalMonotone, TotalMinus

\* Offsets only grow.
Forward ==
    /\ UNCHANGED holds
    /\ NotAfter(start, start') /\ NotAfter(end, end') /\ NotAfter(committed, committed')

LEMMA KeepsListedOK ==
    ASSUME OffsetsOK, OffsetsOK', Forward, NEW r, RequestOK(r), ListedOK(r) PROVE ListedOK(r)'
  BY DEF Forward, ListedOK, NotAfter, OffsetsOK, RequestOK, Offsets, Listed

LEMMA KeepsBeforeOK ==
    ASSUME OffsetsOK, OffsetsOK', Forward, NEW r, RequestOK(r), BeforeOK(r) PROVE BeforeOK(r)'
  BY DEF Forward, BeforeOK, Larger, NotAfter, OffsetsOK, RequestOK, Offsets

LEMMA KeepsCountRight ==
    ASSUME OffsetsOK, OffsetsOK', Forward, NEW r, RequestOK(r), CountRight(r)
    PROVE  CountRight(r)'
<1> DEFINE from == From(r)
<1>1. r.before.end \in Offsets /\ from \in [Partitions -> Int]
  BY FromListed DEF RequestOK
<1> HIDE DEF from
<1>2. NotAfter(r.before.end, r.before.end) /\ NotAfter(from, from)
  BY <1>1 DEF NotAfter, Offsets
<1>3. PICK s, k, e : s = start' /\ k = committed' /\ e = end'
  OBVIOUS
<1>4. /\ Total(Remaining(r.before.end, s, k)) <= Total(Remaining(r.before.end, start, committed))
      /\ Total(Remaining(r.before.end, s, k)) \in Int
      /\ Total(Remaining(r.before.end, start, committed)) \in Int
  BY <1>1, <1>2, <1>3, RemainingMonotone DEF Forward, OffsetsOK
<1>5. /\ Total(Between(from, end)) <= Total(Between(from, e))
      /\ Total(Between(from, e)) \in Int /\ Total(Between(from, end)) \in Int
  BY <1>1, <1>2, <1>3, BetweenMonotone DEF Forward, OffsetsOK
<1>6. /\ r.count \in Int /\ r.count >= Total(Remaining(r.before.end, s, k))
      /\ r.count <= Total(Between(from, e))
  BY <1>4, <1>5 DEF CountRight, from
<1>7. CountRight(r)' <=>
         /\ r.count \in Int /\ r.count >= Total(Remaining(r.before.end, start', committed'))
         /\ r.count <= Total(Between(from, end'))
  BY DEF CountRight, From, from
<1> QED
  BY <1>3, <1>6, <1>7

LEMMA KeepsReadOK ==
    ASSUME OffsetsOK, OffsetsOK', Forward, NEW r, r.at = "read", RequestOK(r), ListedOK(r),
           ReadOK(r)
    PROVE  ReadOK(r)'
<1>1. start' = r.starts => start = r.starts
  BY DEF Forward, ListedOK, NotAfter, OffsetsOK, Offsets, Listed
<1> QED
  BY <1>1 DEF ReadOK, NotAfter

LEMMA KeepsCountOK ==
    ASSUME OffsetsOK, OffsetsOK', Forward, NEW r, RequestOK(r), CountOK(r) PROVE CountOK(r)'
<1>1. ListedOK(r)'
  BY KeepsListedOK DEF CountOK
<1>2. r.kind = "status" => StatusOK(r)'
  <2>1. ASSUME r.kind = "status" PROVE StatusOK(r)'
    <3>1. StatusOK(r)
      BY <2>1 DEF CountOK
    <3>2. BeforeOK(r)'
      BY <3>1, KeepsBeforeOK DEF StatusOK
    <3>3. r.at \in {"ends", "commits"} =>
             \A p \in Partitions \ r.unknown :
                r.before.from[p] <= Larger(r.starts[p], committed'[p])
      BY <3>1 DEF StatusOK, CountOK, ListedOK, RequestOK, Forward, NotAfter, OffsetsOK, Offsets,
                  Listed, Larger
    <3>4. r.at = "rendered" /\ r.errors = {} => CountRight(r)'
      BY <3>1, KeepsCountRight DEF StatusOK
    <3> QED
      BY <3>1, <3>2, <3>3, <3>4 DEF StatusOK, NotAfter
  <2> QED
    BY <2>1
<1>3. r.at = "read" => ReadOK(r)'
  BY KeepsReadOK DEF CountOK
<1> QED
  BY <1>1, <1>2, <1>3 DEF CountOK

\* A step that changes no more than one request.
LEMMA KeepsCounts ==
    ASSUME MonitorInv, OffsetsOK', TopicInv, TopicOK', Forward,
           NEW c \in Panels, NEW q, panel' = [panel EXCEPT ![c] = q], CountOK(q)'
    PROVE  TopicInv'
<1>1. \A d \in Panels : panel'[d] = IF d = c THEN q ELSE panel[d]
  BY DEF MonitorInv, PanelsOK
<1>2. ASSUME NEW d \in Panels PROVE CountOK(panel[d])'
  <2>1. PICK r : r = panel'[d]
    OBVIOUS
  <2>2. CountOK(r)'
    <3>1. CASE d = c
      BY <1>1, <2>1, <3>1
    <3>2. CASE d # c
      BY <1>1, <2>1, <3>2, KeepsCountOK DEF TopicInv, MonitorInv, PanelsOK
    <3> QED
      BY <3>1, <3>2
  <2> QED
    BY <2>1, <2>2 DEF CountOK, ListedOK, StatusOK, BeforeOK, CountRight, ReadOK
<1> QED
  BY <1>2 DEF TopicInv

\* A step that changes no request.
LEMMA KeepsAllCounts ==
    ASSUME MonitorInv, OffsetsOK', TopicInv, TopicOK', Forward, UNCHANGED panel PROVE TopicInv'
<1>1. ASSUME NEW d \in Panels PROVE CountOK(panel[d])'
  <2>1. PICK r : r = panel'[d]
    OBVIOUS
  <2>2. CountOK(r)'
    BY <2>1, KeepsCountOK DEF TopicInv, MonitorInv, PanelsOK
  <2> QED
    BY <2>1, <2>2 DEF CountOK, ListedOK, StatusOK, BeforeOK, CountRight, ReadOK
<1> QED
  BY <1>1 DEF TopicInv

\* A step of a request that leaves the topic alone.
LEMMA KeepsCountsQuiet ==
    ASSUME MonitorInv, TopicInv, UNCHANGED << holds, start, end, committed >>,
           NEW c \in Panels, NEW q, panel' = [panel EXCEPT ![c] = q], CountOK(q)
    PROVE  TopicInv'
<1>1. OffsetsOK' /\ TopicOK'
  BY DEF MonitorInv, OffsetsOK, TopicInv, TopicOK, NotAfter
<1>2. Forward
  BY DEF Forward, NotAfter, MonitorInv, OffsetsOK, Offsets
<1>3. CountOK(q)'
  BY DEF CountOK, ListedOK, StatusOK, BeforeOK, CountRight, ReadOK, NotAfter
<1> QED
  BY <1>1, <1>2, <1>3, KeepsCounts

LEMMA ConsumeFacts ==
    ASSUME MonitorInv, TopicInv, NEW p \in Partitions, Consume(p)
    PROVE  TopicOK' /\ Forward
  BY DEF Consume, Unconsumed, Larger, None, TopicInv, TopicOK, Forward, NotAfter, MonitorInv,
         OffsetsOK, Offsets

LEMMA KeepsCountsTopic ==
    ASSUME MonitorInv, MonitorInv', TopicInv, NEW p \in Partitions,
           AppendRecord(p) \/ Consume(p) \/ Expire(p)
    PROVE  TopicInv'
<1>1. TopicOK' /\ Forward
  <2>1. CASE AppendRecord(p)
    BY <2>1 DEF AppendRecord, TopicInv, TopicOK, Forward, NotAfter, MonitorInv, OffsetsOK, Offsets
  <2>2. CASE Consume(p)
    BY <2>2, ConsumeFacts
  <2>3. CASE Expire(p)
    BY <2>3 DEF Expire, TopicInv, TopicOK, Forward, NotAfter, MonitorInv, OffsetsOK, Offsets
  <2> QED
    BY <2>1, <2>2, <2>3
<1> QED
  BY <1>1, KeepsAllCounts DEF AppendRecord, Consume, Expire, MonitorInv

\* An answer of the kinds that show no count, and of the others when the count is right.
LEMMA RenderedCount ==
    ASSUME NEW q, RequestOK(q),
           q.kind = "status" => BeforeOK(q) /\ (q.errors = {} => CountRight(q))
    PROVE  CountOK(Rendered(q))
<1>1. NoOffsets \in Listed
  BY NothingListed
<1>2. CASE q.kind # "status"
  <2> DEFINE t == [Idle EXCEPT !.kind = q.kind, !.at = "rendered"]
  <2>1. t.kind = q.kind /\ t.at = "rendered" /\ t.starts = NoOffsets /\ t.pos = NoOffsets
    BY DEF Idle
  <2>2. Rendered(q) = t
    BY <1>2 DEF Rendered
  <2> HIDE DEF t
  <2> QED
    BY <1>1, <1>2, <2>1, <2>2 DEF CountOK, ListedOK
<1>3. CASE q.kind = "status"
  <2> DEFINE t == [Idle EXCEPT !.kind = q.kind, !.at = "rendered", !.count = q.count,
                               !.errors = q.errors, !.unknown = q.unknown, !.before = q.before]
  <2>1. /\ t.kind = q.kind /\ t.at = "rendered" /\ t.starts = NoOffsets /\ t.pos = NoOffsets
        /\ t.count = q.count /\ t.errors = q.errors /\ t.before = q.before
        /\ t.unknown = q.unknown
    BY DEF Idle
  <2>2. Rendered(q) = t
    BY <1>3 DEF Rendered
  <2> HIDE DEF t
  <2>3. BeforeOK(t) /\ (t.errors = {} => CountRight(t))
    BY <1>3, <2>1 DEF BeforeOK, CountRight, From
  <2> QED
    BY <1>1, <2>1, <2>2, <2>3 DEF CountOK, ListedOK, StatusOK
<1> QED
  BY <1>2, <1>3

LEMMA KeepsCountsOpen ==
    ASSUME MonitorInv, TopicInv, NEW c \in Panels, NEW kind \in {"view", "purge", "status"},
           Open(c, kind)
    PROVE  TopicInv'
<1> DEFINE q == [Idle EXCEPT !.kind = kind, !.at = First[kind], !.before = Before(kind)]
<1>1. /\ DOMAIN q = Fields /\ q = [f \in DOMAIN q |-> q[f]]
      /\ q.before = Before(kind) /\ q.ends = Idle.ends /\ q.at = First[kind] /\ q.kind = kind
      /\ q.starts = NoOffsets /\ q.pos = NoOffsets /\ q.errors = {}
  BY IdleFacts DEF Fields, Idle
<1>2. panel' = [panel EXCEPT ![c] = q] /\ UNCHANGED << holds, start, end, committed >>
  BY DEF Open, brokerVars
<1> HIDE DEF q
<1>3. NoOffsets \in Listed
  BY NothingListed
<1>4. q.at \notin {"ends", "commits", "delete", "read", "rendered"}
  BY <1>1 DEF First
<1>5. ASSUME kind = "status" PROVE BeforeOK(q)
  <2>1. q.before.from = Unconsumed /\ q.before.end = end
    BY <1>1, <1>5 DEF Before, Idle
  <2> QED
    BY <2>1 DEF BeforeOK, Unconsumed, Larger, NotAfter, TopicInv, TopicOK, MonitorInv, OffsetsOK,
                Offsets
<1>6. CountOK(q)
  BY <1>1, <1>3, <1>4, <1>5 DEF CountOK, ListedOK, StatusOK
<1>7. PICK r : r = q
  OBVIOUS
<1> QED
  BY <1>2, <1>6, <1>7, KeepsCountsQuiet

\* Before the offsets are listed, nothing is claimed but that the request began in the past.
LEMMA EarlyCount ==
    ASSUME NEW q, q.at \notin {"ends", "commits", "delete", "read", "rendered"},
           q.starts \in Listed, q.pos \in Listed, q.kind = "status" => BeforeOK(q)
    PROVE  CountOK(q)
  BY DEF CountOK, ListedOK, StatusOK

LEMMA ListingCount ==
    ASSUME NEW q, RequestOK(q), q.starts \in Listed, q.pos \in Listed
    PROVE  /\ DOMAIN Listing(q) = Fields /\ Listing(q) = [f \in DOMAIN Listing(q) |-> Listing(q)[f]]
           /\ Listing(q).at = "starts" /\ Listing(q).kind # "status"
           /\ Listing(q).starts \in Listed /\ Listing(q).pos \in Listed
<1>1. CASE q.kind = "purge"
  <2> DEFINE r == [q EXCEPT !.at = "starts"]
  <2>1. /\ DOMAIN r = Fields /\ r = [f \in DOMAIN r |-> r[f]]
        /\ r.at = "starts" /\ r.kind = q.kind /\ r.starts = q.starts /\ r.pos = q.pos
    BY DEF RequestOK, Fields
  <2>2. Listing(q) = r
    BY <1>1 DEF Listing
  <2> HIDE DEF r
  <2> QED
    BY <1>1, <2>1, <2>2
<1>2. CASE q.kind # "purge"
  <2> DEFINE r == [Idle EXCEPT !.kind = "view", !.at = "starts"]
  <2>1. /\ DOMAIN r = Fields /\ r = [f \in DOMAIN r |-> r[f]]
        /\ r.at = "starts" /\ r.kind = "view" /\ r.starts = NoOffsets /\ r.pos = NoOffsets
    BY IdleFacts DEF Idle, Fields
  <2>2. Listing(q) = r
    BY <1>2 DEF Listing
  <2>3. NoOffsets \in Listed
    BY NothingListed
  <2> HIDE DEF r
  <2> QED
    BY <2>1, <2>2, <2>3
<1> QED
  BY <1>1, <1>2

\* The request of panel c becomes q, which has not listed the ends yet.
EarlyStep(c, q) ==
    /\ q.at \in {"starts", "requeue"} /\ q.starts \in Listed /\ q.pos \in Listed
    /\ q.kind = "status" => BeforeOK(q)
    /\ panel' = [panel EXCEPT ![c] = q]

\* The steps that ask RabbitMQ.
LEMMA KeepsCountsRabbit ==
    ASSUME MonitorInv, TopicInv, NEW c \in Panels,
           RabbitFails(c) \/ PurgeRabbit(c) \/ Get(c) \/ Requeue(c)
    PROVE  TopicInv'
<1>1. PICK m : m = panel[c]
  OBVIOUS
<1>2. /\ RequestOK(m) /\ CountOK(m) /\ m.starts \in Listed /\ m.pos \in Listed
      /\ m.kind = "status" => BeforeOK(m)
  BY <1>1 DEF MonitorInv, PanelsOK, TopicInv, CountOK, ListedOK, StatusOK
<1>3. UNCHANGED << holds, start, end, committed >>
  BY DEF RabbitFails, PurgeRabbit, Get, Requeue, brokerVars
<1>4. \E q : EarlyStep(c, q)
  <2>1. CASE RabbitFails(c)
    <3> DEFINE n == [m EXCEPT !.errors = @ \cup {"rabbitmq"}]
    <3>1. RequestOK(n) /\ n.starts = m.starts /\ n.pos = m.pos
      BY <1>1, <1>2, <2>1 DEF RabbitFails, Is, RequestOK, PurgeOK, Fields
    <3>2. panel' = [panel EXCEPT ![c] = Listing(n)]
      BY <1>1, <2>1 DEF RabbitFails
    <3> HIDE DEF n
    <3>3. PICK q : q = Listing(n)
      OBVIOUS
    <3>4. EarlyStep(c, q)
      BY <1>2, <3>1, <3>2, <3>3, ListingCount DEF EarlyStep
    <3> QED
      BY <3>4
  <2>2. CASE PurgeRabbit(c)
    <3> DEFINE q == [m EXCEPT !.at = "starts", !.held = Letters \ ready]
    <3>1. panel' = [panel EXCEPT ![c] = q]
      BY <1>1, <2>2 DEF PurgeRabbit, MonitorInv, PanelsOK
    <3>2. /\ q.at = "starts" /\ q.starts = m.starts /\ q.pos = m.pos /\ q.kind = m.kind
          /\ q.before = m.before
      BY <1>2 DEF RequestOK, Fields
    <3> HIDE DEF q
    <3>3. EarlyStep(c, q)
      BY <1>2, <3>1, <3>2 DEF EarlyStep, BeforeOK
    <3> QED
      BY <3>3
  <2>3. CASE Get(c)
    <3>1. PICK n : n = Listing(m)
      OBVIOUS
    <3> DEFINE q == [n EXCEPT !.at = "requeue"]
    <3>2. panel' = [panel EXCEPT ![c] = q]
      BY <1>1, <2>3, <3>1 DEF Get
    <3>3. /\ n.starts \in Listed /\ n.pos \in Listed /\ n.kind # "status" /\ DOMAIN n = Fields
          /\ n = [f \in DOMAIN n |-> n[f]]
      BY <1>2, <3>1, ListingCount
    <3>4. q.at = "requeue" /\ q.starts = n.starts /\ q.pos = n.pos /\ q.kind = n.kind
      BY <3>3 DEF Fields
    <3> HIDE DEF q
    <3>5. EarlyStep(c, q)
      BY <3>2, <3>3, <3>4 DEF EarlyStep
    <3> QED
      BY <3>5
  <2>4. CASE Requeue(c)
    <3> DEFINE q == [m EXCEPT !.at = "starts"]
    <3>1. panel' = [panel EXCEPT ![c] = q]
      BY <1>1, <2>4 DEF Requeue, MonitorInv, PanelsOK
    <3>2. /\ q.at = "starts" /\ q.starts = m.starts /\ q.pos = m.pos /\ q.kind = m.kind
          /\ q.before = m.before
      BY <1>2 DEF RequestOK, Fields
    <3> HIDE DEF q
    <3>3. EarlyStep(c, q)
      BY <1>2, <3>1, <3>2 DEF EarlyStep, BeforeOK
    <3> QED
      BY <3>3
  <2> QED
    BY <2>1, <2>2, <2>3, <2>4
<1>5. PICK q : EarlyStep(c, q)
  BY <1>4
<1>6. CountOK(q)
  BY <1>5, EarlyCount DEF EarlyStep
<1> QED
  BY <1>3, <1>5, <1>6, KeepsCountsQuiet DEF EarlyStep

LEMMA PurgedStarts ==
    ASSUME NEW q
    PROVE  /\ Purged(q).at = "get" /\ Purged(q).kind = "purged"
           /\ Purged(q).starts \in Listed /\ Purged(q).pos \in Listed
<1> DEFINE r == Purged(q)
<1>1. r.at = "get" /\ r.kind = "purged" /\ r.starts = NoOffsets /\ r.pos = NoOffsets
  BY DEF Purged, Idle
<1>2. NoOffsets \in Listed
  BY NothingListed
<1> QED
  BY <1>1, <1>2

\* A broker that does not answer, and the ends of a request.
LEMMA KeepsCountsAnswer ==
    ASSUME MonitorInv, TopicInv, NEW c \in Panels, KafkaFails(c) \/ PeekTimeout(c) \/ Render(c)
    PROVE  TopicInv'
<1>1. PICK m : m = panel[c]
  OBVIOUS
<1>2. /\ RequestOK(m) /\ CountOK(m) /\ m.starts \in Listed /\ m.pos \in Listed
      /\ m.kind = "status" => BeforeOK(m)
      /\ m.at = "read" => m.kind # "status"
  BY <1>1 DEF MonitorInv, PanelsOK, TopicInv, CountOK, ListedOK, StatusOK
<1>3. UNCHANGED << holds, start, end, committed >>
  BY DEF KafkaFails, PeekTimeout, Render, brokerVars
<1> DEFINE Next(q) == panel' = [panel EXCEPT ![c] = q] /\ CountOK(q)
<1>4. \E q : Next(q)
  <2>1. CASE KafkaFails(c)
    <3> DEFINE n == [m EXCEPT !.errors = @ \cup {"kafka"}]
    <3>1. /\ RequestOK(n) /\ n.errors # {} /\ n.kind = m.kind /\ n.before = m.before
      BY <1>1, <1>2, <2>1 DEF KafkaFails, RequestOK, PurgeOK, Fields
    <3>2. panel' = [panel EXCEPT ![c] = IF n.kind = "purge" THEN Purged(n) ELSE Rendered(n)]
      BY <1>1, <2>1 DEF KafkaFails
    <3> HIDE DEF n
    <3>3. CASE n.kind = "purge"
      <4>1. PICK q : q = Purged(n)
        OBVIOUS
      <4>2. CountOK(q)
        BY <4>1, PurgedStarts, EarlyCount
      <4> QED
        BY <3>2, <3>3, <4>1, <4>2
    <3>4. CASE n.kind # "purge"
      <4>1. n.kind = "status" => BeforeOK(n)
        BY <1>2, <3>1 DEF BeforeOK
      <4>2. CountOK(Rendered(n))
        BY <3>1, <4>1, RenderedCount
      <4> QED
        BY <3>2, <3>4, <4>2
    <3> QED
      BY <3>3, <3>4
  <2>2. CASE PeekTimeout(c)
    <3>1. panel' = [panel EXCEPT ![c] = Rendered(m)] /\ m.at = "read"
      BY <1>1, <2>2 DEF PeekTimeout, Is
    <3>2. CountOK(Rendered(m))
      BY <1>2, <3>1, RenderedCount
    <3> QED
      BY <3>1, <3>2
  <2>3. CASE Render(c)
    <3>1. Idle.kind = "none" /\ Idle.at = "idle" /\ Idle.starts \in Listed /\ Idle.pos \in Listed
      BY NothingListed DEF Idle
    <3>2. CountOK(Idle)
      BY <3>1, EarlyCount
    <3> QED
      BY <2>3, <3>2 DEF Render
  <2> QED
    BY <2>1, <2>2, <2>3
<1>5. PICK q : Next(q)
  BY <1>4
<1> QED
  BY <1>3, <1>5, KeepsCountsQuiet

LEMMA KeepsCountsListStarts ==
    ASSUME MonitorInv, TopicInv, NEW c \in Panels, ListStarts(c) PROVE TopicInv'
<1>1. PICK m : m = panel[c]
  OBVIOUS
<1>2. PICK failed \in SUBSET Partitions :
         /\ m.at = "starts" /\ UNCHANGED << holds, start, end, committed >>
         /\ panel' = [panel EXCEPT ![c] =
              IF m.kind = "purge" THEN [m EXCEPT !.at = "ends"]
              ELSE [m EXCEPT !.at = "ends", !.unknown = failed,
                             !.starts = [p \in Partitions |-> IF p \in failed THEN None
                                                              ELSE start[p]]]]
  BY <1>1 DEF ListStarts, Is, MonitorInv, PanelsOK, brokerVars
<1>3. RequestOK(m) /\ ListedOK(m) /\ (m.kind = "status" => BeforeOK(m)) /\ OffsetsOK
  BY <1>1 DEF MonitorInv, PanelsOK, TopicInv, CountOK, StatusOK
<1>4. CASE m.kind = "purge"
  <2>1. PICK q : q = [m EXCEPT !.at = "ends"]
    OBVIOUS
  <2>2. q.at = "ends" /\ q.starts = m.starts /\ q.pos = m.pos /\ q.kind = "purge"
    BY <1>3, <1>4, <2>1 DEF RequestOK, Fields
  <2>3. ListedOK(q)
    BY <1>3, <2>2 DEF ListedOK
  <2>4. CountOK(q) /\ panel' = [panel EXCEPT ![c] = q]
    BY <1>2, <1>4, <2>1, <2>2, <2>3 DEF CountOK
  <2> QED
    BY <1>2, <2>4, KeepsCountsQuiet
<1>5. CASE m.kind # "purge"
  <2>1. PICK starts : starts = [p \in Partitions |-> IF p \in failed THEN None ELSE start[p]]
    OBVIOUS
  <2>2. PICK q : q = [m EXCEPT !.at = "ends", !.unknown = failed, !.starts = starts]
    OBVIOUS
  <2>3. /\ q.at = "ends" /\ q.starts = starts /\ q.pos = m.pos /\ q.kind = m.kind
        /\ q.before = m.before /\ q.unknown = failed
    BY <1>3, <2>2 DEF RequestOK, Fields
  <2>4. starts \in Listed /\ NotAfter(starts, start)
    BY <1>3, <2>1 DEF Listed, None, NotAfter, OffsetsOK, Offsets
  <2>5. \A p \in Partitions \ failed : starts[p] = start[p]
    BY <2>1
  <2>6. ListedOK(q)
    BY <1>3, <2>3, <2>4 DEF ListedOK
  <2>7. q.kind = "status" => StatusOK(q)
    BY <1>3, <2>3, <2>5 DEF StatusOK, BeforeOK
  <2>8. CountOK(q)
    BY <2>3, <2>6, <2>7 DEF CountOK
  <2>9. panel' = [panel EXCEPT ![c] = q]
    BY <1>2, <1>5, <2>1, <2>2
  <2> QED
    BY <1>2, <2>8, <2>9, KeepsCountsQuiet
<1> QED
  BY <1>4, <1>5

\* The records between the listed starts and ends, of a topic without commits.
LEMMA RecordCountRight ==
    ASSUME MonitorInv, TopicInv, NEW c \in Panels, panel[c].at = "ends",
           panel[c].kind = "status", holds # "lag",
           NEW q, q = [panel[c] EXCEPT !.count = RecordCount(panel[c].starts, end)]
    PROVE  RequestOK(q) /\ q.kind = "status" /\ BeforeOK(q) /\ CountRight(q)
<1>1. PICK m : m = panel[c]
  OBVIOUS
<1>2. /\ RequestOK(m) /\ ListedOK(m) /\ StatusOK(m) /\ OffsetsOK /\ TopicOK /\ m.at = "ends"
      /\ m.kind = "status"
  BY <1>1 DEF MonitorInv, PanelsOK, TopicInv, CountOK
<1>3. /\ RequestOK(q) /\ q.kind = "status" /\ q.before = m.before /\ q.at = "ends"
      /\ q.count = RecordCount(m.starts, end) /\ q.unknown = m.unknown
  BY <1>1, <1>2 DEF RequestOK, Fields
<1>4. BeforeOK(q)
  BY <1>2, <1>3 DEF StatusOK, BeforeOK
<1>5. /\ m.starts \in Listed /\ end \in Offsets /\ start \in Offsets
      /\ committed \in [Partitions -> Int] /\ m.before.from \in [Partitions -> Int]
      /\ m.before.end \in Offsets
  BY <1>2 DEF ListedOK, OffsetsOK, RequestOK
<1>6. PICK counted : counted = Between(m.starts, end)
  OBVIOUS
<1>7. PICK left : left = Remaining(m.before.end, start, committed)
  OBVIOUS
<1>8. PICK all : all = Between(From(m), end)
  OBVIOUS
<1>9. \A p \in Partitions :
         /\ counted[p] = end[p] - m.starts[p]
         /\ left[p] = Larger(m.before.end[p] - Larger(start[p], committed[p]), 0)
         /\ all[p] = end[p] - IF p \in m.unknown THEN None ELSE m.before.from[p]
  BY <1>6, <1>7, <1>8 DEF Between, Remaining, From
<1>10. /\ counted \in [Partitions -> Int] /\ left \in [Partitions -> Int]
       /\ all \in [Partitions -> Int]
  BY <1>5, <1>6, <1>7, <1>8 DEF Between, Remaining, From, None, Larger, Offsets, Listed
<1>11. ASSUME NEW p \in Partitions PROVE left[p] <= counted[p] /\ counted[p] <= all[p]
  <2>1. /\ m.starts[p] <= start[p] /\ start[p] <= end[p] /\ m.before.end[p] <= end[p]
        /\ p \notin m.unknown => m.before.from[p] <= Larger(m.starts[p], committed[p])
        /\ committed[p] = None
    BY <1>2 DEF ListedOK, StatusOK, BeforeOK, TopicOK, NotAfter
  <2>2. /\ m.starts[p] \in Int /\ m.starts[p] >= None /\ start[p] \in Nat /\ end[p] \in Nat
        /\ m.before.end[p] \in Nat
        /\ m.before.from[p] \in Int
    BY <1>5 DEF Offsets, Listed
  <2> QED
    BY <1>9, <2>1, <2>2 DEF Larger, None
<1>12. /\ Total(left) <= Total(counted) /\ Total(counted) <= Total(all)
       /\ Total(counted) \in Int /\ Total(left) \in Int /\ Total(all) \in Int
  BY <1>10, <1>11, TotalMonotone, TotalMinus
<1>13. q.count = Total(counted)
  BY <1>3, <1>6 DEF RecordCount, Between
<1> QED
  BY <1>3, <1>4, <1>7, <1>8, <1>12, <1>13 DEF CountRight, From

LEMMA PendingRight ==
    ASSUME MonitorInv, TopicInv, NEW c \in Panels, panel[c].at = "commits",
           NEW failed, NEW commits,
           commits = [p \in Partitions |-> IF p \in failed THEN None ELSE committed[p]],
           NEW q, q = [panel[c] EXCEPT !.count = Pending(panel[c].starts, commits, panel[c].ends),
                                       !.unknown = panel[c].unknown \cup failed]
    PROVE  RequestOK(q) /\ q.kind = "status" /\ BeforeOK(q) /\ CountRight(q)
<1>1. PICK m : m = panel[c]
  OBVIOUS
<1>2. /\ RequestOK(m) /\ ListedOK(m) /\ StatusOK(m) /\ OffsetsOK /\ TopicOK /\ m.at = "commits"
      /\ m.kind = "status"
  BY <1>1 DEF MonitorInv, PanelsOK, TopicInv, CountOK, ListedOK
<1>3. /\ RequestOK(q) /\ q.kind = "status" /\ q.before = m.before /\ q.at = "commits"
      /\ q.count = Pending(m.starts, commits, m.ends) /\ q.unknown = m.unknown \cup failed
  BY <1>1, <1>2 DEF RequestOK, Fields
<1>4. BeforeOK(q)
  BY <1>2, <1>3 DEF StatusOK, BeforeOK
<1>5. /\ m.starts \in Listed /\ end \in Offsets /\ start \in Offsets /\ m.ends \in Offsets
      /\ committed \in [Partitions -> Int] /\ m.before.from \in [Partitions -> Int]
      /\ m.before.end \in Offsets /\ commits \in [Partitions -> Int]
  BY <1>2 DEF ListedOK, OffsetsOK, RequestOK, None
<1>6. PICK counted : counted = Remaining(m.ends, m.starts, commits)
  OBVIOUS
<1>7. PICK left : left = Remaining(m.before.end, start, committed)
  OBVIOUS
<1>8. PICK all : all = Between(From(q), end)
  OBVIOUS
<1>9. \A p \in Partitions :
         /\ counted[p] = Larger(m.ends[p] - Larger(m.starts[p], commits[p]), 0)
         /\ left[p] = Larger(m.before.end[p] - Larger(start[p], committed[p]), 0)
         /\ all[p] = end[p] - IF p \in m.unknown \cup failed THEN None ELSE m.before.from[p]
         /\ commits[p] = IF p \in failed THEN None ELSE committed[p]
  BY <1>3, <1>6, <1>7, <1>8 DEF Between, Remaining, From
<1>10. /\ counted \in [Partitions -> Int] /\ left \in [Partitions -> Int]
       /\ all \in [Partitions -> Int]
  <2>1. counted \in [Partitions -> Int] /\ left \in [Partitions -> Int]
    BY <1>5, <1>6, <1>7 DEF Remaining, Larger, Offsets, Listed
  <2>2. From(q) \in [Partitions -> Int]
    BY <1>3, FromListed
  <2>3. PICK f : f = From(q)
    OBVIOUS
  <2>4. all = [p \in Partitions |-> end[p] - f[p]]
    BY <1>8, <2>3 DEF Between
  <2>5. all \in [Partitions -> Int]
    <3>1. f \in [Partitions -> Int] /\ end \in [Partitions -> Nat]
      BY <1>5, <2>2, <2>3 DEF Offsets
    <3>2. \A p \in Partitions : end[p] - f[p] \in Int
      BY <3>1
    <3> QED
      BY <2>4, <3>2
  <2> QED
    BY <2>1, <2>5
<1>11. ASSUME NEW p \in Partitions PROVE left[p] <= counted[p] /\ counted[p] <= all[p]
  <2>1. /\ m.starts[p] <= start[p] /\ m.ends[p] <= end[p] /\ m.before.end[p] <= m.ends[p]
        /\ p \notin m.unknown => m.before.from[p] <= Larger(m.starts[p], committed[p])
        /\ m.before.from[p] <= end[p] /\ committed[p] >= None
    BY <1>2 DEF ListedOK, StatusOK, BeforeOK, TopicOK, NotAfter
  <2>2. /\ m.starts[p] \in Int /\ m.starts[p] >= None /\ start[p] \in Nat /\ end[p] \in Nat
        /\ m.before.end[p] \in Nat
        /\ m.ends[p] \in Nat /\ m.before.from[p] \in Int /\ committed[p] \in Int
    BY <1>5 DEF Offsets, Listed
  <2>3. counted[p] <= all[p]
    <3>1. CASE p \in m.unknown \cup failed
      BY <1>9, <2>1, <2>2, <3>1 DEF Larger, None
    <3>2. CASE p \notin m.unknown \cup failed
      BY <1>9, <2>1, <2>2, <3>2 DEF Larger, None
    <3> QED
      BY <3>1, <3>2
  <2>4. left[p] <= counted[p]
    BY <1>9, <2>1, <2>2 DEF Larger, None
  <2> QED
    BY <2>3, <2>4
<1>12. /\ Total(left) <= Total(counted) /\ Total(counted) <= Total(all)
       /\ Total(counted) \in Int /\ Total(left) \in Int /\ Total(all) \in Int
  BY <1>10, <1>11, TotalMonotone, TotalMinus
<1>13. q.count = Total(counted)
  BY <1>3, <1>6 DEF Pending, Remaining
<1> QED
  BY <1>3, <1>4, <1>7, <1>8, <1>12, <1>13 DEF CountRight

LEMMA KeepsCountsFetchCommits ==
    ASSUME MonitorInv, TopicInv, NEW c \in Panels, FetchCommits(c) PROVE TopicInv'
<1>1. PICK failed, commits, q :
         /\ commits = [p \in Partitions |-> IF p \in failed THEN None ELSE committed[p]]
         /\ q = [panel[c] EXCEPT !.count = Pending(panel[c].starts, commits, panel[c].ends),
                                 !.unknown = panel[c].unknown \cup failed]
         /\ panel' = [panel EXCEPT ![c] = Rendered(q)] /\ panel[c].at = "commits"
         /\ UNCHANGED << holds, start, end, committed >>
  BY DEF FetchCommits, brokerVars
<1>2. /\ panel' = [panel EXCEPT ![c] = Rendered(q)]
      /\ UNCHANGED << holds, start, end, committed >>
  BY <1>1
<1>3. RequestOK(q) /\ q.kind = "status" /\ BeforeOK(q) /\ CountRight(q)
  BY <1>1, PendingRight
<1>4. CountOK(Rendered(q))
  BY <1>3, RenderedCount
<1>5. PICK r : r = Rendered(q)
  OBVIOUS
<1> QED
  BY <1>2, <1>4, <1>5, KeepsCountsQuiet

\* A view begins to read what lies between where it looks and the end.
LEMMA ReadingBegins ==
    ASSUME MonitorInv, TopicInv, NEW c \in Panels, panel[c].at = "ends",
           panel[c].kind \notin {"purge", "status"},
           NEW from, from = PeekFrom(panel[c].starts, end),
           NEW expected, expected = RecordCount(from, end), expected # 0,
           NEW q, q = [[panel[c] EXCEPT !.ends = end] EXCEPT !.at = "read", !.pos = from,
                                                             !.left = expected]
    PROVE  CountOK(q)
<1>1. PICK m : m = panel[c]
  OBVIOUS
<1>2. /\ RequestOK(m) /\ ListedOK(m) /\ OffsetsOK /\ TopicOK /\ m.at = "ends"
  BY <1>1 DEF MonitorInv, PanelsOK, TopicInv, CountOK
<1>3. /\ q.kind = m.kind /\ q.at = "read" /\ q.starts = m.starts /\ q.ends = end /\ q.pos = from
      /\ q.left = expected
  BY <1>1, <1>2 DEF RequestOK, Fields
<1>4. m.starts \in Listed /\ end \in Offsets /\ NotAfter(m.starts, end)
  BY <1>1, <1>2 DEF ListedOK, OffsetsOK, TopicOK, NotAfter, Offsets, Listed
<1>5. from \in Listed /\ NotAfter(m.starts, from) /\ NotAfter(from, end)
  <2>1. \A p \in Partitions : from[p] = Larger(end[p] - PeekLimit, m.starts[p])
    BY <1>1 DEF PeekFrom
  <2>2. DOMAIN from = Partitions /\ from = [p \in DOMAIN from |-> from[p]]
    BY <1>1 DEF PeekFrom
  <2>3. ASSUME NEW p \in Partitions
        PROVE  from[p] \in Int /\ from[p] >= None /\ m.starts[p] <= from[p] /\ from[p] <= end[p]
    <3>1. /\ m.starts[p] \in Int /\ m.starts[p] >= None /\ end[p] \in Nat
          /\ m.starts[p] <= end[p]
      BY <1>4 DEF Listed, Offsets, NotAfter
    <3>2. PeekLimit \in Nat /\ PeekLimit > 0
      BY MonitorAssumption
    <3> QED
      BY <2>1, <3>1, <3>2 DEF Larger, None
  <2> QED
    BY <2>2, <2>3 DEF Listed, NotAfter
<1>6. \A p \in Partitions : m.starts[p] = end[p] => from[p] = end[p]
  BY <1>4, <1>5 DEF NotAfter, Offsets, Listed
<1>7. expected = Total(Between(from, end)) /\ expected > 0
  <2>1. PICK f : f = Between(from, end)
    OBVIOUS
  <2>2. f \in [Partitions -> Nat] /\ f \in [Partitions -> Int]
    BY <1>4, <1>5, <2>1 DEF Between, NotAfter, Offsets, Listed
  <2>3. Total(f) >= 0 /\ Total(f) \in Int
    BY <2>2, TotalNotNegative, TotalMinus
  <2>4. expected = Total(f)
    BY <2>1 DEF RecordCount, Between
  <2> QED
    BY <2>1, <2>3, <2>4
<1>8. ListedOK(q)
  BY <1>1, <1>2, <1>3, <1>4, <1>5 DEF ListedOK, NotAfter, Offsets, Listed
<1>9. ReadOK(q)
  BY <1>3, <1>5, <1>6, <1>7 DEF ReadOK
<1> QED
  BY <1>1, <1>3, <1>8, <1>9 DEF CountOK

LEMMA KeepsCountsListEnds ==
    ASSUME MonitorInv, TopicInv, NEW c \in Panels, ListEnds(c) PROVE TopicInv'
<1>1. PICK m : m = panel[c]
  OBVIOUS
<1>2. /\ RequestOK(m) /\ CountOK(m) /\ ListedOK(m) /\ OffsetsOK /\ TopicOK /\ m.at = "ends"
      /\ m.kind = "status" => StatusOK(m)
      /\ UNCHANGED << holds, start, end, committed >>
  BY <1>1 DEF MonitorInv, PanelsOK, TopicInv, CountOK, ListEnds, brokerVars
<1>3. /\ m.starts \in Listed /\ end \in Offsets /\ NotAfter(end, end)
      /\ m.kind # "purge" => NotAfter(m.starts, end)
  BY <1>2 DEF ListedOK, OffsetsOK, TopicOK, NotAfter, Offsets, Listed
<1> DEFINE Next(q) == panel' = [panel EXCEPT ![c] = q] /\ CountOK(q)
           listed == [m EXCEPT !.ends = end]
<1>4. \E q : Next(q)
  <2>1. CASE m.kind = "purge"
    <3> DEFINE q == [listed EXCEPT !.at = "delete"]
    <3>1. panel' = [panel EXCEPT ![c] = q]
      BY <1>1, <2>1 DEF ListEnds
    <3>2. /\ q.at = "delete" /\ q.kind = "purge" /\ q.starts = m.starts /\ q.pos = m.pos
          /\ q.ends = end
      BY <1>2, <2>1 DEF RequestOK, Fields
    <3> HIDE DEF q
    <3>3. CountOK(q)
      BY <1>2, <1>3, <3>2 DEF CountOK, ListedOK
    <3> QED
      BY <3>1, <3>3
  <2>2. CASE m.kind = "status" /\ holds = "lag"
    <3> DEFINE q == [listed EXCEPT !.at = "commits"]
    <3>1. panel' = [panel EXCEPT ![c] = q]
      BY <1>1, <2>2 DEF ListEnds
    <3>2. /\ q.at = "commits" /\ q.kind = "status" /\ q.starts = m.starts /\ q.pos = m.pos
          /\ q.ends = end /\ q.before = m.before /\ q.unknown = m.unknown
      BY <1>2, <2>2 DEF RequestOK, Fields
    <3> HIDE DEF q
    <3>3. CountOK(q)
      BY <1>2, <1>3, <2>2, <3>2 DEF CountOK, ListedOK, StatusOK, BeforeOK
    <3> QED
      BY <3>1, <3>3
  <2>3. CASE m.kind = "status" /\ holds # "lag"
    <3>1. PICK q : q = [panel[c] EXCEPT !.count = RecordCount(panel[c].starts, end)]
      OBVIOUS
    <3>2. panel' = [panel EXCEPT ![c] = Rendered(q)]
      BY <1>1, <2>3, <3>1 DEF ListEnds
    <3>3. RequestOK(q) /\ q.kind = "status" /\ BeforeOK(q) /\ CountRight(q)
      BY <1>1, <1>2, <2>3, <3>1, RecordCountRight
    <3>4. CountOK(Rendered(q))
      BY <3>3, RenderedCount
    <3> QED
      BY <3>2, <3>4
  <2>4. CASE m.kind \notin {"purge", "status"}
    <3>1. PICK from : from = PeekFrom(m.starts, end)
      OBVIOUS
    <3>2. PICK expected : expected = RecordCount(from, end)
      OBVIOUS
    <3>3. PICK q : q = [listed EXCEPT !.at = "read", !.pos = from, !.left = expected]
      OBVIOUS
    <3>4. panel' = [panel EXCEPT ![c] = IF expected = 0 THEN Rendered(m) ELSE q]
      BY <1>1, <2>4, <3>1, <3>2, <3>3 DEF ListEnds
    <3>5. expected # 0 => CountOK(q)
      BY <1>1, <1>2, <2>4, <3>1, <3>2, <3>3, ReadingBegins
    <3>6. CountOK(Rendered(m))
      BY <1>2, <2>4, RenderedCount
    <3> QED
      BY <3>4, <3>5, <3>6
  <2> QED
    BY <2>1, <2>2, <2>3, <2>4
<1>5. PICK q : Next(q)
  BY <1>4
<1> QED
  BY <1>2, <1>5, KeepsCountsQuiet

LEMMA KeepsCountsDelete ==
    ASSUME MonitorInv, MonitorInv', TopicInv, NEW c \in Panels, DeleteRecords(c) PROVE TopicInv'
<1>1. PICK refused \in SUBSET Partitions :
         /\ panel[c].at = "delete"
         /\ start' = [p \in Partitions |-> IF p \in refused THEN start[p]
                                           ELSE Larger(start[p], panel[c].ends[p])]
         /\ panel' = [panel EXCEPT ![c] = Purged([panel[c] EXCEPT !.refused = refused])]
         /\ UNCHANGED << holds, end, committed >>
  BY DEF DeleteRecords, Is
<1>2. PICK q : q = Purged([panel[c] EXCEPT !.refused = refused])
  OBVIOUS
<1>3. q.at = "get" /\ q.kind = "purged" /\ q.starts \in Listed /\ q.pos \in Listed
  BY <1>2, PurgedStarts
<1>4. CountOK(q)'
  BY <1>3 DEF CountOK, ListedOK
<1>5. NotAfter(panel[c].ends, end) /\ panel[c].ends \in Offsets
  BY <1>1 DEF TopicInv, CountOK, ListedOK, MonitorInv, PanelsOK, RequestOK
<1>6. Forward
  BY <1>1, <1>5 DEF Forward, Larger, NotAfter, MonitorInv, OffsetsOK, Offsets
<1>7. TopicOK'
  BY <1>1, <1>5 DEF TopicInv, TopicOK, Larger, NotAfter, MonitorInv, OffsetsOK, Offsets
<1> QED
  BY <1>1, <1>2, <1>4, <1>6, <1>7, KeepsCounts DEF MonitorInv

\* A reader that is placed at the end; of one placed at offsets only, nothing is claimed anew.
LEMMA KeepsCountsSeek ==
    ASSUME MonitorInv, TopicInv, NEW c \in Panels, Seek(c) PROVE TopicInv'
<1>1. PICK m : m = panel[c]
  OBVIOUS
<1>2. PICK pos : pos = [p \in Partitions |-> IF m.pos[p] = None THEN end[p] ELSE m.pos[p]]
  OBVIOUS
<1>3. PICK q : q = [m EXCEPT !.pos = pos]
  OBVIOUS
<1>4. /\ m.at = "read" /\ \E p \in Partitions : m.pos[p] = None
      /\ panel' = [panel EXCEPT ![c] = q] /\ UNCHANGED << holds, start, end, committed >>
  BY <1>1, <1>2, <1>3 DEF Seek, MonitorInv, PanelsOK, brokerVars
<1>5. /\ RequestOK(m) /\ ListedOK(m) /\ ReadOK(m) /\ OffsetsOK /\ TopicOK /\ m.kind # "status"
      /\ m.starts \in Listed /\ m.pos \in Listed
  BY <1>1, <1>4 DEF MonitorInv, PanelsOK, TopicInv, CountOK, ListedOK
<1>6. /\ q.kind = m.kind /\ q.at = "read" /\ q.starts = m.starts /\ q.ends = m.ends
      /\ q.pos = pos
  BY <1>3, <1>4, <1>5 DEF RequestOK, Fields
<1>7. NotAfter(m.starts, m.pos) /\ NotAfter(m.starts, start) /\ NotAfter(start, end)
  BY <1>4, <1>5 DEF ReadOK, ListedOK, TopicOK
<1>8. pos \in Listed /\ NotAfter(m.starts, pos)
  BY <1>2, <1>5, <1>7 DEF Listed, NotAfter, OffsetsOK, Offsets, None
<1>9. ListedOK(q)
  BY <1>4, <1>5, <1>6, <1>8 DEF ListedOK
<1>10. start # m.starts
  BY <1>4, <1>5, <1>7 DEF Listed, NotAfter, OffsetsOK, Offsets, None
<1>11. CountOK(q)
  BY <1>5, <1>6, <1>8, <1>9, <1>10 DEF CountOK, ReadOK
<1> QED
  BY <1>4, <1>11, KeepsCountsQuiet

\* A poll that does not read everything leaves what it has not read.
LEMMA KeepsCountsPoll ==
    ASSUME MonitorInv, TopicInv, NEW c \in Panels, Poll(c) PROVE TopicInv'
<1>1. PICK m : m = panel[c]
  OBVIOUS
<1>2. PICK from : from = [p \in Partitions |-> Larger(m.pos[p], start[p])]
  OBVIOUS
<1>3. PICK to \in [Partitions -> 0..MaxLetters] :
         /\ \A p \in Partitions : IF m.starts[p] = m.ends[p] THEN to[p] = from[p]
                                  ELSE to[p] \in from[p]..end[p]
         /\ m.at = "read"
         /\ panel' = [panel EXCEPT ![c] =
                         IF RecordCount(from, to) >= m.left THEN Rendered(m)
                         ELSE [m EXCEPT !.pos = to, !.left = @ - RecordCount(from, to)]]
         /\ UNCHANGED << holds, start, end, committed >>
  BY <1>1, <1>2 DEF Poll, brokerVars
<1>4. /\ RequestOK(m) /\ ListedOK(m) /\ ReadOK(m) /\ OffsetsOK /\ TopicOK /\ m.kind # "status"
      /\ m.starts \in Listed /\ m.ends \in Offsets /\ m.pos \in Listed
  BY <1>1, <1>3 DEF MonitorInv, PanelsOK, TopicInv, CountOK, ListedOK, RequestOK
<1>5. PICK got : got = RecordCount(from, to)
  OBVIOUS
<1>6. CASE got >= m.left
  <2>1. CountOK(Rendered(m))
    BY <1>4, RenderedCount
  <2>2. PICK r : r = Rendered(m)
    OBVIOUS
  <2>3. panel' = [panel EXCEPT ![c] = r]
    BY <1>3, <1>5, <1>6, <2>2
  <2> QED
    BY <1>3, <2>1, <2>2, <2>3, KeepsCountsQuiet
<1>7. CASE ~(got >= m.left)
  <2>1. PICK q : q = [m EXCEPT !.pos = to, !.left = m.left - got]
    OBVIOUS
  <2>2. panel' = [panel EXCEPT ![c] = q]
    BY <1>3, <1>5, <1>7, <2>1
  <2>3. /\ q.kind = m.kind /\ q.at = "read" /\ q.starts = m.starts /\ q.ends = m.ends /\ q.pos = to
        /\ q.left = m.left - got
    BY <1>3, <1>4, <2>1 DEF RequestOK, Fields
  <2>4. /\ to \in Offsets /\ to \in Listed /\ from \in Offsets
        /\ NotAfter(m.pos, from) /\ NotAfter(from, to)
    BY <1>2, <1>3, <1>4 DEF Larger, NotAfter, OffsetsOK, Offsets, Listed, None
  <2>5. ListedOK(q)
    BY <1>3, <1>4, <2>3, <2>4 DEF ListedOK
  <2>6. ASSUME start = m.starts
        PROVE  /\ \A p \in Partitions : m.starts[p] = m.ends[p] => to[p] = m.ends[p]
               /\ q.left = Total(Between(to, m.ends)) /\ q.left > 0
    <3>1. /\ \A p \in Partitions : m.starts[p] = m.ends[p] => m.pos[p] = m.ends[p]
          /\ m.left = Total(Between(m.pos, m.ends)) /\ NotAfter(m.starts, m.pos)
      BY <1>4, <2>6 DEF ReadOK
    <3>2. from = m.pos
      <4>1. \A p \in Partitions : from[p] = m.pos[p]
        BY <1>2, <1>4, <2>6, <3>1 DEF Larger, NotAfter, OffsetsOK, Offsets, Listed
      <4> QED
        BY <1>2, <1>4, <4>1 DEF Listed
    <3>3. PICK f : f = Between(m.pos, m.ends)
      OBVIOUS
    <3>4. PICK g : g = Between(m.pos, to)
      OBVIOUS
    <3>5. PICK h : h = Between(to, m.ends)
      OBVIOUS
    <3>6. /\ f \in [Partitions -> Int] /\ g \in [Partitions -> Int]
          /\ h = [p \in Partitions |-> f[p] - g[p]]
      BY <1>4, <2>4, <3>3, <3>4, <3>5 DEF Between, Offsets, Listed
    <3>7. Total(f) \in Int /\ Total(g) \in Int /\ Total(h) = Total(f) - Total(g)
      BY <3>6, TotalMinus
    <3>8. got = Total(g)
      BY <1>5, <3>2, <3>4 DEF RecordCount, Between
    <3> QED
      BY <1>3, <1>7, <2>3, <3>1, <3>2, <3>3, <3>5, <3>7, <3>8
  <2>7. NotAfter(m.starts, to)
    BY <1>4, <2>4 DEF ReadOK, NotAfter, Offsets, Listed
  <2>8. ReadOK(q)
    BY <2>3, <2>6, <2>7 DEF ReadOK
  <2>9. CountOK(q)
    BY <1>4, <2>3, <2>5, <2>8 DEF CountOK
  <2> QED
    BY <1>3, <2>2, <2>9, KeepsCountsQuiet
<1> QED
  BY <1>6, <1>7

LEMMA TopicInvariant == DevSpec => []TopicInv
<1>1. DevInit => TopicInv
  <2> SUFFICES ASSUME DevInit PROVE TopicInv
    OBVIOUS
  <2>1. TopicOK
    BY DEF DevInit, MonitorInit, NoOffsets, None, TopicOK, NotAfter
  <2>2. Idle.kind = "none" /\ Idle.at = "idle" /\ Idle.starts \in Listed /\ Idle.pos \in Listed
    BY NothingListed DEF Idle
  <2>3. CountOK(Idle)
    BY <2>2, EarlyCount
  <2>4. \A c \in Panels : panel[c] = Idle
    BY DEF DevInit, MonitorInit
  <2> QED
    BY <2>1, <2>3, <2>4 DEF TopicInv
<1>2. MonitorInv /\ MonitorInv' /\ TopicInv /\ [DevNext]_devVars => TopicInv'
  <2> SUFFICES ASSUME MonitorInv, MonitorInv', TopicInv, [DevNext]_devVars PROVE TopicInv'
    OBVIOUS
  <2>1. CASE UNCHANGED << holds, start, end, committed, panel >>
    <3>1. OffsetsOK' /\ TopicOK' /\ Forward
      BY <2>1 DEF MonitorInv, OffsetsOK, Offsets, TopicInv, TopicOK, NotAfter, Forward
    <3> QED
      BY <2>1, <3>1, KeepsAllCounts
  <2>2. ASSUME NEW c \in Panels, Request(c) PROVE TopicInv'
    BY <2>2, KeepsCountsRabbit, KeepsCountsAnswer, KeepsCountsListStarts, KeepsCountsListEnds,
       KeepsCountsFetchCommits, KeepsCountsDelete, KeepsCountsSeek, KeepsCountsPoll
    DEF Request
  <2>3. CASE MonitorNext
    BY <2>1, <2>2, <2>3, KeepsCountsTopic, KeepsCountsOpen DEF MonitorNext, Arrive
  <2> QED
    BY <2>1, <2>3 DEF DevNext, devVars, UsePanel, UseBench, monitorVars, brokerVars
<1> QED
  BY <1>1, <1>2, MonitorInvariant, PTL DEF DevSpec

\* A count has every record that was there when the request began and is still to be consumed, and
\* none that was consumed or deleted before it began, while records arrive, groups commit, and a
\* purge or the retention deletes (.dev/console/internal/monitor/kafka.go:63-82, 140-165); of a
\* partition whose start or commit came with an error, never more than one past all of its records.
THEOREM CountsArePlausible == DevSpec => []CountIsPlausible
<1>1. MonitorInv /\ TopicInv => CountIsPlausible
  <2> SUFFICES ASSUME MonitorInv, TopicInv PROVE CountIsPlausible
    OBVIOUS
  <2>1. ASSUME NEW c \in Panels, NEW q, q = panel[c],
               q.at = "rendered", q.kind = "status", q.errors = {}
        PROVE  /\ q.count >= Total([p \in Partitions |->
                                      Larger(q.before.end[p] - Unconsumed[p], 0)])
               /\ q.count <= Total([p \in Partitions |->
                               end[p] - IF p \in q.unknown THEN None ELSE q.before.from[p]])
    <3>1. CountRight(q)
      BY <2>1 DEF TopicInv, CountOK, StatusOK
    <3>2. [p \in Partitions |-> Larger(q.before.end[p] - Unconsumed[p], 0)]
             = Remaining(q.before.end, start, committed)
      BY DEF Remaining, Unconsumed
    <3>3. [p \in Partitions |-> end[p] - IF p \in q.unknown THEN None ELSE q.before.from[p]]
             = Between(From(q), end)
      BY DEF Between, From
    <3> QED
      BY <3>1, <3>2, <3>3 DEF CountRight
  <2> QED
    BY <2>1 DEF CountIsPlausible
<1> QED
  BY <1>1, MonitorInvariant, TopicInvariant, PTL

\* As long as a view whose starts came without an error waits for records and no purge ran, there
\* is one to read (.dev/console/internal/monitor/kafka.go:94-106, 124-138).
THEOREM ViewsWaitOnlyForLetters == DevSpec => []WaitsOnlyForLetters
<1>1. MonitorInv /\ TopicInv => WaitsOnlyForLetters
  <2> SUFFICES ASSUME MonitorInv, TopicInv, NEW c \in Panels, NEW q, q = panel[c],
                      q.at = "read", q.unknown = {}, start = q.starts
               PROVE  \E p \in Partitions : q.starts[p] < q.ends[p] /\ q.pos[p] < end[p]
    BY DEF WaitsOnlyForLetters
  <2>1. ListedOK(q) /\ ReadOK(q) /\ q.ends \in Offsets /\ end \in Offsets
    BY DEF TopicInv, CountOK, MonitorInv, OffsetsOK, PanelsOK, RequestOK
  <2>2. PICK f : f = Between(q.pos, q.ends)
    OBVIOUS
  <2>3. f \in [Partitions -> Int] /\ Total(f) > 0
    BY <2>1, <2>2 DEF ListedOK, ReadOK, Between, Offsets, Listed
  <2>4. PICK p \in Partitions : f[p] > 0
    BY <2>3, TotalPositive
  <2>5. q.pos[p] < q.ends[p]
    BY <2>1, <2>2, <2>4 DEF Between, ListedOK, Offsets, Listed
  <2>6. q.starts[p] <= q.ends[p] /\ q.ends[p] <= end[p] /\ q.starts[p] # q.ends[p]
    BY <2>1, <2>5 DEF ListedOK, ReadOK, NotAfter, Offsets, Listed
  <2> QED
    BY <2>1, <2>5, <2>6 DEF ListedOK, Offsets, Listed
<1> QED
  BY <1>1, MonitorInvariant, TopicInvariant, PTL

=============================================================================
