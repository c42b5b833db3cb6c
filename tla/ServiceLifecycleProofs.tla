------------------------ MODULE ServiceLifecycleProofs ------------------------
(***************************************************************************)
(* How a process stops, and when it says that it is ready, proved for any  *)
(* number of requests in flight and of dropped connections.                *)
(***************************************************************************)
EXTENDS ServiceLifecycle, TLAPS

USE LifecycleAssumption

-----------------------------------------------------------------------------
\* Whatever the environment, nothing but a source is started.
LEMMA SourcesAreKnown == ASSUME NEW e PROVE InitSources(e) \subseteq SourceNames
<1>1. Sources(e) \subseteq SourceNames
  <2> DEFINE known == e.listed # {} /\ e.listed \subseteq SourceNames
             disabled == e.var["HTTP_API_DISABLED"] = "true"
  <2>1. CASE ~known
    <3>1. Sources(e) = {}
      BY <2>1 DEF Sources
    <3> QED
      BY <3>1
  <2>2. CASE known /\ ~disabled
    <3>1. Sources(e) = e.listed \cup {"http"}
      BY <2>2 DEF Sources
    <3> QED
      BY <2>2, <3>1 DEF SourceNames
  <2>3. CASE known /\ disabled
    <3>1. Sources(e) = IF "http" \in e.listed THEN {} ELSE e.listed
      BY <2>3 DEF Sources
    <3> QED
      BY <2>3, <3>1
  <2> QED
    BY <2>1, <2>2, <2>3
<1> QED
  BY <1>1 DEF InitSources

-----------------------------------------------------------------------------
(***************************************************************************)
(* The invariant.                                                          *)
(***************************************************************************)

\* Goroutines run once main has started them, and main returns after them.
RunOK ==
    /\ main \in {"configuring", "running", "clean", "failed"}
    /\ ctx \in BOOLEAN
    /\ enabled \subseteq SourceNames
    /\ returned \subseteq Goroutines
    /\ main = "configuring" => enabled = {}
    /\ main \in {"clean", "failed"} => enabled \subseteq returned
    /\ ready \in [SourceNames -> BOOLEAN]
    /\ \A s \in SourceNames : s \in returned \/ s \notin enabled => ~ready[s]

\* The consumer returns between two deliveries.
RabbitOK ==
    /\ rabbit \in {"connecting", "consuming", "handling"}
    /\ "rabbitmq" \in returned \/ "rabbitmq" \notin enabled => rabbit # "handling"
    /\ rabbit = "connecting" => ~ready["rabbitmq"]

\* Run returns before the loops are started, or when both have returned; the flag was set by the
\* loop that polled last.
KafkaOK ==
    /\ kafka \in {"connecting", "running"}
    /\ loop \in [Loops -> {"idle", "polling", "batch", "returned"}]
    /\ polled \in [Loops -> BOOLEAN]
    /\ kafka = "connecting" =>
          ~ready["kafka"] /\ \A l \in Loops : loop[l] = "idle" /\ polled[l]
    /\ "kafka" \notin enabled => kafka = "connecting"
    /\ "kafka" \in returned => \A l \in Loops : loop[l] # "batch"
    /\ ready["kafka"] => \E l \in Loops : polled[l]

\* A request outlives Run only when Shutdown ran out of time or the listener failed.
HTTPOK ==
    /\ http \in {"starting", "serving", "closed"}
    /\ inflight \in Nat
    /\ http = "starting" => inflight = 0 /\ ~ready["http"]
    /\ http = "closed" => ctx
    /\ "http" \notin enabled => http = "starting"
    /\ "http" \in returned /\ "http" \notin errs => inflight = 0

LifeInv == RunOK /\ RabbitOK /\ KafkaOK /\ HTTPOK

LEMMA InitLife == Init => LifeInv
<1> SUFFICES ASSUME Init PROVE LifeInv
  OBVIOUS
<1> USE DEF Init
<1>1. RunOK
  BY DEF RunOK, Goroutines
<1>2. RabbitOK
  BY DEF RabbitOK, SourceNames
<1>3. KafkaOK
  BY DEF KafkaOK, SourceNames
<1>4. HTTPOK
  BY DEF HTTPOK, SourceNames
<1> QED
  BY <1>1, <1>2, <1>3, <1>4 DEF LifeInv
LEMMA KeepsConfigure == ASSUME LifeInv, Configure PROVE LifeInv'
<1> USE DEF LifeInv
<1>0. enabled' \subseteq SourceNames
  BY SourcesAreKnown DEF Configure
<1>1. RunOK'
  BY <1>0 DEF Configure, Goroutines, runVars, rabbitVars, kafkaVars, httpVars, RunOK, SourceNames
<1>2. RabbitOK'
  BY <1>0 DEF Configure, Goroutines, runVars, rabbitVars, kafkaVars, httpVars, RunOK, RabbitOK,
         SourceNames
<1>3. KafkaOK'
  BY <1>0 DEF Configure, Goroutines, runVars, rabbitVars, kafkaVars, httpVars, RunOK, KafkaOK,
         SourceNames, Loops
<1>4. HTTPOK'
  BY <1>0 DEF Configure, Goroutines, runVars, rabbitVars, kafkaVars, httpVars, RunOK, HTTPOK,
         SourceNames
<1> QED
  BY <1>1, <1>2, <1>3, <1>4

LEMMA KeepsSignal == ASSUME LifeInv, Signal PROVE LifeInv'
<1> USE DEF LifeInv
<1>1. RunOK'
  BY DEF Signal, Goroutines, configVars, rabbitVars, kafkaVars, httpVars, RunOK, SourceNames
<1>2. RabbitOK'
  BY DEF Signal, Goroutines, configVars, rabbitVars, kafkaVars, httpVars, RunOK, RabbitOK,
         SourceNames
<1>3. KafkaOK'
  BY DEF Signal, Goroutines, configVars, rabbitVars, kafkaVars, httpVars, RunOK, KafkaOK,
         SourceNames, Loops
<1>4. HTTPOK'
  BY DEF Signal, Goroutines, configVars, rabbitVars, kafkaVars, httpVars, RunOK, HTTPOK,
         SourceNames
<1> QED
  BY <1>1, <1>2, <1>3, <1>4

LEMMA KeepsExit == ASSUME LifeInv, Exit PROVE LifeInv'
<1> USE DEF LifeInv
<1>1. RunOK'
  BY DEF Exit, Goroutines, configVars, runVars, rabbitVars, kafkaVars, httpVars, RunOK,
         SourceNames
<1>2. RabbitOK'
  BY DEF Exit, Goroutines, configVars, runVars, rabbitVars, kafkaVars, httpVars, RunOK,
         RabbitOK, SourceNames
<1>3. KafkaOK'
  BY DEF Exit, Goroutines, configVars, runVars, rabbitVars, kafkaVars, httpVars, RunOK, KafkaOK,
         SourceNames, Loops
<1>4. HTTPOK'
  BY DEF Exit, Goroutines, configVars, runVars, rabbitVars, kafkaVars, httpVars, RunOK, HTTPOK,
         SourceNames
<1> QED
  BY <1>1, <1>2, <1>3, <1>4

LEMMA KeepsHealthFails == ASSUME LifeInv, HealthFails PROVE LifeInv'
<1> USE DEF LifeInv
<1>1. RunOK'
  BY DEF HealthFails, Stop, Running, Goroutines, configVars, rabbitVars, kafkaVars, httpVars,
         RunOK, SourceNames
<1>2. RabbitOK'
  BY DEF HealthFails, Stop, Running, Goroutines, configVars, rabbitVars, kafkaVars, httpVars,
         RunOK, RabbitOK, SourceNames
<1>3. KafkaOK'
  BY DEF HealthFails, Stop, Running, Goroutines, configVars, rabbitVars, kafkaVars, httpVars,
         RunOK, KafkaOK, SourceNames, Loops
<1>4. HTTPOK'
  BY DEF HealthFails, Stop, Running, Goroutines, configVars, rabbitVars, kafkaVars, httpVars,
         RunOK, HTTPOK, SourceNames
<1> QED
  BY <1>1, <1>2, <1>3, <1>4

LEMMA KeepsHealthStops == ASSUME LifeInv, HealthStops PROVE LifeInv'
<1> USE DEF LifeInv
<1>1. RunOK'
  BY DEF HealthStops, Stop, Running, Goroutines, configVars, rabbitVars, kafkaVars, httpVars,
         RunOK, SourceNames
<1>2. RabbitOK'
  BY DEF HealthStops, Stop, Running, Goroutines, configVars, rabbitVars, kafkaVars, httpVars,
         RunOK, RabbitOK, SourceNames
<1>3. KafkaOK'
  BY DEF HealthStops, Stop, Running, Goroutines, configVars, rabbitVars, kafkaVars, httpVars,
         RunOK, KafkaOK, SourceNames, Loops
<1>4. HTTPOK'
  BY DEF HealthStops, Stop, Running, Goroutines, configVars, rabbitVars, kafkaVars, httpVars,
         RunOK, HTTPOK, SourceNames
<1> QED
  BY <1>1, <1>2, <1>3, <1>4

LEMMA KeepsHTTPListen == ASSUME LifeInv, HTTPListen PROVE LifeInv'
<1> USE DEF LifeInv
<1>1. RunOK'
  BY DEF HTTPListen, Stop, Running, Goroutines, SetReady, configVars, runVars, rabbitVars,
         kafkaVars, httpVars, RunOK, HTTPOK, SourceNames
<1>2. RabbitOK'
  BY DEF HTTPListen, Stop, Running, Goroutines, SetReady, configVars, runVars, rabbitVars,
         kafkaVars, httpVars, RunOK, RabbitOK, SourceNames
<1>3. KafkaOK'
  BY DEF HTTPListen, Stop, Running, Goroutines, SetReady, configVars, runVars, rabbitVars,
         kafkaVars, httpVars, RunOK, KafkaOK, SourceNames, Loops
<1>4. HTTPOK'
  BY DEF HTTPListen, Stop, Running, Goroutines, SetReady, configVars, runVars, rabbitVars,
         kafkaVars, httpVars, RunOK, HTTPOK, SourceNames
<1> QED
  BY <1>1, <1>2, <1>3, <1>4

LEMMA KeepsRequestBegins == ASSUME LifeInv, RequestBegins PROVE LifeInv'
<1> USE DEF LifeInv
<1>1. RunOK'
  BY DEF RequestBegins, Running, Goroutines, configVars, runVars, rabbitVars, kafkaVars, RunOK,
         SourceNames
<1>2. RabbitOK'
  BY DEF RequestBegins, Running, Goroutines, configVars, runVars, rabbitVars, kafkaVars, RunOK,
         RabbitOK, SourceNames
<1>3. KafkaOK'
  BY DEF RequestBegins, Running, Goroutines, configVars, runVars, rabbitVars, kafkaVars, RunOK,
         KafkaOK, SourceNames, Loops
<1>4. HTTPOK'
  BY DEF RequestBegins, Running, Goroutines, configVars, runVars, rabbitVars, kafkaVars, RunOK,
         HTTPOK, SourceNames
<1> QED
  BY <1>1, <1>2, <1>3, <1>4

LEMMA KeepsRequestEnds == ASSUME LifeInv, RequestEnds PROVE LifeInv'
<1> USE DEF LifeInv
<1>1. RunOK'
  BY DEF RequestEnds, Goroutines, configVars, runVars, rabbitVars, kafkaVars, RunOK, SourceNames
<1>2. RabbitOK'
  BY DEF RequestEnds, Goroutines, configVars, runVars, rabbitVars, kafkaVars, RunOK, RabbitOK,
         SourceNames
<1>3. KafkaOK'
  BY DEF RequestEnds, Goroutines, configVars, runVars, rabbitVars, kafkaVars, RunOK, KafkaOK,
         SourceNames, Loops
<1>4. HTTPOK'
  BY DEF RequestEnds, Goroutines, configVars, runVars, rabbitVars, kafkaVars, RunOK, HTTPOK,
         SourceNames
<1> QED
  BY <1>1, <1>2, <1>3, <1>4

LEMMA KeepsHTTPServeFails == ASSUME LifeInv, HTTPServeFails PROVE LifeInv'
<1> USE DEF LifeInv
<1>1. RunOK'
  BY DEF HTTPServeFails, Stop, Running, Goroutines, SetReady, configVars, rabbitVars, kafkaVars,
         RunOK, SourceNames
<1>2. RabbitOK'
  BY DEF HTTPServeFails, Stop, Running, Goroutines, SetReady, configVars, rabbitVars, kafkaVars,
         RunOK, RabbitOK, SourceNames
<1>3. KafkaOK'
  BY DEF HTTPServeFails, Stop, Running, Goroutines, SetReady, configVars, rabbitVars, kafkaVars,
         RunOK, KafkaOK, SourceNames, Loops
<1>4. HTTPOK'
  BY DEF HTTPServeFails, Stop, Running, Goroutines, SetReady, configVars, rabbitVars, kafkaVars,
         RunOK, HTTPOK, SourceNames
<1> QED
  BY <1>1, <1>2, <1>3, <1>4

LEMMA KeepsHTTPShutdown == ASSUME LifeInv, HTTPShutdown PROVE LifeInv'
<1> USE DEF LifeInv
<1>1. RunOK'
  BY DEF HTTPShutdown, Running, Goroutines, configVars, runVars, rabbitVars, kafkaVars, RunOK,
         SourceNames
<1>2. RabbitOK'
  BY DEF HTTPShutdown, Running, Goroutines, configVars, runVars, rabbitVars, kafkaVars, RunOK,
         RabbitOK, SourceNames
<1>3. KafkaOK'
  BY DEF HTTPShutdown, Running, Goroutines, configVars, runVars, rabbitVars, kafkaVars, RunOK,
         KafkaOK, SourceNames, Loops
<1>4. HTTPOK'
  BY DEF HTTPShutdown, Running, Goroutines, configVars, runVars, rabbitVars, kafkaVars, RunOK,
         HTTPOK, SourceNames
<1> QED
  BY <1>1, <1>2, <1>3, <1>4

LEMMA KeepsHTTPShutDown == ASSUME LifeInv, HTTPShutDown PROVE LifeInv'
<1> USE DEF LifeInv
<1>1. RunOK'
  BY DEF HTTPShutDown, Stop, Running, Goroutines, SetReady, configVars, rabbitVars, kafkaVars,
         httpVars, RunOK, SourceNames
<1>2. RabbitOK'
  BY DEF HTTPShutDown, Stop, Running, Goroutines, SetReady, configVars, rabbitVars, kafkaVars,
         httpVars, RunOK, RabbitOK, SourceNames
<1>3. KafkaOK'
  BY DEF HTTPShutDown, Stop, Running, Goroutines, SetReady, configVars, rabbitVars, kafkaVars,
         httpVars, RunOK, KafkaOK, SourceNames, Loops
<1>4. HTTPOK'
  <2> USE DEF HTTPShutDown, Stop, Running, Goroutines, SetReady, RunOK, HTTPOK, SourceNames,
              configVars, rabbitVars, kafkaVars, httpVars
  <2>1. CASE inflight > 0
    BY <2>1
  <2>2. CASE ~(inflight > 0)
    <3>1. inflight = 0
      BY <2>2
    <3> QED
      BY <2>2, <3>1
  <2> QED
    BY <2>1, <2>2
<1> QED
  BY <1>1, <1>2, <1>3, <1>4

LEMMA KeepsRabbitConnected == ASSUME LifeInv, RabbitConnected PROVE LifeInv'
<1> USE DEF LifeInv
<1>1. RunOK'
  BY DEF RabbitConnected, Running, Goroutines, SetReady, configVars, runVars, kafkaVars,
         httpVars, RunOK, SourceNames
<1>2. RabbitOK'
  BY DEF RabbitConnected, Running, Goroutines, SetReady, configVars, runVars, kafkaVars,
         httpVars, RunOK, RabbitOK, SourceNames
<1>3. KafkaOK'
  BY DEF RabbitConnected, Running, Goroutines, SetReady, configVars, runVars, kafkaVars,
         httpVars, RunOK, KafkaOK, SourceNames, Loops
<1>4. HTTPOK'
  BY DEF RabbitConnected, Running, Goroutines, SetReady, configVars, runVars, kafkaVars,
         httpVars, RunOK, HTTPOK, SourceNames
<1> QED
  BY <1>1, <1>2, <1>3, <1>4

LEMMA KeepsRabbitDrops == ASSUME LifeInv, RabbitDrops PROVE LifeInv'
<1> USE DEF LifeInv
<1>1. RunOK'
  BY DEF RabbitDrops, Running, Goroutines, Drop, configVars, runVars, kafkaVars, httpVars,
         RunOK, SourceNames
<1>2. RabbitOK'
  BY DEF RabbitDrops, Running, Goroutines, Drop, configVars, runVars, kafkaVars, httpVars,
         RunOK, RabbitOK, SourceNames
<1>3. KafkaOK'
  BY DEF RabbitDrops, Running, Goroutines, Drop, configVars, runVars, kafkaVars, httpVars,
         RunOK, KafkaOK, SourceNames, Loops
<1>4. HTTPOK'
  BY DEF RabbitDrops, Running, Goroutines, Drop, configVars, runVars, kafkaVars, httpVars,
         RunOK, HTTPOK, SourceNames
<1> QED
  BY <1>1, <1>2, <1>3, <1>4

LEMMA KeepsRabbitHandles == ASSUME LifeInv, RabbitHandles PROVE LifeInv'
<1> USE DEF LifeInv
<1>1. RunOK'
  BY DEF RabbitHandles, Running, Goroutines, configVars, runVars, kafkaVars, httpVars, RunOK,
         SourceNames
<1>2. RabbitOK'
  BY DEF RabbitHandles, Running, Goroutines, configVars, runVars, kafkaVars, httpVars, RunOK,
         RabbitOK, SourceNames
<1>3. KafkaOK'
  BY DEF RabbitHandles, Running, Goroutines, configVars, runVars, kafkaVars, httpVars, RunOK,
         KafkaOK, SourceNames, Loops
<1>4. HTTPOK'
  BY DEF RabbitHandles, Running, Goroutines, configVars, runVars, kafkaVars, httpVars, RunOK,
         HTTPOK, SourceNames
<1> QED
  BY <1>1, <1>2, <1>3, <1>4

LEMMA KeepsRabbitReconnects == ASSUME LifeInv, RabbitReconnects PROVE LifeInv'
<1> USE DEF LifeInv
<1>1. RunOK'
  BY DEF RabbitReconnects, Running, Goroutines, SetReady, configVars, runVars, kafkaVars,
         httpVars, RunOK, SourceNames
<1>2. RabbitOK'
  BY DEF RabbitReconnects, Running, Goroutines, SetReady, configVars, runVars, kafkaVars,
         httpVars, RunOK, RabbitOK, SourceNames
<1>3. KafkaOK'
  BY DEF RabbitReconnects, Running, Goroutines, SetReady, configVars, runVars, kafkaVars,
         httpVars, RunOK, KafkaOK, SourceNames, Loops
<1>4. HTTPOK'
  BY DEF RabbitReconnects, Running, Goroutines, SetReady, configVars, runVars, kafkaVars,
         httpVars, RunOK, HTTPOK, SourceNames
<1> QED
  BY <1>1, <1>2, <1>3, <1>4

LEMMA KeepsRabbitStops == ASSUME LifeInv, RabbitStops PROVE LifeInv'
<1> USE DEF LifeInv
<1>1. RunOK'
  BY DEF RabbitStops, Stop, Running, Goroutines, SetReady, configVars, kafkaVars, httpVars,
         RunOK, SourceNames
<1>2. RabbitOK'
  BY DEF RabbitStops, Stop, Running, Goroutines, SetReady, configVars, kafkaVars, httpVars,
         RunOK, RabbitOK, SourceNames
<1>3. KafkaOK'
  BY DEF RabbitStops, Stop, Running, Goroutines, SetReady, configVars, kafkaVars, httpVars,
         RunOK, KafkaOK, SourceNames, Loops
<1>4. HTTPOK'
  BY DEF RabbitStops, Stop, Running, Goroutines, SetReady, configVars, kafkaVars, httpVars,
         RunOK, HTTPOK, SourceNames
<1> QED
  BY <1>1, <1>2, <1>3, <1>4

LEMMA KeepsKafkaConnected == ASSUME LifeInv, KafkaConnected PROVE LifeInv'
<1> USE DEF LifeInv
<1>1. RunOK'
  BY DEF KafkaConnected, Running, Goroutines, SetReady, Loops, configVars, runVars, rabbitVars,
         httpVars, RunOK, SourceNames
<1>2. RabbitOK'
  BY DEF KafkaConnected, Running, Goroutines, SetReady, Loops, configVars, runVars, rabbitVars,
         httpVars, RunOK, RabbitOK, SourceNames
<1>3. KafkaOK'
  BY DEF KafkaConnected, Running, Goroutines, SetReady, Loops, configVars, runVars, rabbitVars,
         httpVars, RunOK, KafkaOK, SourceNames
<1>4. HTTPOK'
  BY DEF KafkaConnected, Running, Goroutines, SetReady, Loops, configVars, runVars, rabbitVars,
         httpVars, RunOK, HTTPOK, SourceNames
<1> QED
  BY <1>1, <1>2, <1>3, <1>4

LEMMA KeepsKafkaConnectCancelled == ASSUME LifeInv, KafkaConnectCancelled PROVE LifeInv'
<1> USE DEF LifeInv
<1>1. RunOK'
  BY DEF KafkaConnectCancelled, Stop, Running, Goroutines, configVars, rabbitVars, kafkaVars,
         httpVars, RunOK, KafkaOK, SourceNames
<1>2. RabbitOK'
  BY DEF KafkaConnectCancelled, Stop, Running, Goroutines, configVars, rabbitVars, kafkaVars,
         httpVars, RunOK, RabbitOK, SourceNames
<1>3. KafkaOK'
  BY DEF KafkaConnectCancelled, Stop, Running, Goroutines, configVars, rabbitVars, kafkaVars,
         httpVars, RunOK, KafkaOK, SourceNames, Loops
<1>4. HTTPOK'
  BY DEF KafkaConnectCancelled, Stop, Running, Goroutines, configVars, rabbitVars, kafkaVars,
         httpVars, RunOK, HTTPOK, SourceNames
<1> QED
  BY <1>1, <1>2, <1>3, <1>4

LEMMA KeepsKafkaRefused == ASSUME LifeInv, KafkaRefused PROVE LifeInv'
<1> USE DEF LifeInv
<1>1. RunOK'
  BY DEF KafkaRefused, Stop, Running, Goroutines, configVars, rabbitVars, kafkaVars, httpVars,
         RunOK, KafkaOK, SourceNames
<1>2. RabbitOK'
  BY DEF KafkaRefused, Stop, Running, Goroutines, configVars, rabbitVars, kafkaVars, httpVars,
         RunOK, RabbitOK, SourceNames
<1>3. KafkaOK'
  BY DEF KafkaRefused, Stop, Running, Goroutines, configVars, rabbitVars, kafkaVars, httpVars,
         RunOK, KafkaOK, SourceNames, Loops
<1>4. HTTPOK'
  BY DEF KafkaRefused, Stop, Running, Goroutines, configVars, rabbitVars, kafkaVars, httpVars,
         RunOK, HTTPOK, SourceNames
<1> QED
  BY <1>1, <1>2, <1>3, <1>4

LEMMA KeepsKafkaPolls == ASSUME LifeInv, NEW l \in Loops, KafkaPolls(l) PROVE LifeInv'
<1> USE DEF LifeInv
<1>1. RunOK'
  <2>1. PICK v \in BOOLEAN : ready' = [ready EXCEPT !["kafka"] = v]
    BY DEF KafkaPolls, SetReady
  <2>2. "kafka" \in enabled /\ "kafka" \notin returned
    BY DEF KafkaPolls, Running, Goroutines, RunOK, SourceNames
  <2>3. UNCHANGED << configVars, main, runVars >>
    BY DEF KafkaPolls
  <2> QED
    BY <2>1, <2>2, <2>3 DEF RunOK, Goroutines, SourceNames, configVars, runVars
<1>2. RabbitOK'
  BY DEF KafkaPolls, Running, Goroutines, SetReady, Drop, configVars, runVars, rabbitVars,
         httpVars, RunOK, RabbitOK, SourceNames
<1>3. KafkaOK'
  <2> USE DEF KafkaPolls, Running, SetReady, RunOK, KafkaOK, SourceNames, Loops, configVars, runVars
  <2>1. kafka = "running"
    OBVIOUS
  <2>2. CASE polled' = [polled EXCEPT ![l] = TRUE]
    <3>1. polled'[l]
      BY <2>2
    <3> QED
      BY <2>1, <2>2, <3>1
  <2>3. CASE polled' = [polled EXCEPT ![l] = FALSE] /\ SetReady("kafka", FALSE)
    <3>1. ~ready'["kafka"]
      BY <2>3
    <3> QED
      BY <2>1, <2>3, <3>1
  <2> QED
    BY <2>2, <2>3
<1>4. HTTPOK'
  BY DEF KafkaPolls, Running, Goroutines, SetReady, Drop, configVars, runVars, rabbitVars,
         httpVars, RunOK, HTTPOK, SourceNames
<1> QED
  BY <1>1, <1>2, <1>3, <1>4

LEMMA KeepsKafkaBatchEnds == ASSUME LifeInv, NEW l \in Loops, KafkaBatchEnds(l) PROVE LifeInv'
<1> USE DEF LifeInv
<1>1. RunOK'
  BY DEF KafkaBatchEnds, Running, Goroutines, configVars, runVars, rabbitVars, httpVars, RunOK,
         SourceNames
<1>2. RabbitOK'
  BY DEF KafkaBatchEnds, Running, Goroutines, configVars, runVars, rabbitVars, httpVars, RunOK,
         RabbitOK, SourceNames
<1>3. KafkaOK'
  BY DEF KafkaBatchEnds, Running, Goroutines, configVars, runVars, rabbitVars, httpVars, RunOK,
         KafkaOK, SourceNames, Loops
<1>4. HTTPOK'
  BY DEF KafkaBatchEnds, Running, Goroutines, configVars, runVars, rabbitVars, httpVars, RunOK,
         HTTPOK, SourceNames
<1> QED
  BY <1>1, <1>2, <1>3, <1>4

LEMMA KeepsKafkaLoopReturns == ASSUME LifeInv, NEW l \in Loops, KafkaLoopReturns(l) PROVE LifeInv'
<1> USE DEF LifeInv
<1>1. RunOK'
  BY DEF KafkaLoopReturns, Running, Goroutines, configVars, runVars, rabbitVars, httpVars,
         RunOK, SourceNames
<1>2. RabbitOK'
  BY DEF KafkaLoopReturns, Running, Goroutines, configVars, runVars, rabbitVars, httpVars,
         RunOK, RabbitOK, SourceNames
<1>3. KafkaOK'
  BY DEF KafkaLoopReturns, Running, Goroutines, configVars, runVars, rabbitVars, httpVars,
         RunOK, KafkaOK, SourceNames, Loops
<1>4. HTTPOK'
  BY DEF KafkaLoopReturns, Running, Goroutines, configVars, runVars, rabbitVars, httpVars,
         RunOK, HTTPOK, SourceNames
<1> QED
  BY <1>1, <1>2, <1>3, <1>4

LEMMA KeepsKafkaStops == ASSUME LifeInv, KafkaStops PROVE LifeInv'
<1> USE DEF LifeInv
<1>1. RunOK'
  BY DEF KafkaStops, Stop, Running, Goroutines, SetReady, Loops, configVars, rabbitVars,
         kafkaVars, httpVars, RunOK, SourceNames
<1>2. RabbitOK'
  BY DEF KafkaStops, Stop, Running, Goroutines, SetReady, Loops, configVars, rabbitVars,
         kafkaVars, httpVars, RunOK, RabbitOK, SourceNames
<1>3. KafkaOK'
  BY DEF KafkaStops, Stop, Running, Goroutines, SetReady, Loops, configVars, rabbitVars,
         kafkaVars, httpVars, RunOK, KafkaOK, SourceNames
<1>4. HTTPOK'
  BY DEF KafkaStops, Stop, Running, Goroutines, SetReady, Loops, configVars, rabbitVars,
         kafkaVars, httpVars, RunOK, HTTPOK, SourceNames
<1> QED
  BY <1>1, <1>2, <1>3, <1>4

LEMMA NextLife == LifeInv /\ [Next]_vars => LifeInv'
<1> SUFFICES ASSUME LifeInv, [Next]_vars PROVE LifeInv'
  OBVIOUS
<1>1. CASE UNCHANGED vars
  BY <1>1
  DEF LifeInv, RunOK, Goroutines, RabbitOK, KafkaOK, HTTPOK, vars, configVars, runVars, rabbitVars,
      kafkaVars, httpVars
<1>2. CASE Configure \/ Signal \/ Exit \/ HealthFails \/ HealthStops
  BY <1>2, KeepsConfigure, KeepsSignal, KeepsExit, KeepsHealthFails, KeepsHealthStops
<1>3. CASE HTTPStep \/ RequestBegins \/ RequestEnds \/ HTTPServeFails
  BY <1>3, KeepsHTTPListen, KeepsHTTPShutdown, KeepsHTTPShutDown, KeepsRequestBegins,
     KeepsRequestEnds, KeepsHTTPServeFails
  DEF HTTPStep
<1>4. CASE RabbitConnected \/ RabbitStep \/ RabbitStops \/ RabbitDrops
  BY <1>4, KeepsRabbitConnected, KeepsRabbitHandles, KeepsRabbitReconnects, KeepsRabbitStops,
     KeepsRabbitDrops
  DEF RabbitStep
<1>5. CASE KafkaStep \/ KafkaStopping \/ KafkaRefused
  BY <1>5, KeepsKafkaConnected, KeepsKafkaConnectCancelled, KeepsKafkaStops, KeepsKafkaPolls,
     KeepsKafkaBatchEnds, KeepsKafkaLoopReturns, KeepsKafkaRefused
  DEF KafkaStep, KafkaStopping
<1> QED
  BY <1>1, <1>2, <1>3, <1>4, <1>5 DEF Next

\* What is true of the goroutines of the process, all the time.
LEMMA LifeInvariant == Spec => []LifeInv
  BY InitLife, NextLife, PTL DEF Spec

\* When main returns no delivery is left without its ack or commit, and no request without its
\* answer, unless the HTTP server reported it (runner.go:44-75, httpapi/server.go:50-75).
THEOREM EndsBetweenDeliveries == Spec => []NothingIsCutOff
<1>1. LifeInv => NothingIsCutOff
  <2> SUFFICES ASSUME LifeInv, main \in {"clean", "failed"}, "http" \notin errs
               PROVE  inflight = 0 /\ rabbit # "handling" /\ \A l \in Loops : loop[l] # "batch"
    BY DEF NothingIsCutOff, Working
  <2>1. enabled \subseteq returned
    BY DEF LifeInv, RunOK
  <2>2. inflight = 0
    BY <2>1 DEF LifeInv, HTTPOK
  <2>3. rabbit # "handling"
    BY <2>1 DEF LifeInv, RabbitOK
  <2>4. \A l \in Loops : loop[l] # "batch"
    BY <2>1 DEF LifeInv, KafkaOK
  <2> QED
    BY <2>2, <2>3, <2>4
<1> QED
  BY <1>1, LifeInvariant, PTL

\* No source says it is ready before it has connected, while it is connecting again, or after it
\* has returned, and of the two Kafka loops one succeeded in its last poll; a loss that a source has
\* yet to notice is not excluded (runner.go:33-40, rabbitmq_consumer.go:44-66 and 114-126,
\* kafka_source.go:51-94, kafka_consume.go:25-31, httpapi/server.go:51-75).
THEOREM ReadyAfterConnecting == Spec => []NotReadyUnconnected
<1>1. LifeInv => NotReadyUnconnected
  <2> SUFFICES ASSUME LifeInv PROVE NotReadyUnconnected
    OBVIOUS
  <2>1. \A s \in enabled \cap returned : ~ready[s]
    BY DEF LifeInv, RunOK
  <2>2. ready["rabbitmq"] => rabbit # "connecting"
    BY DEF LifeInv, RabbitOK
  <2>3. ready["kafka"] => kafka = "running" /\ \E l \in Loops : polled[l]
    BY DEF LifeInv, KafkaOK
  <2>4. ready["http"] => http = "serving" \/ (http = "closed" /\ ctx)
    BY DEF LifeInv, HTTPOK
  <2> QED
    BY <2>1, <2>2, <2>3, <2>4 DEF NotReadyUnconnected
<1> QED
  BY <1>1, LifeInvariant, PTL

-----------------------------------------------------------------------------
(***************************************************************************)
(* What an environment starts.  TLC spoils one setting at a time, or the   *)
(* two delays; here any of them may have any of its values.                *)
(***************************************************************************)

Environment(e) == \A n \in Choices \cup Settings : e.var[n] \in Values(n)

LEMMA KnownValues ==
    /\ Values("MAILER_TRANSPORT") = {"unset", "blank", "smtp", "api", "other"}
    /\ Values("MAILER_API_CLIENT") = {"unset", "blank", "resend", "zoho", "zeptomail", "other"}
    /\ Values("HTTP_API_DISABLED") = {"unset", "true", "other"}
    /\ Values("KAFKA_SASL_MECHANISM") = {"unset", "blank", "set", "bad"}
    /\ Values("KAFKA_BROKERS") = {"unset", "blank", "separators", "set"}
    /\ Values("HTTP_API_KEYS") = {"unset", "blank", "separators", "set"}
    /\ Values("SMTP_SERVER_PORT") = {"unset", "blank", "set", "bad"}
    /\ \A n \in NumberNames :
          Values(n) \subseteq {"unset", "blank", "short", "set", "long", "wide", "bad"}
    /\ \A n \in DelayNames : Values(n) = {"unset", "blank", "short", "set", "long", "bad"}
    /\ \A n \in TextNames \ {"SMTP_SERVER_PORT"} : Values(n) = {"unset", "blank", "set"}
<1>1. \A n \in WideNames : Values(n) = {"unset", "blank", "set", "wide", "bad"}
  BY DEF Values, WideNames, DelayNames
<1>2. \A n \in DelayNames : Values(n) = {"unset", "blank", "short", "set", "long", "bad"}
  BY DEF Values, WideNames, DelayNames
<1>3. \A n \in NumberNames \ (WideNames \cup DelayNames) :
         Values(n) = {"unset", "blank", "set", "bad"}
  BY DEF Values, WideNames, DelayNames, NumberNames
<1>4. \A n \in TextNames \ {"SMTP_SERVER_PORT"} : Values(n) = {"unset", "blank", "set"}
  BY DEF Values, WideNames, DelayNames, NumberNames, TextNames, SMTPNames, ZohoNames,
         RabbitNames, SASLNames
<1>5. /\ Values("MAILER_TRANSPORT") = {"unset", "blank", "smtp", "api", "other"}
      /\ Values("MAILER_API_CLIENT") = {"unset", "blank", "resend", "zoho", "zeptomail", "other"}
      /\ Values("HTTP_API_DISABLED") = {"unset", "true", "other"}
  BY DEF Values, WideNames, DelayNames, NumberNames
<1>6. /\ Values("KAFKA_SASL_MECHANISM") = {"unset", "blank", "set", "bad"}
      /\ Values("KAFKA_BROKERS") = {"unset", "blank", "separators", "set"}
      /\ Values("HTTP_API_KEYS") = {"unset", "blank", "separators", "set"}
      /\ Values("SMTP_SERVER_PORT") = {"unset", "blank", "set", "bad"}
  BY DEF Values, WideNames, DelayNames, NumberNames
<1> QED
  BY <1>1, <1>2, <1>3, <1>4, <1>5, <1>6

\* A number is refused only when it is bad.
LEMMA NumbersAreRead ==
    ASSUME NEW e, Environment(e), NEW n \in NumberNames
    PROVE  positive(e.var[n]) <=> e.var[n] # "bad"
<1>1. e.var[n] \in {"unset", "blank", "short", "set", "long", "wide", "bad"}
  BY KnownValues DEF Environment, Settings
<1> QED
  BY <1>1 DEF positive, envOrDefault

\* Two delays are in order unless only the base delay is long, or only the maximum delay short.
InOrder(e) ==
    /\ e.var["MAILER_RETRY_BASE_DELAY"] = "long" => e.var["MAILER_RETRY_MAX_DELAY"] = "long"
    /\ e.var["MAILER_RETRY_MAX_DELAY"] = "short" => e.var["MAILER_RETRY_BASE_DELAY"] = "short"

LEMMA DelaysAreCompared ==
    ASSUME NEW e, Environment(e), \A n \in DelayNames : e.var[n] # "bad"
    PROVE  positiveDuration(e.var["MAILER_RETRY_BASE_DELAY"], 30)
              <= positiveDuration(e.var["MAILER_RETRY_MAX_DELAY"], 600) <=> InOrder(e)
<1> DEFINE base == e.var["MAILER_RETRY_BASE_DELAY"]
           max == e.var["MAILER_RETRY_MAX_DELAY"]
<1>1. /\ base \in {"unset", "blank", "short", "set", "long"}
      /\ max \in {"unset", "blank", "short", "set", "long"}
  BY KnownValues DEF Environment, Settings, NumberNames, DelayNames
<1>2. /\ base = "short" => positiveDuration(base, 30) = 1
      /\ base = "set" => positiveDuration(base, 30) = 60
      /\ base = "long" => positiveDuration(base, 30) = 3600
      /\ base \in {"unset", "blank"} => positiveDuration(base, 30) = 30
  BY DEF positiveDuration
<1>3. /\ max = "short" => positiveDuration(max, 600) = 1
      /\ max = "set" => positiveDuration(max, 600) = 60
      /\ max = "long" => positiveDuration(max, 600) = 3600
      /\ max \in {"unset", "blank"} => positiveDuration(max, 600) = 600
  BY DEF positiveDuration
<1>4. InOrder(e) <=> (base = "long" => max = "long") /\ (max = "short" => base = "short")
  BY DEF InOrder
<1> HIDE DEF base, max
<1>5. positiveDuration(base, 30) <= positiveDuration(max, 600)
         <=> (base = "long" => max = "long") /\ (max = "short" => base = "short")
  BY <1>1, <1>2, <1>3
<1> QED
  BY <1>4, <1>5 DEF base, max

Has(e, n) == e.var[n] \notin {"unset", "blank"}

\* A sender is built for the settings that the README requires of it.
LEMMA SenderIsBuilt ==
    ASSUME NEW e, Environment(e)
    PROVE  newSender(e.var) # Refused
              <=> /\ e.var["MAILER_TRANSPORT"] # "other"
                  /\ UsesAPI(e) => e.var["MAILER_API_CLIENT"] # "other"
                  /\ \A n \in RequiredBySender(e) : Has(e, n)
                  /\ ~UsesAPI(e) => e.var["SMTP_SERVER_PORT"] # "bad"
<1> DEFINE t == e.var["MAILER_TRANSPORT"]
           a == e.var["MAILER_API_CLIENT"]
<1>1. /\ t \in {"unset", "blank", "smtp", "api", "other"}
      /\ a \in {"unset", "blank", "resend", "zoho", "zeptomail", "other"}
  BY KnownValues DEF Environment, Choices
<1>2. CASE t \in {"unset", "blank", "smtp"}
  <2>1. NewMailerSettings(e.var) = "smtp" /\ ~UsesAPI(e)
    BY <1>2 DEF NewMailerSettings, envOrDefault, UsesAPI
  <2>2. RequiredBySender(e) = SMTPNames
    BY <2>1 DEF RequiredBySender
  <2>3. newSender(e.var) = IF NewSMTPConfig(e.var) THEN "smtp" ELSE Refused
    BY <2>1 DEF newSender
  <2> QED
    BY <1>2, <2>1, <2>2, <2>3 DEF NewSMTPConfig, requireEnv, Has, Refused
<1>3. CASE t = "other"
  <2>1. NewMailerSettings(e.var) = Refused
    BY <1>3 DEF NewMailerSettings, envOrDefault
  <2> QED
    BY <1>3, <2>1 DEF newSender, Refused
<1>4. CASE t = "api"
  <2>1. UsesAPI(e)
    BY <1>4 DEF UsesAPI
  <2>2. NewMailerSettings(e.var) = IF requireEnv(a) THEN a ELSE Refused
    BY <1>4 DEF NewMailerSettings, envOrDefault
  <2>3. CASE a \in {"unset", "blank", "other"}
    <3>1. NewMailerSettings(e.var) \in {Refused, "other"}
      BY <2>2, <2>3 DEF requireEnv
    <3>2. newSender(e.var) = Refused
      BY <3>1 DEF newSender, Refused
    <3>3. RequiredBySender(e) = {"MAILER_API_CLIENT"}
      BY <2>1, <2>3 DEF RequiredBySender
    <3> QED
      BY <2>1, <2>3, <3>2, <3>3 DEF Has
  <2>4. CASE a = "resend"
    <3>1. newSender(e.var) = IF requireEnv(e.var["RESEND_API_KEY"]) THEN "resend" ELSE Refused
      BY <2>2, <2>4 DEF newSender, requireEnv
    <3>2. RequiredBySender(e) = {"RESEND_API_KEY"}
      BY <2>1, <2>4 DEF RequiredBySender
    <3> QED
      BY <1>4, <2>1, <2>4, <3>1, <3>2 DEF Has, requireEnv, Refused
  <2>5. CASE a = "zeptomail"
    <3>1. newSender(e.var) = IF requireEnv(e.var["ZEPTOMAIL_API_KEY"]) THEN "zeptomail" ELSE Refused
      BY <2>2, <2>5 DEF newSender, requireEnv
    <3>2. RequiredBySender(e) = {"ZEPTOMAIL_API_KEY"}
      BY <2>1, <2>5 DEF RequiredBySender
    <3> QED
      BY <1>4, <2>1, <2>5, <3>1, <3>2 DEF Has, requireEnv, Refused
  <2>6. CASE a = "zoho"
    <3>1. newSender(e.var) = IF NewZohoMailConfig(e.var) THEN "zoho" ELSE Refused
      BY <2>2, <2>6 DEF newSender, requireEnv
    <3>2. RequiredBySender(e) = ZohoNames
      BY <2>1, <2>6 DEF RequiredBySender
    <3> QED
      BY <1>4, <2>1, <2>6, <3>1, <3>2 DEF Has, requireEnv, NewZohoMailConfig, Refused
  <2> QED
    BY <1>1, <2>3, <2>4, <2>5, <2>6
<1> QED
  BY <1>1, <1>2, <1>3, <1>4

RetryNames == DelayNames \cup {"MAILER_MAX_ATTEMPTS"}

\* The settings that may be bad, each where it is read.
LEMMA WhatIsRead ==
    ASSUME NEW e, Environment(e)
    PROVE  (\A n \in Settings \ NotRead(e) : e.var[n] # "bad")
              <=> /\ \A n \in RetryNames \cup {"HTTP_CLIENT_TIMEOUT"} : e.var[n] # "bad"
                  /\ ~UsesAPI(e) => e.var["SMTP_SERVER_PORT"] # "bad"
                  /\ "http" \in Announced(e) => e.var["HTTP_API_MAX_BODY_BYTES"] # "bad"
                  /\ "kafka" \in Announced(e) =>
                        \A n \in WideNames \cup {"KAFKA_SASL_MECHANISM"} : e.var[n] # "bad"
<1> DEFINE always == RetryNames \cup {"HTTP_CLIENT_TIMEOUT"}
           never == (TextNames \ {"SMTP_SERVER_PORT"}) \cup {"KAFKA_BROKERS", "HTTP_API_KEYS"}
<1>1. \A n \in never : e.var[n] # "bad"
  BY KnownValues DEF Environment, Settings
<1>2. Settings = never \cup always \cup WideNames
                 \cup {"SMTP_SERVER_PORT", "HTTP_API_MAX_BODY_BYTES", "KAFKA_SASL_MECHANISM"}
  BY DEF Settings, NumberNames, TextNames, SMTPNames, WideNames, DelayNames, RetryNames
<1>3. \A n \in Settings :
         n \in NotRead(e) <=> \/ n = "SMTP_SERVER_PORT" /\ UsesAPI(e)
                              \/ n = "HTTP_API_MAX_BODY_BYTES" /\ "http" \notin Announced(e)
                              \/ n \in WideNames \cup {"KAFKA_SASL_MECHANISM"}
                                 /\ "kafka" \notin Announced(e)
  BY DEF NotRead, WideNames
<1> HIDE DEF never
<1>4. CASE \A n \in Settings \ NotRead(e) : e.var[n] # "bad"
  BY <1>2, <1>3, <1>4 DEF WideNames, DelayNames, RetryNames
<1>5. CASE /\ \A n \in always : e.var[n] # "bad"
           /\ ~UsesAPI(e) => e.var["SMTP_SERVER_PORT"] # "bad"
           /\ "http" \in Announced(e) => e.var["HTTP_API_MAX_BODY_BYTES"] # "bad"
           /\ "kafka" \in Announced(e) =>
                 \A n \in WideNames \cup {"KAFKA_SASL_MECHANISM"} : e.var[n] # "bad"
  BY <1>1, <1>2, <1>3, <1>5
<1> QED
  BY <1>4, <1>5

\* The sources that are listed and known, with http unless it is disabled.
LEMMA SourcesAreAnnounced ==
    ASSUME NEW e, Environment(e)
    PROVE  /\ Sources(e) # {} => Sources(e) = Announced(e)
           /\ Sources(e) # {} <=> /\ e.listed # {} /\ Announced(e) \subseteq SourceNames
                                  /\ "http" \in e.listed => e.var["HTTP_API_DISABLED"] # "true"
<1> DEFINE known == e.listed # {} /\ e.listed \subseteq SourceNames
           disabled == e.var["HTTP_API_DISABLED"] = "true"
<1>1. Announced(e) = IF disabled THEN e.listed ELSE e.listed \cup {"http"}
  BY DEF Announced
<1>2. CASE ~known
  <2>1. Sources(e) = {}
    BY <1>2 DEF Sources
  <2> QED
    BY <1>1, <1>2, <2>1
<1>3. CASE known /\ ~disabled
  <2>1. Sources(e) = e.listed \cup {"http"}
    BY <1>3 DEF Sources
  <2> QED
    BY <1>1, <1>3, <2>1 DEF SourceNames
<1>4. CASE known /\ disabled
  <2>1. Sources(e) = IF "http" \in e.listed THEN {} ELSE e.listed
    BY <1>4 DEF Sources
  <2> QED
    BY <1>1, <1>4, <2>1
<1> QED
  BY <1>2, <1>3, <1>4

\* What each source requires.
LEMMA SourceIsBuilt ==
    ASSUME NEW e, Environment(e)
    PROVE  /\ newSource("rabbitmq", e.var) <=> \A n \in RabbitNames : e.var[n] # "unset"
           /\ newSource("kafka", e.var)
                 <=> /\ \A n \in RequiredBy("kafka", e) : Has(e, n)
                     /\ \A n \in WideNames \cup {"KAFKA_SASL_MECHANISM"} : e.var[n] # "bad"
           /\ newSource("http", e.var)
                 <=> /\ \A n \in RequiredBy("http", e) : Has(e, n)
                     /\ e.var["HTTP_API_KEYS"] # "separators"
                     /\ e.var["HTTP_API_MAX_BODY_BYTES"] # "bad"
           /\ RequiredBy("rabbitmq", e) = {}
<1>1. newSource("rabbitmq", e.var) <=> \A n \in RabbitNames : e.var[n] # "unset"
  BY DEF newSource, NewRabbitMQConfig
<1>2. newSource("kafka", e.var)
         <=> /\ \A n \in RequiredBy("kafka", e) : Has(e, n)
             /\ \A n \in WideNames \cup {"KAFKA_SASL_MECHANISM"} : e.var[n] # "bad"
  <2> DEFINE m == e.var["KAFKA_SASL_MECHANISM"]
  <2>1. m \in {"unset", "blank", "set", "bad"}
    BY KnownValues DEF Environment, Settings
  <2>2. RequiredBy("kafka", e) = {"KAFKA_BROKERS"} \cup (IF m = "set" THEN SASLNames ELSE {})
    BY DEF RequiredBy
  <2>3. newSource("kafka", e.var) <=> NewKafkaConfig(e.var)
    BY DEF newSource
  <2>4. validateSASL(e.var) <=> m # "bad" /\ (m = "set" => \A n \in SASLNames : Has(e, n))
    <3>1. \A n \in SASLNames : envOrDefault(e.var[n], "") # "" <=> Has(e, n)
      <4> SUFFICES ASSUME NEW n \in SASLNames PROVE envOrDefault(e.var[n], "") # "" <=> Has(e, n)
        OBVIOUS
      <4>1. e.var[n] \in {"unset", "blank", "set"}
        BY KnownValues DEF Environment, Settings, TextNames, SASLNames
      <4> QED
        BY <4>1 DEF envOrDefault, Has
    <3>2. CASE m \in {"unset", "blank"}
      BY <3>2 DEF validateSASL, envOrDefault
    <3>3. CASE m = "set"
      BY <3>1, <3>3 DEF validateSASL, envOrDefault
    <3>4. CASE m = "bad"
      BY <3>4 DEF validateSASL, envOrDefault
    <3> QED
      BY <2>1, <3>2, <3>3, <3>4
  <2>5. /\ positive(e.var["KAFKA_TOPIC_PARTITIONS"]) <=> e.var["KAFKA_TOPIC_PARTITIONS"] # "bad"
        /\ positive(e.var["KAFKA_TOPIC_REPLICATION"]) <=> e.var["KAFKA_TOPIC_REPLICATION"] # "bad"
    BY NumbersAreRead DEF NumberNames
  <2> QED
    BY <2>2, <2>3, <2>4, <2>5 DEF NewKafkaConfig, requireEnv, Has, WideNames
<1>3. newSource("http", e.var)
         <=> /\ \A n \in RequiredBy("http", e) : Has(e, n)
             /\ e.var["HTTP_API_KEYS"] # "separators"
             /\ e.var["HTTP_API_MAX_BODY_BYTES"] # "bad"
  <2>1. e.var["HTTP_API_KEYS"] \in {"unset", "blank", "separators", "set"}
    BY KnownValues DEF Environment, Settings
  <2>2. RequiredBy("http", e) = {"HTTP_API_KEYS"}
    BY DEF RequiredBy
  <2>3. newSource("http", e.var) <=> NewHTTPAPIConfig(e.var)
    BY DEF newSource
  <2>4. positive(e.var["HTTP_API_MAX_BODY_BYTES"]) <=> e.var["HTTP_API_MAX_BODY_BYTES"] # "bad"
    BY NumbersAreRead DEF NumberNames
  <2> QED
    BY <2>1, <2>2, <2>3, <2>4 DEF NewHTTPAPIConfig, requireEnv, splitList, Has
<1>4. RequiredBy("rabbitmq", e) = {}
  BY DEF RequiredBy
<1> QED
  BY <1>1, <1>2, <1>3, <1>4

\* The process starts with the sources that the README announces, exactly when it has what the
\* README requires, however many settings are missing or bad (README.md:140-270,
\* bean/mailer.go:25-50, bean/sources.go:17-54).
THEOREM StartsIffComplete ==
    ASSUME NEW e, Environment(e)
    PROVE  /\ InitMailer(e) /\ InitSources(e) # {} <=> Complete(e)
           /\ Complete(e) => InitSources(e) = Announced(e)
<1> DEFINE mailer == /\ e.var["MAILER_TRANSPORT"] # "other"
                     /\ UsesAPI(e) => e.var["MAILER_API_CLIENT"] # "other"
                     /\ \A n \in RequiredBySender(e) : Has(e, n)
                     /\ ~UsesAPI(e) => e.var["SMTP_SERVER_PORT"] # "bad"
                     /\ \A n \in RetryNames \cup {"HTTP_CLIENT_TIMEOUT"} : e.var[n] # "bad"
                     /\ InOrder(e)
           listed == /\ e.listed # {} /\ Announced(e) \subseteq SourceNames
                     /\ "http" \in e.listed => e.var["HTTP_API_DISABLED"] # "true"
           rabbit_ok == \A n \in RabbitNames : e.var[n] # "unset"
           kafka_ok == /\ \A n \in RequiredBy("kafka", e) : Has(e, n)
                       /\ \A n \in WideNames \cup {"KAFKA_SASL_MECHANISM"} : e.var[n] # "bad"
           http_ok == /\ \A n \in RequiredBy("http", e) : Has(e, n)
                      /\ e.var["HTTP_API_KEYS"] # "separators"
                      /\ e.var["HTTP_API_MAX_BODY_BYTES"] # "bad"
           sources == /\ "rabbitmq" \in Announced(e) => rabbit_ok
                      /\ "kafka" \in Announced(e) => kafka_ok
                      /\ "http" \in Announced(e) => http_ok
<1>1. InitMailer(e) <=> mailer
  <2>1. \A n \in RetryNames \cup {"HTTP_CLIENT_TIMEOUT"} :
           positive(e.var[n]) <=> e.var[n] # "bad"
    BY NumbersAreRead DEF NumberNames, DelayNames, RetryNames
  <2>2. (\A n \in RetryNames : positive(e.var[n])) =>
           (NewRetryConfig(e.var) <=> InOrder(e))
    <3> SUFFICES ASSUME \A n \in RetryNames : positive(e.var[n])
                 PROVE  NewRetryConfig(e.var) <=> InOrder(e)
      OBVIOUS
    <3>1. \A n \in DelayNames : e.var[n] # "bad"
      BY <2>1 DEF RetryNames
    <3> QED
      BY <3>1, DelaysAreCompared DEF NewRetryConfig, RetryNames
  <2>3. NewRetryConfig(e.var) => \A n \in RetryNames : positive(e.var[n])
    BY DEF NewRetryConfig, RetryNames
  <2>4. NewRetryConfig(e.var)
          <=> (\A n \in RetryNames : e.var[n] # "bad") /\ InOrder(e)
    BY <2>1, <2>2, <2>3
  <2> QED
    BY <2>1, <2>4, SenderIsBuilt DEF InitMailer
<1>2. /\ Sources(e) # {} => Sources(e) = Announced(e)
      /\ Sources(e) # {} <=> listed
  BY SourcesAreAnnounced
<1>3. listed => (sources <=> \A s \in Announced(e) : newSource(s, e.var))
  BY SourceIsBuilt DEF SourceNames
<1>4. Complete(e) <=> mailer /\ listed /\ sources
  <2> DEFINE required ==
               \A n \in RequiredBySender(e) \cup UNION {RequiredBy(s, e) : s \in Announced(e)} :
                  Has(e, n)
             read == \A n \in Settings \ NotRead(e) : e.var[n] # "bad"
  <2>1. required <=> /\ \A n \in RequiredBySender(e) : Has(e, n)
                     /\ \A s \in Announced(e) : \A n \in RequiredBy(s, e) : Has(e, n)
    OBVIOUS
  <2>2. listed =>
          ((\A s \in Announced(e) : \A n \in RequiredBy(s, e) : Has(e, n))
             <=> /\ "kafka" \in Announced(e) => \A n \in RequiredBy("kafka", e) : Has(e, n)
                 /\ "http" \in Announced(e) => \A n \in RequiredBy("http", e) : Has(e, n))
    BY SourceIsBuilt DEF SourceNames
  <2>3. read <=> /\ \A n \in RetryNames \cup {"HTTP_CLIENT_TIMEOUT"} : e.var[n] # "bad"
                 /\ ~UsesAPI(e) => e.var["SMTP_SERVER_PORT"] # "bad"
                 /\ "http" \in Announced(e) => e.var["HTTP_API_MAX_BODY_BYTES"] # "bad"
                 /\ "kafka" \in Announced(e) =>
                       \A n \in WideNames \cup {"KAFKA_SASL_MECHANISM"} : e.var[n] # "bad"
    BY WhatIsRead
  <2>4. Complete(e) <=> /\ e.var["MAILER_TRANSPORT"] # "other"
                        /\ UsesAPI(e) => e.var["MAILER_API_CLIENT"] # "other"
                        /\ listed /\ required /\ read
                        /\ "http" \in Announced(e) => e.var["HTTP_API_KEYS"] # "separators"
                        /\ "rabbitmq" \in Announced(e) => rabbit_ok
                        /\ InOrder(e)
    BY DEF Complete, Has, InOrder
  <2> HIDE DEF required, read
  <2> QED
    BY <2>1, <2>2, <2>3, <2>4
<1>5. InitSources(e) # {} <=> listed /\ sources
  <2>1. InitSources(e) # {} <=> Sources(e) # {} /\ \A s \in Sources(e) : newSource(s, e.var)
    BY DEF InitSources
  <2> HIDE DEF listed, sources
  <2> QED
    BY <1>2, <1>3, <2>1
<1>6. InitSources(e) # {} => InitSources(e) = Announced(e)
  BY <1>2 DEF InitSources
<1> HIDE DEF mailer, listed, sources
<1> QED
  BY <1>1, <1>4, <1>5, <1>6

LEMMA EnvironmentsAreThose == \A e \in Environments : Environment(e)
<1> SUFFICES ASSUME NEW e \in Environments, NEW n \in Choices \cup Settings
             PROVE  e.var[n] \in Values(n)
  BY DEF Environment
<1>1. PICK t \in Values("MAILER_TRANSPORT"), c \in Values("MAILER_API_CLIENT"),
           d \in Values("HTTP_API_DISABLED"),
           spoiled \in Spoiled :
        e.var = Assigned(t, c, d, spoiled)
  BY DEF Environments
<1>2. /\ DOMAIN spoiled \subseteq Settings
      /\ \A m \in DOMAIN spoiled : spoiled[m] \in Values(m)
  <2>1. CASE spoiled \in [DelayNames -> Values("MAILER_RETRY_MAX_DELAY")]
    <3>1. \A m \in DelayNames : Values(m) = Values("MAILER_RETRY_MAX_DELAY")
      BY KnownValues DEF DelayNames
    <3>2. DelayNames \subseteq Settings
      BY DEF DelayNames, Settings, NumberNames
    <3> QED
      BY <2>1, <3>1, <3>2
  <2>2. ASSUME NEW k \in Settings \ DelayNames, spoiled \in [{k} -> Values(k)]
        PROVE  /\ DOMAIN spoiled \subseteq Settings
               /\ \A m \in DOMAIN spoiled : spoiled[m] \in Values(m)
    BY <2>2
  <2>3. \/ spoiled \in [DelayNames -> Values("MAILER_RETRY_MAX_DELAY")]
        \/ \E k \in Settings \ DelayNames : spoiled \in [{k} -> Values(k)]
    <3>1. CASE spoiled \in OneSpoiled
      <4>1. PICK F \in {[{k} -> Values(k)] : k \in Settings \ DelayNames} : spoiled \in F
        BY <3>1 DEF OneSpoiled
      <4> QED
        BY <4>1
    <3> QED
      BY <3>1 DEF Spoiled
  <2> QED
    BY <2>1, <2>2, <2>3
<1> USE DEF Assigned
<1>3. Choices \cap Settings = {}
  BY DEF Choices, Settings, TextNames, NumberNames, SMTPNames, ZohoNames, RabbitNames, SASLNames
<1>4. CASE n \in Choices
  BY <1>1, <1>2, <1>3, <1>4 DEF Choices
<1>5. CASE n \in Settings /\ n \in DOMAIN spoiled
  BY <1>1, <1>2, <1>3, <1>5 DEF Choices
<1>6. CASE n \in Settings /\ n \notin DOMAIN spoiled
  <2>1. e.var[n] = "set"
    BY <1>1, <1>3, <1>6 DEF Choices
  <2>2. "set" \in Values(n)
    <3>1. CASE n \in WideNames
      BY <3>1 DEF Values, WideNames
    <3>2. CASE n \in NumberNames \ (WideNames \cup DelayNames)
      BY <3>2 DEF Values, WideNames, DelayNames, NumberNames
    <3>3. CASE n \in DelayNames
      BY KnownValues, <3>3
    <3>4. CASE n \notin NumberNames
      BY <1>6, KnownValues, <3>4 DEF Settings
    <3> QED
      BY <3>1, <3>2, <3>3, <3>4
  <2> QED
    BY <2>1, <2>2
<1> QED
  BY <1>4, <1>5, <1>6

\* Until it is read the environment is as it was.
Unread == main = "configuring" => Environment(env)

\* The process runs with exactly the sources the README announces when nothing required is missing
\* or bad, and ends before it starts any otherwise (bean/mailer.go:25-50, bean/sources.go:17-54).
THEOREM StartsAsAnnounced == Spec => StartsWhenComplete
<1> DEFINE Starts == main = "configuring" =>
                        IF Complete(env) THEN main' = "running" /\ enabled' = Announced(env)
                        ELSE main' = "failed"
<1>1. Init => Unread
  BY EnvironmentsAreThose DEF Init, Unread
<1>2. ASSUME main = "configuring", RunOK, Next PROVE Configure
  <2>1. ~Signal /\ ~Exit /\ ~(\E g \in Goroutines : Running(g))
    BY <1>2 DEF Signal, Exit, Running
  <2> QED
    BY <1>2
    DEF Next, Signal, Exit, HealthFails, HealthStops, HTTPStep, HTTPListen, HTTPShutdown,
        HTTPShutDown, RequestBegins, RequestEnds, HTTPServeFails, RabbitStep, RabbitConnected,
        RabbitHandles, RabbitReconnects, RabbitStops, RabbitDrops, KafkaStep, KafkaConnected,
        KafkaConnectCancelled, KafkaStops, KafkaPolls, KafkaBatchEnds, KafkaStopping,
        KafkaLoopReturns, KafkaRefused, Running
<1>3. ASSUME Unread, Configure, main = "configuring" PROVE Starts /\ main' # "configuring"
  <2>1. /\ InitMailer(env) /\ InitSources(env) # {} <=> Complete(env)
        /\ Complete(env) => InitSources(env) = Announced(env)
    BY <1>3, StartsIffComplete DEF Unread
  <2>2. /\ enabled' = IF InitMailer(env) THEN InitSources(env) ELSE {}
        /\ main' = IF enabled' # {} THEN "running" ELSE "failed"
    BY <1>3 DEF Configure
  <2>3. CASE Complete(env)
    BY <2>1, <2>2, <2>3
  <2>4. CASE ~Complete(env)
    BY <2>1, <2>2, <2>4
  <2> QED
    BY <2>3, <2>4
<1>4. ASSUME Unread, LifeInv, Next PROVE Unread' /\ Starts
  <2>1. CASE main = "configuring"
    BY <1>2, <1>3, <1>4, <2>1 DEF LifeInv, Unread
  <2>2. CASE main # "configuring"
    <3>1. main' # "configuring"
      BY <1>4, <2>2
      DEF Next, Configure, Signal, Exit, HealthFails, HealthStops, HTTPStep, HTTPListen,
          HTTPShutdown, HTTPShutDown, RequestBegins, RequestEnds, HTTPServeFails, RabbitStep,
          RabbitConnected, RabbitHandles, RabbitReconnects, RabbitStops, RabbitDrops, KafkaStep,
          KafkaConnected, KafkaConnectCancelled, KafkaStops, KafkaPolls, KafkaBatchEnds,
          KafkaStopping, KafkaLoopReturns, KafkaRefused
    <3> QED
      BY <2>2, <3>1 DEF Unread
  <2> QED
    BY <2>1, <2>2
<1>5. LifeInv /\ Unread /\ [Next]_vars => Unread' /\ [Starts]_vars
  <2>1. CASE UNCHANGED vars
    BY <2>1 DEF vars, configVars, Unread, Environment
  <2> QED
    BY <1>4, <2>1
<1> QED
  BY <1>1, <1>5, LifeInvariant, PTL DEF Spec, StartsWhenComplete

=============================================================================
