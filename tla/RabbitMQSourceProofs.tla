------------------------- MODULE RabbitMQSourceProofs -------------------------
(***************************************************************************)
(* Proofs about RabbitMQSource for any number of messages, replicas,       *)
(* copies, attempts and upsets: its safety, how often an undisturbed       *)
(* message is sent, tried and told of, and that the source keeps the       *)
(* at-least-once contract.                                                 *)
(***************************************************************************)
EXTENDS RabbitMQSource, MailerServiceProofs

-----------------------------------------------------------------------------
(***************************************************************************)
(* The inductive invariant.                                                *)
(***************************************************************************)

\* Program counters of a replica that is working on a delivery.
Working == {"handling", "publishing", "confirming", "acking", "nacking"}

\* The outcome of m is known to the world outside the broker.
Resolved(m) == sent[m] > 0 \/ "failed" \in told[m]

\* A replica holds a copy only while it works on it, over a connection that works, and no other
\* replica holds it.
HoldingOK ==
    \A r \in Replicas :
        /\ pc[r] \notin Working => held[r] = NoCopy
        /\ pc[r] \in Working => jobMsg[r] \in published
        /\ held[r] # NoCopy =>
              /\ copy[held[r]].at = "unacked"
              /\ copy[held[r]].msg = jobMsg[r]
        /\ \A s \in Replicas : held[r] # NoCopy /\ held[r] = held[s] => r = s

\* Copies are of published messages; an identity that is not used carries nothing.
CopiesOK ==
    \A c \in Copies :
        \/ copy[c] = Absent
        \/ copy[c].at # "none" /\ copy[c].msg \in published

\* How far the call of the handler has come, and what is then known of the message.
JobOK ==
    \A r \in Replicas :
        /\ pc[r] = "handling" /\ job[r].stage = "notify_success" => sent[jobMsg[r]] > 0
        /\ pc[r] = "handling" /\ job[r].stage # "outcome" => job[r].action = "none"
        /\ pc[r] = "handling" /\ job[r].stage = "outcome" => job[r].action # "none"
        /\ pc[r] \in {"publishing", "confirming", "nacking"} => job[r].action \in {"retry", "dead_letter"}
        /\ pc[r] \in {"handling", "acking"} /\ job[r].action = "done" => Resolved(jobMsg[r])

\* c has been republished and will be acked, unless the confirmation fails.
Superseded(c) ==
    \E r \in Replicas :
        /\ held[r] = c
        /\ pc[r] \in {"confirming", "acking"}
        /\ job[r].action # "done"

\* NeverLost, strengthened: some copy of an unresolved message is not about to be acked.
Kept ==
    \A m \in published :
        \/ Resolved(m)
        \/ \E c \in Copies : IsCopyOf(c, m) /\ ~Superseded(c)

IInv == TypeOK /\ HoldingOK /\ CopiesOK /\ JobOK /\ Kept

-----------------------------------------------------------------------------
\* The attempt read from a header is a positive number.
LEMMA AttemptFacts ==
    ASSUME NEW h \in Int \cup {NoAttempt}
    PROVE  attemptOf(h) \in Nat \ {0}
BY DEF attemptOf

-----------------------------------------------------------------------------
(***************************************************************************)
(* Every action preserves the invariant.                                   *)
(***************************************************************************)

USE RabbitMQAssumption DEF producerVars, replicaVars, worldVars

\* The initial states satisfy the invariant: nothing is published, nothing is held.
LEMMA InitIInv == Init => IInv
BY DEF Init, IInv, TypeOK, HoldingOK, CopiesOK, JobOK, Kept, CopyRecords, Places, PCs, Reasons,
       Jobs, Stages, Actions, Absent, NoJob, Working

\* A producer publishes: the new copy is one that nobody holds.
LEMMA PublishStep ==
    ASSUME IInv, NEW m \in Messages, Publish(m)
    PROVE  IInv'
<1>1. TypeOK'
  BY DEF IInv, TypeOK, CopyRecords, Places, PCs, Reasons, Publish, Enqueue
<1>2. HoldingOK'
  BY DEF IInv, TypeOK, HoldingOK, CopiesOK, CopyRecords, Absent, Working, Publish, Enqueue
<1>3. CopiesOK'
  BY DEF IInv, TypeOK, CopiesOK, HoldingOK, CopyRecords, Absent, Publish, Enqueue
<1>4. JobOK'
  BY DEF IInv, TypeOK, JobOK, HoldingOK, Working, Resolved, Publish, Enqueue
<1>5. Kept'
  BY DEF IInv, TypeOK, Kept, HoldingOK, CopiesOK, JobOK, Resolved, Superseded, IsCopyOf,
     Absent, Working, Publish, Enqueue
<1> QED
  BY <1>1, <1>2, <1>3, <1>4, <1>5 DEF IInv

\* A retry expires: its copy changes its place and stays unheld.
LEMMA ExpireStep ==
    ASSUME IInv, NEW c \in Copies, Expire(c)
    PROVE  IInv'
<1>1. TypeOK'
  <2>1. copy' \in [Copies -> CopyRecords]
    BY DEF IInv, TypeOK, CopyRecords, Places, Absent, Expire
  <2> QED
    BY <2>1 DEF IInv, TypeOK, PCs, Reasons, Expire
<1>2. HoldingOK'
  BY DEF IInv, TypeOK, HoldingOK, CopiesOK, CopyRecords, Absent, Working, Expire
<1>3. CopiesOK'
  BY DEF IInv, TypeOK, CopiesOK, HoldingOK, CopyRecords, Absent, Expire
<1>4. JobOK'
  BY DEF IInv, TypeOK, JobOK, HoldingOK, Working, Resolved, Expire
<1>5. Kept'
  BY DEF IInv, TypeOK, Kept, HoldingOK, CopiesOK, JobOK, Resolved, Superseded, IsCopyOf,
     Absent, Working, Expire
<1> QED
  BY <1>1, <1>2, <1>3, <1>4, <1>5 DEF IInv

\* An orphan returns to the main queue.
LEMMA RequeueStep ==
    ASSUME IInv, NEW c \in Copies, Requeue(c)
    PROVE  IInv'
<1>1. TypeOK'
  <2>1. copy' \in [Copies -> CopyRecords]
    BY DEF IInv, TypeOK, CopyRecords, Places, Absent, Requeue
  <2> QED
    BY <2>1 DEF IInv, TypeOK, PCs, Reasons, Requeue
<1>2. HoldingOK'
  BY DEF IInv, TypeOK, HoldingOK, CopiesOK, CopyRecords, Absent, Working, Requeue
<1>3. CopiesOK'
  BY DEF IInv, TypeOK, CopiesOK, HoldingOK, CopyRecords, Absent, Requeue
<1>4. JobOK'
  BY DEF IInv, TypeOK, JobOK, HoldingOK, Working, Resolved, Requeue
<1>5. Kept'
  BY DEF IInv, TypeOK, Kept, HoldingOK, CopiesOK, JobOK, Resolved, Superseded, IsCopyOf,
     Absent, Working, Requeue
<1> QED
  BY <1>1, <1>2, <1>3, <1>4, <1>5 DEF IInv

\* The process starts: nothing but its program counter changes.
LEMMA StartStep ==
    ASSUME IInv, NEW r \in Replicas, Start(r)
    PROVE  IInv'
<1>1. TypeOK'
  BY DEF IInv, TypeOK, CopyRecords, Places, PCs, Reasons, Start
<1>2. HoldingOK'
  BY DEF IInv, TypeOK, HoldingOK, CopiesOK, CopyRecords, Absent, Working, Start
<1>3. CopiesOK'
  BY DEF IInv, TypeOK, CopiesOK, HoldingOK, CopyRecords, Absent, Start
<1>4. JobOK'
  BY DEF IInv, TypeOK, JobOK, HoldingOK, Working, Resolved, Start
<1>5. Kept'
  BY DEF IInv, TypeOK, Kept, HoldingOK, CopiesOK, JobOK, Resolved, Superseded, IsCopyOf,
     Absent, Working, Start
<1> QED
  BY <1>1, <1>2, <1>3, <1>4, <1>5 DEF IInv

\* A connection opens: nothing is held on it yet.
LEMMA ConnectStep ==
    ASSUME IInv, NEW r \in Replicas, Connect(r)
    PROVE  IInv'
<1>1. TypeOK'
  BY DEF IInv, TypeOK, CopyRecords, Places, PCs, Reasons, Connect
<1>2. HoldingOK'
  BY DEF IInv, TypeOK, HoldingOK, CopiesOK, CopyRecords, Absent, Working, Connect
<1>3. CopiesOK'
  BY DEF IInv, TypeOK, CopiesOK, HoldingOK, CopyRecords, Absent, Connect
<1>4. JobOK'
  BY DEF IInv, TypeOK, JobOK, HoldingOK, Working, Resolved, Connect
<1>5. Kept'
  BY DEF IInv, TypeOK, Kept, HoldingOK, CopiesOK, JobOK, Resolved, Superseded, IsCopyOf,
     Absent, Working, Connect
<1> QED
  BY <1>1, <1>2, <1>3, <1>4, <1>5 DEF IInv

\* The loop notices the closed connection.
LEMMA ReconnectStep ==
    ASSUME IInv, NEW r \in Replicas, Reconnect(r)
    PROVE  IInv'
<1>1. TypeOK'
  BY DEF IInv, TypeOK, CopyRecords, Places, PCs, Reasons, Reconnect
<1>2. HoldingOK'
  BY DEF IInv, TypeOK, HoldingOK, CopiesOK, CopyRecords, Absent, Working, Reconnect
<1>3. CopiesOK'
  BY DEF IInv, TypeOK, CopiesOK, HoldingOK, CopyRecords, Absent, Reconnect
<1>4. JobOK'
  BY DEF IInv, TypeOK, JobOK, HoldingOK, Working, Resolved, Reconnect
<1>5. Kept'
  BY DEF IInv, TypeOK, Kept, HoldingOK, CopiesOK, JobOK, Resolved, Superseded, IsCopyOf,
     Absent, Working, Reconnect
<1> QED
  BY <1>1, <1>2, <1>3, <1>4, <1>5 DEF IInv

\* A connection is lost: its copy becomes an orphan that nobody is about to ack.
LEMMA DisconnectStep ==
    ASSUME IInv, NEW r \in Replicas, Disconnect(r)
    PROVE  IInv'
<1>1. TypeOK'
  <2>1. copy' \in [Copies -> CopyRecords]
    BY DEF IInv, TypeOK, CopyRecords, Places, Absent, Disconnect, LoseLink, Upset
  <2> QED
    BY <2>1 DEF IInv, TypeOK, PCs, Reasons, Disconnect, LoseLink, Upset
<1>2. HoldingOK'
  BY DEF IInv, TypeOK, HoldingOK, CopiesOK, CopyRecords, Absent, Working, Disconnect, LoseLink,
     Upset
<1>3. CopiesOK'
  BY DEF IInv, TypeOK, CopiesOK, HoldingOK, CopyRecords, Absent, Disconnect, LoseLink, Upset
<1>4. JobOK'
  BY DEF IInv, TypeOK, JobOK, HoldingOK, Working, Resolved, Disconnect, LoseLink, Upset
<1>5. Kept'
  BY DEF IInv, TypeOK, Kept, HoldingOK, CopiesOK, JobOK, Resolved, Superseded, IsCopyOf,
     Absent, Working, Disconnect, LoseLink, Upset
<1> QED
  BY <1>1, <1>2, <1>3, <1>4, <1>5 DEF IInv

\* A replica that stops between two deliveries holds nothing.
LEMMA ShutdownStep ==
    ASSUME IInv, NEW r \in Replicas, Shutdown(r)
    PROVE  IInv'
<1>1. TypeOK'
  <2>1. copy' \in [Copies -> CopyRecords]
    BY DEF IInv, TypeOK, CopyRecords, Places, Absent, Shutdown, LoseLink, ForgetJob, Upset, NoJob
  <2>2. job' \in [Replicas -> Jobs]
    BY DEF IInv, TypeOK, Jobs, Stages, Actions, Shutdown, LoseLink, ForgetJob, Upset, NoJob
  <2> QED
    BY <2>1, <2>2 DEF IInv, TypeOK, PCs, Reasons, Shutdown, LoseLink, ForgetJob, Upset, NoJob
<1>2. HoldingOK'
  BY DEF IInv, TypeOK, HoldingOK, CopiesOK, CopyRecords, Absent, Working, Shutdown, LoseLink,
     ForgetJob, Upset, NoJob
<1>3. CopiesOK'
  BY DEF IInv, TypeOK, CopiesOK, HoldingOK, CopyRecords, Absent, Shutdown, LoseLink, ForgetJob,
     Upset, NoJob
<1>4. JobOK'
  BY DEF IInv, TypeOK, JobOK, HoldingOK, Working, Resolved, Shutdown, LoseLink, ForgetJob,
     Upset, NoJob
<1>5. Kept'
  BY DEF IInv, TypeOK, Kept, HoldingOK, CopiesOK, JobOK, Resolved, Superseded, IsCopyOf,
     Absent, Working, Shutdown, LoseLink, ForgetJob, Upset, NoJob
<1> QED
  BY <1>1, <1>2, <1>3, <1>4, <1>5 DEF IInv

\* A crash orphans the copy the replica holds.
LEMMA CrashStep ==
    ASSUME IInv, NEW r \in Replicas, Crash(r)
    PROVE  IInv'
<1>1. TypeOK'
  <2>1. copy' \in [Copies -> CopyRecords]
    BY DEF IInv, TypeOK, CopyRecords, Places, Absent, Crash, LoseLink, ForgetJob, Upset, NoJob
  <2>2. job' \in [Replicas -> Jobs]
    BY DEF IInv, TypeOK, Jobs, Stages, Actions, Crash, LoseLink, ForgetJob, Upset, NoJob
  <2> QED
    BY <2>1, <2>2 DEF IInv, TypeOK, PCs, Reasons, Crash, LoseLink, ForgetJob, Upset, NoJob
<1>2. HoldingOK'
  BY DEF IInv, TypeOK, HoldingOK, CopiesOK, CopyRecords, Absent, Working, Crash, LoseLink,
     ForgetJob, Upset, NoJob
<1>3. CopiesOK'
  BY DEF IInv, TypeOK, CopiesOK, HoldingOK, CopyRecords, Absent, Crash, LoseLink, ForgetJob,
     Upset, NoJob
<1>4. JobOK'
  BY DEF IInv, TypeOK, JobOK, HoldingOK, Working, Resolved, Crash, LoseLink, ForgetJob, Upset,
     NoJob
<1>5. Kept'
  BY DEF IInv, TypeOK, Kept, HoldingOK, CopiesOK, JobOK, Resolved, Superseded, IsCopyOf,
     Absent, Working, Crash, LoseLink, ForgetJob, Upset, NoJob
<1> QED
  BY <1>1, <1>2, <1>3, <1>4, <1>5 DEF IInv

\* The outcome is applied: Done is acked only for a resolved message.
LEMMA ApplyStep ==
    ASSUME IInv, NEW r \in Replicas, Apply(r)
    PROVE  IInv'
<1>1. TypeOK'
  BY DEF IInv, TypeOK, CopyRecords, Places, PCs, Reasons, Apply
<1>2. HoldingOK'
  BY DEF IInv, TypeOK, HoldingOK, CopiesOK, CopyRecords, Absent, Working, Apply
<1>3. CopiesOK'
  BY DEF IInv, TypeOK, CopiesOK, HoldingOK, CopyRecords, Absent, Apply
<1>4. JobOK'
  BY DEF IInv, TypeOK, JobOK, HoldingOK, Working, Resolved, Apply, Jobs, Actions
<1>5. Kept'
  BY DEF IInv, TypeOK, Kept, HoldingOK, CopiesOK, JobOK, Resolved, Superseded, IsCopyOf,
     Absent, Working, Apply
<1> QED
  BY <1>1, <1>2, <1>3, <1>4, <1>5 DEF IInv

\* The confirmation arrives: the held copy stays superseded.
LEMMA PublishConfirmedStep ==
    ASSUME IInv, NEW r \in Replicas, PublishConfirmed(r)
    PROVE  IInv'
<1>1. TypeOK'
  BY DEF IInv, TypeOK, CopyRecords, Places, PCs, Reasons, PublishConfirmed
<1>2. HoldingOK'
  BY DEF IInv, TypeOK, HoldingOK, CopiesOK, CopyRecords, Absent, Working, PublishConfirmed
<1>3. CopiesOK'
  BY DEF IInv, TypeOK, CopiesOK, HoldingOK, CopyRecords, Absent, PublishConfirmed
<1>4. JobOK'
  BY DEF IInv, TypeOK, JobOK, HoldingOK, Working, Resolved, PublishConfirmed
<1>5. Kept'
  BY DEF IInv, TypeOK, Kept, HoldingOK, CopiesOK, JobOK, Resolved, Superseded, IsCopyOf,
     Absent, Working, PublishConfirmed
<1> QED
  BY <1>1, <1>2, <1>3, <1>4, <1>5 DEF IInv

\* The republish ends with an error.
LEMMA PublishBrokenStep ==
    ASSUME IInv, NEW r \in Replicas, PublishBroken(r)
    PROVE  IInv'
<1>1. TypeOK'
  BY DEF IInv, TypeOK, CopyRecords, Places, PCs, Reasons, PublishBroken
<1>2. HoldingOK'
  BY DEF IInv, TypeOK, HoldingOK, CopiesOK, CopyRecords, Absent, Working, PublishBroken
<1>3. CopiesOK'
  BY DEF IInv, TypeOK, CopiesOK, HoldingOK, CopyRecords, Absent, PublishBroken
<1>4. JobOK'
  BY DEF IInv, TypeOK, JobOK, HoldingOK, Working, Resolved, PublishBroken
<1>5. Kept'
  BY DEF IInv, TypeOK, Kept, HoldingOK, CopiesOK, JobOK, Resolved, Superseded, IsCopyOf,
     Absent, Working, PublishBroken
<1> QED
  BY <1>1, <1>2, <1>3, <1>4, <1>5 DEF IInv

\* The broker refuses the republish: the held copy was not superseded.
LEMMA PublishRefusedStep ==
    ASSUME IInv, NEW r \in Replicas, PublishRefused(r)
    PROVE  IInv'
<1>1. TypeOK'
  <2>1. upset' \in [Messages -> SUBSET Reasons]
    BY DEF IInv, TypeOK, Reasons, PublishRefused, Upset
  <2> QED
    BY <2>1 DEF IInv, TypeOK, PCs, Reasons, PublishRefused, Upset
<1>2. HoldingOK'
  BY DEF IInv, TypeOK, HoldingOK, CopiesOK, CopyRecords, Absent, Working, PublishRefused, Upset
<1>3. CopiesOK'
  BY DEF IInv, TypeOK, CopiesOK, HoldingOK, CopyRecords, Absent, PublishRefused, Upset
<1>4. JobOK'
  BY DEF IInv, TypeOK, JobOK, HoldingOK, Working, Resolved, PublishRefused, Upset
<1>5. Kept'
  BY DEF IInv, TypeOK, Kept, HoldingOK, CopiesOK, JobOK, Resolved, Superseded, IsCopyOf,
     Absent, Working, PublishRefused, Upset
<1> QED
  BY <1>1, <1>2, <1>3, <1>4, <1>5 DEF IInv

\* The confirmation is late: the held copy is no longer superseded.
LEMMA PublishTimeoutStep ==
    ASSUME IInv, NEW r \in Replicas, PublishTimeout(r)
    PROVE  IInv'
<1>1. TypeOK'
  <2>1. upset' \in [Messages -> SUBSET Reasons]
    BY DEF IInv, TypeOK, Reasons, PublishTimeout, Upset
  <2> QED
    BY <2>1 DEF IInv, TypeOK, PCs, Reasons, PublishTimeout, Upset
<1>2. HoldingOK'
  BY DEF IInv, TypeOK, HoldingOK, CopiesOK, CopyRecords, Absent, Working, PublishTimeout, Upset
<1>3. CopiesOK'
  BY DEF IInv, TypeOK, CopiesOK, HoldingOK, CopyRecords, Absent, PublishTimeout, Upset
<1>4. JobOK'
  BY DEF IInv, TypeOK, JobOK, HoldingOK, Working, Resolved, PublishTimeout, Upset
<1>5. Kept'
  BY DEF IInv, TypeOK, Kept, HoldingOK, CopiesOK, JobOK, Resolved, Superseded, IsCopyOf,
     Absent, Working, PublishTimeout, Upset
<1> QED
  BY <1>1, <1>2, <1>3, <1>4, <1>5 DEF IInv

\* An ack removes a copy of a resolved message, or a superseded copy of one that has another.
LEMMA AckStep ==
    ASSUME IInv, NEW r \in Replicas, Ack(r)
    PROVE  IInv'
<1>1. TypeOK'
  <2>1. copy' \in [Copies -> CopyRecords]
    BY DEF IInv, TypeOK, CopyRecords, Places, Absent, Ack, Settle, ForgetJob, NoJob
  <2>2. job' \in [Replicas -> Jobs]
    BY DEF IInv, TypeOK, Jobs, Stages, Actions, Ack, Settle, ForgetJob, NoJob
  <2> QED
    BY <2>1, <2>2 DEF IInv, TypeOK, PCs, Reasons, Ack, Settle, ForgetJob, NoJob
<1>2. HoldingOK'
  BY DEF IInv, TypeOK, HoldingOK, CopiesOK, CopyRecords, Absent, Working, Ack, Settle,
     ForgetJob, NoJob
<1>3. CopiesOK'
  BY DEF IInv, TypeOK, CopiesOK, HoldingOK, CopyRecords, Absent, Ack, Settle, ForgetJob, NoJob
<1>4. JobOK'
  BY DEF IInv, TypeOK, JobOK, HoldingOK, Working, Resolved, Ack, Settle, ForgetJob, NoJob
<1>5. Kept'
  BY DEF IInv, TypeOK, Kept, HoldingOK, CopiesOK, JobOK, Resolved, Superseded, IsCopyOf,
     Absent, Working, Ack, Settle, ForgetJob, NoJob
<1> QED
  BY <1>1, <1>2, <1>3, <1>4, <1>5 DEF IInv

\* A nack returns the held copy to the main queue.
LEMMA NackStep ==
    ASSUME IInv, NEW r \in Replicas, Nack(r)
    PROVE  IInv'
<1>1. TypeOK'
  <2>1. copy' \in [Copies -> CopyRecords]
    BY DEF IInv, TypeOK, CopyRecords, Places, Absent, Nack, Settle, ForgetJob, NoJob
  <2>2. job' \in [Replicas -> Jobs]
    BY DEF IInv, TypeOK, Jobs, Stages, Actions, Nack, Settle, ForgetJob, NoJob
  <2> QED
    BY <2>1, <2>2 DEF IInv, TypeOK, PCs, Reasons, Nack, Settle, ForgetJob, NoJob
<1>2. HoldingOK'
  BY DEF IInv, TypeOK, HoldingOK, CopiesOK, CopyRecords, Absent, Working, Nack, Settle,
     ForgetJob, NoJob
<1>3. CopiesOK'
  BY DEF IInv, TypeOK, CopiesOK, HoldingOK, CopyRecords, Absent, Nack, Settle, ForgetJob, NoJob
<1>4. JobOK'
  BY DEF IInv, TypeOK, JobOK, HoldingOK, Working, Resolved, Nack, Settle, ForgetJob, NoJob
<1>5. Kept'
  BY DEF IInv, TypeOK, Kept, HoldingOK, CopiesOK, JobOK, Resolved, Superseded, IsCopyOf,
     Absent, Working, Nack, Settle, ForgetJob, NoJob
<1> QED
  BY <1>1, <1>2, <1>3, <1>4, <1>5 DEF IInv

\* The success callback: the job is done and the email was sent.
LEMMA NotifySuccessStep ==
    ASSUME IInv, NEW r \in Replicas, NotifySuccess(r)
    PROVE  IInv'
<1>1. TypeOK'
  <2>1. PICK accepted \in BOOLEAN :
          /\ told' = [told EXCEPT ![jobMsg[r]] = @ \cup (IF accepted THEN {"sent"} ELSE {})]
          /\ job' = [job EXCEPT ![r] = AfterNotifySuccess(job[r])]
    BY DEF NotifySuccess
  <2>2. AfterNotifySuccess(job[r]) \in Jobs
    BY OutcomeFacts DEF AfterNotifySuccess, IInv, TypeOK, Actions
  <2>3. job' \in [Replicas -> Jobs]
    BY <2>1, <2>2 DEF IInv, TypeOK
  <2>4. (IF accepted THEN {"sent"} ELSE {}) \subseteq {"sent", "failed"}
    OBVIOUS
  <2>5. told' \in [Messages -> SUBSET {"sent", "failed"}]
    BY <2>1, <2>4 DEF IInv, TypeOK
  <2> QED
    BY <2>3, <2>5 DEF IInv, TypeOK, NotifySuccess
<1>2. HoldingOK'
  BY DEF IInv, TypeOK, HoldingOK, CopiesOK, CopyRecords, Absent, Working, NotifySuccess,
     AfterNotifySuccess, Outcome
<1>3. CopiesOK'
  BY DEF IInv, TypeOK, CopiesOK, HoldingOK, CopyRecords, Absent, NotifySuccess,
     AfterNotifySuccess, Outcome
<1>4. JobOK'
  BY DEF IInv, TypeOK, JobOK, HoldingOK, Working, Resolved, NotifySuccess, AfterNotifySuccess,
     Outcome
<1>5. Kept'
  BY DEF IInv, TypeOK, Kept, HoldingOK, CopiesOK, JobOK, Resolved, Superseded, IsCopyOf,
     Absent, Working, NotifySuccess, AfterNotifySuccess, Outcome
<1> QED
  BY <1>1, <1>2, <1>3, <1>4, <1>5 DEF IInv

\* The failure callback: the job is done only when the failure was accepted.
LEMMA NotifyFailureStep ==
    ASSUME IInv, NEW r \in Replicas, NotifyFailure(r)
    PROVE  IInv'
<1>1. TypeOK'
  <2>1. PICK res \in NotifyResults :
          /\ told' = [told EXCEPT ![jobMsg[r]] = @ \cup (IF res.taken THEN {"failed"} ELSE {})]
          /\ job' = [job EXCEPT ![r] = AfterNotifyFailure(job[r], res.ok)]
          /\ upset' = [upset EXCEPT ![jobMsg[r]] =
                         @ \cup (IF res.taken /\ ~res.ok THEN {"unheard"} ELSE {})]
    BY DEF NotifyFailure
  <2>2. AfterNotifyFailure(job[r], res.ok) \in Jobs
    BY OutcomeFacts DEF AfterNotifyFailure, IInv, TypeOK, Actions
  <2>3. job' \in [Replicas -> Jobs]
    BY <2>1, <2>2 DEF IInv, TypeOK
  <2>4. (IF res.taken THEN {"failed"} ELSE {}) \subseteq {"sent", "failed"}
    OBVIOUS
  <2>5. told' \in [Messages -> SUBSET {"sent", "failed"}]
    BY <2>1, <2>4 DEF IInv, TypeOK
  <2>6. (IF res.taken /\ ~res.ok THEN {"unheard"} ELSE {}) \subseteq Reasons
    BY DEF Reasons
  <2>7. upset' \in [Messages -> SUBSET Reasons]
    BY <2>1, <2>6 DEF IInv, TypeOK
  <2> QED
    BY <2>3, <2>5, <2>7 DEF IInv, TypeOK, NotifyFailure
<1>2. HoldingOK'
  BY DEF IInv, TypeOK, HoldingOK, CopiesOK, CopyRecords, Absent, Working, NotifyFailure,
     AfterNotifyFailure, Outcome
<1>3. CopiesOK'
  BY DEF IInv, TypeOK, CopiesOK, HoldingOK, CopyRecords, Absent, NotifyFailure,
     AfterNotifyFailure, Outcome
<1>4. JobOK'
  BY DEF IInv, TypeOK, JobOK, HoldingOK, Working, Resolved, NotifyFailure, NotifyResults,
     AfterNotifyFailure, Outcome
<1>5. Kept'
  BY DEF IInv, TypeOK, Kept, HoldingOK, CopiesOK, JobOK, Resolved, Superseded, IsCopyOf,
     Absent, Working, NotifyFailure, AfterNotifyFailure, Outcome
<1> QED
  BY <1>1, <1>2, <1>3, <1>4, <1>5 DEF IInv

\* The broker takes the republished copy: it supersedes the held one, and nobody holds it yet.
LEMMA PublishAcceptedStep ==
    ASSUME IInv, NEW r \in Replicas, PublishAccepted(r)
    PROVE  IInv'
<1>1. PICK c \in Copies, place \in {"retry", "dlq"}, attempt \in Int :
        /\ copy[c] = Absent
        /\ copy' = [copy EXCEPT ![c] = [at |-> place, msg |-> jobMsg[r], header |-> attempt]]
  <2>1. job[r].attempt \in Int /\ job[r].attempt + 1 \in Int
    BY DEF IInv, TypeOK, Jobs
  <2>2. CASE job[r].action = "retry"
    BY <2>1, <2>2 DEF PublishAccepted, Enqueue
  <2>3. CASE job[r].action # "retry"
    BY <2>1, <2>3 DEF PublishAccepted, Enqueue
  <2> QED
    BY <2>2, <2>3
<1>2. /\ pc[r] = "publishing"
      /\ pc' = [pc EXCEPT ![r] = "confirming"]
      /\ UNCHANGED << link, held, job, jobMsg, producerVars, worldVars, upset, upsets >>
  BY DEF PublishAccepted
<1>3. jobMsg[r] \in published /\ jobMsg[r] \in Messages
  BY <1>2 DEF IInv, HoldingOK, TypeOK, Working
<1>4. \A s \in Replicas : held[s] # c
  BY <1>1 DEF IInv, HoldingOK, TypeOK, Absent
<1>5. TypeOK'
  BY <1>1, <1>2, <1>3 DEF IInv, TypeOK, CopyRecords, Places, PCs
<1>6. HoldingOK'
  BY <1>1, <1>2, <1>4 DEF IInv, HoldingOK, TypeOK, Working
<1>7. CopiesOK'
  BY <1>1, <1>2, <1>3 DEF IInv, CopiesOK, TypeOK
<1>8. JobOK'
  BY <1>1, <1>2 DEF IInv, JobOK, TypeOK, Resolved
<1>9. Kept'
  <2>1. copy'[c].msg = jobMsg[r] /\ ~Superseded(c)'
    BY <1>1, <1>2, <1>4 DEF IInv, TypeOK, Superseded
  <2>2. ASSUME NEW d \in Copies, IsCopyOf(d, jobMsg[r]) # TRUE, ~Superseded(d), d # c
        PROVE  ~Superseded(d)'
    BY <1>1, <1>2, <2>2 DEF IInv, TypeOK, HoldingOK, Superseded, IsCopyOf
  <2>3. ASSUME NEW m \in published', ~Resolved(m)'
        PROVE  \E d \in Copies : IsCopyOf(d, m)' /\ ~Superseded(d)'
    <3>1. CASE m = jobMsg[r]
      BY <2>1, <3>1 DEF IsCopyOf
    <3>2. CASE m # jobMsg[r]
      <4>1. PICK d \in Copies : IsCopyOf(d, m) /\ ~Superseded(d)
        BY <1>2, <2>3 DEF IInv, Kept, Resolved
      <4>2. d # c
        BY <1>1, <1>2, <4>1 DEF IsCopyOf, Absent, IInv, TypeOK
      <4> QED
        BY <1>1, <1>2, <2>2, <3>2, <4>1, <4>2 DEF IsCopyOf, IInv, TypeOK
    <3> QED
      BY <3>1, <3>2
  <2> QED
    BY <2>3 DEF Kept
<1> QED
  BY <1>5, <1>6, <1>7, <1>8, <1>9 DEF IInv

\* A replica receives a copy from the main queue, which nobody holds.
LEMMA ReceiveStep ==
    ASSUME IInv, NEW r \in Replicas, NEW c \in Copies, Receive(r, c)
    PROVE  IInv'
<1> DEFINE attempt == attemptOf(copy[c].header)
           j == Handle(request[copy[c].msg], attempt, CanRetry(attempt))
<1>1. copy[c].msg \in published /\ copy[c].msg \in Messages
  BY DEF Receive, IInv, CopiesOK, Absent, TypeOK
<1>2. /\ j \in Jobs
      /\ \/ j.stage = "send" /\ j.action = "none"
         \/ j.stage = "outcome" /\ j.action = "dead_letter"
  <2>1. attempt \in Nat \ {0}
    BY AttemptFacts DEF IInv, TypeOK, CopyRecords
  <2>2. CanRetry(attempt) \in BOOLEAN
    BY DEF CanRetry
  <2>3. request[copy[c].msg] \in Requests
    BY <1>1 DEF IInv, TypeOK
  <2> QED
    BY <2>1, <2>2, <2>3, HandleFacts
<1>3. /\ pc[r] = "consuming"
      /\ copy[c].at = "main"
      /\ copy' = [copy EXCEPT ![c].at = "unacked"]
      /\ held' = [held EXCEPT ![r] = c]
      /\ jobMsg' = [jobMsg EXCEPT ![r] = copy[c].msg]
      /\ job' = [job EXCEPT ![r] = j]
      /\ pc' = [pc EXCEPT ![r] = "handling"]
      /\ UNCHANGED << link, producerVars, worldVars, upset, upsets >>
  BY DEF Receive
<1> HIDE DEF j
<1>4. TypeOK'
  BY <1>1, <1>2, <1>3 DEF IInv, TypeOK, CopyRecords, Places, PCs
<1>5. HoldingOK'
  BY <1>1, <1>3 DEF IInv, TypeOK, HoldingOK, CopyRecords, Working
<1>6. CopiesOK'
  BY <1>1, <1>3 DEF IInv, TypeOK, CopiesOK, CopyRecords, Absent
<1>7. JobOK'
  BY <1>2, <1>3 DEF IInv, TypeOK, JobOK, Resolved
<1>8. Kept'
  BY <1>2, <1>3 DEF IInv, TypeOK, Kept, HoldingOK, CopyRecords, IsCopyOf, Superseded, Resolved
<1> QED
  BY <1>4, <1>5, <1>6, <1>7, <1>8 DEF IInv

\* The request is handed to the provider: the job goes on to a success only for a sent email.
LEMMA SendStep ==
    ASSUME IInv, NEW r \in Replicas, Send(r)
    PROVE  IInv'
<1> DEFINE m == jobMsg[r]
<1>1. /\ pc[r] = "handling"
      /\ job[r].stage = "send"
      /\ m \in Messages
      /\ request[m] \in Requests
      /\ job[r] \in Jobs
      /\ job[r].action = "none"
  BY DEF Send, IInv, TypeOK, HoldingOK, JobOK, Working
<1>2. PICK res \in SendResults(request[m], SenderCodes) :
        /\ job' = [job EXCEPT ![r] = AfterSend(request[m], job[r], res.err)]
        /\ sent' = [sent EXCEPT ![m] = @ + (IF res.accepted THEN 1 ELSE 0)]
        /\ tries' = [tries EXCEPT ![m] = @ + 1]
        /\ upset' = [upset EXCEPT ![m] =
                       @ \cup (IF res.accepted /\ res.err # NoError THEN {"ambiguous"} ELSE {})]
  BY DEF Send
<1>3. /\ res.accepted \in BOOLEAN
      /\ res.err \in ErrorCodes \cup {NoError}
      /\ res.err = NoError => res.accepted
  BY <1>1, SendResultFacts
<1> DEFINE k == AfterSend(request[m], job[r], res.err)
<1>4. /\ k \in Jobs
      /\ k.stage # "send"
      /\ k.stage # "outcome" => k.action = "none"
      /\ k.stage = "outcome" => k.action # "none"
      /\ k.stage = "notify_success" \/ k.action = "done" => res.err = NoError
  BY <1>1, <1>3, AfterSendFacts
<1>5. job' = [job EXCEPT ![r] = k]
  BY <1>2
<1>6. UNCHANGED << pc, link, held, jobMsg, producerVars, copy, told, upsets >>
  BY DEF Send
<1> HIDE DEF k
<1>7. \A n \in Messages : sent[n] \in Nat /\ sent'[n] \in Nat /\ sent'[n] >= sent[n]
  BY <1>1, <1>2, <1>3 DEF IInv, TypeOK
<1>8. k.stage = "notify_success" \/ k.action = "done" => sent'[m] > 0
  BY <1>1, <1>2, <1>3, <1>4, <1>7 DEF IInv, TypeOK
<1>9. TypeOK'
  <2>1. sent' \in [Messages -> Nat] /\ tries' \in [Messages -> Nat]
    BY <1>1, <1>2, <1>3 DEF IInv, TypeOK
  <2>2. upset' \in [Messages -> SUBSET Reasons]
    BY <1>1, <1>2 DEF IInv, TypeOK, Reasons
  <2>3. job' \in [Replicas -> Jobs]
    BY <1>4, <1>5 DEF IInv, TypeOK
  <2> QED
    BY <1>6, <2>1, <2>2, <2>3 DEF IInv, TypeOK
<1>10. HoldingOK'
  BY <1>6 DEF IInv, HoldingOK
<1>11. CopiesOK'
  BY <1>6 DEF IInv, CopiesOK
<1>12. JobOK'
  BY <1>1, <1>4, <1>5, <1>6, <1>7, <1>8 DEF IInv, TypeOK, JobOK, HoldingOK, Resolved, Working
<1>13. Kept'
  BY <1>1, <1>5, <1>6, <1>7 DEF IInv, TypeOK, Kept, IsCopyOf, Superseded, Resolved
<1> QED
  BY <1>9, <1>10, <1>11, <1>12, <1>13 DEF IInv

-----------------------------------------------------------------------------
(***************************************************************************)
(* The theorems.                                                           *)
(***************************************************************************)

\* Every step of the system preserves the invariant.
LEMMA NextIInv == IInv /\ [Next]_vars => IInv'
<1> SUFFICES ASSUME IInv, [Next]_vars PROVE IInv'
  OBVIOUS
<1>1. CASE \E m \in Messages : Publish(m)
  BY <1>1, PublishStep
<1>2. CASE \E c \in Copies : BrokerStep(c)
  BY <1>2, ExpireStep, RequeueStep DEF BrokerStep
<1>3. ASSUME NEW r \in Replicas, Step(r) PROVE IInv'
  BY <1>3, StartStep, ConnectStep, ReconnectStep, ReceiveStep, SendStep, NotifySuccessStep,
     NotifyFailureStep, ApplyStep, PublishAcceptedStep, PublishConfirmedStep, PublishBrokenStep,
     AckStep, NackStep
     DEF Step
<1>4. ASSUME NEW r \in Replicas, Disturbance(r) PROVE IInv'
  BY <1>4, DisconnectStep, ShutdownStep, CrashStep, PublishRefusedStep, PublishTimeoutStep
     DEF Disturbance
<1>5. CASE UNCHANGED vars
  BY <1>5 DEF vars, IInv, TypeOK, HoldingOK, CopiesOK, JobOK, Kept, Resolved, IsCopyOf, Superseded
<1> QED
  BY <1>1, <1>2, <1>3, <1>4, <1>5 DEF Next

\* The invariant holds in every reachable state.
LEMMA Invariance == Spec => []IInv
BY InitIInv, NextIInv, PTL DEF Spec

\* Type correctness of the RabbitMQ source for every value of the constants; it needs the rest of
\* the invariant, because a replica at work must know the message it is working on.
THEOREM TypeCorrect == Spec => []TypeOK
<1>1. IInv => TypeOK
  BY DEF IInv
<1> QED
  BY <1>1, Invariance, PTL

\* No crash, lost connection, refused or timed-out republish loses a published message before it
\* reached an outcome (apply and publishConfirmed, rabbitmq_dispatch.go:19-77), for any number of
\* replicas and messages.
THEOREM NothingIsLost == Spec => []NeverLost
<1>1. IInv => NeverLost
  BY DEF IInv, Kept, NeverLost, Resolved
<1> QED
  BY <1>1, Invariance, PTL

-----------------------------------------------------------------------------
(***************************************************************************)
(* The inductive invariant: a message that was neither redelivered nor     *)
(* forked has one live copy at a time, and whoever has that copy knows how *)
(* far the message has come.                                               *)
(***************************************************************************)

\* Somebody may still act on this copy of m.
Live(c, m) == IsCopyOf(c, m) /\ ~Superseded(c)

\* A callback has accepted an event of m.
Told(m) == "sent" \in told[m] \/ "failed" \in told[m]

\* A replica at work holds its copy until its connection is lost, and then the copy is redelivered.
LinkOK ==
    \A r \in Replicas :
        /\ held[r] # NoCopy => link[r]
        /\ pc[r] \in Working /\ held[r] = NoCopy =>
              ~link[r] /\ "redelivered" \in upset[jobMsg[r]]

\* What sends a copy back to the main queue has disturbed its message.
TroubleOK ==
    /\ \A r \in Replicas : pc[r] = "nacking" =>
          \E reason \in {"redelivered", "forked", "refused"} : reason \in upset[jobMsg[r]]
    /\ \A c \in Copies : copy[c].at = "orphan" => "redelivered" \in upset[copy[c].msg]

\* Nothing has happened to a message that was not published.
UnpublishedOK ==
    \A m \in Messages \ published : sent[m] = 0 /\ tries[m] = 0 /\ ~Told(m)

\* The call of the handler for m ends with an ack of its copy.
Finishing(r) ==
    /\ pc[r] \in {"handling", "acking"}
    /\ job[r].stage = "notify_success" \/ job[r].action = "done"

\* One copy at a time is live.
OneLiveCopy(m) ==
    Undisturbed(m, {"redelivered", "forked"}) =>
        \A c, d \in Copies : Live(c, m) /\ Live(d, m) => c = d

\* The live copy of a message that was sent is in the hands of the replica that sent it.
SentOK(m) ==
    Undisturbed(m, {"redelivered", "forked", "ambiguous"}) =>
        /\ sent[m] <= 1
        /\ sent[m] > 0 =>
              \A c \in Copies : Live(c, m) => \E r \in Replicas : held[r] = c /\ Finishing(r)

\* The live copy of a message that a callback was told of is about to be acked, and the callback
\* was told the truth, unless it took its event unheard.
ToldOK(m) ==
    Undisturbed(m, {"redelivered", "forked", "ambiguous", "unheard"}) /\ Told(m) =>
        /\ told[m] = IF sent[m] = 0 THEN {"failed"} ELSE {"sent"}
        /\ \A c \in Copies : Live(c, m) =>
              \E r \in Replicas : held[r] = c /\ Finishing(r) /\ job[r].action = "done"

DeliveryOK(m) == OneLiveCopy(m) /\ SentOK(m) /\ ToldOK(m)

\* The attempt numbered attempt may be made: it counts all the attempts that were.
Due(m, attempt) == tries[m] < attempt /\ (tries[m] > 0 => attempt <= MaxAttempts)

RetriesOK ==
    \A r \in Replicas :
        /\ pc[r] \in Working /\ job[r].canRetry => job[r].attempt < MaxAttempts
        /\ pc[r] \in Working /\ job[r].action = "retry" => job[r].canRetry
        /\ pc[r] = "publishing" => job[r].stage = "outcome"

TriesOK ==
    \A m \in Messages : Undisturbed(m, {"redelivered", "forked", "refused"}) =>
        /\ tries[m] <= MaxAttempts
        /\ \A c \in Copies : IsCopyOf(c, m) /\ copy[c].at \in {"main", "retry"} =>
              Due(m, attemptOf(copy[c].header))
        /\ \A r \in Replicas : jobMsg[r] = m /\ pc[r] \in {"handling", "publishing"} =>
              IF job[r].stage = "send" THEN Due(m, job[r].attempt) ELSE tries[m] <= job[r].attempt

DInv ==
    /\ LinkOK /\ TroubleOK /\ UnpublishedOK /\ RetriesOK /\ TriesOK
    /\ \A m \in Messages : DeliveryOK(m)

-----------------------------------------------------------------------------
(***************************************************************************)
(* What a step does to the reasons and the copies.                         *)
(***************************************************************************)

\* Marking a message with a reason adds that reason to it and takes none away.
LEMMA MarkFacts ==
    ASSUME TypeOK, NEW m \in Messages, NEW reason,
           upset' = [upset EXCEPT ![m] = @ \cup {reason}]
    PROVE  /\ reason \in upset'[m]
           /\ \A n \in Messages : upset[n] \subseteq upset'[n]
BY DEF TypeOK

\* A lost connection orphans the copy held on it, whose message is redelivered.
LEMMA LoseLinkFacts ==
    ASSUME IInv, NEW r \in Replicas, LoseLink(r)
    PROVE  /\ link' = [link EXCEPT ![r] = FALSE]
           /\ held' = [held EXCEPT ![r] = NoCopy]
           /\ \A c \in Copies : c # held[r] => copy'[c] = copy[c]
           /\ \A c \in Copies : c = held[r] =>
                 /\ copy[c].msg = jobMsg[r]
                 /\ copy'[c].msg = copy[c].msg
                 /\ copy'[c].header = copy[c].header
                 /\ copy'[c].at = "orphan"
           /\ held[r] # NoCopy => "redelivered" \in upset'[jobMsg[r]]
           /\ \A n \in Messages : upset[n] \subseteq upset'[n]
<1>1. held[r] # NoCopy => jobMsg[r] \in Messages
  BY DEF IInv, TypeOK, HoldingOK, Working
<1>2. \A n \in Messages : upset'[n] = IF held[r] # NoCopy /\ n = jobMsg[r]
                                      THEN upset[n] \cup {"redelivered"} ELSE upset[n]
  BY DEF LoseLink
<1>3. /\ held[r] # NoCopy => "redelivered" \in upset'[jobMsg[r]]
      /\ \A n \in Messages : upset[n] \subseteq upset'[n]
  BY <1>1, <1>2
<1> QED
  BY <1>3 DEF LoseLink, IInv, TypeOK, HoldingOK, CopyRecords

\* A step that neither sends n nor tells of it: it suffices that it lets nobody act on a copy who
\* could not act on it before, and keeps the replicas that are finishing.
LEMMA QuietStep ==
    ASSUME DInv, NEW n \in Messages,
           sent'[n] = sent[n], told'[n] = told[n], upset[n] \subseteq upset'[n],
           ASSUME NEW k \in Copies, Undisturbed(n, {"redelivered", "forked"})', Live(k, n)'
           PROVE  Live(k, n),
           ASSUME NEW k \in Copies, NEW s \in Replicas,
                  Undisturbed(n, {"redelivered", "forked"})', Live(k, n)',
                  held[s] = k, Finishing(s)
           PROVE  /\ held'[s] = k /\ Finishing(s)'
                  /\ job[s].action = "done" => job'[s].action = "done"
    PROVE  DeliveryOK(n)'
<1>1. /\ upset'[n] \cap {"redelivered", "forked"} = {} =>
            upset[n] \cap {"redelivered", "forked"} = {}
      /\ upset'[n] \cap {"redelivered", "forked", "ambiguous"} = {} =>
            /\ upset[n] \cap {"redelivered", "forked", "ambiguous"} = {}
            /\ upset'[n] \cap {"redelivered", "forked"} = {}
      /\ upset'[n] \cap {"redelivered", "forked", "ambiguous", "unheard"} = {} =>
            /\ upset[n] \cap {"redelivered", "forked", "ambiguous", "unheard"} = {}
            /\ upset'[n] \cap {"redelivered", "forked"} = {}
  OBVIOUS
<1>2. Told(n)' <=> Told(n)
  BY DEF Told
<1>3. OneLiveCopy(n)'
  <2> SUFFICES ASSUME upset'[n] \cap {"redelivered", "forked"} = {},
                      NEW c \in Copies, NEW d \in Copies, Live(c, n)', Live(d, n)'
               PROVE  c = d
    BY DEF OneLiveCopy, Undisturbed
  <2>1. Live(c, n) /\ Live(d, n)
    BY DEF Undisturbed
  <2> QED
    BY <1>1, <2>1 DEF OneLiveCopy, DeliveryOK, DInv, Undisturbed
<1>4. SentOK(n)'
  <2> SUFFICES ASSUME upset'[n] \cap {"redelivered", "forked", "ambiguous"} = {}
               PROVE  /\ sent'[n] <= 1
                      /\ sent'[n] > 0 =>
                           \A c \in Copies : Live(c, n)' =>
                             \E s \in Replicas : held'[s] = c /\ Finishing(s)'
    BY DEF SentOK, Undisturbed
  <2>1. sent'[n] <= 1
    BY <1>1 DEF SentOK, DeliveryOK, DInv, Undisturbed
  <2>2. ASSUME sent'[n] > 0, NEW c \in Copies, Live(c, n)'
        PROVE  \E s \in Replicas : held'[s] = c /\ Finishing(s)'
    <3>1. Live(c, n)
      BY <1>1, <2>2 DEF Undisturbed
    <3>2. PICK s \in Replicas : held[s] = c /\ Finishing(s)
      BY <1>1, <2>2, <3>1 DEF SentOK, DeliveryOK, DInv, Undisturbed
    <3>3. held'[s] = c /\ Finishing(s)'
      BY <1>1, <2>2, <3>2 DEF Undisturbed
    <3> QED
      BY <3>3
  <2> QED
    BY <2>1, <2>2
<1>5. ToldOK(n)'
  <2> SUFFICES ASSUME Told(n)',
                      upset'[n] \cap {"redelivered", "forked", "ambiguous", "unheard"} = {}
               PROVE  /\ told'[n] = IF sent'[n] = 0 THEN {"failed"} ELSE {"sent"}
                      /\ \A c \in Copies : Live(c, n)' =>
                           \E s \in Replicas :
                               held'[s] = c /\ Finishing(s)' /\ job'[s].action = "done"
    BY DEF ToldOK, Undisturbed
  <2>1. told'[n] = IF sent'[n] = 0 THEN {"failed"} ELSE {"sent"}
    BY <1>1, <1>2 DEF ToldOK, DeliveryOK, DInv, Undisturbed
  <2>2. ASSUME NEW c \in Copies, Live(c, n)'
        PROVE  \E s \in Replicas : held'[s] = c /\ Finishing(s)' /\ job'[s].action = "done"
    <3>1. Live(c, n) /\ Told(n)
      BY <1>1, <1>2, <2>2 DEF Undisturbed
    <3>2. PICK s \in Replicas : held[s] = c /\ Finishing(s) /\ job[s].action = "done"
      BY <1>1, <3>1 DEF ToldOK, DeliveryOK, DInv, Undisturbed
    <3>3. held'[s] = c /\ Finishing(s)' /\ job'[s].action = "done"
      BY <1>1, <2>2, <3>2 DEF Undisturbed
    <3> QED
      BY <3>3
  <2> QED
    BY <2>1, <2>2
<1> QED
  BY <1>3, <1>4, <1>5 DEF DeliveryOK

\* A replica that has not published its message holds the live copy of it, unless that was
\* redelivered.
LEMMA HolderFacts ==
    ASSUME IInv, DInv, NEW r \in Replicas, pc[r] \in {"handling", "publishing"},
           NEW m \in Messages, m = jobMsg[r], Undisturbed(m, {"redelivered", "forked"})
    PROVE  /\ held[r] \in Copies
           /\ Live(held[r], m)
           /\ \A c \in Copies : Live(c, m) => c = held[r]
<1>1. held[r] \in Copies
  BY DEF IInv, TypeOK, DInv, LinkOK, Working, Undisturbed
<1>2. Live(held[r], m)
  BY <1>1 DEF IInv, TypeOK, HoldingOK, Live, IsCopyOf, Superseded
<1> QED
  BY <1>1, <1>2 DEF DInv, DeliveryOK, OneLiveCopy

\* While it still has to send, to tell or to republish, nobody has sent the message, and no
\* callback knows of it, unless one took its event unheard.
LEMMA OpenFacts ==
    ASSUME IInv, DInv, NEW r \in Replicas, pc[r] \in {"handling", "publishing"},
           NEW m \in Messages, m = jobMsg[r],
           Undisturbed(m, {"redelivered", "forked", "ambiguous"})
    PROVE  /\ ~Finishing(r) => sent[m] = 0
           /\ "unheard" \notin upset[m] /\ ~(Finishing(r) /\ job[r].action = "done") =>
                 told[m] = {}
<1>1. Undisturbed(m, {"redelivered", "forked"})
  BY DEF Undisturbed
<1>2. held[r] \in Copies /\ Live(held[r], m)
  BY <1>1, HolderFacts
<1>3. \A s \in Replicas : held[s] = held[r] => s = r
  BY <1>2 DEF IInv, HoldingOK
<1>4. sent[m] > 0 => Finishing(r)
  BY <1>2, <1>3 DEF DInv, DeliveryOK, SentOK
<1>5. "unheard" \notin upset[m] /\ Told(m) => Finishing(r) /\ job[r].action = "done"
  BY <1>2, <1>3 DEF DInv, DeliveryOK, ToldOK, Undisturbed
<1>6. sent[m] \in Nat /\ told[m] \subseteq {"sent", "failed"}
  BY DEF IInv, TypeOK
<1>7. ~Told(m) => told[m] = {}
  BY <1>6 DEF Told
<1> QED
  BY <1>4, <1>5, <1>6, <1>7

\* A retry expires.
LEMMA ExpireDelivery ==
    ASSUME IInv, DInv, NEW c \in Copies, Expire(c)
    PROVE  DInv'
<1>1. LinkOK'
  BY DEF IInv, DInv, TypeOK, CopyRecords, LinkOK, HoldingOK, Working, Expire
<1>2. TroubleOK'
  BY DEF IInv, DInv, TypeOK, CopyRecords, TroubleOK, HoldingOK, LinkOK, Working, CopiesOK, Absent,
         Expire
<1>3. UnpublishedOK'
  BY DEF IInv, DInv, TypeOK, CopyRecords, UnpublishedOK, Told, HoldingOK, Working, Expire
<1>4. RetriesOK'
  BY DEF IInv, DInv, TypeOK, CopyRecords, RetriesOK, JobOK, Working, Expire
<1>5. TriesOK'
  BY DEF IInv, DInv, TypeOK, CopyRecords, TriesOK, HoldingOK, JobOK, IsCopyOf, Undisturbed,
         LinkOK, TroubleOK, CopiesOK, Absent, Working, Due, attemptOf, UnpublishedOK, RetriesOK,
         Expire
<1>6. ASSUME NEW n \in Messages PROVE DeliveryOK(n)'
  <2>1. sent'[n] = sent[n] /\ told'[n] = told[n] /\ upset[n] \subseteq upset'[n]
    BY DEF IInv, TypeOK, Expire
  <2>2. ASSUME NEW k \in Copies, Undisturbed(n, {"redelivered", "forked"})', Live(k, n)'
        PROVE  Live(k, n)
    BY <2>2 DEF IInv, DInv, TypeOK, CopyRecords, HoldingOK, LinkOK, TroubleOK, Absent, Working,
                Undisturbed, Live, Superseded, IsCopyOf, Expire
  <2>3. ASSUME NEW k \in Copies, NEW s \in Replicas,
               Undisturbed(n, {"redelivered", "forked"})', Live(k, n)',
               held[s] = k, Finishing(s)
        PROVE  /\ held'[s] = k /\ Finishing(s)'
               /\ job[s].action = "done" => job'[s].action = "done"
    BY <2>3 DEF IInv, DInv, TypeOK, CopyRecords, HoldingOK, JobOK, LinkOK, TroubleOK, Absent,
                Working, Undisturbed, Finishing, Live, Superseded, IsCopyOf, Expire
  <2> QED
    BY <2>1, <2>2, <2>3, QuietStep
<1> QED
  BY <1>1, <1>2, <1>3, <1>4, <1>5, <1>6 DEF DInv

\* An orphan is requeued: its message was redelivered.
LEMMA RequeueDelivery ==
    ASSUME IInv, DInv, NEW c \in Copies, Requeue(c)
    PROVE  DInv'
<1>1. LinkOK'
  BY DEF IInv, DInv, TypeOK, CopyRecords, LinkOK, HoldingOK, Working, Requeue
<1>2. TroubleOK'
  BY DEF IInv, DInv, TypeOK, CopyRecords, TroubleOK, HoldingOK, LinkOK, Working, CopiesOK, Absent,
         Requeue
<1>3. UnpublishedOK'
  BY DEF IInv, DInv, TypeOK, CopyRecords, UnpublishedOK, Told, HoldingOK, Working, Requeue
<1>4. RetriesOK'
  BY DEF IInv, DInv, TypeOK, CopyRecords, RetriesOK, JobOK, Working, Requeue
<1>5. TriesOK'
  BY DEF IInv, DInv, TypeOK, CopyRecords, TriesOK, HoldingOK, JobOK, IsCopyOf, Undisturbed,
         LinkOK, TroubleOK, CopiesOK, Absent, Working, Due, attemptOf, UnpublishedOK, RetriesOK,
         Requeue
<1>6. ASSUME NEW n \in Messages PROVE DeliveryOK(n)'
  <2>1. sent'[n] = sent[n] /\ told'[n] = told[n] /\ upset[n] \subseteq upset'[n]
    BY DEF IInv, TypeOK, Requeue
  <2>2. ASSUME NEW k \in Copies, Undisturbed(n, {"redelivered", "forked"})', Live(k, n)'
        PROVE  Live(k, n)
    BY <2>2 DEF IInv, DInv, TypeOK, CopyRecords, HoldingOK, LinkOK, TroubleOK, Absent, Working,
                Undisturbed, Live, Superseded, IsCopyOf, Requeue
  <2>3. ASSUME NEW k \in Copies, NEW s \in Replicas,
               Undisturbed(n, {"redelivered", "forked"})', Live(k, n)',
               held[s] = k, Finishing(s)
        PROVE  /\ held'[s] = k /\ Finishing(s)'
               /\ job[s].action = "done" => job'[s].action = "done"
    BY <2>3 DEF IInv, DInv, TypeOK, CopyRecords, HoldingOK, JobOK, LinkOK, TroubleOK, Absent,
                Working, Undisturbed, Finishing, Live, Superseded, IsCopyOf, Requeue
  <2> QED
    BY <2>1, <2>2, <2>3, QuietStep
<1> QED
  BY <1>1, <1>2, <1>3, <1>4, <1>5, <1>6 DEF DInv

\* The process starts.
LEMMA StartDelivery ==
    ASSUME IInv, DInv, NEW r \in Replicas, Start(r)
    PROVE  DInv'
<1>1. LinkOK'
  BY DEF IInv, DInv, TypeOK, CopyRecords, LinkOK, HoldingOK, Working, Start
<1>2. TroubleOK'
  BY DEF IInv, DInv, TypeOK, CopyRecords, TroubleOK, HoldingOK, LinkOK, Working, CopiesOK, Absent,
         Start
<1>3. UnpublishedOK'
  BY DEF IInv, DInv, TypeOK, CopyRecords, UnpublishedOK, Told, HoldingOK, Working, Start
<1>4. RetriesOK'
  BY DEF IInv, DInv, TypeOK, CopyRecords, RetriesOK, JobOK, Working, Start
<1>5. TriesOK'
  BY DEF IInv, DInv, TypeOK, CopyRecords, TriesOK, HoldingOK, JobOK, IsCopyOf, Undisturbed,
         LinkOK, TroubleOK, CopiesOK, Absent, Working, Due, attemptOf, UnpublishedOK, RetriesOK,
         Start
<1>6. ASSUME NEW n \in Messages PROVE DeliveryOK(n)'
  <2>1. sent'[n] = sent[n] /\ told'[n] = told[n] /\ upset[n] \subseteq upset'[n]
    BY DEF IInv, TypeOK, Start
  <2>2. ASSUME NEW k \in Copies, Undisturbed(n, {"redelivered", "forked"})', Live(k, n)'
        PROVE  Live(k, n)
    BY <2>2 DEF IInv, DInv, TypeOK, CopyRecords, HoldingOK, LinkOK, TroubleOK, Absent, Working,
                Undisturbed, Live, Superseded, IsCopyOf, Start
  <2>3. ASSUME NEW k \in Copies, NEW s \in Replicas,
               Undisturbed(n, {"redelivered", "forked"})', Live(k, n)',
               held[s] = k, Finishing(s)
        PROVE  /\ held'[s] = k /\ Finishing(s)'
               /\ job[s].action = "done" => job'[s].action = "done"
    BY <2>3 DEF IInv, DInv, TypeOK, CopyRecords, HoldingOK, JobOK, LinkOK, TroubleOK, Absent,
                Working, Undisturbed, Finishing, Live, Superseded, IsCopyOf, Start
  <2> QED
    BY <2>1, <2>2, <2>3, QuietStep
<1> QED
  BY <1>1, <1>2, <1>3, <1>4, <1>5, <1>6 DEF DInv

\* A connection opens.
LEMMA ConnectDelivery ==
    ASSUME IInv, DInv, NEW r \in Replicas, Connect(r)
    PROVE  DInv'
<1>1. LinkOK'
  BY DEF IInv, DInv, TypeOK, CopyRecords, LinkOK, HoldingOK, Working, Connect
<1>2. TroubleOK'
  BY DEF IInv, DInv, TypeOK, CopyRecords, TroubleOK, HoldingOK, LinkOK, Working, CopiesOK, Absent,
         Connect
<1>3. UnpublishedOK'
  BY DEF IInv, DInv, TypeOK, CopyRecords, UnpublishedOK, Told, HoldingOK, Working, Connect
<1>4. RetriesOK'
  BY DEF IInv, DInv, TypeOK, CopyRecords, RetriesOK, JobOK, Working, Connect
<1>5. TriesOK'
  BY DEF IInv, DInv, TypeOK, CopyRecords, TriesOK, HoldingOK, JobOK, IsCopyOf, Undisturbed,
         LinkOK, TroubleOK, CopiesOK, Absent, Working, Due, attemptOf, UnpublishedOK, RetriesOK,
         Connect
<1>6. ASSUME NEW n \in Messages PROVE DeliveryOK(n)'
  <2>1. sent'[n] = sent[n] /\ told'[n] = told[n] /\ upset[n] \subseteq upset'[n]
    BY DEF IInv, TypeOK, Connect
  <2>2. ASSUME NEW k \in Copies, Undisturbed(n, {"redelivered", "forked"})', Live(k, n)'
        PROVE  Live(k, n)
    BY <2>2 DEF IInv, DInv, TypeOK, CopyRecords, HoldingOK, LinkOK, TroubleOK, Absent, Working,
                Undisturbed, Live, Superseded, IsCopyOf, Connect
  <2>3. ASSUME NEW k \in Copies, NEW s \in Replicas,
               Undisturbed(n, {"redelivered", "forked"})', Live(k, n)',
               held[s] = k, Finishing(s)
        PROVE  /\ held'[s] = k /\ Finishing(s)'
               /\ job[s].action = "done" => job'[s].action = "done"
    BY <2>3 DEF IInv, DInv, TypeOK, CopyRecords, HoldingOK, JobOK, LinkOK, TroubleOK, Absent,
                Working, Undisturbed, Finishing, Live, Superseded, IsCopyOf, Connect
  <2> QED
    BY <2>1, <2>2, <2>3, QuietStep
<1> QED
  BY <1>1, <1>2, <1>3, <1>4, <1>5, <1>6 DEF DInv

\* The loop notices the closed connection.
LEMMA ReconnectDelivery ==
    ASSUME IInv, DInv, NEW r \in Replicas, Reconnect(r)
    PROVE  DInv'
<1>1. LinkOK'
  BY DEF IInv, DInv, TypeOK, CopyRecords, LinkOK, HoldingOK, Working, Reconnect
<1>2. TroubleOK'
  BY DEF IInv, DInv, TypeOK, CopyRecords, TroubleOK, HoldingOK, LinkOK, Working, CopiesOK, Absent,
         Reconnect
<1>3. UnpublishedOK'
  BY DEF IInv, DInv, TypeOK, CopyRecords, UnpublishedOK, Told, HoldingOK, Working, Reconnect
<1>4. RetriesOK'
  BY DEF IInv, DInv, TypeOK, CopyRecords, RetriesOK, JobOK, Working, Reconnect
<1>5. TriesOK'
  BY DEF IInv, DInv, TypeOK, CopyRecords, TriesOK, HoldingOK, JobOK, IsCopyOf, Undisturbed,
         LinkOK, TroubleOK, CopiesOK, Absent, Working, Due, attemptOf, UnpublishedOK, RetriesOK,
         Reconnect
<1>6. ASSUME NEW n \in Messages PROVE DeliveryOK(n)'
  <2>1. sent'[n] = sent[n] /\ told'[n] = told[n] /\ upset[n] \subseteq upset'[n]
    BY DEF IInv, TypeOK, Reconnect
  <2>2. ASSUME NEW k \in Copies, Undisturbed(n, {"redelivered", "forked"})', Live(k, n)'
        PROVE  Live(k, n)
    BY <2>2 DEF IInv, DInv, TypeOK, CopyRecords, HoldingOK, LinkOK, TroubleOK, Absent, Working,
                Undisturbed, Live, Superseded, IsCopyOf, Reconnect
  <2>3. ASSUME NEW k \in Copies, NEW s \in Replicas,
               Undisturbed(n, {"redelivered", "forked"})', Live(k, n)',
               held[s] = k, Finishing(s)
        PROVE  /\ held'[s] = k /\ Finishing(s)'
               /\ job[s].action = "done" => job'[s].action = "done"
    BY <2>3 DEF IInv, DInv, TypeOK, CopyRecords, HoldingOK, JobOK, LinkOK, TroubleOK, Absent,
                Working, Undisturbed, Finishing, Live, Superseded, IsCopyOf, Reconnect
  <2> QED
    BY <2>1, <2>2, <2>3, QuietStep
<1> QED
  BY <1>1, <1>2, <1>3, <1>4, <1>5, <1>6 DEF DInv

\* A connection is lost: the copy held on it is redelivered.
LEMMA DisconnectDelivery ==
    ASSUME IInv, DInv, NEW r \in Replicas, Disconnect(r)
    PROVE  DInv'
<1>1. /\ link' = [link EXCEPT ![r] = FALSE]
      /\ held' = [held EXCEPT ![r] = NoCopy]
      /\ \A c \in Copies : c # held[r] => copy'[c] = copy[c]
      /\ \A c \in Copies : c = held[r] =>
            /\ copy[c].msg = jobMsg[r]
            /\ copy'[c].msg = copy[c].msg
            /\ copy'[c].header = copy[c].header
            /\ copy'[c].at = "orphan"
      /\ held[r] # NoCopy => "redelivered" \in upset'[jobMsg[r]]
      /\ \A n \in Messages : upset[n] \subseteq upset'[n]
  BY LoseLinkFacts DEF Disconnect
<1>2. UNCHANGED << pc, job, jobMsg, producerVars, worldVars >>
  BY DEF Disconnect
<1>3. LinkOK'
  BY <1>1, <1>2 DEF IInv, DInv, TypeOK, CopyRecords, LinkOK, HoldingOK, Working
<1>4. TroubleOK'
  BY <1>1, <1>2 DEF IInv, DInv, TypeOK, CopyRecords, TroubleOK, HoldingOK, LinkOK, Working,
                    CopiesOK, Absent
<1>5. UnpublishedOK'
  BY <1>1, <1>2 DEF IInv, DInv, TypeOK, CopyRecords, UnpublishedOK, Told, HoldingOK, Working
<1>6. RetriesOK'
  BY <1>1, <1>2 DEF IInv, DInv, TypeOK, CopyRecords, RetriesOK, JobOK, Working
<1>7. TriesOK'
  <2> SUFFICES ASSUME NEW n \in Messages, Undisturbed(n, {"redelivered", "forked", "refused"})'
               PROVE  /\ tries'[n] <= MaxAttempts
                      /\ \A c \in Copies : IsCopyOf(c, n)' /\ copy'[c].at \in {"main", "retry"} =>
                            Due(n, attemptOf(copy[c].header))'
                      /\ \A s \in Replicas :
                            jobMsg'[s] = n /\ pc'[s] \in {"handling", "publishing"} =>
                               IF job'[s].stage = "send" THEN Due(n, job[s].attempt)'
                               ELSE tries'[n] <= job'[s].attempt
    BY DEF TriesOK
  <2>1. Undisturbed(n, {"redelivered", "forked", "refused"})
    BY <1>1 DEF Undisturbed
  <2>2. ASSUME NEW c \in Copies, IsCopyOf(c, n)', copy'[c].at \in {"main", "retry"}
        PROVE  Due(n, attemptOf(copy[c].header))'
    <3>1. copy'[c] = copy[c]
      BY <1>1, <2>2
    <3> QED
      BY <1>2, <2>1, <2>2, <3>1 DEF DInv, TriesOK, IsCopyOf, Due
  <2>3. ASSUME NEW s \in Replicas, jobMsg'[s] = n, pc'[s] \in {"handling", "publishing"}
        PROVE  IF job'[s].stage = "send" THEN Due(n, job[s].attempt)'
               ELSE tries'[n] <= job'[s].attempt
    <3>1. pc'[s] = pc[s] /\ job'[s] = job[s] /\ jobMsg'[s] = jobMsg[s]
      BY <1>2, <2>3 DEF IInv, TypeOK
    <3> QED
      BY <1>2, <2>1, <2>3, <3>1 DEF DInv, TriesOK, Due
  <2> QED
    BY <1>2, <2>1, <2>2, <2>3 DEF DInv, TriesOK
<1>8. ASSUME NEW n \in Messages PROVE DeliveryOK(n)'
  <2>1. sent'[n] = sent[n] /\ told'[n] = told[n] /\ upset[n] \subseteq upset'[n]
    BY <1>1, <1>2 DEF IInv, TypeOK
  <2>2. ASSUME NEW k \in Copies, Undisturbed(n, {"redelivered", "forked"})', Live(k, n)'
        PROVE  Live(k, n)
    BY <2>2, <1>1, <1>2 DEF IInv, DInv, TypeOK, CopyRecords, HoldingOK, LinkOK, TroubleOK, Absent,
                            Working, Undisturbed, Live, Superseded, IsCopyOf
  <2>3. ASSUME NEW k \in Copies, NEW s \in Replicas,
               Undisturbed(n, {"redelivered", "forked"})', Live(k, n)',
               held[s] = k, Finishing(s)
        PROVE  /\ held'[s] = k /\ Finishing(s)'
               /\ job[s].action = "done" => job'[s].action = "done"
    BY <2>3, <1>1, <1>2 DEF IInv, DInv, TypeOK, CopyRecords, HoldingOK, JobOK, LinkOK, TroubleOK,
                            Absent, Working, Undisturbed, Finishing, Live, Superseded, IsCopyOf
  <2> QED
    BY <2>1, <2>2, <2>3, QuietStep
<1> QED
  BY <1>3, <1>4, <1>5, <1>6, <1>7, <1>8 DEF DInv

\* A replica that stops between two deliveries holds nothing.
LEMMA ShutdownDelivery ==
    ASSUME IInv, DInv, NEW r \in Replicas, Shutdown(r)
    PROVE  DInv'
<1>1. /\ link' = [link EXCEPT ![r] = FALSE]
      /\ held' = [held EXCEPT ![r] = NoCopy]
      /\ \A c \in Copies : c # held[r] => copy'[c] = copy[c]
      /\ \A c \in Copies : c = held[r] =>
            /\ copy[c].msg = jobMsg[r]
            /\ copy'[c].msg = copy[c].msg
            /\ copy'[c].header = copy[c].header
            /\ copy'[c].at = "orphan"
      /\ held[r] # NoCopy => "redelivered" \in upset'[jobMsg[r]]
      /\ \A n \in Messages : upset[n] \subseteq upset'[n]
  BY LoseLinkFacts DEF Shutdown
<1>2. /\ pc' = [pc EXCEPT ![r] = "stopped"]
      /\ pc[r] \in {"connecting", "consuming"}
      /\ job' = [job EXCEPT ![r] = NoJob]
      /\ jobMsg' = [jobMsg EXCEPT ![r] = NoMessage]
      /\ UNCHANGED << producerVars, worldVars >>
  BY DEF Shutdown, ForgetJob
<1>3. LinkOK'
  BY <1>1, <1>2 DEF IInv, DInv, TypeOK, CopyRecords, LinkOK, HoldingOK, Working
<1>4. TroubleOK'
  BY <1>1, <1>2 DEF IInv, DInv, TypeOK, CopyRecords, TroubleOK, HoldingOK, LinkOK, Working,
                    CopiesOK, Absent
<1>5. UnpublishedOK'
  BY <1>1, <1>2 DEF IInv, DInv, TypeOK, CopyRecords, UnpublishedOK, Told, HoldingOK, Working
<1>6. RetriesOK'
  BY <1>1, <1>2 DEF IInv, DInv, TypeOK, CopyRecords, RetriesOK, JobOK, Working
<1>7. TriesOK'
  <2> SUFFICES ASSUME NEW n \in Messages, Undisturbed(n, {"redelivered", "forked", "refused"})'
               PROVE  /\ tries'[n] <= MaxAttempts
                      /\ \A c \in Copies : IsCopyOf(c, n)' /\ copy'[c].at \in {"main", "retry"} =>
                            Due(n, attemptOf(copy[c].header))'
                      /\ \A s \in Replicas :
                            jobMsg'[s] = n /\ pc'[s] \in {"handling", "publishing"} =>
                               IF job'[s].stage = "send" THEN Due(n, job[s].attempt)'
                               ELSE tries'[n] <= job'[s].attempt
    BY DEF TriesOK
  <2>1. Undisturbed(n, {"redelivered", "forked", "refused"})
    BY <1>1 DEF Undisturbed
  <2>2. ASSUME NEW c \in Copies, IsCopyOf(c, n)', copy'[c].at \in {"main", "retry"}
        PROVE  Due(n, attemptOf(copy[c].header))'
    <3>1. copy'[c] = copy[c]
      BY <1>1, <2>2
    <3> QED
      BY <1>2, <2>1, <2>2, <3>1 DEF DInv, TriesOK, IsCopyOf, Due
  <2>3. ASSUME NEW s \in Replicas, jobMsg'[s] = n, pc'[s] \in {"handling", "publishing"}
        PROVE  IF job'[s].stage = "send" THEN Due(n, job[s].attempt)'
               ELSE tries'[n] <= job'[s].attempt
    <3>1. pc'[s] = pc[s] /\ job'[s] = job[s] /\ jobMsg'[s] = jobMsg[s]
      BY <1>2, <2>3 DEF IInv, TypeOK
    <3> QED
      BY <1>2, <2>1, <2>3, <3>1 DEF DInv, TriesOK, Due
  <2> QED
    BY <1>2, <2>1, <2>2, <2>3 DEF DInv, TriesOK
<1>8. ASSUME NEW n \in Messages PROVE DeliveryOK(n)'
  <2>1. sent'[n] = sent[n] /\ told'[n] = told[n] /\ upset[n] \subseteq upset'[n]
    BY <1>1, <1>2 DEF IInv, TypeOK
  <2>2. ASSUME NEW k \in Copies, Undisturbed(n, {"redelivered", "forked"})', Live(k, n)'
        PROVE  Live(k, n)
    BY <2>2, <1>1, <1>2 DEF IInv, DInv, TypeOK, CopyRecords, HoldingOK, LinkOK, TroubleOK, Absent,
                            Working, Undisturbed, Live, Superseded, IsCopyOf
  <2>3. ASSUME NEW k \in Copies, NEW s \in Replicas,
               Undisturbed(n, {"redelivered", "forked"})', Live(k, n)',
               held[s] = k, Finishing(s)
        PROVE  /\ held'[s] = k /\ Finishing(s)'
               /\ job[s].action = "done" => job'[s].action = "done"
    BY <2>3, <1>1, <1>2 DEF IInv, DInv, TypeOK, CopyRecords, HoldingOK, JobOK, LinkOK, TroubleOK,
                            Absent, Working, Undisturbed, Finishing, Live, Superseded, IsCopyOf
  <2> QED
    BY <2>1, <2>2, <2>3, QuietStep
<1> QED
  BY <1>3, <1>4, <1>5, <1>6, <1>7, <1>8 DEF DInv

\* A crash redelivers the copy the replica holds.
LEMMA CrashDelivery ==
    ASSUME IInv, DInv, NEW r \in Replicas, Crash(r)
    PROVE  DInv'
<1>1. /\ link' = [link EXCEPT ![r] = FALSE]
      /\ held' = [held EXCEPT ![r] = NoCopy]
      /\ \A c \in Copies : c # held[r] => copy'[c] = copy[c]
      /\ \A c \in Copies : c = held[r] =>
            /\ copy[c].msg = jobMsg[r]
            /\ copy'[c].msg = copy[c].msg
            /\ copy'[c].header = copy[c].header
            /\ copy'[c].at = "orphan"
      /\ held[r] # NoCopy => "redelivered" \in upset'[jobMsg[r]]
      /\ \A n \in Messages : upset[n] \subseteq upset'[n]
  BY LoseLinkFacts DEF Crash
<1>2. /\ pc' = [pc EXCEPT ![r] = "stopped"]
      /\ job' = [job EXCEPT ![r] = NoJob]
      /\ jobMsg' = [jobMsg EXCEPT ![r] = NoMessage]
      /\ UNCHANGED << producerVars, worldVars >>
  BY DEF Crash, ForgetJob
<1>3. LinkOK'
  BY <1>1, <1>2 DEF IInv, DInv, TypeOK, CopyRecords, LinkOK, HoldingOK, Working
<1>4. TroubleOK'
  BY <1>1, <1>2 DEF IInv, DInv, TypeOK, CopyRecords, TroubleOK, HoldingOK, LinkOK, Working,
                    CopiesOK, Absent
<1>5. UnpublishedOK'
  BY <1>1, <1>2 DEF IInv, DInv, TypeOK, CopyRecords, UnpublishedOK, Told, HoldingOK, Working
<1>6. RetriesOK'
  BY <1>1, <1>2 DEF IInv, DInv, TypeOK, CopyRecords, RetriesOK, JobOK, Working
<1>7. TriesOK'
  <2> SUFFICES ASSUME NEW n \in Messages, Undisturbed(n, {"redelivered", "forked", "refused"})'
               PROVE  /\ tries'[n] <= MaxAttempts
                      /\ \A c \in Copies : IsCopyOf(c, n)' /\ copy'[c].at \in {"main", "retry"} =>
                            Due(n, attemptOf(copy[c].header))'
                      /\ \A s \in Replicas :
                            jobMsg'[s] = n /\ pc'[s] \in {"handling", "publishing"} =>
                               IF job'[s].stage = "send" THEN Due(n, job[s].attempt)'
                               ELSE tries'[n] <= job'[s].attempt
    BY DEF TriesOK
  <2>1. Undisturbed(n, {"redelivered", "forked", "refused"})
    BY <1>1 DEF Undisturbed
  <2>2. ASSUME NEW c \in Copies, IsCopyOf(c, n)', copy'[c].at \in {"main", "retry"}
        PROVE  Due(n, attemptOf(copy[c].header))'
    <3>1. copy'[c] = copy[c]
      BY <1>1, <2>2
    <3> QED
      BY <1>2, <2>1, <2>2, <3>1 DEF DInv, TriesOK, IsCopyOf, Due
  <2>3. ASSUME NEW s \in Replicas, jobMsg'[s] = n, pc'[s] \in {"handling", "publishing"}
        PROVE  IF job'[s].stage = "send" THEN Due(n, job[s].attempt)'
               ELSE tries'[n] <= job'[s].attempt
    <3>1. pc'[s] = pc[s] /\ job'[s] = job[s] /\ jobMsg'[s] = jobMsg[s]
      BY <1>2, <2>3 DEF IInv, TypeOK
    <3> QED
      BY <1>2, <2>1, <2>3, <3>1 DEF DInv, TriesOK, Due
  <2> QED
    BY <1>2, <2>1, <2>2, <2>3 DEF DInv, TriesOK
<1>8. ASSUME NEW n \in Messages PROVE DeliveryOK(n)'
  <2>1. sent'[n] = sent[n] /\ told'[n] = told[n] /\ upset[n] \subseteq upset'[n]
    BY <1>1, <1>2 DEF IInv, TypeOK
  <2>2. ASSUME NEW k \in Copies, Undisturbed(n, {"redelivered", "forked"})', Live(k, n)'
        PROVE  Live(k, n)
    BY <2>2, <1>1, <1>2 DEF IInv, DInv, TypeOK, CopyRecords, HoldingOK, LinkOK, TroubleOK, Absent,
                            Working, Undisturbed, Live, Superseded, IsCopyOf
  <2>3. ASSUME NEW k \in Copies, NEW s \in Replicas,
               Undisturbed(n, {"redelivered", "forked"})', Live(k, n)',
               held[s] = k, Finishing(s)
        PROVE  /\ held'[s] = k /\ Finishing(s)'
               /\ job[s].action = "done" => job'[s].action = "done"
    BY <2>3, <1>1, <1>2 DEF IInv, DInv, TypeOK, CopyRecords, HoldingOK, JobOK, LinkOK, TroubleOK,
                            Absent, Working, Undisturbed, Finishing, Live, Superseded, IsCopyOf
  <2> QED
    BY <2>1, <2>2, <2>3, QuietStep
<1> QED
  BY <1>3, <1>4, <1>5, <1>6, <1>7, <1>8 DEF DInv

\* The outcome is applied.
LEMMA ApplyDelivery ==
    ASSUME IInv, DInv, NEW r \in Replicas, Apply(r)
    PROVE  DInv'
<1>1. LinkOK'
  BY DEF IInv, DInv, TypeOK, CopyRecords, LinkOK, HoldingOK, Working, Apply
<1>2. TroubleOK'
  BY DEF IInv, DInv, TypeOK, CopyRecords, TroubleOK, HoldingOK, LinkOK, Working, CopiesOK, Absent,
         Apply
<1>3. UnpublishedOK'
  BY DEF IInv, DInv, TypeOK, CopyRecords, UnpublishedOK, Told, HoldingOK, Working, Apply
<1>4. RetriesOK'
  BY DEF IInv, DInv, TypeOK, CopyRecords, RetriesOK, JobOK, Working, Apply
<1>5. TriesOK'
  BY DEF IInv, DInv, TypeOK, CopyRecords, TriesOK, HoldingOK, JobOK, IsCopyOf, Undisturbed,
         LinkOK, TroubleOK, CopiesOK, Absent, Working, Due, attemptOf, UnpublishedOK, RetriesOK,
         Apply
<1>6. ASSUME NEW n \in Messages PROVE DeliveryOK(n)'
  <2>1. sent'[n] = sent[n] /\ told'[n] = told[n] /\ upset[n] \subseteq upset'[n]
    BY DEF IInv, TypeOK, Apply
  <2>2. ASSUME NEW k \in Copies, Undisturbed(n, {"redelivered", "forked"})', Live(k, n)'
        PROVE  Live(k, n)
    BY <2>2 DEF IInv, DInv, TypeOK, CopyRecords, HoldingOK, LinkOK, TroubleOK, Absent, Working,
                Undisturbed, Live, Superseded, IsCopyOf, Apply
  <2>3. ASSUME NEW k \in Copies, NEW s \in Replicas,
               Undisturbed(n, {"redelivered", "forked"})', Live(k, n)',
               held[s] = k, Finishing(s)
        PROVE  /\ held'[s] = k /\ Finishing(s)'
               /\ job[s].action = "done" => job'[s].action = "done"
    BY <2>3 DEF IInv, DInv, TypeOK, CopyRecords, HoldingOK, JobOK, LinkOK, TroubleOK, Absent,
                Working, Undisturbed, Finishing, Live, Superseded, IsCopyOf, Apply
  <2> QED
    BY <2>1, <2>2, <2>3, QuietStep
<1> QED
  BY <1>1, <1>2, <1>3, <1>4, <1>5, <1>6 DEF DInv

\* The confirmation arrives: the held copy stays superseded.
LEMMA PublishConfirmedDelivery ==
    ASSUME IInv, DInv, NEW r \in Replicas, PublishConfirmed(r)
    PROVE  DInv'
<1>1. LinkOK'
  BY DEF IInv, DInv, TypeOK, CopyRecords, LinkOK, HoldingOK, Working, PublishConfirmed
<1>2. TroubleOK'
  BY DEF IInv, DInv, TypeOK, CopyRecords, TroubleOK, HoldingOK, LinkOK, Working, CopiesOK, Absent,
         PublishConfirmed
<1>3. UnpublishedOK'
  BY DEF IInv, DInv, TypeOK, CopyRecords, UnpublishedOK, Told, HoldingOK, Working,
         PublishConfirmed
<1>4. RetriesOK'
  BY DEF IInv, DInv, TypeOK, CopyRecords, RetriesOK, JobOK, Working, PublishConfirmed
<1>5. TriesOK'
  BY DEF IInv, DInv, TypeOK, CopyRecords, TriesOK, HoldingOK, JobOK, IsCopyOf, Undisturbed,
         LinkOK, TroubleOK, CopiesOK, Absent, Working, Due, attemptOf, UnpublishedOK, RetriesOK,
         PublishConfirmed
<1>6. ASSUME NEW n \in Messages PROVE DeliveryOK(n)'
  <2>1. sent'[n] = sent[n] /\ told'[n] = told[n] /\ upset[n] \subseteq upset'[n]
    BY DEF IInv, TypeOK, PublishConfirmed
  <2>2. ASSUME NEW k \in Copies, Undisturbed(n, {"redelivered", "forked"})', Live(k, n)'
        PROVE  Live(k, n)
    BY <2>2 DEF IInv, DInv, TypeOK, CopyRecords, HoldingOK, LinkOK, TroubleOK, Absent, Working,
                Undisturbed, Live, Superseded, IsCopyOf, PublishConfirmed
  <2>3. ASSUME NEW k \in Copies, NEW s \in Replicas,
               Undisturbed(n, {"redelivered", "forked"})', Live(k, n)',
               held[s] = k, Finishing(s)
        PROVE  /\ held'[s] = k /\ Finishing(s)'
               /\ job[s].action = "done" => job'[s].action = "done"
    BY <2>3 DEF IInv, DInv, TypeOK, CopyRecords, HoldingOK, JobOK, LinkOK, TroubleOK, Absent,
                Working, Undisturbed, Finishing, Live, Superseded, IsCopyOf, PublishConfirmed
  <2> QED
    BY <2>1, <2>2, <2>3, QuietStep
<1> QED
  BY <1>1, <1>2, <1>3, <1>4, <1>5, <1>6 DEF DInv

\* The connection was lost during the republish: nothing is held any more.
LEMMA PublishBrokenDelivery ==
    ASSUME IInv, DInv, NEW r \in Replicas, PublishBroken(r)
    PROVE  DInv'
<1>1. LinkOK'
  BY DEF IInv, DInv, TypeOK, CopyRecords, LinkOK, HoldingOK, Working, PublishBroken
<1>2. TroubleOK'
  BY DEF IInv, DInv, TypeOK, CopyRecords, TroubleOK, HoldingOK, LinkOK, Working, CopiesOK, Absent,
         PublishBroken
<1>3. UnpublishedOK'
  BY DEF IInv, DInv, TypeOK, CopyRecords, UnpublishedOK, Told, HoldingOK, Working, PublishBroken
<1>4. RetriesOK'
  BY DEF IInv, DInv, TypeOK, CopyRecords, RetriesOK, JobOK, Working, PublishBroken
<1>5. TriesOK'
  BY DEF IInv, DInv, TypeOK, CopyRecords, TriesOK, HoldingOK, JobOK, IsCopyOf, Undisturbed,
         LinkOK, TroubleOK, CopiesOK, Absent, Working, Due, attemptOf, UnpublishedOK, RetriesOK,
         PublishBroken
<1>6. ASSUME NEW n \in Messages PROVE DeliveryOK(n)'
  <2>1. sent'[n] = sent[n] /\ told'[n] = told[n] /\ upset[n] \subseteq upset'[n]
    BY DEF IInv, TypeOK, PublishBroken
  <2>2. ASSUME NEW k \in Copies, Undisturbed(n, {"redelivered", "forked"})', Live(k, n)'
        PROVE  Live(k, n)
    BY <2>2 DEF IInv, DInv, TypeOK, CopyRecords, HoldingOK, LinkOK, TroubleOK, Absent, Working,
                Undisturbed, Live, Superseded, IsCopyOf, PublishBroken
  <2>3. ASSUME NEW k \in Copies, NEW s \in Replicas,
               Undisturbed(n, {"redelivered", "forked"})', Live(k, n)',
               held[s] = k, Finishing(s)
        PROVE  /\ held'[s] = k /\ Finishing(s)'
               /\ job[s].action = "done" => job'[s].action = "done"
    BY <2>3 DEF IInv, DInv, TypeOK, CopyRecords, HoldingOK, JobOK, LinkOK, TroubleOK, Absent,
                Working, Undisturbed, Finishing, Live, Superseded, IsCopyOf, PublishBroken
  <2> QED
    BY <2>1, <2>2, <2>3, QuietStep
<1> QED
  BY <1>1, <1>2, <1>3, <1>4, <1>5, <1>6 DEF DInv

\* A republish that is refused marks its message.
LEMMA PublishRefusedDelivery ==
    ASSUME IInv, DInv, NEW r \in Replicas, PublishRefused(r)
    PROVE  DInv'
<1>1. /\ jobMsg[r] \in Messages
      /\ pc[r] = "publishing"
      /\ pc' = [pc EXCEPT ![r] = "nacking"]
      /\ upset' = [upset EXCEPT ![jobMsg[r]] = @ \cup {"refused"}]
      /\ UNCHANGED << link, held, job, jobMsg, producerVars, copy, worldVars >>
  BY DEF IInv, TypeOK, HoldingOK, Working, PublishRefused
<1>2. /\ "refused" \in upset'[jobMsg[r]]
      /\ \A n \in Messages : upset[n] \subseteq upset'[n]
  BY <1>1, MarkFacts DEF IInv
<1>3. LinkOK'
  BY <1>1, <1>2 DEF IInv, DInv, TypeOK, CopyRecords, LinkOK, HoldingOK, Working
<1>4. TroubleOK'
  BY <1>1, <1>2 DEF IInv, DInv, TypeOK, CopyRecords, TroubleOK, HoldingOK, LinkOK, Working,
                    CopiesOK, Absent
<1>5. UnpublishedOK'
  BY <1>1, <1>2 DEF IInv, DInv, TypeOK, CopyRecords, UnpublishedOK, Told, HoldingOK, Working
<1>6. RetriesOK'
  BY <1>1, <1>2 DEF IInv, DInv, TypeOK, CopyRecords, RetriesOK, JobOK, Working
<1>7. TriesOK'
  BY <1>1, <1>2 DEF IInv, DInv, TypeOK, CopyRecords, TriesOK, HoldingOK, JobOK, IsCopyOf,
                    Undisturbed, LinkOK, TroubleOK, CopiesOK, Absent, Working, Due, attemptOf,
                    UnpublishedOK, RetriesOK
<1>8. ASSUME NEW n \in Messages PROVE DeliveryOK(n)'
  <2>1. sent'[n] = sent[n] /\ told'[n] = told[n] /\ upset[n] \subseteq upset'[n]
    BY <1>1, <1>2 DEF IInv, TypeOK
  <2>2. ASSUME NEW k \in Copies, Undisturbed(n, {"redelivered", "forked"})', Live(k, n)'
        PROVE  Live(k, n)
    BY <2>2, <1>1, <1>2 DEF IInv, DInv, TypeOK, CopyRecords, HoldingOK, LinkOK, TroubleOK, Absent,
                            Working, Undisturbed, Live, Superseded, IsCopyOf
  <2>3. ASSUME NEW k \in Copies, NEW s \in Replicas,
               Undisturbed(n, {"redelivered", "forked"})', Live(k, n)',
               held[s] = k, Finishing(s)
        PROVE  /\ held'[s] = k /\ Finishing(s)'
               /\ job[s].action = "done" => job'[s].action = "done"
    BY <2>3, <1>1, <1>2 DEF IInv, DInv, TypeOK, CopyRecords, HoldingOK, JobOK, LinkOK, TroubleOK,
                            Absent, Working, Undisturbed, Finishing, Live, Superseded, IsCopyOf
  <2> QED
    BY <2>1, <2>2, <2>3, QuietStep
<1> QED
  BY <1>3, <1>4, <1>5, <1>6, <1>7, <1>8 DEF DInv

\* A republish that is forked marks its message.
LEMMA PublishTimeoutDelivery ==
    ASSUME IInv, DInv, NEW r \in Replicas, PublishTimeout(r)
    PROVE  DInv'
<1>1. /\ jobMsg[r] \in Messages
      /\ pc[r] = "confirming"
      /\ pc' = [pc EXCEPT ![r] = "nacking"]
      /\ upset' = [upset EXCEPT ![jobMsg[r]] = @ \cup {"forked"}]
      /\ UNCHANGED << link, held, job, jobMsg, producerVars, copy, worldVars >>
  BY DEF IInv, TypeOK, HoldingOK, Working, PublishTimeout
<1>2. /\ "forked" \in upset'[jobMsg[r]]
      /\ \A n \in Messages : upset[n] \subseteq upset'[n]
  BY <1>1, MarkFacts DEF IInv
<1>3. LinkOK'
  BY <1>1, <1>2 DEF IInv, DInv, TypeOK, CopyRecords, LinkOK, HoldingOK, Working
<1>4. TroubleOK'
  BY <1>1, <1>2 DEF IInv, DInv, TypeOK, CopyRecords, TroubleOK, HoldingOK, LinkOK, Working,
                    CopiesOK, Absent
<1>5. UnpublishedOK'
  BY <1>1, <1>2 DEF IInv, DInv, TypeOK, CopyRecords, UnpublishedOK, Told, HoldingOK, Working
<1>6. RetriesOK'
  BY <1>1, <1>2 DEF IInv, DInv, TypeOK, CopyRecords, RetriesOK, JobOK, Working
<1>7. TriesOK'
  BY <1>1, <1>2 DEF IInv, DInv, TypeOK, CopyRecords, TriesOK, HoldingOK, JobOK, IsCopyOf,
                    Undisturbed, LinkOK, TroubleOK, CopiesOK, Absent, Working, Due, attemptOf,
                    UnpublishedOK, RetriesOK
<1>8. ASSUME NEW n \in Messages PROVE DeliveryOK(n)'
  <2>1. sent'[n] = sent[n] /\ told'[n] = told[n] /\ upset[n] \subseteq upset'[n]
    BY <1>1, <1>2 DEF IInv, TypeOK
  <2>2. ASSUME NEW k \in Copies, Undisturbed(n, {"redelivered", "forked"})', Live(k, n)'
        PROVE  Live(k, n)
    <3>1. n # jobMsg[r]
      BY <1>2, <2>2 DEF Undisturbed
    <3>2. held[r] # k
      BY <1>1, <2>2, <3>1 DEF IInv, TypeOK, HoldingOK, Live, IsCopyOf
    <3>3. ASSUME NEW s \in Replicas, held[s] = k PROVE pc'[s] = pc[s]
      BY <1>1, <3>2, <3>3 DEF IInv, TypeOK
    <3> QED
      BY <1>1, <2>2, <3>3 DEF Live, IsCopyOf, Superseded
  <2>3. ASSUME NEW k \in Copies, NEW s \in Replicas,
               Undisturbed(n, {"redelivered", "forked"})', Live(k, n)',
               held[s] = k, Finishing(s)
        PROVE  /\ held'[s] = k /\ Finishing(s)'
               /\ job[s].action = "done" => job'[s].action = "done"
    BY <2>3, <1>1, <1>2 DEF IInv, DInv, TypeOK, CopyRecords, HoldingOK, JobOK, LinkOK, TroubleOK,
                            Absent, Working, Undisturbed, Finishing, Live, Superseded, IsCopyOf
  <2> QED
    BY <2>1, <2>2, <2>3, QuietStep
<1> QED
  BY <1>3, <1>4, <1>5, <1>6, <1>7, <1>8 DEF DInv

\* An ack removes the live copy of a finished message, or a superseded one.
LEMMA AckDelivery ==
    ASSUME IInv, DInv, NEW r \in Replicas, Ack(r)
    PROVE  DInv'
<1>1. LinkOK'
  BY DEF IInv, DInv, TypeOK, CopyRecords, LinkOK, HoldingOK, Working, Ack, Settle, ForgetJob,
         NoJob
<1>2. TroubleOK'
  BY DEF IInv, DInv, TypeOK, CopyRecords, TroubleOK, HoldingOK, LinkOK, Working, CopiesOK, Absent,
         Ack, Settle, ForgetJob, NoJob
<1>3. UnpublishedOK'
  BY DEF IInv, DInv, TypeOK, CopyRecords, UnpublishedOK, Told, HoldingOK, Working, Ack, Settle,
         ForgetJob, NoJob
<1>4. RetriesOK'
  BY DEF IInv, DInv, TypeOK, CopyRecords, RetriesOK, JobOK, Working, Ack, Settle, ForgetJob, NoJob
<1>5. TriesOK'
  BY DEF IInv, DInv, TypeOK, CopyRecords, TriesOK, HoldingOK, JobOK, IsCopyOf, Undisturbed,
         LinkOK, TroubleOK, CopiesOK, Absent, Working, Due, attemptOf, UnpublishedOK, RetriesOK,
         Ack, Settle, ForgetJob, NoJob
<1>6. ASSUME NEW n \in Messages PROVE DeliveryOK(n)'
  <2>1. sent'[n] = sent[n] /\ told'[n] = told[n] /\ upset[n] \subseteq upset'[n]
    BY DEF IInv, TypeOK, Ack, Settle, ForgetJob, NoJob
  <2>2. ASSUME NEW k \in Copies, Undisturbed(n, {"redelivered", "forked"})', Live(k, n)'
        PROVE  Live(k, n)
    BY <2>2 DEF IInv, DInv, TypeOK, CopyRecords, HoldingOK, LinkOK, TroubleOK, Absent, Working,
                Undisturbed, Live, Superseded, IsCopyOf, Ack, Settle, ForgetJob, NoJob
  <2>3. ASSUME NEW k \in Copies, NEW s \in Replicas,
               Undisturbed(n, {"redelivered", "forked"})', Live(k, n)',
               held[s] = k, Finishing(s)
        PROVE  /\ held'[s] = k /\ Finishing(s)'
               /\ job[s].action = "done" => job'[s].action = "done"
    BY <2>3 DEF IInv, DInv, TypeOK, CopyRecords, HoldingOK, JobOK, LinkOK, TroubleOK, Absent,
                Working, Undisturbed, Finishing, Live, Superseded, IsCopyOf, Ack, Settle,
                ForgetJob, NoJob
  <2> QED
    BY <2>1, <2>2, <2>3, QuietStep
<1> QED
  BY <1>1, <1>2, <1>3, <1>4, <1>5, <1>6 DEF DInv

\* A nack returns the live copy of a disturbed message to the main queue.
LEMMA NackDelivery ==
    ASSUME IInv, DInv, NEW r \in Replicas, Nack(r)
    PROVE  DInv'
<1>1. LinkOK'
  BY DEF IInv, DInv, TypeOK, CopyRecords, LinkOK, HoldingOK, Working, Nack, Settle, ForgetJob,
         NoJob
<1>2. TroubleOK'
  BY DEF IInv, DInv, TypeOK, CopyRecords, TroubleOK, HoldingOK, LinkOK, Working, CopiesOK, Absent,
         Nack, Settle, ForgetJob, NoJob
<1>3. UnpublishedOK'
  BY DEF IInv, DInv, TypeOK, CopyRecords, UnpublishedOK, Told, HoldingOK, Working, Nack, Settle,
         ForgetJob, NoJob
<1>4. RetriesOK'
  BY DEF IInv, DInv, TypeOK, CopyRecords, RetriesOK, JobOK, Working, Nack, Settle, ForgetJob,
         NoJob
<1>5. TriesOK'
  BY DEF IInv, DInv, TypeOK, CopyRecords, TriesOK, HoldingOK, JobOK, IsCopyOf, Undisturbed,
         LinkOK, TroubleOK, CopiesOK, Absent, Working, Due, attemptOf, UnpublishedOK, RetriesOK,
         Nack, Settle, ForgetJob, NoJob
<1>6. ASSUME NEW n \in Messages PROVE DeliveryOK(n)'
  <2>1. sent'[n] = sent[n] /\ told'[n] = told[n] /\ upset[n] \subseteq upset'[n]
    BY DEF IInv, TypeOK, Nack, Settle, ForgetJob, NoJob
  <2>2. ASSUME NEW k \in Copies, Undisturbed(n, {"redelivered", "forked"})', Live(k, n)'
        PROVE  Live(k, n)
    BY <2>2 DEF IInv, DInv, TypeOK, CopyRecords, HoldingOK, LinkOK, TroubleOK, Absent, Working,
                Undisturbed, Live, Superseded, IsCopyOf, Nack, Settle, ForgetJob, NoJob
  <2>3. ASSUME NEW k \in Copies, NEW s \in Replicas,
               Undisturbed(n, {"redelivered", "forked"})', Live(k, n)',
               held[s] = k, Finishing(s)
        PROVE  /\ held'[s] = k /\ Finishing(s)'
               /\ job[s].action = "done" => job'[s].action = "done"
    BY <2>3 DEF IInv, DInv, TypeOK, CopyRecords, HoldingOK, JobOK, LinkOK, TroubleOK, Absent,
                Working, Undisturbed, Finishing, Live, Superseded, IsCopyOf, Nack, Settle,
                ForgetJob, NoJob
  <2> QED
    BY <2>1, <2>2, <2>3, QuietStep
<1> QED
  BY <1>1, <1>2, <1>3, <1>4, <1>5, <1>6 DEF DInv

\* A producer publishes: the new copy is the only one of its message.
LEMMA PublishDelivery ==
    ASSUME IInv, DInv, NEW m \in Messages, Publish(m)
    PROVE  DInv'
<1>1. PICK c \in Copies, attempt \in ProducerAttempts :
        /\ copy[c] = Absent
        /\ copy' = [copy EXCEPT ![c] = [at |-> "main", msg |-> m, header |-> attempt]]
  BY DEF Publish, Enqueue
<1>2. /\ m \notin published
      /\ published' = published \cup {m}
      /\ UNCHANGED << request, replicaVars, worldVars, upset, upsets >>
  BY DEF Publish
<1>3. \A k \in Copies : copy[k].msg # m
  BY <1>2 DEF IInv, CopiesOK, TypeOK, Absent
<1>4. \A r \in Replicas : held[r] # c
  BY <1>1 DEF IInv, HoldingOK, TypeOK, Absent
<1>5. sent[m] = 0 /\ tries[m] = 0 /\ ~Told(m)
  BY <1>2 DEF DInv, UnpublishedOK
<1>6. \A r \in Replicas : pc[r] \in Working => jobMsg[r] # m
  BY <1>2 DEF IInv, HoldingOK
<1>7. LinkOK' /\ TroubleOK' /\ UnpublishedOK' /\ RetriesOK'
  BY <1>1, <1>2 DEF IInv, TypeOK, DInv, LinkOK, TroubleOK, UnpublishedOK, RetriesOK, Told
<1>8. TriesOK'
  <2>1. attemptOf(attempt) \in Nat \ {0}
    BY AttemptFacts, <1>1
  <2>2. ASSUME NEW n \in Messages, Undisturbed(n, {"redelivered", "forked", "refused"})',
               NEW k \in Copies, IsCopyOf(k, n)', copy'[k].at \in {"main", "retry"}
        PROVE  Due(n, attemptOf(copy[k].header))'
    <3>1. CASE k = c
      <4>1. n = m /\ copy'[k].header = attempt /\ tries'[n] = 0
        BY <1>1, <1>2, <1>5, <2>2, <3>1 DEF IInv, TypeOK, IsCopyOf
      <4> QED
        BY <2>1, <4>1 DEF Due
    <3>2. CASE k # c
      BY <1>1, <1>2, <2>2, <3>2 DEF IInv, TypeOK, DInv, TriesOK, IsCopyOf, Due, Undisturbed
    <3> QED
      BY <3>1, <3>2
  <2> QED
    BY <1>2, <2>2 DEF DInv, TriesOK, Undisturbed, Due
<1>9. ASSUME NEW n \in Messages, n # m PROVE DeliveryOK(n)'
  <2>1. sent'[n] = sent[n] /\ told'[n] = told[n] /\ upset[n] \subseteq upset'[n]
    BY <1>2
  <2>2. ASSUME NEW k \in Copies, Live(k, n)' PROVE Live(k, n)
    BY <1>1, <1>2, <1>9, <2>2 DEF IInv, TypeOK, Live, IsCopyOf, Superseded
  <2>3. ASSUME NEW k \in Copies, NEW s \in Replicas, held[s] = k, Finishing(s)
        PROVE  /\ held'[s] = k /\ Finishing(s)'
               /\ job[s].action = "done" => job'[s].action = "done"
    BY <1>2, <2>3 DEF Finishing
  <2> QED
    BY <2>1, <2>2, <2>3, QuietStep
<1>10. DeliveryOK(m)'
  <2>1. \A k \in Copies : Live(k, m)' => k = c
    BY <1>1, <1>3 DEF IInv, TypeOK, Live, IsCopyOf
  <2>2. sent'[m] = 0 /\ ~Told(m)'
    BY <1>2, <1>5 DEF Told
  <2> QED
    BY <2>1, <2>2 DEF DeliveryOK, OneLiveCopy, SentOK, ToldOK
<1> QED
  BY <1>7, <1>8, <1>9, <1>10 DEF DInv

\* The broker takes the republished copy, which supersedes the held one and has one attempt more.
LEMMA PublishAcceptedDelivery ==
    ASSUME IInv, DInv, NEW r \in Replicas, PublishAccepted(r)
    PROVE  DInv'
<1>1. PICK m \in Messages : m = jobMsg[r]
  BY DEF PublishAccepted, IInv, HoldingOK, TypeOK, Working
<1>2. PICK c \in Copies, place \in {"retry", "dlq"}, attempt \in Int :
        /\ copy[c] = Absent
        /\ copy' = [copy EXCEPT ![c] = [at |-> place, msg |-> m, header |-> attempt]]
        /\ place = "retry" => job[r].action = "retry" /\ attempt = job[r].attempt + 1
  <2>1. job[r].attempt \in Int /\ job[r].attempt + 1 \in Int
    BY DEF IInv, TypeOK, Jobs
  <2>2. CASE job[r].action = "retry"
    BY <1>1, <2>1, <2>2 DEF PublishAccepted, Enqueue
  <2>3. CASE job[r].action # "retry"
    BY <1>1, <2>1, <2>3 DEF PublishAccepted, Enqueue
  <2> QED
    BY <2>2, <2>3
<1>3. /\ pc[r] = "publishing"
      /\ link[r]
      /\ pc' = [pc EXCEPT ![r] = "confirming"]
      /\ UNCHANGED << link, held, job, jobMsg, producerVars, worldVars, upset, upsets >>
  BY DEF PublishAccepted
<1>4. \A s \in Replicas : held[s] # c
  BY <1>2 DEF IInv, HoldingOK, TypeOK, Absent
<1>5. held[r] \in Copies /\ copy[held[r]].msg = m /\ held[r] # c
  BY <1>1, <1>3, <1>4 DEF IInv, TypeOK, HoldingOK, DInv, LinkOK, Working
<1>6. job[r].action \in {"retry", "dead_letter"} /\ job[r].stage = "outcome"
  BY <1>3 DEF IInv, JobOK, DInv, RetriesOK
<1>7. LinkOK' /\ TroubleOK' /\ UnpublishedOK' /\ RetriesOK'
  BY <1>1, <1>2, <1>3 DEF IInv, TypeOK, DInv, LinkOK, TroubleOK, UnpublishedOK, RetriesOK, Told,
     Working
<1>8. TriesOK'
  <2>1. ASSUME NEW n \in Messages, Undisturbed(n, {"redelivered", "forked", "refused"})',
               NEW k \in Copies, IsCopyOf(k, n)', copy'[k].at \in {"main", "retry"}
        PROVE  Due(n, attemptOf(copy[k].header))'
    <3>1. CASE k = c
      <4>1. /\ n = m
            /\ copy'[k].header = job[r].attempt + 1
            /\ job[r].action = "retry"
        BY <1>2, <2>1, <3>1 DEF IInv, TypeOK, IsCopyOf
      <4>2. job[r].attempt < MaxAttempts
        BY <1>3, <4>1 DEF DInv, RetriesOK, Working
      <4>3. tries[m] <= job[r].attempt
        BY <1>3, <1>1, <1>6, <2>1, <4>1 DEF DInv, TriesOK, Undisturbed
      <4>4. tries[m] \in Nat /\ job[r].attempt \in Nat \ {0}
        BY <1>1 DEF IInv, TypeOK, Jobs
      <4>5. attemptOf(job[r].attempt + 1) = job[r].attempt + 1
        BY <4>4 DEF attemptOf
      <4> QED
        BY <1>3, <4>1, <4>2, <4>3, <4>4, <4>5 DEF Due
    <3>2. CASE k # c
      BY <1>2, <1>3, <2>1, <3>2 DEF IInv, TypeOK, DInv, TriesOK, IsCopyOf, Due, Undisturbed
    <3> QED
      BY <3>1, <3>2
  <2>2. ASSUME NEW s \in Replicas, pc'[s] \in {"handling", "publishing"}
        PROVE  pc[s] = pc'[s]
    BY <1>3, <2>2 DEF IInv, TypeOK
  <2> QED
    BY <1>3, <2>1, <2>2 DEF DInv, TriesOK, Undisturbed, Due
<1>9. ASSUME NEW n \in Messages, n # m PROVE DeliveryOK(n)'
  <2>1. sent'[n] = sent[n] /\ told'[n] = told[n] /\ upset[n] \subseteq upset'[n]
    BY <1>3
  <2>2. ASSUME NEW k \in Copies, Live(k, n)' PROVE Live(k, n)
    BY <1>2, <1>3, <1>9, <2>2 DEF IInv, TypeOK, Live, IsCopyOf, Superseded
  <2>3. ASSUME NEW k \in Copies, NEW s \in Replicas, held[s] = k, Finishing(s)
        PROVE  /\ held'[s] = k /\ Finishing(s)'
               /\ job[s].action = "done" => job'[s].action = "done"
    BY <1>3, <2>3 DEF IInv, TypeOK, Finishing
  <2> QED
    BY <2>1, <2>2, <2>3, QuietStep
<1>10. DeliveryOK(m)'
  <2>1. ASSUME Undisturbed(m, {"redelivered", "forked"}), NEW k \in Copies, Live(k, m)'
        PROVE  k = c
    <3>1. ASSUME k # c PROVE FALSE
      <4>1. k # held[r]
        BY <1>3, <1>5, <1>6, <2>1 DEF IInv, TypeOK, Live, Superseded
      <4>2. Live(k, m)
        BY <1>2, <1>3, <2>1, <3>1, <4>1 DEF IInv, TypeOK, Live, IsCopyOf, Superseded
      <4> QED
        BY <1>3, <1>1, <2>1, <4>1, <4>2, HolderFacts
    <3> QED
      BY <3>1
  <2>2. ASSUME Undisturbed(m, {"redelivered", "forked", "ambiguous"})
        PROVE  sent'[m] = 0 /\ ("unheard" \notin upset[m] => ~Told(m)')
    BY <1>3, <1>1, <1>6, <2>2, OpenFacts DEF Finishing, Told
  <2>3. OneLiveCopy(m)'
    BY <1>3, <2>1 DEF OneLiveCopy, Undisturbed
  <2>4. SentOK(m)' /\ ToldOK(m)'
    BY <1>3, <2>2 DEF SentOK, ToldOK, Undisturbed
  <2> QED
    BY <2>3, <2>4 DEF DeliveryOK
<1> QED
  BY <1>1, <1>7, <1>8, <1>9, <1>10 DEF DInv

\* A replica receives the live copy of a message: its attempt is the one that is due.
LEMMA ReceiveDelivery ==
    ASSUME IInv, DInv, NEW r \in Replicas, NEW c \in Copies, Receive(r, c)
    PROVE  DInv'
<1> DEFINE attempt == attemptOf(copy[c].header)
           j == Handle(request[copy[c].msg], attempt, CanRetry(attempt))
<1>1. copy[c].msg \in published /\ copy[c].msg \in Messages
  BY DEF Receive, IInv, CopiesOK, Absent, TypeOK
<1>2. attempt \in Nat \ {0}
  BY AttemptFacts DEF IInv, TypeOK, CopyRecords
<1>3. /\ j.attempt = attempt
      /\ j.canRetry = CanRetry(attempt)
      /\ \/ j.stage = "send" /\ j.action = "none"
         \/ j.stage = "outcome" /\ j.action = "dead_letter"
  BY DEF Handle, Outcome
<1>4. /\ pc[r] = "consuming"
      /\ link[r]
      /\ copy[c].at = "main"
      /\ copy' = [copy EXCEPT ![c].at = "unacked"]
      /\ held' = [held EXCEPT ![r] = c]
      /\ jobMsg' = [jobMsg EXCEPT ![r] = copy[c].msg]
      /\ job' = [job EXCEPT ![r] = j]
      /\ pc' = [pc EXCEPT ![r] = "handling"]
      /\ UNCHANGED << link, producerVars, worldVars, upset, upsets >>
  BY DEF Receive
<1>5. held[r] = NoCopy /\ \A s \in Replicas : held[s] # c
  BY <1>4 DEF IInv, HoldingOK, Working
<1>6. \A k \in Copies : copy'[k].msg = copy[k].msg /\ copy'[k].header = copy[k].header
                         /\ (copy'[k].at # copy[k].at => k = c /\ copy'[k].at = "unacked")
  BY <1>4 DEF IInv, TypeOK, CopyRecords
<1>7. j.canRetry => attempt < MaxAttempts
  BY <1>3 DEF CanRetry
<1> HIDE DEF j, attempt
<1>8. LinkOK' /\ TroubleOK' /\ UnpublishedOK' /\ RetriesOK'
  <2>1. LinkOK'
    BY <1>4 DEF IInv, TypeOK, DInv, LinkOK, Working
  <2>2. TroubleOK'
    BY <1>4, <1>6 DEF IInv, TypeOK, DInv, TroubleOK
  <2>3. UnpublishedOK'
    BY <1>4 DEF DInv, UnpublishedOK, Told
  <2>4. RetriesOK'
    BY <1>3, <1>4, <1>7 DEF IInv, TypeOK, DInv, RetriesOK, Working
  <2> QED
    BY <2>1, <2>2, <2>3, <2>4
<1>9. TriesOK'
  <2>1. ASSUME NEW n \in Messages, Undisturbed(n, {"redelivered", "forked", "refused"}),
               NEW s \in Replicas, jobMsg'[s] = n, pc'[s] \in {"handling", "publishing"}
        PROVE  IF job'[s].stage = "send" THEN Due(n, job[s].attempt)'
               ELSE tries'[n] <= job'[s].attempt
    <3>1. CASE s = r
      <4>1. n = copy[c].msg /\ job'[s] = j
        BY <1>4, <2>1, <3>1 DEF IInv, TypeOK
      <4>2. Due(n, attempt)
        BY <1>4, <2>1, <4>1 DEF DInv, TriesOK, IsCopyOf, attempt
      <4> QED
        BY <1>2, <1>3, <1>4, <4>1, <4>2 DEF Due, IInv, TypeOK
    <3>2. CASE s # r
      BY <1>4, <2>1, <3>2 DEF IInv, TypeOK, DInv, TriesOK, Due
    <3> QED
      BY <3>1, <3>2
  <2>2. ASSUME NEW n \in Messages, Undisturbed(n, {"redelivered", "forked", "refused"}),
               NEW k \in Copies, IsCopyOf(k, n)', copy'[k].at \in {"main", "retry"}
        PROVE  Due(n, attemptOf(copy[k].header))'
    BY <1>4, <1>6, <2>2 DEF DInv, TriesOK, IsCopyOf, Due
  <2> QED
    BY <1>4, <2>1, <2>2 DEF DInv, TriesOK, Undisturbed
<1>10. ASSUME NEW n \in Messages PROVE DeliveryOK(n)'
  <2>1. sent'[n] = sent[n] /\ told'[n] = told[n] /\ upset[n] \subseteq upset'[n]
    BY <1>4
  <2>2. ASSUME NEW k \in Copies, Live(k, n)' PROVE Live(k, n)
    BY <1>4, <1>5, <1>6, <2>2 DEF IInv, TypeOK, Live, IsCopyOf, Superseded
  <2>3. ASSUME NEW k \in Copies, NEW s \in Replicas, held[s] = k, Finishing(s)
        PROVE  /\ held'[s] = k /\ Finishing(s)'
               /\ job[s].action = "done" => job'[s].action = "done"
    BY <1>4, <2>3 DEF IInv, TypeOK, Finishing
  <2> QED
    BY <2>1, <2>2, <2>3, QuietStep
<1> QED
  BY <1>8, <1>9, <1>10 DEF DInv

\* What the handler does to m while it holds the live copy of it: the rest of the world is quiet.
LEMMA HandlingStep ==
    ASSUME IInv, DInv, NEW r \in Replicas, pc[r] = "handling",
           NEW j, job' = [job EXCEPT ![r] = j],
           UNCHANGED << pc, link, held, jobMsg, producerVars, copy >>,
           NEW n \in Messages, n # jobMsg[r],
           sent'[n] = sent[n], told'[n] = told[n], upset'[n] = upset[n]
    PROVE  DeliveryOK(n)'
<1>1. upset[n] \subseteq upset'[n]
  OBVIOUS
<1>2. ASSUME NEW k \in Copies, Live(k, n)' PROVE Live(k, n)
  BY <1>2 DEF IInv, TypeOK, Live, IsCopyOf, Superseded
<1>3. ASSUME NEW k \in Copies, NEW s \in Replicas, Live(k, n)', held[s] = k, Finishing(s)
      PROVE  /\ held'[s] = k /\ Finishing(s)'
             /\ job[s].action = "done" => job'[s].action = "done"
  BY <1>3 DEF IInv, TypeOK, HoldingOK, Finishing, Live, IsCopyOf
<1> QED
  BY <1>1, <1>2, <1>3, QuietStep

\* The request is handed to the provider: it was not sent before, and if it is sent now without the
\* sender's doubt, the job is finishing.
LEMMA SendDelivery ==
    ASSUME IInv, DInv, NEW r \in Replicas, Send(r)
    PROVE  DInv'
<1>1. PICK m \in Messages : m = jobMsg[r]
  BY DEF Send, IInv, HoldingOK, TypeOK, Working
<1>2. /\ pc[r] = "handling"
      /\ job[r].stage = "send"
      /\ m \in published
      /\ request[m] \in Requests
      /\ job[r] \in Jobs
      /\ job[r].action = "none"
  BY <1>1 DEF Send, IInv, TypeOK, HoldingOK, JobOK, Working
<1>3. PICK res \in SendResults(request[m], SenderCodes) :
        /\ job' = [job EXCEPT ![r] = AfterSend(request[m], job[r], res.err)]
        /\ sent' = [sent EXCEPT ![m] = @ + (IF res.accepted THEN 1 ELSE 0)]
        /\ tries' = [tries EXCEPT ![m] = @ + 1]
        /\ upset' = [upset EXCEPT ![m] =
                       @ \cup (IF res.accepted /\ res.err # NoError THEN {"ambiguous"} ELSE {})]
  BY <1>1 DEF Send
<1>4. /\ res.accepted \in BOOLEAN
      /\ res.err \in ErrorCodes \cup {NoError}
      /\ res.err = NoError => res.accepted
  BY <1>2, SendResultFacts
<1> DEFINE k == AfterSend(request[m], job[r], res.err)
<1>5. /\ k \in Jobs
      /\ k.stage # "send"
      /\ k.attempt = job[r].attempt
      /\ k.canRetry = job[r].canRetry
      /\ k.action = "retry" => k.canRetry
      /\ res.err = NoError => k.stage = "notify_success" \/ k.action = "done"
  BY <1>2, <1>4, AfterSendFacts, SendKeeps
<1>6. job' = [job EXCEPT ![r] = k]
  BY <1>3
<1>7. UNCHANGED << pc, link, held, jobMsg, producerVars, copy, told, upsets >>
  BY DEF Send
<1> HIDE DEF k
<1>8. \A n \in Messages : upset[n] \subseteq upset'[n]
  BY <1>3 DEF IInv, TypeOK
<1>9. \A n \in Messages : n # m =>
        sent'[n] = sent[n] /\ tries'[n] = tries[n] /\ upset'[n] = upset[n]
  BY <1>3 DEF IInv, TypeOK
<1>10. LinkOK' /\ TroubleOK' /\ UnpublishedOK' /\ RetriesOK'
  <2>1. LinkOK'
    BY <1>7, <1>8 DEF IInv, TypeOK, HoldingOK, DInv, LinkOK, Working
  <2>2. TroubleOK'
    BY <1>7, <1>8 DEF IInv, TypeOK, HoldingOK, CopiesOK, Absent, DInv, TroubleOK, Working
  <2>3. UnpublishedOK'
    BY <1>2, <1>7, <1>9 DEF DInv, UnpublishedOK, Told
  <2>4. RetriesOK'
    BY <1>2, <1>5, <1>6, <1>7 DEF IInv, TypeOK, DInv, RetriesOK, Working
  <2> QED
    BY <2>1, <2>2, <2>3, <2>4
<1>11. TriesOK'
  <2> SUFFICES ASSUME NEW n \in Messages, Undisturbed(n, {"redelivered", "forked", "refused"})'
               PROVE  /\ tries'[n] <= MaxAttempts
                      /\ \A c \in Copies : IsCopyOf(c, n)' /\ copy'[c].at \in {"main", "retry"} =>
                            Due(n, attemptOf(copy[c].header))'
                      /\ \A s \in Replicas :
                            jobMsg'[s] = n /\ pc'[s] \in {"handling", "publishing"} =>
                               IF job'[s].stage = "send" THEN Due(n, job[s].attempt)'
                               ELSE tries'[n] <= job'[s].attempt
    BY DEF TriesOK
  <2>1. Undisturbed(n, {"redelivered", "forked", "refused"})
    BY <1>8 DEF Undisturbed
  <2>2. CASE n # m
    <3>1. ASSUME NEW s \in Replicas, jobMsg'[s] = n PROVE job'[s] = job[s]
      BY <1>1, <1>6, <1>7, <2>2, <3>1 DEF IInv, TypeOK
    <3> QED
      BY <1>7, <1>9, <2>1, <2>2, <3>1 DEF DInv, TriesOK, IsCopyOf, Due
  <2>3. CASE n = m
    <3>1. Undisturbed(m, {"redelivered", "forked"})
      BY <2>1, <2>3 DEF Undisturbed
    <3>2. held[r] \in Copies /\ Live(held[r], m) /\ \A c \in Copies : Live(c, m) => c = held[r]
      BY <1>1, <1>2, <3>1, HolderFacts
    <3>3. Due(m, job[r].attempt)
      BY <1>1, <1>2, <2>1, <2>3 DEF DInv, TriesOK
    <3>4. /\ tries[m] \in Nat /\ tries'[m] = tries[m] + 1
          /\ job[r].attempt \in Nat \ {0} /\ MaxAttempts \in Nat \ {0}
      BY <1>2, <1>3 DEF IInv, TypeOK, Jobs
    <3>5. tries'[m] <= MaxAttempts /\ tries'[m] <= job[r].attempt
      BY <3>3, <3>4, <2>1, <2>3 DEF Due, DInv, TriesOK
    <3>6. ASSUME NEW c \in Copies, IsCopyOf(c, m), copy[c].at \in {"main", "retry"}
          PROVE  FALSE
      <4>1. Live(c, m)
        BY <3>6 DEF IInv, HoldingOK, Live, Superseded
      <4> QED
        BY <3>2, <3>6, <4>1 DEF IInv, HoldingOK
    <3>7. ASSUME NEW s \in Replicas, jobMsg[s] = m, pc[s] \in {"handling", "publishing"}
          PROVE  s = r
      BY <1>1, <1>2, <3>1, <3>2, <3>7, HolderFacts DEF IInv, HoldingOK
    <3> QED
      BY <1>2, <1>5, <1>6, <1>7, <2>3, <3>5, <3>6, <3>7 DEF IInv, TypeOK, IsCopyOf
  <2> QED
    BY <2>2, <2>3
<1>12. ASSUME NEW n \in Messages, n # m PROVE DeliveryOK(n)'
  BY <1>1, <1>2, <1>6, <1>7, <1>9, <1>12, HandlingStep
<1>13. DeliveryOK(m)'
  <2>1. Undisturbed(m, {"redelivered", "forked"})' =>
          /\ Undisturbed(m, {"redelivered", "forked"})
          /\ held[r] \in Copies
          /\ \A c \in Copies : Live(c, m) => c = held[r]
    BY <1>1, <1>2, <1>8, HolderFacts DEF Undisturbed
  <2>2. Undisturbed(m, {"redelivered", "forked", "ambiguous"})' =>
          /\ Undisturbed(m, {"redelivered", "forked"})'
          /\ sent[m] = 0 /\ ("unheard" \notin upset[m] => told[m] = {})
    BY <1>1, <1>2, <1>8, OpenFacts DEF Undisturbed, Finishing
  <2>3. ASSUME NEW c \in Copies, Live(c, m)' PROVE Live(c, m)
    BY <1>2, <1>6, <1>7, <2>3 DEF IInv, TypeOK, Live, IsCopyOf, Superseded
  <2>4. sent'[m] \in {sent[m], sent[m] + 1} /\ (~res.accepted => sent'[m] = sent[m])
    BY <1>3, <1>4 DEF IInv, TypeOK
  <2>5. Undisturbed(m, {"redelivered", "forked", "ambiguous"})' /\ res.accepted => Finishing(r)'
    <3>1. Undisturbed(m, {"redelivered", "forked", "ambiguous"})' /\ res.accepted =>
             res.err = NoError
      BY <1>3 DEF Undisturbed, IInv, TypeOK
    <3> QED
      BY <1>2, <1>5, <1>6, <1>7, <3>1 DEF IInv, TypeOK, Finishing
  <2>6. OneLiveCopy(m)'
    BY <2>1, <2>3 DEF OneLiveCopy
  <2>7. SentOK(m)'
    <3> SUFFICES ASSUME Undisturbed(m, {"redelivered", "forked", "ambiguous"})'
                 PROVE  /\ sent'[m] <= 1
                        /\ sent'[m] > 0 =>
                              \A c \in Copies : Live(c, m)' =>
                                 \E s \in Replicas : held'[s] = c /\ Finishing(s)'
      BY DEF SentOK
    <3>1. sent'[m] <= 1 /\ (sent'[m] > 0 => res.accepted)
      BY <1>4, <2>2, <2>4
    <3>2. ASSUME sent'[m] > 0, NEW c \in Copies, Live(c, m)'
          PROVE  held'[r] = c /\ Finishing(r)'
      BY <1>7, <2>1, <2>2, <2>3, <2>5, <3>1, <3>2
    <3> QED
      BY <3>1, <3>2
  <2>8. ToldOK(m)'
    BY <1>7, <1>8, <2>2 DEF ToldOK, Told, Undisturbed
  <2> QED
    BY <2>6, <2>7, <2>8 DEF DeliveryOK
<1> QED
  BY <1>10, <1>11, <1>12, <1>13 DEF DInv

\* The success callback: the email was sent, and the job is done whether the callback took it or
\* not.
LEMMA NotifySuccessDelivery ==
    ASSUME IInv, DInv, NEW r \in Replicas, NotifySuccess(r)
    PROVE  DInv'
<1>1. PICK m \in Messages : m = jobMsg[r]
  BY DEF NotifySuccess, IInv, HoldingOK, TypeOK, Working
<1>2. /\ pc[r] = "handling"
      /\ job[r].stage = "notify_success"
      /\ m \in published
      /\ job[r] \in Jobs
      /\ job[r].action = "none"
  BY <1>1 DEF NotifySuccess, IInv, TypeOK, HoldingOK, JobOK, Working
<1>3. PICK accepted \in BOOLEAN :
        /\ told' = [told EXCEPT ![m] = @ \cup (IF accepted THEN {"sent"} ELSE {})]
        /\ job' = [job EXCEPT ![r] = AfterNotifySuccess(job[r])]
  BY <1>1 DEF NotifySuccess
<1> DEFINE k == AfterNotifySuccess(job[r])
<1>4. /\ k.stage = "outcome"
      /\ k.attempt = job[r].attempt
      /\ k.canRetry = job[r].canRetry
      /\ k.action \in {"done", "dead_letter"}
      /\ k.action = "done"
  BY <1>2 DEF AfterNotifySuccess, Outcome, Jobs, Stages, Actions
<1>5. job' = [job EXCEPT ![r] = k]
  BY <1>3
<1>6. UNCHANGED << pc, link, held, jobMsg, producerVars, copy, sent, tries, upset, upsets >>
  BY DEF NotifySuccess
<1> HIDE DEF k
<1>7. \A n \in Messages : n # m => told'[n] = told[n]
  BY <1>3 DEF IInv, TypeOK
<1>8. LinkOK' /\ TroubleOK' /\ UnpublishedOK' /\ RetriesOK'
  BY <1>2, <1>4, <1>5, <1>6, <1>7 DEF IInv, TypeOK, DInv, LinkOK, TroubleOK, UnpublishedOK,
     RetriesOK, Told, Working
<1>9. TriesOK'
  <2>1. ASSUME NEW n \in Messages, Undisturbed(n, {"redelivered", "forked", "refused"}),
               NEW s \in Replicas, jobMsg[s] = n, pc[s] \in {"handling", "publishing"}
        PROVE  IF job'[s].stage = "send" THEN Due(n, job[s].attempt)'
               ELSE tries'[n] <= job'[s].attempt
    BY <1>2, <1>4, <1>5, <1>6, <2>1 DEF IInv, TypeOK, DInv, TriesOK, Due
  <2> QED
    BY <1>6, <2>1 DEF DInv, TriesOK, IsCopyOf, Undisturbed, Due
<1>10. ASSUME NEW n \in Messages, n # m PROVE DeliveryOK(n)'
  BY <1>1, <1>2, <1>5, <1>6, <1>7, <1>10, HandlingStep
<1>11. DeliveryOK(m)'
  <2>1. Undisturbed(m, {"redelivered", "forked"}) =>
          held[r] \in Copies /\ \A c \in Copies : Live(c, m) => c = held[r]
    BY <1>1, <1>2, HolderFacts
  <2>2. Undisturbed(m, {"redelivered", "forked", "ambiguous"}) =>
          /\ Undisturbed(m, {"redelivered", "forked"})
          /\ "unheard" \notin upset[m] => told[m] = {}
          /\ sent[m] > 0
          /\ sent[m] <= 1
    BY <1>1, <1>2, OpenFacts
       DEF Undisturbed, Finishing, IInv, TypeOK, JobOK, DInv, DeliveryOK, SentOK
  <2>3. ASSUME NEW c \in Copies, Live(c, m)' PROVE Live(c, m)
    BY <1>2, <1>5, <1>6, <2>3 DEF IInv, TypeOK, Live, IsCopyOf, Superseded
  <2>4. OneLiveCopy(m)'
    BY <1>6, <2>1, <2>3 DEF OneLiveCopy, Undisturbed
  <2>5. Finishing(r)' /\ job'[r].action = "done"
    BY <1>2, <1>4, <1>5, <1>6 DEF IInv, TypeOK, Finishing
  <2>6. SentOK(m)'
    BY <1>6, <2>1, <2>2, <2>3, <2>5 DEF SentOK, Undisturbed
  <2>7. Undisturbed(m, {"redelivered", "forked", "ambiguous", "unheard"}) =>
          /\ Undisturbed(m, {"redelivered", "forked", "ambiguous"})
          /\ told'[m] = IF accepted THEN {"sent"} ELSE {}
    BY <1>3, <2>2 DEF IInv, TypeOK, Undisturbed
  <2>8. ToldOK(m)'
    <3> SUFFICES ASSUME Undisturbed(m, {"redelivered", "forked", "ambiguous", "unheard"}), Told(m)'
                 PROVE  /\ told'[m] = IF sent'[m] = 0 THEN {"failed"} ELSE {"sent"}
                        /\ \A c \in Copies : Live(c, m)' =>
                              \E s \in Replicas :
                                  held'[s] = c /\ Finishing(s)' /\ job'[s].action = "done"
      BY <1>6 DEF ToldOK, Undisturbed
    <3>1. accepted
      BY <2>7 DEF Told
    <3>2. told'[m] = IF sent'[m] = 0 THEN {"failed"} ELSE {"sent"}
      BY <1>6, <2>2, <2>7, <3>1
    <3>3. ASSUME NEW c \in Copies, Live(c, m)' PROVE held'[r] = c
      BY <1>6, <2>1, <2>2, <2>3, <2>7, <3>3
    <3> QED
      BY <2>5, <3>1, <3>2, <3>3
  <2> QED
    BY <2>4, <2>6, <2>8 DEF DeliveryOK
<1> QED
  BY <1>8, <1>9, <1>10, <1>11 DEF DInv

\* The failure callback: the email was not sent, and the job is done when the callback took it.
LEMMA NotifyFailureDelivery ==
    ASSUME IInv, DInv, NEW r \in Replicas, NotifyFailure(r)
    PROVE  DInv'
<1>1. PICK m \in Messages : m = jobMsg[r]
  BY DEF NotifyFailure, IInv, HoldingOK, TypeOK, Working
<1>2. /\ pc[r] = "handling"
      /\ job[r].stage = "notify_failure"
      /\ m \in published
      /\ job[r] \in Jobs
      /\ job[r].action = "none"
  BY <1>1 DEF NotifyFailure, IInv, TypeOK, HoldingOK, JobOK, Working
<1>3. PICK res \in NotifyResults :
        /\ told' = [told EXCEPT ![m] = @ \cup (IF res.taken THEN {"failed"} ELSE {})]
        /\ job' = [job EXCEPT ![r] = AfterNotifyFailure(job[r], res.ok)]
        /\ upset' = [upset EXCEPT ![m] =
                       @ \cup (IF res.taken /\ ~res.ok THEN {"unheard"} ELSE {})]
  BY <1>1 DEF NotifyFailure
<1> DEFINE k == AfterNotifyFailure(job[r], res.ok)
<1>4. /\ k.stage = "outcome"
      /\ k.attempt = job[r].attempt
      /\ k.canRetry = job[r].canRetry
      /\ k.action \in {"done", "dead_letter"}
      /\ res.ok => k.action = "done"
  BY <1>2 DEF AfterNotifyFailure, Outcome, Jobs, Stages, Actions
<1>5. job' = [job EXCEPT ![r] = k]
  BY <1>3
<1>6. UNCHANGED << pc, link, held, jobMsg, producerVars, copy, sent, tries, upsets >>
  BY DEF NotifyFailure
<1> HIDE DEF k
<1>7. /\ \A n \in Messages : n # m => told'[n] = told[n] /\ upset'[n] = upset[n]
      /\ \A n \in Messages : upset[n] \subseteq upset'[n]
      /\ \A n \in Messages, R \in SUBSET {"redelivered", "forked", "refused", "ambiguous"} :
            Undisturbed(n, R)' => Undisturbed(n, R)
  BY <1>3 DEF IInv, TypeOK, Undisturbed
<1>8. LinkOK' /\ TroubleOK' /\ UnpublishedOK' /\ RetriesOK'
  <2>1. LinkOK'
    BY <1>6, <1>7 DEF IInv, TypeOK, HoldingOK, DInv, LinkOK, Working
  <2>2. TroubleOK'
    BY <1>6, <1>7 DEF IInv, TypeOK, HoldingOK, CopiesOK, Absent, DInv, TroubleOK, Working
  <2>3. UnpublishedOK'
    BY <1>2, <1>6, <1>7 DEF DInv, UnpublishedOK, Told
  <2>4. RetriesOK'
    BY <1>2, <1>4, <1>5, <1>6 DEF IInv, TypeOK, DInv, RetriesOK, Working
  <2> QED
    BY <2>1, <2>2, <2>3, <2>4
<1>9. TriesOK'
  <2>1. ASSUME NEW n \in Messages, Undisturbed(n, {"redelivered", "forked", "refused"}),
               NEW s \in Replicas, jobMsg[s] = n, pc[s] \in {"handling", "publishing"}
        PROVE  IF job'[s].stage = "send" THEN Due(n, job[s].attempt)'
               ELSE tries'[n] <= job'[s].attempt
    BY <1>2, <1>4, <1>5, <1>6, <2>1 DEF IInv, TypeOK, DInv, TriesOK, Due
  <2> QED
    BY <1>6, <1>7, <2>1 DEF DInv, TriesOK, IsCopyOf, Due
<1>10. ASSUME NEW n \in Messages, n # m PROVE DeliveryOK(n)'
  BY <1>1, <1>2, <1>5, <1>6, <1>7, <1>10, HandlingStep
<1>11. DeliveryOK(m)'
  <2>1. Undisturbed(m, {"redelivered", "forked"}) =>
          held[r] \in Copies /\ \A c \in Copies : Live(c, m) => c = held[r]
    BY <1>1, <1>2, HolderFacts
  <2>2. Undisturbed(m, {"redelivered", "forked", "ambiguous"}) =>
          /\ Undisturbed(m, {"redelivered", "forked"})
          /\ "unheard" \notin upset[m] => told[m] = {}
          /\ sent[m] = 0
          /\ sent[m] <= 1
    BY <1>1, <1>2, OpenFacts
       DEF Undisturbed, Finishing, IInv, TypeOK, JobOK, DInv, DeliveryOK, SentOK
  <2>3. ASSUME NEW c \in Copies, Live(c, m)' PROVE Live(c, m)
    BY <1>2, <1>5, <1>6, <2>3 DEF IInv, TypeOK, Live, IsCopyOf, Superseded
  <2>4. OneLiveCopy(m)'
    BY <1>6, <1>7, <2>1, <2>3 DEF OneLiveCopy
  <2>5. res.ok => Finishing(r)' /\ job'[r].action = "done"
    BY <1>2, <1>4, <1>5, <1>6 DEF IInv, TypeOK, Finishing
  <2>6. SentOK(m)'
    BY <1>6, <1>7, <2>1, <2>2, <2>3, <2>5 DEF SentOK
  <2>7. Undisturbed(m, {"redelivered", "forked", "ambiguous", "unheard"})' =>
          /\ Undisturbed(m, {"redelivered", "forked", "ambiguous"})
          /\ res.taken => res.ok
          /\ told'[m] = IF res.taken THEN {"failed"} ELSE {}
    BY <1>3, <2>2 DEF IInv, TypeOK, Undisturbed
  <2>8. ToldOK(m)'
    <3> SUFFICES ASSUME Undisturbed(m, {"redelivered", "forked", "ambiguous", "unheard"})', Told(m)'
                 PROVE  /\ told'[m] = IF sent'[m] = 0 THEN {"failed"} ELSE {"sent"}
                        /\ \A c \in Copies : Live(c, m)' =>
                              \E s \in Replicas :
                                  held'[s] = c /\ Finishing(s)' /\ job'[s].action = "done"
      BY DEF ToldOK
    <3>1. res.taken /\ res.ok
      BY <2>7 DEF Told
    <3>2. told'[m] = IF sent'[m] = 0 THEN {"failed"} ELSE {"sent"}
      BY <1>6, <2>2, <2>7, <3>1
    <3>3. ASSUME NEW c \in Copies, Live(c, m)' PROVE held'[r] = c
      BY <1>6, <2>1, <2>2, <2>3, <2>7, <3>3
    <3> QED
      BY <2>5, <3>1, <3>2, <3>3
  <2> QED
    BY <2>4, <2>6, <2>8 DEF DeliveryOK
<1> QED
  BY <1>8, <1>9, <1>10, <1>11 DEF DInv

-----------------------------------------------------------------------------
(***************************************************************************)
(* The theorems about sends, attempts and callbacks.                       *)
(***************************************************************************)

\* Nothing has happened yet.
LEMMA InitDInv == Init => DInv
<1> SUFFICES ASSUME Init PROVE DInv
  OBVIOUS
<1>1. LinkOK /\ TroubleOK /\ UnpublishedOK /\ RetriesOK
  BY DEF Init, LinkOK, TroubleOK, UnpublishedOK, RetriesOK, Told, Working, Absent
<1>2. \A m \in Messages, c \in Copies : ~IsCopyOf(c, m)
  BY DEF Init, IsCopyOf, Absent
<1>3. TriesOK
  BY <1>2 DEF Init, TriesOK
<1>4. ASSUME NEW m \in Messages PROVE DeliveryOK(m)
  BY <1>2 DEF Init, DeliveryOK, OneLiveCopy, SentOK, ToldOK, Told, Live
<1> QED
  BY <1>1, <1>3, <1>4 DEF DInv

\* Every step of the system preserves the invariant.
LEMMA NextDInv == IInv /\ DInv /\ [Next]_vars => DInv'
<1> SUFFICES ASSUME IInv, DInv, [Next]_vars PROVE DInv'
  OBVIOUS
<1>1. CASE \E m \in Messages : Publish(m)
  BY <1>1, PublishDelivery
<1>2. CASE \E c \in Copies : BrokerStep(c)
  BY <1>2, ExpireDelivery, RequeueDelivery DEF BrokerStep
<1>3. ASSUME NEW r \in Replicas, Step(r) PROVE DInv'
  BY <1>3, StartDelivery, ConnectDelivery, ReconnectDelivery, ReceiveDelivery, SendDelivery,
     NotifySuccessDelivery, NotifyFailureDelivery, ApplyDelivery, PublishAcceptedDelivery,
     PublishConfirmedDelivery, PublishBrokenDelivery, AckDelivery, NackDelivery
     DEF Step
<1>4. ASSUME NEW r \in Replicas, Disturbance(r) PROVE DInv'
  BY <1>4, DisconnectDelivery, ShutdownDelivery, CrashDelivery, PublishRefusedDelivery,
     PublishTimeoutDelivery
     DEF Disturbance
<1>5. CASE UNCHANGED vars
  <2>1. LinkOK' /\ TroubleOK' /\ UnpublishedOK' /\ RetriesOK' /\ TriesOK'
    BY <1>5 DEF vars, DInv, LinkOK, TroubleOK, UnpublishedOK, RetriesOK, TriesOK, Told, IsCopyOf,
       Undisturbed, Due
  <2>2. ASSUME NEW m \in Messages PROVE DeliveryOK(m)'
    BY <1>5 DEF vars, DInv, DeliveryOK, OneLiveCopy, SentOK, ToldOK, Told, Live, IsCopyOf,
       Superseded, Undisturbed, Finishing
  <2> QED
    BY <2>1, <2>2 DEF DInv
<1> QED
  BY <1>1, <1>2, <1>3, <1>4, <1>5 DEF Next

\* The invariant holds in every reachable state.
LEMMA DeliveryInvariance == Spec => [](IInv /\ DInv)
BY InitIInv, InitDInv, NextIInv, NextDInv, PTL DEF Spec

\* The provider accepts no email twice (consumeLoop, apply and publishConfirmed,
\* rabbitmq_consumer.go:114-163 and rabbitmq_dispatch.go:19-77), unless its unacked copy was
\* redelivered, its republish timed out after the broker had taken it, or the sender reported a
\* failure of an email that the provider took: for any number of replicas and messages.
THEOREM SentOnce == Spec => []NoDuplicateSend
<1>1. DInv => NoDuplicateSend
  BY DEF DInv, DeliveryOK, SentOK, NoDuplicateSend
<1> QED
  BY <1>1, DeliveryInvariance, PTL

\* The sender is called at most MaxAttempts times for a message whose copies were not redelivered,
\* forked or refused: the x-attempt header counts the attempts (attemptOf and RetryPolicy.CanRetry,
\* rabbitmq_dispatch.go and retry.go), whatever header the producer set.
THEOREM AttemptsAreBounded == Spec => []AttemptsBounded
<1>1. DInv => AttemptsBounded
  BY DEF DInv, TriesOK, AttemptsBounded
<1> QED
  BY <1>1, DeliveryInvariance, PTL

-----------------------------------------------------------------------------
(***************************************************************************)
(* A failure whose callback took it unheard: the copy that is left of its  *)
(* message is on its way to the dead letters, and the truth was told.      *)
(***************************************************************************)

\* The call of the handler for the message ends with a republish to the dead letters.
Burying(r) ==
    /\ pc[r] \in {"handling", "publishing"}
    /\ job[r].stage = "outcome"
    /\ job[r].action = "dead_letter"

\* The copy is a dead letter, about to be replaced by one, or already replaced.
Parting(c) ==
    \/ Superseded(c)
    \/ copy[c].at = "dlq"
    \/ \E r \in Replicas : held[r] = c /\ Burying(r)

\* Nothing but the lost answer has happened to m.
OnlyUnheard(m) ==
    /\ "unheard" \in upset[m]
    /\ Undisturbed(m, {"redelivered", "forked", "refused", "ambiguous"})

UnheardOK(m) ==
    OnlyUnheard(m) =>
        /\ sent[m] = 0
        /\ told[m] = {"failed"}
        /\ \A c \in Copies : IsCopyOf(c, m) => Parting(c)

UInv == \A m \in Messages : UnheardOK(m)

\* A step that changes neither what the world knows of n nor the way its copies go.
LEMMA UnheardKept ==
    ASSUME NEW n \in Messages, UnheardOK(n),
           sent'[n] = sent[n], told'[n] = told[n], upset[n] \subseteq upset'[n],
           OnlyUnheard(n)' => "unheard" \in upset[n],
           ASSUME NEW c \in Copies, OnlyUnheard(n)', IsCopyOf(c, n)',
                  IsCopyOf(c, n) => Parting(c)
           PROVE  Parting(c)'
    PROVE  UnheardOK(n)'
<1> SUFFICES ASSUME OnlyUnheard(n)'
             PROVE  /\ sent'[n] = 0
                    /\ told'[n] = {"failed"}
                    /\ \A c \in Copies : IsCopyOf(c, n)' => Parting(c)'
  BY DEF UnheardOK
<1>1. OnlyUnheard(n)
  BY DEF OnlyUnheard, Undisturbed
<1> QED
  BY <1>1 DEF UnheardOK

\* What a replica does between two deliveries, and what the broker and the producers do.
LEMMA IdleUnheard ==
    ASSUME IInv, DInv, UInv,
           \/ \E c \in Copies : BrokerStep(c)
           \/ \E m \in Messages : Publish(m)
           \/ \E r \in Replicas : \/ Start(r) \/ Connect(r) \/ Reconnect(r)
                                  \/ \E c \in Copies : Receive(r, c)
    PROVE  UInv'
<1> SUFFICES ASSUME NEW n \in Messages PROVE UnheardOK(n)'
  BY DEF UInv
<1>1. UnheardOK(n)
  BY DEF UInv
<1>2. CASE \E c \in Copies : BrokerStep(c)
  <2>1. PICK k \in Copies : Expire(k) \/ Requeue(k)
    BY <1>2 DEF BrokerStep
  <2>2. UNCHANGED << replicaVars, worldVars, upset >>
    BY <2>1 DEF Expire, Requeue
  <2>3. /\ \A c \in Copies \ {k} : copy'[c] = copy[c]
        /\ copy[k].at \in {"retry", "orphan"}
        /\ copy[k].at = "orphan" => "redelivered" \in upset[copy[k].msg]
        /\ copy'[k].msg = copy[k].msg
    BY <2>1 DEF Expire, Requeue, IInv, TypeOK, CopyRecords, DInv, TroubleOK
  <2>4. \A r \in Replicas : held[r] # k
    BY <2>3 DEF IInv, HoldingOK
  <2>5. ~Parting(k)
    BY <2>3, <2>4 DEF Parting, Superseded
  <2>6. ASSUME NEW c \in Copies, c # k, Parting(c) PROVE Parting(c)'
    BY <2>2, <2>3, <2>6 DEF Parting, Superseded, Burying
  <2>7. ASSUME OnlyUnheard(n)' PROVE ~IsCopyOf(k, n)
    BY <1>1, <2>2, <2>5, <2>7 DEF OnlyUnheard, Undisturbed, UnheardOK
  <2>8. ASSUME NEW c \in Copies, OnlyUnheard(n)', IsCopyOf(c, n)',
               IsCopyOf(c, n) => Parting(c)
        PROVE  Parting(c)'
    BY <2>3, <2>6, <2>7, <2>8 DEF IsCopyOf
  <2> QED
    BY <1>1, <2>2, <2>8, UnheardKept DEF OnlyUnheard
<1>3. CASE \E m \in Messages : Publish(m)
  <2>1. PICK m \in Messages, k \in Copies, attempt \in ProducerAttempts :
          /\ m \notin published
          /\ copy[k] = Absent
          /\ copy' = [copy EXCEPT ![k] = [at |-> "main", msg |-> m, header |-> attempt]]
          /\ UNCHANGED << request, replicaVars, worldVars, upset, upsets >>
    BY <1>3 DEF Publish, Enqueue
  <2>2. ~Told(m)
    BY <2>1 DEF DInv, UnpublishedOK
  <2>3. ASSUME OnlyUnheard(n)' PROVE n # m
    BY <1>1, <2>1, <2>2, <2>3 DEF OnlyUnheard, Undisturbed, UnheardOK, Told
  <2>4. ASSUME NEW c \in Copies, OnlyUnheard(n)', IsCopyOf(c, n)',
               IsCopyOf(c, n) => Parting(c)
        PROVE  Parting(c)'
    <3>1. c # k
      BY <2>1, <2>3, <2>4 DEF IsCopyOf, IInv, TypeOK
    <3> QED
      BY <2>1, <2>4, <3>1 DEF IsCopyOf, IInv, TypeOK, Parting, Superseded, Burying
  <2> QED
    BY <1>1, <2>1, <2>4, UnheardKept DEF OnlyUnheard
<1>4. CASE \E r \in Replicas : Start(r) \/ Connect(r) \/ Reconnect(r)
  <2>1. PICK r \in Replicas : Start(r) \/ Connect(r) \/ Reconnect(r)
    BY <1>4
  <2>2. /\ pc[r] \notin Working
        /\ \A s \in Replicas \ {r} : pc'[s] = pc[s]
        /\ UNCHANGED << held, job, jobMsg, producerVars, copy, worldVars, upset, upsets >>
    BY <2>1 DEF Start, Connect, Reconnect, IInv, TypeOK, Working
  <2>3. ASSUME NEW c \in Copies, Parting(c) PROVE Parting(c)'
    BY <2>2, <2>3 DEF Parting, Superseded, Burying, Working
  <2> QED
    BY <1>1, <2>2, <2>3, UnheardKept DEF OnlyUnheard, IsCopyOf
<1>5. CASE \E r \in Replicas, c \in Copies : Receive(r, c)
  <2>1. PICK r \in Replicas, k \in Copies : Receive(r, k)
    BY <1>5
  <2>2. /\ pc[r] \notin Working
        /\ copy[k].at = "main"
        /\ \A c \in Copies \ {k} : copy'[c] = copy[c]
        /\ copy'[k].msg = copy[k].msg
        /\ \A s \in Replicas \ {r} : pc'[s] = pc[s] /\ held'[s] = held[s] /\ job'[s] = job[s]
        /\ UNCHANGED << worldVars, upset >>
    BY <2>1 DEF Receive, IInv, TypeOK, Working, CopyRecords
  <2>3. \A s \in Replicas : held[s] # k
    BY <2>2 DEF IInv, HoldingOK
  <2>4. ~Parting(k)
    BY <2>2, <2>3 DEF Parting, Superseded
  <2>5. held[r] = NoCopy
    BY <2>2 DEF IInv, HoldingOK
  <2>6. ASSUME NEW c \in Copies, c # k, Parting(c) PROVE Parting(c)'
    BY <2>2, <2>5, <2>6, RabbitMQAssumption DEF Parting, Superseded, Burying
  <2>7. ASSUME OnlyUnheard(n)' PROVE ~IsCopyOf(k, n)
    BY <1>1, <2>2, <2>4, <2>7 DEF OnlyUnheard, Undisturbed, UnheardOK
  <2>8. ASSUME NEW c \in Copies, OnlyUnheard(n)', IsCopyOf(c, n)',
               IsCopyOf(c, n) => Parting(c)
        PROVE  Parting(c)'
    BY <2>2, <2>6, <2>7, <2>8 DEF IsCopyOf
  <2> QED
    BY <1>1, <2>2, <2>8, UnheardKept DEF OnlyUnheard
<1> QED
  BY <1>2, <1>3, <1>4, <1>5

\* A replica that still handles a message for which only an answer was lost is burying it.
LEMMA HandlerOfUnheard ==
    ASSUME IInv, DInv, NEW m \in Messages, UnheardOK(m), OnlyUnheard(m),
           NEW r \in Replicas, m = jobMsg[r], pc[r] \in {"handling", "publishing"}
    PROVE  Burying(r) /\ held[r] \in Copies
<1>1. Undisturbed(m, {"redelivered", "forked"})
  BY DEF OnlyUnheard, Undisturbed
<1>2. held[r] \in Copies /\ Live(held[r], m)
  BY <1>1, HolderFacts
<1>3. Parting(held[r]) /\ copy[held[r]].at = "unacked"
  BY <1>2 DEF UnheardOK, Live, IInv, HoldingOK
<1>4. PICK s \in Replicas : held[s] = held[r] /\ Burying(s)
  BY <1>2, <1>3 DEF Parting, Live
<1> QED
  BY <1>2, <1>4 DEF IInv, HoldingOK

\* The failure callback takes its event and its answer is lost: the held copy is the only one.
LEMMA NotifyFailureUnheard ==
    ASSUME IInv, DInv, UInv, NEW r \in Replicas, NotifyFailure(r)
    PROVE  UInv'
<1>1. PICK m \in Messages : m = jobMsg[r]
  BY DEF NotifyFailure, IInv, HoldingOK, TypeOK, Working
<1>2. PICK res \in NotifyResults :
        /\ told' = [told EXCEPT ![m] = @ \cup (IF res.taken THEN {"failed"} ELSE {})]
        /\ job' = [job EXCEPT ![r] = AfterNotifyFailure(job[r], res.ok)]
        /\ upset' = [upset EXCEPT ![m] =
                       @ \cup (IF res.taken /\ ~res.ok THEN {"unheard"} ELSE {})]
  BY <1>1 DEF NotifyFailure
<1>3. /\ pc[r] = "handling" /\ job[r].stage = "notify_failure" /\ job[r].action = "none"
      /\ UNCHANGED << pc, link, held, jobMsg, producerVars, copy, sent, tries, upsets >>
      /\ \A s \in Replicas \ {r} : job'[s] = job[s]
  BY DEF NotifyFailure, IInv, TypeOK, JobOK
<1>4. ASSUME NEW c \in Copies, Parting(c) PROVE Parting(c)'
  <2>1. \A s \in Replicas : Burying(s) \/ pc[s] \in {"confirming", "acking"} => job'[s] = job[s]
    BY <1>3 DEF Burying
  <2> QED
    BY <1>3, <1>4, <2>1 DEF Parting, Superseded, Burying
<1>5. ASSUME NEW n \in Messages, n # m PROVE UnheardOK(n)'
  <2>1. upset'[n] = upset[n] /\ told'[n] = told[n]
    BY <1>2, <1>5 DEF IInv, TypeOK
  <2> QED
    BY <1>3, <1>4, <2>1, UnheardKept DEF UInv, OnlyUnheard, IsCopyOf
<1>6. UnheardOK(m)'
  <2> SUFFICES ASSUME OnlyUnheard(m)' PROVE UnheardOK(m)'
    BY DEF UnheardOK
  <2>1. /\ upset[m] \subseteq upset'[m]
        /\ Undisturbed(m, {"redelivered", "forked", "refused", "ambiguous"})
        /\ "unheard" \in upset[m] \/ (res.taken /\ ~res.ok)
    BY <1>2 DEF IInv, TypeOK, OnlyUnheard, Undisturbed
  <2>2. ~OnlyUnheard(m)
    BY <1>1, <1>3, HandlerOfUnheard DEF UInv, Burying
  <2>3. "unheard" \notin upset[m] /\ res.taken /\ ~res.ok
    BY <2>1, <2>2 DEF OnlyUnheard
  <2>4. sent[m] = 0 /\ told[m] = {}
    BY <1>1, <1>3, <2>1, <2>3, OpenFacts DEF Undisturbed, Finishing
  <2>5. told'[m] = {"failed"}
    BY <1>2, <2>3, <2>4 DEF IInv, TypeOK
  <2>6. /\ held[r] \in Copies
        /\ \A c \in Copies : Live(c, m) => c = held[r]
    BY <1>1, <1>3, <2>1, HolderFacts DEF Undisturbed
  <2>7. Burying(r)'
    BY <1>2, <1>3, <2>3 DEF IInv, TypeOK, Burying, AfterNotifyFailure, Outcome, Jobs
  <2>8. ASSUME NEW c \in Copies, IsCopyOf(c, m)' PROVE Parting(c)'
    <3>1. CASE Superseded(c)
      BY <1>4, <3>1 DEF Parting
    <3>2. CASE ~Superseded(c)
      <4>1. c = held[r]
        BY <1>3, <2>6, <2>8, <3>2 DEF Live, IsCopyOf
      <4> QED
        BY <1>3, <2>7, <4>1 DEF Parting
    <3> QED
      BY <3>1, <3>2
  <2> QED
    BY <1>3, <2>4, <2>5, <2>8 DEF UnheardOK
<1> QED
  BY <1>5, <1>6 DEF UInv
\* A send and a success callback are for another message.
LEMMA SendUnheard ==
    ASSUME IInv, DInv, UInv, NEW r \in Replicas, Send(r) \/ NotifySuccess(r)
    PROVE  UInv'
<1>1. PICK m \in Messages : m = jobMsg[r]
  BY DEF Send, NotifySuccess, IInv, HoldingOK, TypeOK, Working
<1>2. /\ pc[r] = "handling" /\ job[r].stage # "outcome" /\ job[r].action = "none"
      /\ UNCHANGED << pc, link, held, jobMsg, producerVars, copy >>
      /\ \A s \in Replicas \ {r} : job'[s] = job[s]
      /\ \A n \in Messages \ {m} : sent'[n] = sent[n] /\ told'[n] = told[n] /\ upset'[n] = upset[n]
      /\ upset[m] \subseteq upset'[m]
      /\ "unheard" \in upset'[m] => "unheard" \in upset[m]
  BY <1>1 DEF Send, NotifySuccess, IInv, TypeOK, JobOK
<1>3. ASSUME NEW c \in Copies, Parting(c) PROVE Parting(c)'
  <2>1. \A s \in Replicas : Burying(s) \/ pc[s] \in {"confirming", "acking"} => job'[s] = job[s]
    BY <1>2 DEF Burying
  <2> QED
    BY <1>2, <1>3, <2>1 DEF Parting, Superseded, Burying
<1>4. ASSUME NEW n \in Messages, n # m PROVE UnheardOK(n)'
  BY <1>2, <1>3, <1>4, UnheardKept DEF UInv, OnlyUnheard, IsCopyOf
<1>5. ~OnlyUnheard(m)
  BY <1>1, <1>2, HandlerOfUnheard DEF UInv, Burying
<1>6. ~OnlyUnheard(m)'
  BY <1>2, <1>5 DEF OnlyUnheard, Undisturbed
<1> QED
  BY <1>4, <1>6 DEF UInv, UnheardOK

\* A job is applied: what buries its message goes on to bury it.
LEMMA ApplyUnheard ==
    ASSUME IInv, DInv, UInv, NEW r \in Replicas, Apply(r)
    PROVE  UInv'
<1>1. /\ pc[r] = "handling" /\ job[r].stage = "outcome"
      /\ pc' = [pc EXCEPT ![r] = IF job[r].action = "done" THEN "acking" ELSE "publishing"]
      /\ UNCHANGED << link, held, job, jobMsg, producerVars, copy, worldVars, upset, upsets >>
  BY DEF Apply
<1>2. ASSUME NEW c \in Copies, Parting(c) PROVE Parting(c)'
  <2>1. \A s \in Replicas : Burying(s) => Burying(s)'
    BY <1>1 DEF Burying, IInv, TypeOK
  <2>2. Superseded(c) => Superseded(c)'
    BY <1>1 DEF Superseded, IInv, TypeOK
  <2> QED
    BY <1>1, <1>2, <2>1, <2>2 DEF Parting
<1> QED
  BY <1>1, <1>2, UnheardKept DEF UInv, OnlyUnheard, IsCopyOf

\* The broker takes the republished copy: it is a dead letter, and the held one is replaced by it.
LEMMA PublishAcceptedUnheard ==
    ASSUME IInv, DInv, UInv, NEW r \in Replicas, PublishAccepted(r)
    PROVE  UInv'
<1>1. PICK m \in Messages : m = jobMsg[r]
  BY DEF PublishAccepted, IInv, HoldingOK, TypeOK, Working
<1>2. PICK c \in Copies, place \in {"retry", "dlq"}, attempt \in Int :
        /\ copy[c] = Absent
        /\ copy' = [copy EXCEPT ![c] = [at |-> place, msg |-> m, header |-> attempt]]
        /\ place = "retry" => job[r].action = "retry"
  <2>1. job[r].attempt \in Int /\ job[r].attempt + 1 \in Int
    BY DEF IInv, TypeOK, Jobs
  <2>2. CASE job[r].action = "retry"
    BY <1>1, <2>1, <2>2 DEF PublishAccepted, Enqueue
  <2>3. CASE job[r].action # "retry"
    BY <1>1, <2>1, <2>3 DEF PublishAccepted, Enqueue
  <2> QED
    BY <2>2, <2>3
<1>3. /\ pc[r] = "publishing" /\ job[r].action \in {"retry", "dead_letter"}
      /\ pc' = [pc EXCEPT ![r] = "confirming"]
      /\ UNCHANGED << link, held, job, jobMsg, producerVars, worldVars, upset, upsets >>
  BY DEF PublishAccepted, IInv, JobOK
<1>4. ASSUME NEW k \in Copies, k # c, Parting(k) PROVE Parting(k)'
  <2>1. Superseded(k) => Superseded(k)'
    BY <1>3 DEF Superseded, IInv, TypeOK
  <2>2. ASSUME NEW s \in Replicas, held[s] = k, Burying(s) PROVE Parting(k)'
    <3>1. CASE s = r
      BY <1>3, <2>2, <3>1 DEF IInv, TypeOK, Burying, Parting, Superseded
    <3>2. CASE s # r
      BY <1>3, <2>2, <3>2 DEF IInv, TypeOK, Burying, Parting
    <3> QED
      BY <3>1, <3>2
  <2>3. copy'[k] = copy[k]
    BY <1>2, <1>4
  <2> QED
    BY <1>4, <2>1, <2>2, <2>3 DEF Parting
<1>5. ASSUME NEW n \in Messages PROVE UnheardOK(n)'
  <2>1. OnlyUnheard(n)' = OnlyUnheard(n)
    BY <1>3 DEF OnlyUnheard, Undisturbed
  <2>2. ASSUME OnlyUnheard(n), n = m PROVE place = "dlq"
    BY <1>1, <1>2, <1>3, <2>2, HandlerOfUnheard DEF UInv, Burying
  <2>3. ASSUME NEW k \in Copies, OnlyUnheard(n)', IsCopyOf(k, n)', IsCopyOf(k, n) => Parting(k)
        PROVE  Parting(k)'
    <3>1. CASE k = c
      BY <1>2, <2>1, <2>2, <2>3, <3>1 DEF IsCopyOf, Parting, IInv, TypeOK
    <3>2. CASE k # c
      BY <1>2, <1>4, <2>3, <3>2 DEF IsCopyOf
    <3> QED
      BY <3>1, <3>2
  <2> QED
    BY <1>3, <2>3, UnheardKept DEF UInv, OnlyUnheard
<1> QED
  BY <1>5 DEF UInv

\* The rest of a republish: either it is confirmed, or the message is disturbed.
LEMMA PublishEndsUnheard ==
    ASSUME IInv, DInv, UInv, NEW r \in Replicas,
           \/ PublishConfirmed(r) \/ PublishBroken(r) \/ PublishRefused(r) \/ PublishTimeout(r)
    PROVE  UInv'
<1>1. PICK m \in Messages : m = jobMsg[r]
  BY DEF PublishConfirmed, PublishBroken, PublishRefused, PublishTimeout, IInv, HoldingOK, TypeOK,
         Working
<1>2. /\ UNCHANGED << link, held, job, jobMsg, producerVars, copy, worldVars >>
      /\ \A s \in Replicas \ {r} : pc'[s] = pc[s]
      /\ \A n \in Messages \ {m} : upset'[n] = upset[n]
      /\ upset[m] \subseteq upset'[m]
      /\ "unheard" \in upset'[m] => "unheard" \in upset[m]
  BY <1>1 DEF PublishConfirmed, PublishBroken, PublishRefused, PublishTimeout, IInv, TypeOK
<1>3. \/ OnlyUnheard(m)' => pc[r] = "confirming" /\ pc'[r] = "acking"
      \/ held[r] = NoCopy
  <2>1. CASE PublishConfirmed(r)
    BY <2>1 DEF PublishConfirmed, IInv, TypeOK
  <2>2. CASE PublishBroken(r)
    BY <2>2 DEF PublishBroken, IInv, TypeOK, DInv, LinkOK
  <2>3. CASE PublishRefused(r)
    BY <1>1, <2>3 DEF PublishRefused, IInv, TypeOK, OnlyUnheard, Undisturbed
  <2>4. CASE PublishTimeout(r)
    BY <1>1, <2>4 DEF PublishTimeout, IInv, TypeOK, OnlyUnheard, Undisturbed
  <2> QED
    BY <2>1, <2>2, <2>3, <2>4
<1>4. ASSUME NEW n \in Messages, NEW c \in Copies, OnlyUnheard(n)', IsCopyOf(c, n), Parting(c)
      PROVE  Parting(c)'
  <2>1. CASE copy[c].at = "dlq"
    BY <1>2, <2>1 DEF Parting
  <2>2. CASE copy[c].at # "dlq"
    <3>1. PICK s \in Replicas :
            /\ held[s] = c
            /\ \/ pc[s] \in {"confirming", "acking"} /\ job[s].action # "done"
               \/ Burying(s)
      BY <1>4, <2>2 DEF Parting, Superseded
    <3>2. CASE s # r
      BY <1>2, <3>1, <3>2 DEF Parting, Superseded, Burying
    <3>3. CASE s = r
      <4>1. n = m /\ held[r] # NoCopy
        BY <1>1, <1>4, <3>1, <3>3 DEF IInv, HoldingOK, IsCopyOf
      <4>2. pc[r] = "confirming" /\ pc'[r] = "acking"
        BY <1>3, <1>4, <4>1
      <4> QED
        BY <1>2, <3>1, <3>3, <4>2 DEF Parting, Superseded, Burying
    <3> QED
      BY <3>2, <3>3
  <2> QED
    BY <2>1, <2>2
<1>5. ASSUME NEW n \in Messages PROVE UnheardOK(n)'
  <2>1. upset[n] \subseteq upset'[n] /\ ("unheard" \in upset'[n] => "unheard" \in upset[n])
    BY <1>2
  <2> QED
    BY <1>2, <1>4, <2>1, UnheardKept DEF UInv, OnlyUnheard, IsCopyOf
<1> QED
  BY <1>5 DEF UInv

\* An ack takes a copy away; a nack is of a disturbed message.
LEMMA SettleUnheard ==
    ASSUME IInv, DInv, UInv, NEW r \in Replicas, Ack(r) \/ Nack(r)
    PROVE  UInv'
<1>1. /\ \A c \in Copies : c # held[r] => copy'[c] = copy[c]
      /\ held' = [held EXCEPT ![r] = NoCopy]
      /\ \A s \in Replicas \ {r} : pc'[s] = pc[s] /\ job'[s] = job[s]
      /\ UNCHANGED << worldVars, upset >>
  BY DEF Ack, Nack, Settle, ForgetJob, IInv, TypeOK
<1>2. ASSUME NEW n \in Messages, OnlyUnheard(n)', held[r] # NoCopy PROVE copy'[held[r]].msg # n
  <2>1. held[r] \in Copies /\ NoMessage \notin Messages
    BY <1>2, RabbitMQAssumption DEF IInv, TypeOK
  <2>2. CASE Ack(r)
    BY <2>1, <2>2 DEF Ack, Settle, Absent
  <2>3. CASE Nack(r)
    <3>1. copy'[held[r]].msg = jobMsg[r]
      BY <1>2, <2>1, <2>3 DEF Nack, Settle, IInv, TypeOK, CopyRecords, HoldingOK
    <3>2. jobMsg[r] # n
      BY <1>1, <1>2, <2>3 DEF Nack, DInv, TroubleOK, OnlyUnheard, Undisturbed
    <3> QED
      BY <3>1, <3>2
  <2> QED
    BY <2>2, <2>3
<1>3. ASSUME NEW c \in Copies, c # held[r], Parting(c) PROVE Parting(c)'
  BY <1>1, <1>3 DEF Parting, Superseded, Burying, IInv, TypeOK
<1>4. ASSUME NEW n \in Messages PROVE UnheardOK(n)'
  <2>1. ASSUME NEW c \in Copies, OnlyUnheard(n)', IsCopyOf(c, n)', IsCopyOf(c, n) => Parting(c)
        PROVE  Parting(c)'
    <3>1. c # held[r]
      BY <1>2, <2>1, RabbitMQAssumption DEF IsCopyOf
    <3> QED
      BY <1>1, <1>3, <2>1, <3>1 DEF IsCopyOf
  <2> QED
    BY <1>1, <2>1, UnheardKept DEF UInv, OnlyUnheard
<1> QED
  BY <1>4 DEF UInv

\* A connection that goes away, with its process or without it, disturbs the message it carried.
LEMMA LoseLinkUnheard ==
    ASSUME IInv, DInv, UInv, NEW r \in Replicas, Disconnect(r) \/ Shutdown(r) \/ Crash(r)
    PROVE  UInv'
<1>1. /\ LoseLink(r)
      /\ \A s \in Replicas \ {r} : pc'[s] = pc[s] /\ job'[s] = job[s]
      /\ UNCHANGED worldVars
  BY DEF Disconnect, Shutdown, Crash, ForgetJob, IInv, TypeOK
<1>2. /\ held' = [held EXCEPT ![r] = NoCopy]
      /\ \A c \in Copies : c # held[r] => copy'[c] = copy[c]
      /\ \A c \in Copies : c = held[r] => copy'[c].msg = jobMsg[r] /\ copy[c].msg = jobMsg[r]
      /\ held[r] # NoCopy => "redelivered" \in upset'[jobMsg[r]]
      /\ \A n \in Messages : upset[n] \subseteq upset'[n]
      /\ \A n \in Messages : "unheard" \in upset'[n] => "unheard" \in upset[n]
  BY <1>1, LoseLinkFacts DEF LoseLink
<1>3. ASSUME NEW c \in Copies, c # held[r], Parting(c) PROVE Parting(c)'
  BY <1>1, <1>2, <1>3 DEF Parting, Superseded, Burying, IInv, TypeOK
<1>4. ASSUME NEW n \in Messages PROVE UnheardOK(n)'
  <2>1. ASSUME NEW c \in Copies, OnlyUnheard(n)', IsCopyOf(c, n)', IsCopyOf(c, n) => Parting(c)
        PROVE  Parting(c)'
    <3>1. c # held[r]
      BY <1>2, <2>1, RabbitMQAssumption DEF OnlyUnheard, Undisturbed, IsCopyOf, IInv, TypeOK
    <3> QED
      BY <1>2, <1>3, <2>1, <3>1 DEF IsCopyOf
  <2> QED
    BY <1>1, <1>2, <2>1, UnheardKept DEF UInv, OnlyUnheard
<1> QED
  BY <1>4 DEF UInv

\* The invariant holds in every reachable state.
LEMMA UnheardInvariance == Spec => [](IInv /\ DInv /\ UInv)
<1>1. Init => UInv
  BY DEF Init, UInv, UnheardOK, OnlyUnheard
<1>2. IInv /\ DInv /\ UInv /\ [Next]_vars => UInv'
  <2> SUFFICES ASSUME IInv, DInv, UInv, [Next]_vars PROVE UInv'
    OBVIOUS
  <2>1. CASE \E m \in Messages : Publish(m)
    BY <2>1, IdleUnheard
  <2>2. CASE \E c \in Copies : BrokerStep(c)
    BY <2>2, IdleUnheard
  <2>3. ASSUME NEW r \in Replicas, Step(r) PROVE UInv'
    <3>1. CASE Start(r) \/ Connect(r) \/ Reconnect(r) \/ \E c \in Copies : Receive(r, c)
      BY <3>1, IdleUnheard
    <3> QED
      BY <2>3, <3>1, SendUnheard, NotifyFailureUnheard, ApplyUnheard, PublishAcceptedUnheard,
         PublishEndsUnheard, SettleUnheard
         DEF Step
  <2>4. ASSUME NEW r \in Replicas, Disturbance(r) PROVE UInv'
    BY <2>4, LoseLinkUnheard, PublishEndsUnheard DEF Disturbance
  <2>5. CASE UNCHANGED vars
    BY <2>5 DEF vars, UInv, UnheardOK, OnlyUnheard, Undisturbed, IsCopyOf, Parting, Superseded,
                Burying
  <2> QED
    BY <2>1, <2>2, <2>3, <2>4, <2>5 DEF Next
<1> QED
  BY <1>1, <1>2, DeliveryInvariance, PTL DEF Spec

\* An outcome that a callback took is final (deliver and handleFailure, service.go): the only
\* copies left of the message are the ones about to be acked, and the callback was told the truth.
\* Where the answer of the failure callback was lost (Notify, http_notifier.go:42-52), the copies
\* are on their way to the dead letters, and none of them is tried again.
THEOREM CallbacksAreFinal == Spec => []CallbackIsFinal
<1>1. IInv /\ DInv /\ UInv => CallbackIsFinal
  <2> SUFFICES ASSUME IInv, DInv, UInv, NEW m \in Messages, told[m] # {},
                      Undisturbed(m, Restarts(m))
               PROVE  /\ told[m] = IF sent[m] = 0 THEN {"failed"} ELSE {"sent"}
                      /\ \A c \in Copies : IsCopyOf(c, m) =>
                            \/ copy[c].at = "unacked"
                            \/ copy[c].at = "dlq" /\ "unheard" \in upset[m]
    BY DEF CallbackIsFinal
  <2>1. Told(m)
    BY DEF IInv, TypeOK, Told
  <2>2. CASE "unheard" \in upset[m]
    <3>1. OnlyUnheard(m)
      BY <2>2 DEF OnlyUnheard, Undisturbed, Restarts
    <3>2. /\ sent[m] = 0 /\ told[m] = {"failed"}
          /\ \A c \in Copies : IsCopyOf(c, m) => Parting(c)
      BY <3>1 DEF UInv, UnheardOK
    <3>3. ASSUME NEW c \in Copies, Parting(c) PROVE copy[c].at \in {"unacked", "dlq"}
      BY <3>3, RabbitMQAssumption DEF Parting, Superseded, IInv, HoldingOK
    <3> QED
      BY <2>2, <3>2, <3>3
  <2>3. CASE "unheard" \notin upset[m]
    <3>1. Undisturbed(m, {"redelivered", "forked", "ambiguous", "unheard"})
      BY <2>3 DEF Undisturbed, Restarts
    <3>2. ASSUME NEW c \in Copies, IsCopyOf(c, m) PROVE copy[c].at = "unacked"
      <4>1. CASE Superseded(c)
        BY <4>1 DEF Superseded, IInv, HoldingOK
      <4>2. CASE ~Superseded(c)
        BY <2>1, <3>1, <3>2, <4>2 DEF DInv, DeliveryOK, ToldOK, Live, IInv, HoldingOK
      <4> QED
        BY <4>1, <4>2
    <3> QED
      BY <2>1, <3>1, <3>2 DEF DInv, DeliveryOK, ToldOK
  <2> QED
    BY <2>2, <2>3
<1> QED
  BY <1>1, UnheardInvariance, PTL

-----------------------------------------------------------------------------
(***************************************************************************)
(* The source keeps the at-least-once contract: every step is a step of    *)
(* the contract or changes nothing in it.                                  *)
(***************************************************************************)

\* A copy of m is among the dead letters.
Dead(m) == \E c \in Copies : IsCopyOf(c, m) /\ copy[c].at = "dlq"

\* What the contract sees of a step that reaches no outcome.
LEMMA SameOutcomes ==
    ASSUME \A m \in Messages : /\ (sent'[m] > 0) = (sent[m] > 0)
                               /\ ("failed" \in told'[m]) = ("failed" \in told[m])
                               /\ Dead(m)' = Dead(m)
    PROVE  OutcomesReached' = OutcomesReached
BY DEF OutcomesReached, Dead

\* A step that moves copies, but none into or out of the dead-letter queue, changes nothing that
\* the contract sees.
LEMMA MovesStutter ==
    ASSUME published' = published, sent' = sent,
           \A m \in Messages : ("failed" \in told'[m]) = ("failed" \in told[m]),
           \A c \in Copies : /\ copy'[c].msg = copy[c].msg
                             /\ copy'[c].at = "dlq" <=> copy[c].at = "dlq"
    PROVE  UNCHANGED Contract!contractVars
<1>1. \A m \in Messages : Dead(m)' = Dead(m)
  BY DEF Dead, IsCopyOf
<1>2. OutcomesReached' = OutcomesReached
  BY <1>1, SameOutcomes
<1>3. Owed' = Owed
  BY DEF Owed, IsCopyOf
<1> QED
  BY <1>2, <1>3 DEF Contract!contractVars

\* The initial states owe nothing.
LEMMA ContractInitially == Init => Contract!ContractInit
<1> SUFFICES ASSUME Init PROVE Contract!ContractInit
  OBVIOUS
<1>1. \A m \in Messages, c \in Copies : ~IsCopyOf(c, m)
  BY DEF Init, IsCopyOf, Absent
<1>2. published = {} /\ Owed = {}
  BY <1>1 DEF Init, Owed
<1>3. OutcomesReached = [m \in Messages |-> {}]
  BY <1>1 DEF Init, OutcomesReached
<1> QED
  BY <1>2, <1>3 DEF Contract!ContractInit

\* A publish by a producer is an acceptance: the message is owed from now on.
LEMMA PublishContract ==
    ASSUME IInv, NEW m \in Messages, Publish(m)
    PROVE  Contract!Accept(m)
<1>1. PICK c \in Copies, attempt \in ProducerAttempts :
        /\ copy[c] = Absent
        /\ copy' = [copy EXCEPT ![c] = [at |-> "main", msg |-> m, header |-> attempt]]
  BY DEF Publish, Enqueue
<1>2. /\ m \notin published
      /\ published' = published \cup {m}
      /\ sent' = sent /\ told' = told
  BY DEF Publish
<1>3. \A n \in Messages : Dead(n)' = Dead(n)
  BY <1>1 DEF IInv, TypeOK, Absent, Dead, IsCopyOf
<1>4. OutcomesReached' = OutcomesReached
  BY <1>2, <1>3, SameOutcomes
<1>5. Owed' = Owed \cup {m}
  BY <1>1 DEF IInv, TypeOK, Absent, Owed, IsCopyOf
<1> QED
  BY <1>2, <1>4, <1>5 DEF Contract!Accept

\* A republish to the retry queue changes nothing that the contract sees: the message is owed as
\* long as its copy is held.  A republish to the dead-letter queue is an outcome.
LEMMA PublishAcceptedContract ==
    ASSUME IInv, LinkOK, NEW r \in Replicas, PublishAccepted(r)
    PROVE  [Contract!ContractNext]_(Contract!contractVars)
<1>1. PICK m \in Messages : m = jobMsg[r]
  BY DEF PublishAccepted, IInv, HoldingOK, TypeOK, Working
<1>2. PICK c \in Copies, place \in {"retry", "dlq"}, attempt \in Int :
        /\ copy[c] = Absent
        /\ copy' = [copy EXCEPT ![c] = [at |-> place, msg |-> m, header |-> attempt]]
  <2>1. job[r].attempt \in Int /\ job[r].attempt + 1 \in Int
    BY DEF IInv, TypeOK, Jobs
  <2>2. CASE job[r].action = "retry"
    BY <1>1, <2>1, <2>2 DEF PublishAccepted, Enqueue
  <2>3. CASE job[r].action # "retry"
    BY <1>1, <2>1, <2>3 DEF PublishAccepted, Enqueue
  <2> QED
    BY <2>2, <2>3
<1>3. pc[r] = "publishing" /\ link[r] /\ UNCHANGED << published, sent, told >>
  BY DEF PublishAccepted
<1>4. /\ held[r] \in Copies /\ held[r] # c
      /\ copy[held[r]].msg = m /\ copy[held[r]].at = "unacked"
      /\ m \in published
  BY <1>1, <1>2, <1>3 DEF IInv, TypeOK, HoldingOK, LinkOK, Working, Absent
<1>5. Owed' = Owed
  BY <1>2, <1>4 DEF IInv, TypeOK, Owed, IsCopyOf, Absent
<1>6. CASE place = "retry"
  <2>1. \A n \in Messages : Dead(n)' = Dead(n)
    BY <1>2, <1>6 DEF IInv, TypeOK, Absent, Dead, IsCopyOf
  <2>2. OutcomesReached' = OutcomesReached
    BY <1>3, <2>1, SameOutcomes
  <2> QED
    BY <1>3, <1>5, <2>2 DEF Contract!contractVars
<1>7. CASE place = "dlq"
  <2>1. Dead(m)' /\ \A n \in Messages : n # m => Dead(n)' = Dead(n)
    BY <1>2, <1>7 DEF IInv, TypeOK, Absent, Dead, IsCopyOf
  <2>2. OutcomesReached' = [OutcomesReached EXCEPT ![m] = @ \cup {"dead_lettered"}]
    BY <1>3, <2>1 DEF OutcomesReached, Dead
  <2>3. Contract!Reach(m, {"dead_lettered"})
    BY <1>3, <1>4, <1>5, <2>2 DEF Contract!Reach
  <2> QED
    BY <2>3 DEF Contract!ContractNext, Contract!Outcomes
<1> QED
  BY <1>6, <1>7

\* A message that the provider takes has reached an outcome.
LEMMA SendContract ==
    ASSUME IInv, NEW r \in Replicas, Send(r)
    PROVE  [Contract!ContractNext]_(Contract!contractVars)
<1>1. PICK m \in Messages : m = jobMsg[r] /\ m \in published /\ request[m] \in Requests
  BY DEF Send, IInv, HoldingOK, TypeOK, Working
<1>2. PICK res \in SendResults(request[m], SenderCodes) :
        sent' = [sent EXCEPT ![m] = @ + (IF res.accepted THEN 1 ELSE 0)]
  BY <1>1 DEF Send
<1>3. UNCHANGED << published, copy, told >>
  BY DEF Send
<1>4. Owed' = Owed /\ \A n \in Messages : Dead(n)' = Dead(n)
  BY <1>3 DEF Owed, Dead, IsCopyOf
<1>5. CASE res.accepted
  <2>1. sent'[m] > 0 /\ \A n \in Messages : n # m => sent'[n] = sent[n]
    BY <1>2, <1>5 DEF IInv, TypeOK
  <2>2. OutcomesReached' = [OutcomesReached EXCEPT ![m] = @ \cup {"sent"}]
    BY <1>3, <2>1 DEF OutcomesReached, IsCopyOf
  <2>3. Contract!Reach(m, {"sent"})
    BY <1>1, <1>3, <1>4, <2>2 DEF Contract!Reach
  <2> QED
    BY <2>3 DEF Contract!ContractNext, Contract!Outcomes
<1>6. CASE ~res.accepted
  <2>1. sent' = sent
    BY <1>2, <1>6 DEF IInv, TypeOK
  <2> QED
    BY <1>3, <2>1, MovesStutter
<1> QED
  BY <1>1, <1>5, <1>6

\* A failure that its callback takes has reached an outcome.
LEMMA NotifyFailureContract ==
    ASSUME IInv, NEW r \in Replicas, NotifyFailure(r)
    PROVE  [Contract!ContractNext]_(Contract!contractVars)
<1>1. PICK m \in Messages : m = jobMsg[r] /\ m \in published
  BY DEF NotifyFailure, IInv, HoldingOK, TypeOK, Working
<1>2. PICK res \in NotifyResults :
        told' = [told EXCEPT ![m] = @ \cup (IF res.taken THEN {"failed"} ELSE {})]
  BY <1>1 DEF NotifyFailure
<1>3. UNCHANGED << published, copy, sent >>
  BY DEF NotifyFailure
<1>4. Owed' = Owed
  BY <1>3 DEF Owed, IsCopyOf
<1>5. CASE res.taken
  <2>1. "failed" \in told'[m] /\ \A n \in Messages : n # m => told'[n] = told[n]
    BY <1>2, <1>5 DEF IInv, TypeOK
  <2>2. OutcomesReached' = [OutcomesReached EXCEPT ![m] = @ \cup {"reported"}]
    BY <1>3, <2>1 DEF OutcomesReached, IsCopyOf
  <2>3. Contract!Reach(m, {"reported"})
    BY <1>1, <1>3, <1>4, <2>2 DEF Contract!Reach
  <2> QED
    BY <2>3 DEF Contract!ContractNext, Contract!Outcomes
<1>6. CASE ~res.taken
  <2>1. told' = told
    BY <1>2, <1>6 DEF IInv, TypeOK
  <2> QED
    BY <1>3, <2>1, MovesStutter
<1> QED
  BY <1>5, <1>6

\* A success callback is not an outcome of its own.
LEMMA NotifySuccessContract ==
    ASSUME IInv, NEW r \in Replicas, NotifySuccess(r)
    PROVE  UNCHANGED Contract!contractVars
<1>1. PICK accepted \in BOOLEAN :
        told' = [told EXCEPT ![jobMsg[r]] = @ \cup (IF accepted THEN {"sent"} ELSE {})]
  BY DEF NotifySuccess
<1>2. \A m \in Messages : ("failed" \in told'[m]) = ("failed" \in told[m])
  BY <1>1 DEF IInv, TypeOK
<1>3. UNCHANGED << published, copy, sent >>
  BY DEF NotifySuccess
<1> QED
  BY <1>2, <1>3, MovesStutter

\* An ack lets a message go, if it was its last copy outside the dead-letter queue: then it had
\* reached an outcome.
LEMMA AckContract ==
    ASSUME IInv, Kept', NEW r \in Replicas, Ack(r)
    PROVE  [Contract!ContractNext]_(Contract!contractVars)
<1>1. /\ copy' = [c \in Copies |-> IF c = held[r] THEN Absent ELSE copy[c]]
      /\ UNCHANGED << published, sent, told >>
  BY DEF Ack, Settle
<1>2. CASE held[r] = NoCopy
  <2>1. copy' = copy
    BY <1>1, <1>2 DEF IInv, TypeOK
  <2> QED
    BY <1>1, <2>1, MovesStutter
<1>3. CASE held[r] # NoCopy
  <2>1. PICK h \in Copies, m \in Messages :
          h = held[r] /\ m = copy[h].msg /\ m \in published /\ copy[h].at = "unacked"
    BY <1>3 DEF IInv, TypeOK, HoldingOK, Working
  <2>2. \A n \in Messages : Dead(n)' = Dead(n)
    BY <1>1, <2>1 DEF Dead, IsCopyOf, Absent
  <2>3. OutcomesReached' = OutcomesReached
    BY <1>1, <2>2, SameOutcomes
  <2>4. \A n \in Messages : n # m => (n \in Owed' <=> n \in Owed)
    BY <1>1, <2>1 DEF Owed, IsCopyOf, Absent
  <2>5. m \in Owed /\ Owed \subseteq Messages /\ Owed' \subseteq Messages
    BY <2>1 DEF Owed, IsCopyOf
  <2>6. CASE m \in Owed'
    <3>1. Owed' = Owed
      BY <2>4, <2>5, <2>6
    <3> QED
      BY <1>1, <2>3, <3>1 DEF Contract!contractVars
  <2>7. CASE m \notin Owed'
    <3>1. Owed' = Owed \ {m}
      BY <2>4, <2>5, <2>7
    <3>2. OutcomesReached'[m] # {}
      <4>1. CASE Resolved(m)'
        BY <4>1 DEF Resolved, OutcomesReached
      <4>2. CASE ~Resolved(m)'
        <5>1. PICK c \in Copies : IsCopyOf(c, m)'
          BY <1>1, <2>1, <4>2 DEF Kept
        <5>2. IsCopyOf(c, m)' /\ copy'[c].at = "dlq"
          BY <2>7, <5>1 DEF Owed, IsCopyOf
        <5> QED
          BY <5>2 DEF OutcomesReached
      <4> QED
        BY <4>1, <4>2
    <3>3. Contract!LetGo({m})
      BY <1>1, <2>3, <2>5, <3>1, <3>2 DEF Contract!LetGo
    <3> QED
      BY <3>3 DEF Contract!ContractNext
  <2> QED
    BY <2>6, <2>7
<1> QED
  BY <1>2, <1>3

\* What the broker does with its copies changes nothing that the contract sees: they stay outside
\* the dead-letter queue.
LEMMA BrokerContract ==
    ASSUME IInv, NEW c \in Copies, BrokerStep(c)
    PROVE  UNCHANGED Contract!contractVars
<1>1. \A k \in Copies : /\ copy'[k].msg = copy[k].msg
                        /\ copy'[k].at = "dlq" <=> copy[k].at = "dlq"
  BY DEF IInv, TypeOK, CopyRecords, BrokerStep, Expire, Requeue
<1>2. UNCHANGED << published, sent, told >>
  BY DEF BrokerStep, Expire, Requeue
<1> QED
  BY <1>1, <1>2, MovesStutter

\* A lost connection, a crash and a failed republish leave the copies outside the dead-letter queue.
LEMMA DisturbanceContract ==
    ASSUME IInv, NEW r \in Replicas, Disturbance(r)
    PROVE  UNCHANGED Contract!contractVars
<1>1. UNCHANGED << published, sent, told >>
  BY DEF Disturbance, Disconnect, Shutdown, Crash, PublishRefused, PublishTimeout
<1>2. copy' = copy \/ LoseLink(r)
  BY DEF Disturbance, Disconnect, Shutdown, Crash, PublishRefused, PublishTimeout
<1>3. \A k \in Copies : /\ copy'[k].msg = copy[k].msg
                        /\ copy'[k].at = "dlq" <=> copy[k].at = "dlq"
  BY <1>2, LoseLinkFacts DEF IInv, HoldingOK, LoseLink
<1> QED
  BY <1>1, <1>3, MovesStutter

\* A delivered copy is still owed.
LEMMA ReceiveContract ==
    ASSUME IInv, NEW r \in Replicas, NEW c \in Copies, Receive(r, c)
    PROVE  UNCHANGED Contract!contractVars
<1>1. \A k \in Copies : /\ copy'[k].msg = copy[k].msg
                        /\ copy'[k].at = "dlq" <=> copy[k].at = "dlq"
  BY DEF IInv, TypeOK, CopyRecords, Receive
<1>2. UNCHANGED << published, sent, told >>
  BY DEF Receive
<1> QED
  BY <1>1, <1>2, MovesStutter

\* A nacked copy is still owed.
LEMMA NackContract ==
    ASSUME IInv, NEW r \in Replicas, Nack(r)
    PROVE  UNCHANGED Contract!contractVars
<1>1. \A k \in Copies : /\ copy'[k].msg = copy[k].msg
                        /\ copy'[k].at = "dlq" <=> copy[k].at = "dlq"
  BY DEF IInv, TypeOK, HoldingOK, CopyRecords, Nack, Settle
<1>2. UNCHANGED << published, sent, told >>
  BY DEF Nack, Settle
<1> QED
  BY <1>1, <1>2, MovesStutter

\* The other steps of the consumer loop touch no copy.
LEMMA LoopContract ==
    ASSUME IInv, NEW r \in Replicas,
           \/ Start(r) \/ Connect(r) \/ Reconnect(r)
           \/ Apply(r) \/ PublishConfirmed(r) \/ PublishBroken(r)
    PROVE  UNCHANGED Contract!contractVars
<1>1. UNCHANGED << published, copy, sent, told >>
  BY DEF Start, Connect, Reconnect, Apply, PublishConfirmed, PublishBroken
<1> QED
  BY <1>1, MovesStutter

\* Every step of the source is a step of the contract, or one that the contract does not see.
LEMMA NextContract ==
    IInv /\ DInv /\ [Next]_vars => [Contract!ContractNext]_(Contract!contractVars)
<1> SUFFICES ASSUME IInv, DInv, [Next]_vars
             PROVE  [Contract!ContractNext]_(Contract!contractVars)
  OBVIOUS
<1>1. Kept'
  BY NextIInv DEF IInv
<1>2. LinkOK
  BY DEF DInv
<1>3. ASSUME NEW m \in Messages, Publish(m) PROVE Contract!ContractNext
  BY <1>3, PublishContract DEF Contract!ContractNext
<1>4. ASSUME NEW c \in Copies, BrokerStep(c) PROVE UNCHANGED Contract!contractVars
  BY <1>4, BrokerContract
<1>5. ASSUME NEW r \in Replicas, Disturbance(r) PROVE UNCHANGED Contract!contractVars
  BY <1>5, DisturbanceContract
<1>6. ASSUME NEW r \in Replicas, Step(r)
      PROVE  [Contract!ContractNext]_(Contract!contractVars)
  <2>1. CASE Send(r)
    BY <2>1, SendContract
  <2>2. CASE NotifyFailure(r)
    BY <2>2, NotifyFailureContract
  <2>3. CASE PublishAccepted(r)
    BY <1>2, <2>3, PublishAcceptedContract
  <2>4. CASE Ack(r)
    BY <1>1, <2>4, AckContract
  <2>5. CASE \/ Start(r) \/ Connect(r) \/ Reconnect(r)
             \/ Apply(r) \/ PublishConfirmed(r) \/ PublishBroken(r)
    BY <2>5, LoopContract
  <2>6. CASE \E c \in Copies : Receive(r, c)
    BY <2>6, ReceiveContract
  <2>7. CASE NotifySuccess(r) \/ Nack(r)
    BY <2>7, NotifySuccessContract, NackContract
  <2> QED
    BY <1>6, <2>1, <2>2, <2>3, <2>4, <2>5, <2>6, <2>7 DEF Step
<1>7. CASE UNCHANGED vars
  <2>1. UNCHANGED << published, copy, sent, told >>
    BY <1>7 DEF vars
  <2> QED
    BY <2>1, MovesStutter
<1> QED
  BY <1>3, <1>4, <1>5, <1>6, <1>7 DEF Next

\* The source keeps the at-least-once contract (apply, publishConfirmed and the acks of
\* consumeLoop, rabbitmq_dispatch.go:19-77 and rabbitmq_consumer.go:114-163): it lets go only of
\* messages that have reached an outcome, and for good, for any number of replicas, messages,
\* crashes, lost connections and failed republishes.
THEOREM ContractKept == Spec => KeepsContract
BY ContractInitially, DeliveryInvariance, NextContract, PTL
   DEF Spec, KeepsContract, Contract!ContractSpec

=============================================================================
