----------------------------- MODULE EmailsProofs -----------------------------
(***************************************************************************)
(* Proofs about Emails, for any addresses, any number of calls, any number *)
(* of them in flight and any number of attempts.                           *)
(***************************************************************************)
EXTENDS Emails, AccountsProofs, SequenceTheorems

\* The accounts do not notice the queue: it only keeps links from arriving.
LEMMA StepIsAccounts ==
  ASSUME [EmailsNext]_allVars
  PROVE  [Next]_vars
<1>1. ASSUME NEW r \in Call, Handle(r)
      PROVE  Next
  BY <1>1 DEF Handle, Next
<1>2. ASSUME NEW r \in Call, AddJob(r) \/ FailHandler(r)
      PROVE  Next
  BY <1>2 DEF AddJob, FailHandler, Next
<1>3. ASSUME NEW r \in Call, Retry(r)
      PROVE  UNCHANGED vars
  BY <1>3 DEF Retry
<1>4. ASSUME NEW t \in tokens, Expire(t)
      PROVE  Next
  BY <1>4 DEF Next
<1>5. CASE TakeJob \/ Deliver \/ FailDelivery \/ Crash
  BY <1>5 DEF TakeJob, Deliver, FailDelivery, Crash
<1>6. CASE UNCHANGED allVars
  BY <1>6 DEF allVars, vars
<1> QED BY <1>1, <1>2, <1>3, <1>4, <1>5, <1>6 DEF EmailsNext

\* EmailsService, SendEmailProcessor: everything shown of the accounts holds
\* with the queue between them and their users.
THEOREM AccountsUndisturbed == EmailsSpec => Spec
<1>1. EmailsInit => Init
  BY DEF EmailsInit
<1>2. [EmailsNext]_allVars => [Next]_vars
  BY StepIsAccounts
<1> QED BY <1>1, <1>2, PTL DEF EmailsSpec, Spec

-----------------------------------------------------------------------------
(* The queue *)

Queued(r) == \E i \in 1 .. Len(waiting) : waiting[i] = r

Pending(r) == Queued(r) \/ r \in delayed \/ r = active

\* A job is in one place.
OnePlace ==
  /\ \A i, j \in 1 .. Len(waiting) : waiting[i] = waiting[j] => i = j
  /\ \A r \in delayed : ~ Queued(r) /\ r # active
  /\ ~ Queued(active)

\* What a call has sent, by where its job is.
Sent(r) ==
  /\ call[r].pc # "ended" => ~ Pending(r) /\ copies[r] = 0 /\ failures[r] = 0
  /\ Pending(r) =>
       /\ failures[r] < Attempts
       /\ copies[r] <= failures[r] + (IF r \in stalled THEN 1 ELSE 0)
  /\ copies[r] <= Attempts + 1
  /\ r \in lost => /\ call[r].pc = "ended" /\ ~ Pending(r)
                   /\ failures[r] \in {0, Attempts} \/ r \in stalled

QInv ==
  /\ QueueTypeOK
  /\ OnePlace
  /\ \A r \in Call : Sent(r)

\* The jobs after the queue has lost its head, or has got one more job.
LEMMA TailQueued ==
  ASSUME waiting \in Seq(Call), waiting # <<>>, waiting' = Tail(waiting),
         \A i, j \in 1 .. Len(waiting) : waiting[i] = waiting[j] => i = j
  PROVE  /\ waiting' \in Seq(Call)
         /\ \A r : Queued(r)' <=> Queued(r) /\ r # Head(waiting)
         /\ Queued(Head(waiting)) /\ Head(waiting) \in Call
         /\ \A i, j \in 1 .. Len(waiting') : waiting'[i] = waiting'[j] => i = j
<1>1. /\ Len(waiting) \in Nat \ {0} /\ Len(waiting') = Len(waiting) - 1
      /\ \A i \in 1 .. Len(waiting') : waiting'[i] = waiting[i + 1]
      /\ Head(waiting) = waiting[1] /\ waiting' \in Seq(Call)
  OBVIOUS
<1>2. \A r : Queued(r) /\ r # Head(waiting) => Queued(r)'
  <2> SUFFICES ASSUME NEW r, NEW i \in 1 .. Len(waiting), waiting[i] = r, r # waiting[1]
               PROVE  \E j \in 1 .. Len(waiting') : waiting'[j] = r
    BY <1>1 DEF Queued
  <2>1. i - 1 \in 1 .. Len(waiting') /\ waiting'[i - 1] = r
    BY <1>1
  <2> QED BY <2>1
<1>3. \A r : Queued(r)' => Queued(r) /\ r # Head(waiting)
  <2> SUFFICES ASSUME NEW j \in 1 .. Len(waiting')
               PROVE  Queued(waiting'[j]) /\ waiting'[j] # Head(waiting)
    BY DEF Queued
  <2>1. j + 1 \in 1 .. Len(waiting) /\ waiting[j + 1] = waiting'[j] /\ 1 \in 1 .. Len(waiting)
    BY <1>1
  <2> QED BY <1>1, <2>1 DEF Queued
<1>4. \A i, j \in 1 .. Len(waiting') : waiting'[i] = waiting'[j] => i = j
  <2> SUFFICES ASSUME NEW i \in 1 .. Len(waiting'), NEW j \in 1 .. Len(waiting'),
                      waiting'[i] = waiting'[j]
               PROVE  i = j
    OBVIOUS
  <2>1. i + 1 \in 1 .. Len(waiting) /\ j + 1 \in 1 .. Len(waiting)
    BY <1>1
  <2>2. i + 1 = j + 1
    BY <1>1, <2>1
  <2> QED BY <1>1, <2>2
<1>5. Queued(Head(waiting)) /\ Head(waiting) \in Call
  BY <1>1 DEF Queued
<1> QED BY <1>1, <1>2, <1>3, <1>4, <1>5

LEMMA JoinQueued ==
  ASSUME waiting \in Seq(Call), NEW r \in Call, ~ Queued(r),
         waiting' = Append(waiting, r) \/ waiting' = <<r>> \o waiting,
         \A i, j \in 1 .. Len(waiting) : waiting[i] = waiting[j] => i = j
  PROVE  /\ waiting' \in Seq(Call)
         /\ \A s : Queued(s)' <=> Queued(s) \/ s = r
         /\ \A i, j \in 1 .. Len(waiting') : waiting'[i] = waiting'[j] => i = j
<1> DEFINE n == Len(waiting)
<1>1. n \in Nat /\ waiting' \in Seq(Call) /\ Len(waiting') = n + 1
  <2>1. CASE waiting' = Append(waiting, r)
    BY <2>1
  <2>2. CASE waiting' = <<r>> \o waiting
    <3>1. <<r>> \in Seq(Call) /\ Len(<<r>>) = 1
      OBVIOUS
    <3> QED BY <2>2, <3>1, ConcatProperties
  <2> QED BY <2>1, <2>2
<1>2. CASE waiting' = Append(waiting, r)
  <2>1. waiting'[n + 1] = r /\ \A i \in 1 .. n : waiting'[i] = waiting[i]
    BY <1>1, <1>2
  <2>2. \A i \in 1 .. n + 1 : i = n + 1 \/ i \in 1 .. n
    BY <1>1
  <2>3. \A i \in 1 .. n : waiting[i] # r /\ i \in 1 .. n + 1
    BY <1>1 DEF Queued
  <2>4. n + 1 \in 1 .. n + 1
    BY <1>1
  <2> HIDE DEF n
  <2>5. \A s : Queued(s)' <=> Queued(s) \/ s = r
    BY <1>1, <2>1, <2>2, <2>3, <2>4 DEF Queued, n
  <2>6. \A i, j \in 1 .. n + 1 : waiting'[i] = waiting'[j] => i = j
    BY <2>1, <2>2, <2>3 DEF n
  <2> QED BY <1>1, <2>5, <2>6
<1>3. CASE waiting' = <<r>> \o waiting
  <2>1. waiting'[1] = r /\ \A i \in 1 .. n : waiting'[i + 1] = waiting[i]
    BY <1>1, <1>3
  <2>2. \A i \in 1 .. n + 1 : i = 1 \/ (i - 1 \in 1 .. n /\ i = (i - 1) + 1)
    BY <1>1
  <2>3. \A i \in 1 .. n : waiting[i] # r /\ i + 1 \in 1 .. n + 1
    BY <1>1 DEF Queued
  <2>4. 1 \in 1 .. n + 1
    BY <1>1
  <2>5. \A s : Queued(s)' => Queued(s) \/ s = r
    <3> SUFFICES ASSUME NEW i \in 1 .. n + 1
                 PROVE  waiting'[i] = r \/ \E j \in 1 .. n : waiting[j] = waiting'[i]
      BY <1>1 DEF Queued
    <3>1. CASE i = 1
      BY <2>1, <3>1
    <3>2. CASE i - 1 \in 1 .. n /\ i = (i - 1) + 1
      BY <2>1, <3>2
    <3> QED BY <2>2, <3>1, <3>2
  <2>6. \A s : Queued(s) \/ s = r => Queued(s)'
    BY <1>1, <2>1, <2>3, <2>4 DEF Queued
  <2>7. ASSUME NEW i \in 1 .. n + 1, NEW j \in 1 .. n + 1, waiting'[i] = waiting'[j]
        PROVE  i = j
    <3>1. CASE i = 1 /\ j = 1
      BY <3>1
    <3>2. CASE i = 1 /\ j - 1 \in 1 .. n
      <4>1. waiting'[j] = waiting[j - 1] /\ waiting[j - 1] # r
        BY <1>1, <2>1, <2>3, <3>2
      <4> QED BY <2>1, <2>7, <3>2, <4>1
    <3>3. CASE i - 1 \in 1 .. n /\ j = 1
      <4>1. waiting'[i] = waiting[i - 1] /\ waiting[i - 1] # r
        BY <1>1, <2>1, <2>3, <3>3
      <4> QED BY <2>1, <2>7, <3>3, <4>1
    <3>4. CASE i - 1 \in 1 .. n /\ j - 1 \in 1 .. n
      <4>1. waiting[i - 1] = waiting[j - 1]
        BY <2>1, <2>2, <2>7, <3>4
      <4>2. i - 1 = j - 1
        BY <3>4, <4>1
      <4> QED BY <1>1, <4>2
    <3> QED BY <2>2, <3>1, <3>2, <3>3, <3>4
  <2> QED BY <1>1, <2>5, <2>6, <2>7
<1> QED BY <1>2, <1>3

\* A handler that has ended stays so.
LEMMA EndedStays ==
  ASSUME TypeOK, NEW r \in Call, Handle(r) \/ FailHandler(r)
  PROVE  \A s \in Call : call[s].pc = "ended" => call'[s].pc = "ended"
<1>1. call \in [Call -> CallState]
  BY DEF TypeOK
<1>2. call[r].pc # "ended" /\ \A s \in Call \ {r} : call'[s] = call[s]
  <2>1. CASE \E e \in Email : ValidateUser(r, e) \/ FindUser(r, e)
    BY <1>1, <2>1 DEF ValidateUser, FindUser, Arrives, End
  <2>2. CASE \E t \in tokens, type \in TokenType : FindToken(r, t, type)
    BY <1>1, <2>2 DEF FindToken, Arrives, End
  <2>3. CASE InsertUser(r) \/ CommitUser(r) \/ DeleteTokens(r) \/ InsertToken(r)
             \/ WriteUser(r) \/ Revoke(r) \/ CommitUse(r)
    BY <1>1, <2>3 DEF InsertUser, CommitUser, DeleteTokens, InsertToken, WriteUser, Revoke,
                      CommitUse, End
  <2>4. CASE FailHandler(r)
    BY <1>1, <2>4 DEF FailHandler, Fail, End, InFlight
  <2> QED BY <2>1, <2>2, <2>3, <2>4 DEF Handle
<1> QED BY <1>2

\* A step that leaves the queue alone, and loses at most what is not in it yet.
LEMMA QuietStep ==
  ASSUME QInv, UNCHANGED <<waiting, delayed, active, failures, stalled, copies>>,
         lost' \subseteq Call,
         \A s \in lost' : s \in lost \/ (call[s].pc = "mail" /\ call'[s].pc = "ended"),
         \A s \in Call : call[s].pc = "ended" => call'[s].pc = "ended"
  PROVE  QInv'
BY DEF QInv, QueueTypeOK, OnePlace, Sent, Pending, Queued

\* Both ends of the queue take a job that is in no other place by now.
LEMMA JoinStep ==
  ASSUME QInv, NEW r \in Call, ~ Queued(r), r \notin lost, UNCHANGED lost,
         waiting' = Append(waiting, r),
         delayed' = delayed \ {r}, r # active,
         UNCHANGED <<active, failures, stalled, copies>>,
         \A s \in Call : call[s].pc = "ended" => call'[s].pc = "ended",
         call'[r].pc = "ended",
         failures[r] < Attempts,
         copies[r] <= failures[r] + (IF r \in stalled THEN 1 ELSE 0)
  PROVE  QInv'
<1>1. /\ waiting' \in Seq(Call)
      /\ \A s : Queued(s)' <=> Queued(s) \/ s = r
      /\ \A i, j \in 1 .. Len(waiting') : waiting'[i] = waiting'[j] => i = j
  BY JoinQueued DEF QInv, QueueTypeOK, OnePlace
<1>2. OnePlace'
  BY <1>1 DEF QInv, OnePlace
<1>3. \A s \in Call : Sent(s)'
  <2> SUFFICES ASSUME NEW s \in Call
               PROVE  Sent(s)'
    OBVIOUS
  <2>1. Pending(s)' => Pending(s) \/ s = r
    BY <1>1 DEF Pending
  <2>2. CASE s = r
    BY <2>2 DEF QInv, Sent
  <2>3. CASE s # r
    BY <2>1, <2>3 DEF QInv, Sent
  <2> QED BY <2>2, <2>3
<1> QED BY <1>1, <1>2, <1>3 DEF QInv, QueueTypeOK

LEMMA TakeJobStep ==
  ASSUME QInv, TakeJob
  PROVE  QInv'
<1>1. /\ waiting' \in Seq(Call)
      /\ \A r : Queued(r)' <=> Queued(r) /\ r # Head(waiting)
      /\ Queued(Head(waiting)) /\ Head(waiting) \in Call
      /\ \A i, j \in 1 .. Len(waiting') : waiting'[i] = waiting'[j] => i = j
  BY TailQueued DEF QInv, QueueTypeOK, OnePlace, TakeJob
<1>2. /\ active' = Head(waiting)
      /\ UNCHANGED <<call, delayed, failures, stalled, copies, lost>>
  BY DEF TakeJob, vars
<1>3. OnePlace'
  BY <1>1, <1>2 DEF QInv, OnePlace
<1>4. \A s \in Call : Pending(s)' => Pending(s)
  BY <1>1, <1>2 DEF Pending
<1> QED BY <1>1, <1>2, <1>3, <1>4 DEF QInv, QueueTypeOK, Sent

\* The attempts that end: what each leaves of the job.
LEMMA AttemptStep ==
  ASSUME QInv, Deliver \/ FailDelivery \/ Crash
  PROVE  QInv'
<1> USE AttemptsAssumption, NoneAssumption
<1>1. PICK r \in Call : r = active
  BY DEF QInv, QueueTypeOK, Deliver, FailDelivery, Crash
<1>2. /\ active' = None /\ UNCHANGED call
      /\ copies' \in [Call -> Nat]
      /\ copies'[r] \in {copies[r], copies[r] + 1}
      /\ \A s \in Call \ {r} : copies'[s] = copies[s]
  <2>1. active' = None /\ UNCHANGED call
    BY DEF Deliver, FailDelivery, Crash, vars
  <2>2. PICK n \in {0, 1} : copies' = [copies EXCEPT ![r] = @ + n]
    BY <1>1 DEF Deliver, FailDelivery, Crash, Perhaps
  <2> QED BY <2>1, <2>2 DEF QInv, QueueTypeOK
<1>3. /\ copies[r] \in Nat /\ failures[r] \in Nat /\ Attempts \in Nat
      /\ failures[r] < Attempts
      /\ copies[r] <= failures[r] + (IF r \in stalled THEN 1 ELSE 0)
      /\ call[r].pc = "ended" /\ ~ Queued(r) /\ r \notin delayed /\ r \notin lost
  BY <1>1 DEF QInv, QueueTypeOK, Sent, Pending, OnePlace
<1>4. copies'[r] <= Attempts + 1
  BY <1>2, <1>3
<1>5. CASE Deliver
  <2>1. UNCHANGED <<waiting, delayed, failures, stalled, lost>>
    BY <1>5 DEF Deliver
  <2>2. \A s \in Call : Pending(s)' => Pending(s) /\ s # r
    BY <1>1, <1>2, <1>3, <2>1 DEF Pending, Queued
  <2>3. OnePlace'
    BY <1>2, <2>1 DEF QInv, OnePlace, Queued, QueueTypeOK
  <2>4. \A s \in Call : Sent(s)'
    BY <1>2, <1>3, <1>4, <2>1, <2>2 DEF QInv, Sent
  <2> QED BY <1>2, <2>1, <2>3, <2>4 DEF QInv, QueueTypeOK
<1>6. CASE FailDelivery
  <2>1. /\ UNCHANGED <<waiting, stalled>>
        /\ failures' = [failures EXCEPT ![r] = @ + 1]
        /\ \/ failures[r] + 1 >= Attempts /\ delayed' = delayed /\ lost' = lost \cup {r}
           \/ failures[r] + 1 < Attempts /\ delayed' = delayed \cup {r} /\ lost' = lost
    BY <1>1, <1>3, <1>6 DEF FailDelivery
  <2>2. failures' \in [Call -> 0 .. Attempts] /\ failures'[r] = failures[r] + 1
        /\ \A s \in Call \ {r} : failures'[s] = failures[s]
    BY <1>3, <2>1 DEF QInv, QueueTypeOK
  <2>3. \A s \in Call : Pending(s)' =>
          (Pending(s) /\ s # r) \/ (s = r /\ failures[r] + 1 < Attempts)
    BY <1>1, <1>2, <1>3, <2>1 DEF Pending, Queued
  <2>4. OnePlace'
    BY <1>2, <1>3, <2>1 DEF QInv, OnePlace, Queued, QueueTypeOK
  <2>5. Sent(r)'
    BY <1>2, <1>3, <1>4, <2>1, <2>2, <2>3 DEF Sent
  <2>6. \A s \in Call \ {r} : Sent(s)'
    BY <1>2, <2>1, <2>2, <2>3 DEF QInv, Sent
  <2> QED BY <1>2, <2>1, <2>2, <2>4, <2>5, <2>6 DEF QInv, QueueTypeOK
<1>7. CASE Crash
  <2>1. UNCHANGED <<delayed, failures>> /\ stalled' = stalled \cup {r}
    BY <1>1, <1>7 DEF Crash
  <2>2. CASE r \notin stalled
    <3>1. waiting' = <<r>> \o waiting /\ UNCHANGED lost
      BY <1>1, <1>7, <2>2 DEF Crash
    <3>2. /\ waiting' \in Seq(Call)
          /\ \A s : Queued(s)' <=> Queued(s) \/ s = r
          /\ \A i, j \in 1 .. Len(waiting') : waiting'[i] = waiting'[j] => i = j
      BY <1>3, <3>1, JoinQueued DEF QInv, QueueTypeOK, OnePlace
    <3>3. ~ Queued(None)
      BY DEF QInv, QueueTypeOK, Queued
    <3>4. OnePlace'
      BY <1>2, <1>3, <2>1, <3>2, <3>3 DEF QInv, OnePlace, QueueTypeOK
    <3>5. \A s \in Call : Pending(s)' => Pending(s)
      BY <1>1, <1>2, <2>1, <3>2 DEF Pending
    <3>6. Sent(r)'
      BY <1>2, <1>3, <1>4, <2>1, <2>2, <3>1 DEF Sent
    <3>7. \A s \in Call \ {r} : Sent(s)'
      BY <1>2, <2>1, <3>1, <3>5 DEF QInv, Sent
    <3> QED BY <1>2, <2>1, <3>1, <3>2, <3>4, <3>6, <3>7 DEF QInv, QueueTypeOK
  <2>3. CASE r \in stalled
    <3>1. UNCHANGED waiting /\ stalled' = stalled /\ lost' = lost \cup {r}
      BY <1>1, <1>7, <2>1, <2>3 DEF Crash
    <3>2. \A s \in Call : Pending(s)' => Pending(s) /\ s # r
      BY <1>1, <1>2, <1>3, <2>1, <3>1 DEF Pending, Queued
    <3>3. OnePlace'
      BY <1>2, <2>1, <3>1 DEF QInv, OnePlace, Queued, QueueTypeOK
    <3>4. \A s \in Call : Sent(s)'
      BY <1>2, <1>3, <1>4, <2>1, <2>3, <3>1, <3>2 DEF QInv, Sent
    <3> QED BY <1>2, <2>1, <3>1, <3>3, <3>4 DEF QInv, QueueTypeOK
  <2> QED BY <2>2, <2>3
<1> QED BY <1>5, <1>6, <1>7

LEMMA QueueStep ==
  ASSUME IInv, QInv, [EmailsNext]_allVars
  PROVE  QInv'
<1> USE DEF QueueTypeOK
<1>1. ASSUME NEW r \in Call, Handle(r) \/ FailHandler(r)
      PROVE  QInv'
  <2>1. UNCHANGED <<waiting, delayed, active, failures, stalled, copies>>
    BY <1>1 DEF Handle, FailHandler, queueVars
  <2>2. /\ lost' \subseteq Call
        /\ \A s \in lost' : s \in lost \/ (call[s].pc = "mail" /\ call'[s].pc = "ended")
    <3>1. CASE UNCHANGED lost
      BY <3>1 DEF QInv
    <3>2. CASE call[r].pc = "mail" /\ lost' = lost \cup {r} /\ FailHandler(r)
      <4>1. call'[r].pc = "ended"
        BY <3>2 DEF FailHandler, Fail, End, Idle, IInv, TypeOK
      <4> QED BY <3>2, <4>1 DEF QInv
    <3> QED BY <1>1, <3>1, <3>2 DEF Handle, FailHandler, queueVars
  <2> QED BY <1>1, <2>1, <2>2, EndedStays, QuietStep DEF IInv
<1>2. ASSUME NEW r \in Call, AddJob(r)
      PROVE  QInv'
  <2>1. /\ call[r].pc = "mail" /\ call'[r].pc = "ended"
        /\ \A s \in Call : call[s].pc = "ended" => call'[s].pc = "ended"
        /\ waiting' = Append(waiting, r)
        /\ UNCHANGED <<delayed, active, failures, stalled, copies, lost>>
    BY <1>2 DEF AddJob, SendMail, End, IInv, TypeOK, CallState, Idle
  <2>2. ~ Pending(r) /\ copies[r] = 0 /\ failures[r] = 0 /\ r \notin lost
    BY <2>1 DEF QInv, Sent
  <2> QED BY <2>1, <2>2, AttemptsAssumption, JoinStep DEF Pending
<1>3. ASSUME NEW r \in Call, Retry(r)
      PROVE  QInv'
  <2>1. /\ r \in delayed /\ ~ Queued(r) /\ r # active
        /\ waiting' = Append(waiting, r) /\ delayed' = delayed \ {r}
        /\ UNCHANGED <<call, active, failures, stalled, copies, lost>>
    BY <1>3 DEF Retry, vars, QInv, OnePlace
  <2>2. /\ call[r].pc = "ended" /\ failures[r] < Attempts /\ r \notin lost
        /\ copies[r] <= failures[r] + (IF r \in stalled THEN 1 ELSE 0)
    BY <2>1 DEF QInv, Sent, Pending
  <2> QED BY <2>1, <2>2, JoinStep
<1>4. ASSUME NEW t \in tokens, Expire(t), UNCHANGED queueVars
      PROVE  QInv'
  BY <1>4, QuietStep DEF Expire, queueVars, QInv
<1>5. CASE TakeJob
  BY <1>5, TakeJobStep
<1>6. CASE Deliver \/ FailDelivery \/ Crash
  BY <1>6, AttemptStep
<1>7. CASE UNCHANGED allVars
  BY <1>7, QuietStep DEF allVars, QInv
<1> QED BY <1>1, <1>2, <1>3, <1>4, <1>5, <1>6, <1>7 DEF EmailsNext

-----------------------------------------------------------------------------
(* The way to an active account *)

IdsUnique == \A t, w \in tokens : t.id = w.id => t = w

LEMMA IdsStep ==
  ASSUME IInv, Fresh, IdsUnique, [Next]_vars
  PROVE  IdsUnique'
<1> USE DEF IdsUnique
<1>1. CASE UNCHANGED tokens
  BY <1>1
<1>2. ASSUME NEW r \in Call, CommitUser(r) \/ InsertToken(r)
      PROVE  IdsUnique'
  <2>1. \A t \in tokens : t.id # r
    BY <1>2 DEF CommitUser, InsertToken, Fresh
  <2>2. PICK user, type : tokens' = tokens \cup {NewToken(r, user, type)}
    BY <1>2 DEF CommitUser, InsertToken
  <2>3. NewToken(r, user, type).id = r
    BY DEF NewToken
  <2> QED BY <2>1, <2>2, <2>3
<1>3. ASSUME NEW r \in Call, DeleteTokens(r)
      PROVE  IdsUnique'
  <2> DEFINE F == ForgotTokens(call[r].user)
  <2>1. \A t \in F : t \in tokens /\ [t EXCEPT !.live = FALSE].id = t.id
    BY DEF ForgotTokens, IInv, TypeOK, Token
  <2>2. tokens' = (tokens \ F) \cup {[t EXCEPT !.live = FALSE] : t \in F}
    BY <1>3 DEF DeleteTokens
  <2>3. \A x \in tokens' : \E t \in tokens :
          x.id = t.id /\ x = IF t \in F THEN [t EXCEPT !.live = FALSE] ELSE t
    BY <2>1, <2>2
  <2> SUFFICES ASSUME NEW x \in tokens', NEW y \in tokens', x.id = y.id
               PROVE  x = y
    OBVIOUS
  <2>4. PICK t \in tokens : x.id = t.id /\ x = IF t \in F THEN [t EXCEPT !.live = FALSE] ELSE t
    BY <2>3
  <2>5. PICK w \in tokens : y.id = w.id /\ y = IF w \in F THEN [w EXCEPT !.live = FALSE] ELSE w
    BY <2>3
  <2> QED BY <2>4, <2>5
<1>4. ASSUME NEW r \in Call, CommitUse(r)
      PROVE  IdsUnique'
  <2>1. \A t \in tokens : [t EXCEPT !.live = FALSE].id = t.id
    BY DEF IInv, TypeOK, Token
  <2>2. \A x \in tokens' : \E t \in tokens :
          /\ x.id = t.id
          /\ x = IF t.id = call[r].token THEN [t EXCEPT !.live = FALSE] ELSE t
    BY <1>4, <2>1 DEF CommitUse
  <2> SUFFICES ASSUME NEW x \in tokens', NEW y \in tokens', x.id = y.id
               PROVE  x = y
    OBVIOUS
  <2>4. PICK t \in tokens : x.id = t.id /\ x = IF t.id = call[r].token THEN [t EXCEPT !.live = FALSE] ELSE t
    BY <2>2
  <2>5. PICK w \in tokens : y.id = w.id /\ y = IF w.id = call[r].token THEN [w EXCEPT !.live = FALSE] ELSE w
    BY <2>2
  <2> QED BY <2>4, <2>5
<1>5. ASSUME NEW t \in tokens, Expire(t)
      PROVE  IdsUnique'
  <2>1. [t EXCEPT !.expired = TRUE].id = t.id
    BY DEF IInv, TypeOK, Token
  <2> QED BY <1>5, <2>1 DEF Expire
<1> QED BY <1>1, <1>2, <1>3, <1>4, <1>5
        DEF Next, vars, ValidateUser, FindUser, FindToken, InsertUser, SendMail, WriteUser,
            Revoke, Fail

\* The activation token of a user.
Opens(t, u) == t.id = u.id /\ t.user = u.id /\ t.type = "ACTIVATION" /\ t.live

\* A user that is not active after a step has just been stored by a handler
\* that is about to send the mail, or was not active before, with the token
\* that is still the one to use.
LEMMA ActivationKept ==
  ASSUME IInv, IdsUnique, [Next]_vars, NEW u \in users', u.status = "INACTIVE"
  PROVE  \/ u.id \in Call /\ call'[u.id].pc = "mail" /\ \E t \in tokens' : Opens(t, u)
         \/ \E v \in users :
              /\ v.id = u.id /\ v.status = "INACTIVE"
              /\ \A t \in tokens : Opens(t, v) => \E w \in tokens' : Opens(w, u)
<1>1. CASE UNCHANGED <<users, tokens>>
  BY <1>1
<1>2. ASSUME NEW r \in Call, CommitUser(r)
      PROVE  \/ u.id = r /\ call'[r].pc = "mail" /\ \E t \in tokens' : Opens(t, u)
             \/ u \in users /\ tokens \subseteq tokens'
  <2>1. /\ users' = users \cup
             {[id |-> r, email |-> call[r].email, status |-> "INACTIVE", password |-> r]}
        /\ tokens' = tokens \cup {NewToken(r, r, "ACTIVATION")}
        /\ call'[r].pc = "mail"
    BY <1>2 DEF CommitUser, IInv, TypeOK, Idle
  <2>2. \A x : x.id = r => Opens(NewToken(r, r, "ACTIVATION"), x)
    BY DEF NewToken, Opens
  <2>3. CASE u \in users
    BY <2>1, <2>3
  <2>4. CASE u = [id |-> r, email |-> call[r].email, status |-> "INACTIVE", password |-> r]
    <3>1. u.id = r
      BY <2>4
    <3> QED BY <2>1, <2>2, <3>1
  <2> QED BY <2>1, <2>3, <2>4
<1>3. ASSUME NEW r \in Call, InsertToken(r)
      PROVE  u \in users /\ tokens \subseteq tokens'
  BY <1>3 DEF InsertToken
<1>4. ASSUME NEW r \in Call, DeleteTokens(r)
      PROVE  /\ u \in users
             /\ \A t \in tokens : Opens(t, u) => t \in tokens'
  BY <1>4 DEF DeleteTokens, ForgotTokens, Opens
<1>5. ASSUME NEW r \in Call, CommitUse(r)
      PROVE  \E v \in users :
               /\ v.id = u.id /\ v.status = "INACTIVE"
               /\ \A t \in tokens : Opens(t, v) => t \in tokens' /\ Opens(t, u)
  <2>1. PICK w \in tokens :
          w.id = call[r].token /\ w.user = call[r].user /\ w.type = call[r].type
    BY <1>5 DEF CommitUse, IInv, HandlerOK
  <2>2. PICK v \in users :
          u = IF v.id # call[r].user THEN v
              ELSE IF call[r].type = "ACTIVATION" THEN [v EXCEPT !.status = "ACTIVE"]
              ELSE [v EXCEPT !.password = r]
    BY <1>5 DEF CommitUse, UsersAfter
  <2>3. v \in User
    BY DEF IInv, TypeOK
  <2>4. /\ v.id = u.id /\ v.status = "INACTIVE"
        /\ v.id # call[r].user \/ call[r].type # "ACTIVATION"
    <3>1. CASE v.id # call[r].user
      BY <2>2, <3>1
    <3>2. CASE v.id = call[r].user /\ call[r].type = "ACTIVATION"
      <4>1. u.status = "ACTIVE"
        BY <2>2, <2>3, <3>2 DEF User
      <4> QED BY <4>1
    <3>3. CASE v.id = call[r].user /\ call[r].type # "ACTIVATION"
      BY <2>2, <2>3, <3>3 DEF User
    <3> QED BY <3>1, <3>2, <3>3
  <2>5. \A t \in tokens : Opens(t, v) => t.id # call[r].token
    BY <2>1, <2>4 DEF Opens, IdsUnique
  <2>6. \A t \in tokens : t.id # call[r].token => t \in tokens'
    BY <1>5 DEF CommitUse
  <2> QED BY <2>4, <2>5, <2>6 DEF Opens
<1>6. ASSUME NEW x \in tokens, Expire(x)
      PROVE  /\ u \in users
             /\ \A t \in tokens : Opens(t, u) => \E w \in tokens' : Opens(w, u)
  <2>1. \A y : Opens(x, y) => Opens([x EXCEPT !.expired = TRUE], y)
    BY DEF Opens, IInv, TypeOK, Token
  <2> QED BY <1>6, <2>1 DEF Expire
<1> QED BY <1>1, <1>2, <1>3, <1>4, <1>5, <1>6
        DEF Next, vars, ValidateUser, FindUser, FindToken, InsertUser, SendMail, WriteUser,
            Revoke, Fail

\* Where a mail is stays known: it moves on, arrives, or is given up.
LEMMA KnownKept ==
  ASSUME IInv, QInv, [EmailsNext]_allVars, NEW s \in Call, MailKnown(s)
  PROVE  MailKnown(s)'
<1> USE DEF MailKnown
<1>1. ASSUME NEW w \in Seq(Call)
      PROVE  DOMAIN w = 1 .. Len(w)
  OBVIOUS
<1>2. waiting \in Seq(Call) /\ copies \in [Call -> Nat] /\ call \in [Call -> CallState]
  BY DEF QInv, QueueTypeOK, IInv, TypeOK
<1>3. MailKnown(s) <=> call[s].pc = "mail" \/ Queued(s) \/ s \in delayed \/ s = active
                       \/ s \in Inbox \/ s \in lost
  BY <1>1, <1>2 DEF Queued, GivenUp, QInv, Sent
<1>4. waiting' \in Seq(Call) /\ Sent(s)'
  BY QueueStep DEF QInv, QueueTypeOK
<1>5. MailKnown(s)' <=> call'[s].pc = "mail" \/ Queued(s)' \/ s \in delayed' \/ s = active'
                        \/ s \in Inbox' \/ s \in lost'
  BY <1>1, <1>4 DEF Queued, GivenUp, Sent
<1> HIDE DEF MailKnown
<1>6. ASSUME NEW r \in Call, Handle(r)
      PROVE  MailKnown(s)'
  <2>1. call[s].pc = "mail" => call'[s] = call[s]
    <3>1. CASE \E e \in Email : ValidateUser(r, e) \/ FindUser(r, e)
      BY <1>2, <3>1 DEF ValidateUser, FindUser, Arrives, End
    <3>2. CASE \E t \in tokens, type \in TokenType : FindToken(r, t, type)
      BY <1>2, <3>2 DEF FindToken, Arrives, End
    <3>3. CASE InsertUser(r) \/ CommitUser(r) \/ DeleteTokens(r) \/ InsertToken(r)
               \/ WriteUser(r) \/ Revoke(r) \/ CommitUse(r)
      BY <1>2, <3>3 DEF InsertUser, CommitUser, DeleteTokens, InsertToken, WriteUser, Revoke,
                        CommitUse, End
    <3> QED BY <1>6, <3>1, <3>2, <3>3 DEF Handle
  <2> QED BY <1>3, <1>5, <1>6, <2>1 DEF Handle, queueVars, Queued, Inbox
<1>7. ASSUME NEW r \in Call, AddJob(r)
      PROVE  MailKnown(s)'
  <2>1. /\ call'[s] = call[s] \/ s = r
        /\ UNCHANGED <<delayed, active, failures, stalled, copies, lost>>
        /\ waiting' = Append(waiting, r)
    BY <1>2, <1>7 DEF AddJob, SendMail, End
  <2>2. Queued(r)' /\ (Queued(s) => Queued(s)')
    BY <1>2, <2>1 DEF Queued
  <2> QED BY <1>3, <1>5, <2>1, <2>2 DEF Inbox
<1>8. ASSUME NEW r \in Call, FailHandler(r)
      PROVE  MailKnown(s)'
  <2>1. /\ call'[s] = call[s] \/ s = r
        /\ lost' = IF call[r].pc = "mail" THEN lost \cup {r} ELSE lost
        /\ UNCHANGED <<waiting, delayed, active, copies>>
    BY <1>2, <1>8 DEF FailHandler, Fail, End
  <2> QED BY <1>3, <1>5, <2>1 DEF Inbox, Queued
<1>9. ASSUME NEW r \in Call, Retry(r)
      PROVE  MailKnown(s)'
  <2>1. /\ UNCHANGED <<call, active, copies, lost>> /\ delayed' = delayed \ {r}
        /\ waiting' = Append(waiting, r)
    BY <1>9 DEF Retry, vars
  <2>2. Queued(r)' /\ (Queued(s) => Queued(s)')
    BY <1>2, <2>1 DEF Queued
  <2> QED BY <1>3, <1>5, <2>1, <2>2 DEF Inbox
<1>10. CASE TakeJob
  <2>1. /\ UNCHANGED <<call, delayed, copies, lost>> /\ active' = Head(waiting)
        /\ active = None /\ s # None
    BY <1>10, NoneAssumption DEF TakeJob, vars
  <2>2. Queued(s) => Queued(s)' \/ s = Head(waiting)
    BY <1>10, TailQueued DEF QInv, QueueTypeOK, OnePlace, TakeJob
  <2> QED BY <1>3, <1>5, <2>1, <2>2 DEF Inbox
<1>11. CASE Deliver \/ FailDelivery \/ Crash
  <2>1. UNCHANGED call /\ delayed \subseteq delayed' /\ lost \subseteq lost'
        /\ active \in Call
    BY <1>11 DEF Deliver, FailDelivery, Crash, vars, QInv, QueueTypeOK
  <2>2. s \in Inbox => s \in Inbox'
    <3>1. PICK n \in {0, 1} : copies' = [copies EXCEPT ![active] = @ + n]
      BY <1>11 DEF Deliver, FailDelivery, Crash, Perhaps
    <3> QED BY <1>2, <2>1, <3>1 DEF Inbox
  <2>3. ~ Queued(active)
    BY DEF QInv, OnePlace
  <2>4. Queued(s) => Queued(s)'
    <3>1. CASE waiting' = <<active>> \o waiting
      BY <1>2, <2>1, <2>3, <3>1, JoinQueued DEF QInv, OnePlace
    <3>2. CASE UNCHANGED waiting
      BY <3>2 DEF Queued
    <3> QED BY <1>11, <3>1, <3>2 DEF Deliver, FailDelivery, Crash
  <2>5. s = active => s \in delayed' \/ s \in lost' \/ s \in Inbox' \/ Queued(s)'
    <3>1. CASE Deliver
      BY <1>2, <2>1, <3>1 DEF Deliver, Inbox
    <3>2. CASE FailDelivery
      BY <3>2 DEF FailDelivery
    <3>3. CASE Crash
      <4>1. CASE active \in stalled
        BY <3>3, <4>1 DEF Crash
      <4>2. CASE waiting' = <<active>> \o waiting
        BY <1>2, <2>1, <2>3, <4>2, JoinQueued DEF QInv, OnePlace
      <4> QED BY <3>3, <4>1, <4>2 DEF Crash
    <3> QED BY <1>11, <3>1, <3>2, <3>3
  <2> QED BY <1>3, <1>5, <2>1, <2>2, <2>4, <2>5
<1>12. CASE UNCHANGED <<call, queueVars>>
  BY <1>3, <1>5, <1>12 DEF queueVars, Inbox, Queued
<1> QED BY <1>6, <1>7, <1>8, <1>9, <1>10, <1>11, <1>12 DEF EmailsNext, allVars, queueVars, Expire

LEMMA ReachStep ==
  ASSUME IInv, IdsUnique, QInv, ActivationInReach, [EmailsNext]_allVars
  PROVE  ActivationInReach'
<1> SUFFICES ASSUME NEW u \in users', u.status = "INACTIVE"
             PROVE  \E w \in tokens' : Opens(w, u) /\ MailKnown(w.id)'
  BY DEF ActivationInReach, Opens
<1>1. CASE u.id \in Call /\ call'[u.id].pc = "mail" /\ \E t \in tokens' : Opens(t, u)
  BY <1>1 DEF Opens, MailKnown
<1>2. ASSUME NEW v \in users, v.id = u.id, v.status = "INACTIVE",
             \A t \in tokens : Opens(t, v) => \E w \in tokens' : Opens(w, u)
      PROVE  \E w \in tokens' : Opens(w, u) /\ MailKnown(w.id)'
  <2>1. PICK t \in tokens : Opens(t, v) /\ MailKnown(t.id)
    BY <1>2 DEF ActivationInReach, Opens
  <2>2. PICK w \in tokens' : Opens(w, u)
    BY <1>2, <2>1
  <2>3. t.id \in Call /\ w.id = t.id
    BY <1>2, <2>1, <2>2 DEF Opens, IInv, TypeOK, Token
  <2>4. MailKnown(t.id)'
    BY <2>1, <2>3, KnownKept
  <2> QED BY <2>2, <2>3, <2>4
<1> QED BY <1>1, <1>2, ActivationKept, StepIsAccounts

-----------------------------------------------------------------------------
(* The theorems *)

ReachInv == Fresh /\ IdsUnique /\ QInv /\ ActivationInReach

\* BullMQ as the code configures it: a job is in one place, its copies are
\* paid for by its attempts, and a mail on its way is known.
THEOREM EmailsInvariance == EmailsSpec => []ReachInv
<1>1. EmailsInit => ReachInv
  BY AttemptsAssumption, NoneAssumption
     DEF EmailsInit, Init, ReachInv, Fresh, IdsUnique, QInv, QueueTypeOK, OnePlace, Sent,
         Pending, Queued, ActivationInReach
<1>2. IInv /\ ReachInv /\ [EmailsNext]_allVars => ReachInv'
  BY StepIsAccounts, FreshStep, IdsStep, QueueStep, ReachStep DEF ReachInv
<1>3. EmailsSpec => []IInv
  BY AccountsUndisturbed, AccountsInvariance, PTL
<1> QED BY <1>1, <1>2, <1>3, PTL DEF EmailsSpec

\* EmailsService, SendEmailProcessor: the queue is well typed.
THEOREM QueueTypeCorrect == EmailsSpec => []QueueTypeOK
<1>1. ReachInv => QueueTypeOK
  BY DEF ReachInv, QInv
<1> QED BY <1>1, EmailsInvariance, PTL

\* The options of the queue: a user gets Attempts + 1 copies at most.
THEOREM CopiesAreBounded == EmailsSpec => []CopiesBounded
<1>1. ReachInv => CopiesBounded
  BY DEF ReachInv, QInv, Sent, CopiesBounded
<1> QED BY <1>1, EmailsInvariance, PTL

\* register, createForgotPasswordRequest, activate, resetPassword: an account
\* that is not active keeps a live activation token whose mail is known.
THEOREM ActivationStaysInReach == EmailsSpec => []ActivationInReach
<1>1. ReachInv => ActivationInReach
  BY DEF ReachInv
<1> QED BY <1>1, EmailsInvariance, PTL
=============================================================================
