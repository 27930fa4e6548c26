------------------------------ MODULE InboxProofs ------------------------------
(***************************************************************************)
(* Proofs about Inbox: the calls do not notice the readers, and a reader   *)
(* overlooks nothing, for any size of the pages, any number of readers and *)
(* of overlapping calls.                                                   *)
(***************************************************************************)
EXTENDS Inbox, ChatProofs

LEMMA StepIsChat ==
  ASSUME [InboxNext]_allVars
  PROVE  [Next]_vars
<1>1. ASSUME NEW r \in Call, CallMoves(r)
      PROVE  Next
  BY <1>1 DEF CallMoves, Next, Step, MessagesStep
<1>2. ASSUME NEW v \in Reader, ReaderMoves(v)
      PROVE  UNCHANGED vars
  BY <1>2 DEF ReaderMoves
<1>3. CASE UNCHANGED allVars
  BY <1>3 DEF allVars
<1> QED BY <1>1, <1>2, <1>3 DEF InboxNext

\* Every behaviour of Inbox is one of Chat: what is proved of the collections
\* holds while lists are read.
THEOREM ReadersUnnoticed == InboxSpec => Spec
<1>1. InboxInit => Init
  BY DEF InboxInit
<1>2. [InboxNext]_allVars => [Next]_vars
  BY StepIsChat
<1> QED BY <1>1, <1>2, PTL DEF InboxSpec, Spec

-----------------------------------------------------------------------------
(* The invariant *)

\* The entries of the list with a newer stamp than d, by their ids, which they
\* keep when they are rewritten.
Ahead(d, mine) ==
  {e.id : e \in {f \in Entries(mine) : stamp[f.message] > stamp[d.message]}}

\* A document about to be rewritten was stamped no later than it will be.
StampsOK ==
  /\ time \in Nat
  /\ stamp \in [Call -> Nat]
  /\ \A r \in Call : stamp[r] <= time
  /\ \A r \in Call : call[r].pc = "commit" /\ call[r].target # None =>
       stamp[r] >= stamp[call[r].target.message]
  /\ IsFiniteSet({d.id : d \in lastMessages})

\* What was in the list at the beginning and is still there has been given to
\* the reader, or has n entries before it, unless another has its time.
Passed(w, mine, given, n) ==
  \A d \in w.begun \cap lastMessages :
    \/ d.conversation \in given
    \/ Tied(d, w.user)
    \/ Cardinality(Ahead(d, mine)) >= n

\* The conversations a request works on: all that the reader began with.
MineOK(w) ==
  /\ w.mine \subseteq Mine(w.user)
  /\ \A d \in w.begun : d.conversation \in w.mine

ViewOK(w) ==
  /\ w.skip \in Nat
  /\ \A d \in w.begun : d.message \in Call /\ Done(d.message)
                        /\ d.conversation \in Mine(w.user)
  /\ w.pc = "next" => Passed(w, Mine(w.user), w.shown, w.skip)
  /\ w.pc = "entries" => MineOK(w) /\ Passed(w, w.mine, w.shown, w.skip)
  /\ w.pc = "count" =>
       /\ MineOK(w)
       /\ Passed(w, w.mine, w.shown, w.skip)
       /\ Passed(w, w.mine, w.shown \cup {d.conversation : d \in w.page}, w.skip + Limit)
  /\ w.pc = "ended" =>
       \A d \in w.begun \cap lastMessages :
         d.conversation \in w.shown \/ Tied(d, w.user)

InboxInv ==
  /\ StampsOK
  /\ view \in [Reader -> View]
  /\ \A v \in Reader : ViewOK(view[v])

-----------------------------------------------------------------------------
(* What the steps of a call do to the list *)

\* The message of an entry is stored, by a call that stamps nothing any more.
LEMMA EntriesDone ==
  ASSUME IInv, NEW d \in lastMessages
  PROVE  d.id \in Call /\ d.message \in Call /\ Done(d.message)
<1>1. PICK m \in messages : m.id = d.message
  BY DEF IInv, PointersResolve
<1> QED BY <1>1 DEF IInv, TypeOK, DocumentsOK, LastMessage

\* The commit of a post replaces or adds one entry; nothing else changes it.
PostsAlone(r) ==
  /\ call[r].pc = "commit"
  /\ Post(r)

LEMMA StepFacts ==
  ASSUME IInv, NEW r \in Call, Arrival(r) \/ Step(r) \/ Fail(r)
  PROVE  /\ conversations \subseteq conversations'
         /\ messages \subseteq messages'
         /\ \A s \in Call : Done(s) => Done(s)'
         /\ \A s \in Call : s # r => call'[s] = call[s]
         /\ lastMessages' = lastMessages \/ PostsAlone(r)
<1> USE DEF IInv, TypeOK, Done, Idle
<1>1. CASE Arrival(r)
  BY <1>1 DEF Arrival, FriendshipsArrival, ConversationsArrival, MessagesArrival, Arrives,
     CheckRequest, FindRequest, CheckConversation, FindConversation, End, collections
<1>2. CASE Fail(r)
  BY <1>2 DEF Fail, End, collections
<1>3. CASE InsertRequest(r) \/ InsertConversation(r) \/ EmitNewMessage(r) \/ CommitDecline(r)
  BY <1>3 DEF InsertRequest, InsertConversation, EmitNewMessage, CommitDecline, End, collections
<1>4. CASE SaveStatus(r)
  BY <1>4 DEF SaveStatus, End, collections
<1>5. CASE LookupConversation(r)
  BY <1>5 DEF LookupConversation, collections
<1>6. CASE CreateMessage(r) \/ InsertMessage(r)
  BY <1>6 DEF CreateMessage, InsertMessage, collections
<1>7. CASE WriteLastMessage(r)
  BY <1>7 DEF WriteLastMessage, End, collections
<1>8. CASE CommitMessage(r)
  BY <1>8 DEF CommitMessage, PostsAlone, Post
<1>9. CASE CommitAccept(r)
  BY <1>9 DEF CommitAccept, PostsAlone, Post, End
<1> QED BY <1>1, <1>2, <1>3, <1>4, <1>5, <1>6, <1>7, <1>8, <1>9
        DEF Step, FriendshipsStep, ConversationsStep, MessagesStep

\* Only writeLastMessage makes a handler hold a document.
LEMMA TargetFacts ==
  ASSUME IInv, NEW r \in Call, Arrival(r) \/ (call[r].pc # "writeLast" /\ Step(r)) \/ Fail(r)
  PROVE  ~ (call'[r].pc = "commit" /\ call'[r].target # None)
<1> USE DEF IInv, TypeOK, Idle
<1>1. CASE Arrival(r)
  BY <1>1 DEF Arrival, FriendshipsArrival, ConversationsArrival, MessagesArrival, Arrives,
     CheckRequest, FindRequest, CheckConversation, FindConversation, End
<1>2. CASE Fail(r)
  BY <1>2 DEF Fail, End
<1>3. CASE InsertRequest(r) \/ InsertConversation(r) \/ EmitNewMessage(r) \/ CommitDecline(r)
           \/ CommitMessage(r) \/ CommitAccept(r)
  BY <1>3 DEF InsertRequest, InsertConversation, EmitNewMessage, CommitDecline, CommitMessage,
     CommitAccept, End
<1>4. CASE SaveStatus(r)
  <2>1. call[r].target = None
    BY <1>4 DEF SaveStatus, HandlerOK, TargetOK
  <2>2. CASE End(r)
    BY <2>2 DEF End
  <2>3. CASE call' = [call EXCEPT ![r].pc = "lookup", ![r].snapshot = lastMessages]
    BY <2>3
  <2>4. CASE call' = [call EXCEPT ![r].pc = "commit"]
    <3>1. call'[r] = [call[r] EXCEPT !.pc = "commit"]
      BY <2>4
    <3> QED BY <2>1, <3>1 DEF CallState
  <2> QED BY <1>4, <2>2, <2>3, <2>4 DEF SaveStatus
<1>5. CASE LookupConversation(r)
  BY <1>5 DEF LookupConversation
<1>6. CASE CreateMessage(r) \/ InsertMessage(r)
  <2>1. CASE CreateMessage(r)
    BY <2>1 DEF CreateMessage
  <2>2. CASE InsertMessage(r)
    BY <2>2 DEF InsertMessage
  <2> QED BY <1>6, <2>1, <2>2
<1>7. CASE call[r].pc # "writeLast" /\ WriteLastMessage(r)
  BY <1>7 DEF WriteLastMessage
<1> QED BY <1>1, <1>2, <1>3, <1>4, <1>5, <1>6, <1>7
        DEF Step, FriendshipsStep, ConversationsStep, MessagesStep

\* writeLastMessage stamps, and holds a document if it rewrites one.
LEMMA WriteFacts ==
  ASSUME IInv, NEW r \in Call, WriteLastMessage(r), call'[r].pc = "commit", call'[r].target # None
  PROVE  call'[r].target \in lastMessages
<1>1. call[r].pc = "writeLast" /\ call[r].target = None
  BY DEF WriteLastMessage, IInv, HandlerOK, TargetOK
<1>2. CASE call' = [call EXCEPT ![r].pc = "commit", ![r].snapshot = {}]
  <2>1. call'[r] = [call[r] EXCEPT !.pc = "commit", !.snapshot = {}]
    BY <1>2 DEF IInv, TypeOK
  <2> QED BY <1>1, <2>1 DEF IInv, TypeOK, CallState
<1>3. ASSUME NEW d \in PointersInSnapshot(r), ~ WriteConflict(r, d),
             call' = [call EXCEPT ![r].pc = "commit", ![r].snapshot = {}, ![r].target = d]
      PROVE  call'[r].target \in lastMessages
  <2>1. call'[r] = [call[r] EXCEPT !.pc = "commit", !.snapshot = {}, !.target = d]
    BY <1>3 DEF IInv, TypeOK
  <2>2. call'[r].target = d
    BY <2>1 DEF IInv, TypeOK, CallState
  <2> QED BY <1>3, <2>2 DEF WriteConflict
<1>4. CASE End(r)
  BY <1>4 DEF End, IInv, TypeOK, Idle
<1> QED BY <1>2, <1>3, <1>4 DEF WriteLastMessage

\* A call in the middle of writeLastMessage has stored no message.
LEMMA OthersStamps ==
  ASSUME IInv, StampsOK, NEW r \in Call, CallMoves(r), NEW s \in Call, Done(s)
  PROVE  stamp'[s] = stamp[s]
BY DEF CallMoves, StampsOK, Done, WriteLastMessage, inboxVars

LEMMA PostIds ==
  ASSUME IInv, NEW r \in Call, Post(r)
  PROVE  {d.id : d \in lastMessages'} \subseteq {d.id : d \in lastMessages} \cup {r}
<1>1. Pointer(r).id \in {d.id : d \in lastMessages} \cup {r}
  <2>1. CASE call[r].target = None
    BY <2>1 DEF Pointer
  <2>2. CASE call[r].target # None
    <3>1. call[r].target \in lastMessages
      BY <2>2 DEF IInv, HandlerOK, TargetOK
    <3> QED BY <2>2, <3>1 DEF Pointer, IInv, TypeOK, LastMessage
  <2> QED BY <2>1, <2>2
<1> QED BY <1>1 DEF Post

LEMMA StampsStep ==
  ASSUME IInv, StampsOK, NEW r \in Call, CallMoves(r)
  PROVE  StampsOK'
<1>1. Arrival(r) \/ Step(r) \/ Fail(r)
  BY DEF CallMoves, Step, MessagesStep
<1>2. IsFiniteSet({d.id : d \in lastMessages'})
  <2>1. CASE lastMessages' = lastMessages
    BY <2>1 DEF StampsOK
  <2>2. CASE PostsAlone(r)
    <3>1. {d.id : d \in lastMessages'} \subseteq {d.id : d \in lastMessages} \cup {r}
      BY <2>2, PostIds DEF PostsAlone
    <3>2. IsFiniteSet({d.id : d \in lastMessages} \cup {r})
      BY FS_AddElement DEF StampsOK
    <3> QED BY <3>1, <3>2, FS_Subset
  <2> QED BY <1>1, <2>1, <2>2, StepFacts
<1>3. ASSUME NEW s \in Call, s # r, call'[s].pc = "commit", call'[s].target # None
      PROVE  stamp'[s] >= stamp'[call'[s].target.message]
  <2>1. call'[s] = call[s]
    BY <1>1, <1>3, StepFacts
  <2>2. call[s].target \in lastMessages
    BY <1>3, <2>1 DEF IInv, HandlerOK, TargetOK
  <2>3. Done(call[s].target.message) /\ call[s].target.message \in Call
    BY <2>2, EntriesDone
  <2>4. stamp'[call[s].target.message] = stamp[call[s].target.message]
    BY <2>3, OthersStamps
  <2>5. stamp'[s] = stamp[s]
    BY <1>3 DEF CallMoves, StampsOK, inboxVars
  <2> QED BY <1>3, <2>1, <2>4, <2>5 DEF StampsOK
<1>4. CASE WriteLastMessage(r) /\ time' \in {time, time + 1} /\ stamp' = [stamp EXCEPT ![r] = time']
  <2>1. time' \in Nat /\ stamp' \in [Call -> Nat] /\ \A s \in Call : stamp'[s] <= time'
    BY <1>4 DEF StampsOK
  <2>2. ASSUME call'[r].pc = "commit", call'[r].target # None
        PROVE  stamp'[r] >= stamp'[call'[r].target.message]
    <3>1. PICK d : d = call'[r].target
      OBVIOUS
    <3>2. d \in lastMessages
      BY <1>4, <2>2, <3>1, WriteFacts
    <3>3. d.message \in Call /\ Done(d.message)
      BY <3>2, EntriesDone
    <3>4. d.message # r
      BY <1>4, <3>3 DEF Done, WriteLastMessage
    <3>5. stamp'[r] = time' /\ time' >= time /\ stamp'[d.message] <= time
      BY <1>4, <3>3, <3>4 DEF StampsOK
    <3> QED BY <3>1, <3>3, <3>5, <2>1 DEF StampsOK
  <2> QED BY <1>2, <1>3, <2>1, <2>2 DEF StampsOK
<1>5. CASE (Arrival(r) \/ (call[r].pc # "writeLast" /\ Step(r)) \/ Fail(r)) /\ UNCHANGED inboxVars
  <2>1. ~ (call'[r].pc = "commit" /\ call'[r].target # None)
    BY <1>5, TargetFacts
  <2> QED BY <1>2, <1>3, <1>5, <2>1 DEF StampsOK, inboxVars
<1> QED BY <1>4, <1>5 DEF CallMoves

\* The messages that have one time keep it.
LEMMA TiedKept ==
  ASSUME IInv, StampsOK, NEW r \in Call, CallMoves(r),
         NEW d, d.message \in Call, Done(d.message), NEW u, Tied(d, u)
  PROVE  Tied(d, u)'
<1>1. PICK m \in messages :
        m.id # d.message /\ m.conversation \in Mine(u) /\ stamp[m.id] = stamp[d.message]
  BY DEF Tied
<1>2. Arrival(r) \/ Step(r) \/ Fail(r)
  BY DEF CallMoves, Step, MessagesStep
<1>3. m \in messages' /\ m.conversation \in Mine(u)'
  BY <1>1, <1>2, StepFacts DEF Mine
<1>4. m.id \in Call /\ Done(m.id)
  BY <1>1 DEF IInv, TypeOK, DocumentsOK, Message
<1>5. stamp'[m.id] = stamp'[d.message]
  BY <1>1, <1>4, OthersStamps
<1> QED BY <1>1, <1>3, <1>5 DEF Tied

-----------------------------------------------------------------------------
(* Entries only move to the front *)

\* No two entries have one id.
LEMMA IdsCount ==
  ASSUME IInv, StampsOK, NEW F \in SUBSET lastMessages
  PROVE  /\ IsFiniteSet(F) /\ IsFiniteSet({e.id : e \in F})
         /\ Cardinality(F) = Cardinality({e.id : e \in F})
<1> DEFINE ids == {e.id : e \in F}
           f == [e \in F |-> e.id]
<1>1. IsFiniteSet(ids)
  <2>1. ids \subseteq {e.id : e \in lastMessages}
    OBVIOUS
  <2> QED BY <2>1, FS_Subset DEF StampsOK
<1>2. f \in Injection(F, ids) /\ f \in Surjection(F, ids)
  BY DEF Injection, Surjection, IsInjective, IInv, PointersResolve
<1> QED BY <1>1, <1>2, FS_Injection

LEMMA AheadFinite ==
  ASSUME StampsOK, NEW d, NEW mine
  PROVE  IsFiniteSet(Ahead(d, mine)) /\ Cardinality(Ahead(d, mine)) \in Nat
<1>1. Ahead(d, mine) \subseteq {e.id : e \in lastMessages}
  BY DEF Ahead, Entries
<1> QED BY <1>1, FS_Subset, FS_CardinalityType DEF StampsOK

LEMMA NotAheadOfItself ==
  ASSUME IInv, StampsOK, NEW mine, NEW d \in Entries(mine)
  PROVE  d.id \notin Ahead(d, mine)
<1> SUFFICES ASSUME NEW e \in Entries(mine), stamp[e.message] > stamp[d.message], e.id = d.id
             PROVE  FALSE
  BY DEF Ahead
<1>1. e = d
  BY DEF Entries, IInv, PointersResolve
<1>2. stamp[d.message] \in Nat
  BY EntriesDone DEF StampsOK, Entries
<1> QED BY <1>1, <1>2

\* An entry that stays where it is keeps those before it.
LEMMA AheadStays ==
  ASSUME IInv, StampsOK, NEW r \in Call, CallMoves(r),
         NEW d \in lastMessages, NEW mine
  PROVE  Ahead(d, mine) \subseteq Ahead(d, mine)'
<1>1. Arrival(r) \/ Step(r) \/ Fail(r)
  BY DEF CallMoves, Step, MessagesStep
<1>2. \A e \in lastMessages : stamp'[e.message] = stamp[e.message]
  BY EntriesDone, OthersStamps
<1>3. CASE lastMessages' = lastMessages
  BY <1>2, <1>3 DEF Ahead, Entries
<1>4. CASE PostsAlone(r)
  <2> SUFFICES ASSUME NEW e \in Entries(mine), stamp[e.message] > stamp[d.message]
               PROVE  e.id \in Ahead(d, mine)'
    BY DEF Ahead
  <2>1. Post(r)
    BY <1>4 DEF PostsAlone
  <2>2. CASE e # call[r].target
    BY <1>2, <2>1, <2>2 DEF Post, Ahead, Entries
  <2>3. CASE e = call[r].target
    <3>1. call[r].target # None /\ e \in LastMessage
      BY <2>3, NoneAssumption DEF Entries, IInv, TypeOK
    <3>2. PICK p : p = Pointer(r)
      OBVIOUS
    <3>3. p = [e EXCEPT !.message = r]
      BY <2>3, <3>1, <3>2 DEF Pointer
    <3>4. p.id = e.id /\ p.conversation = e.conversation /\ p.message = r
      BY <3>1, <3>3 DEF LastMessage
    <3>5. stamp[r] >= stamp[e.message]
      BY <1>4, <2>3, <3>1 DEF PostsAlone, StampsOK
    <3>6. stamp' = stamp
      BY <1>4 DEF CallMoves, PostsAlone, WriteLastMessage, inboxVars
    <3>7. e.message \in Call /\ d.message \in Call
      BY EntriesDone DEF Entries
    <3>8. stamp'[p.message] > stamp'[d.message]
      BY <3>4, <3>5, <3>6, <3>7 DEF StampsOK
    <3>9. p \in Entries(mine)'
      BY <2>1, <3>2, <3>4 DEF Post, Entries
    <3> QED BY <3>4, <3>8, <3>9 DEF Ahead
  <2> QED BY <2>2, <2>3
<1> QED BY <1>1, <1>3, <1>4, StepFacts

LEMMA AheadOfMore ==
  ASSUME StampsOK, NEW d, NEW S, NEW T, S \subseteq T
  PROVE  Cardinality(Ahead(d, S)) <= Cardinality(Ahead(d, T))
<1>1. Ahead(d, S) \subseteq Ahead(d, T)
  BY DEF Ahead, Entries
<1> QED BY <1>1, AheadFinite, FS_Subset

\* Commits let entries move to the front only, and conversations only come.
LEMMA AheadGrows ==
  ASSUME IInv, StampsOK, StampsOK', NEW r \in Call, CallMoves(r),
         NEW d \in lastMessages, NEW S, NEW T, S \subseteq T
  PROVE  /\ Cardinality(Ahead(d, S)) <= Cardinality(Ahead(d, T)')
         /\ Cardinality(Ahead(d, S)) \in Nat /\ Cardinality(Ahead(d, T)') \in Nat
<1>1. Ahead(d, S) \subseteq Ahead(d, T)'
  <2>1. Ahead(d, S) \subseteq Ahead(d, S)'
    BY AheadStays
  <2> QED BY <2>1 DEF Ahead, Entries
<1>2. IsFiniteSet(Ahead(d, T)')
  <2>1. Ahead(d, T)' \subseteq {e.id : e \in lastMessages'}
    BY DEF Ahead, Entries
  <2> QED BY <2>1, FS_Subset DEF StampsOK
<1> QED BY <1>1, <1>2, AheadFinite, FS_Subset, FS_CardinalityType

LEMMA PassedKept ==
  ASSUME IInv, StampsOK, StampsOK', NEW r \in Call, CallMoves(r),
         NEW w, \A d \in w.begun : d.message \in Call /\ Done(d.message),
         NEW S, NEW T, S \subseteq T, NEW given, NEW n \in Nat, Passed(w, S, given, n)
  PROVE  Passed(w, T, given, n)'
<1> SUFFICES ASSUME NEW d \in w.begun, d \in lastMessages', d.conversation \notin given,
                    ~ Tied(d, w.user)'
             PROVE  Cardinality(Ahead(d, T)') >= n
  BY DEF Passed
<1>1. d \in lastMessages
  <2>1. Arrival(r) \/ Step(r) \/ Fail(r)
    BY DEF CallMoves, Step, MessagesStep
  <2> SUFFICES ASSUME PostsAlone(r), d \notin lastMessages
               PROVE  FALSE
    BY <2>1, StepFacts
  <2>2. d = Pointer(r)
    BY DEF PostsAlone, Post
  <2>3. d.message = r
    <3>1. CASE call[r].target = None
      BY <2>2, <3>1 DEF Pointer
    <3>2. CASE call[r].target # None
      <4>1. call[r].target \in LastMessage
        BY <3>2 DEF IInv, TypeOK, CallState
      <4> QED BY <2>2, <3>2, <4>1 DEF Pointer, LastMessage
    <3> QED BY <3>1, <3>2
  <2> QED BY <2>3 DEF PostsAlone, Done
<1>2. Cardinality(Ahead(d, S)) >= n
  BY <1>1, TiedKept DEF Passed
<1> QED BY <1>1, <1>2, AheadGrows

LEMMA CallKeepsView ==
  ASSUME IInv, StampsOK, StampsOK', NEW r \in Call, CallMoves(r), NEW w, ViewOK(w)
  PROVE  ViewOK(w)'
<1>1. Mine(w.user) \subseteq Mine(w.user)' /\ \A s \in Call : Done(s) => Done(s)'
  <2>1. Arrival(r) \/ Step(r) \/ Fail(r)
    BY DEF CallMoves, Step, MessagesStep
  <2> QED BY <2>1, StepFacts DEF Mine
<1>2. /\ w.skip \in Nat
      /\ \A d \in w.begun : d.message \in Call /\ Done(d.message)
                            /\ d.conversation \in Mine(w.user)
  BY DEF ViewOK
<1>3. w.skip + Limit \in Nat
  BY <1>2, LimitAssumption
<1>4. ASSUME w.pc = "next"
      PROVE  Passed(w, Mine(w.user), w.shown, w.skip)'
  <2>1. PICK S : S = Mine(w.user)
    OBVIOUS
  <2>2. PICK T : T = Mine(w.user)'
    OBVIOUS
  <2>3. Passed(w, S, w.shown, w.skip)
    BY <1>4, <2>1 DEF ViewOK
  <2>4. Passed(w, T, w.shown, w.skip)'
    BY <1>1, <1>2, <2>1, <2>2, <2>3, PassedKept
  <2> QED BY <2>2, <2>4 DEF Passed, Ahead, Entries, Tied
<1>5. ASSUME w.pc \in {"entries", "count"}
      PROVE  MineOK(w)' /\ Passed(w, w.mine, w.shown, w.skip)'
  <2>1. MineOK(w) /\ Passed(w, w.mine, w.shown, w.skip)
    BY <1>5 DEF ViewOK
  <2>2. Passed(w, w.mine, w.shown, w.skip)'
    BY <1>2, <2>1, PassedKept
  <2> QED BY <1>1, <2>1, <2>2 DEF MineOK
<1>6. ASSUME w.pc = "count"
      PROVE  Passed(w, w.mine, w.shown \cup {d.conversation : d \in w.page}, w.skip + Limit)'
  <2>1. PICK given : given = w.shown \cup {d.conversation : d \in w.page}
    OBVIOUS
  <2>2. Passed(w, w.mine, given, w.skip + Limit)
    BY <1>6, <2>1 DEF ViewOK
  <2>3. Passed(w, w.mine, given, w.skip + Limit)'
    BY <1>2, <1>3, <2>2, PassedKept
  <2> QED BY <2>1, <2>3 DEF Passed
<1>7. ASSUME w.pc = "ended", NEW d \in w.begun, d \in lastMessages'
      PROVE  d.conversation \in w.shown \/ Tied(d, w.user)'
  <2>1. Passed(w, {}, w.shown, 1)
    BY <1>7 DEF ViewOK, Passed
  <2>2. Passed(w, {}, w.shown, 1)'
    BY <1>2, <2>1, PassedKept
  <2>3. Cardinality(Ahead(d, {})') = 0
    BY FS_EmptySet DEF Ahead, Entries
  <2> QED BY <1>7, <2>2, <2>3 DEF Passed
<1> QED BY <1>1, <1>2, <1>4, <1>5, <1>6, <1>7 DEF ViewOK

LEMMA CallStep ==
  ASSUME IInv, InboxInv, NEW r \in Call, CallMoves(r)
  PROVE  InboxInv'
<1>1. StampsOK'
  BY StampsStep DEF InboxInv
<1>2. view' = view
  BY DEF CallMoves, inboxVars
<1>3. ASSUME NEW v \in Reader
      PROVE  ViewOK(view[v])'
  <2>1. PICK w : w = view[v]
    OBVIOUS
  <2>2. ViewOK(w)'
    BY <1>1, <2>1, CallKeepsView DEF InboxInv
  <2>3. w = view'[v]
    BY <1>2, <2>1
  <2> QED BY <2>2, <2>3 DEF ViewOK, Passed, MineOK
<1> QED BY <1>1, <1>2, <1>3 DEF InboxInv

-----------------------------------------------------------------------------
(* Steps of a reader *)

\* All that a page begins with lies before its end.
LEMMA MoreAhead ==
  ASSUME StampsOK, NEW w, NEW S, NEW T, S \subseteq T, NEW given, NEW n \in Nat,
         Passed(w, S, given, n)
  PROVE  Passed(w, T, given, n)
<1> SUFFICES ASSUME NEW d \in w.begun \cap lastMessages, d.conversation \notin given,
                    ~ Tied(d, w.user)
             PROVE  Cardinality(Ahead(d, T)) >= n
  BY DEF Passed
<1>1. Cardinality(Ahead(d, S)) >= n
  BY DEF Passed
<1> QED BY <1>1, AheadOfMore, AheadFinite

LEMMA OpenOK ==
  ASSUME IInv, StampsOK, NEW u \in User,
         NEW q, q = [Closed EXCEPT !.pc = "next", !.user = u, !.begun = Listed(u)]
  PROVE  q \in View /\ ViewOK(q)
<1>1. /\ q.pc = "next" /\ q.user = u /\ q.skip = 0 /\ q.mine = {} /\ q.page = {} /\ q.shown = {}
      /\ q.begun = Listed(u)
  BY DEF Closed
<1>2. Listed(u) \subseteq lastMessages /\ lastMessages \subseteq LastMessage
  BY DEF Listed, IInv, TypeOK
<1>3. q \in View
  BY <1>2 DEF View, Closed
<1>4. \A d \in Listed(u) : d.message \in Call /\ Done(d.message) /\ d.conversation \in Mine(u)
  BY <1>2, EntriesDone DEF Listed, Mine
<1>5. Passed(q, Mine(u), {}, 0)
  BY AheadFinite DEF Passed
<1> QED BY <1>1, <1>3, <1>4, <1>5 DEF ViewOK

LEMMA FindMineOK ==
  ASSUME IInv, NEW w \in View, ViewOK(w), w.pc = "next",
         NEW q, q = [w EXCEPT !.pc = "entries", !.mine = Mine(w.user)]
  PROVE  q \in View /\ ViewOK(q)
<1>1. /\ q.pc = "entries" /\ q.user = w.user /\ q.skip = w.skip /\ q.mine = Mine(w.user)
      /\ q.shown = w.shown /\ q.begun = w.begun /\ q.page = w.page
  BY DEF View
<1>2. Mine(w.user) \subseteq Call
  BY DEF Mine, IInv, TypeOK, Conversation
<1>3. q \in View
  BY <1>2 DEF View
<1> QED BY <1>1, <1>3 DEF ViewOK, MineOK, Passed

\* The entries in front of one are all there are to sort, or n.
LEMMA FrontsAhead ==
  ASSUME IInv, StampsOK, NEW mine, NEW n \in Nat, NEW F \in Fronts(mine, n),
         NEW d \in Entries(mine)
  PROVE  /\ d \in F => Cardinality(Ahead(d, mine)) < n
         /\ \A u : d \notin F /\ mine \subseteq Mine(u) /\ ~ Tied(d, u)
                  => Cardinality(Ahead(d, mine)) >= n
<1>1. /\ F \subseteq Entries(mine) /\ Cardinality(F) <= n
      /\ Cardinality(F) < n => F = Entries(mine)
      /\ \A a \in F, b \in Entries(mine) \ F : stamp[b.message] <= stamp[a.message]
  BY DEF Fronts
<1> DEFINE ids == {e.id : e \in F}
<1>2. IsFiniteSet(ids) /\ IsFiniteSet(F) /\ Cardinality(F) = Cardinality(ids)
  BY <1>1, IdsCount DEF Entries
<1>3. Cardinality(F) \in Nat /\ Cardinality(Ahead(d, mine)) \in Nat
  BY <1>2, AheadFinite, FS_CardinalityType
<1>4. \A e \in Entries(mine) : e \in lastMessages /\ stamp[e.message] \in Nat
  BY EntriesDone DEF StampsOK, Entries
<1>5. ASSUME d \in F
      PROVE  Cardinality(Ahead(d, mine)) < n
  <2>1. Ahead(d, mine) \subseteq ids
    BY <1>1, <1>4, <1>5 DEF Ahead
  <2>2. d.id \in ids
    BY <1>5
  <2>3. d.id \notin Ahead(d, mine)
    BY <1>4, NotAheadOfItself
  <2>4. Cardinality(Ahead(d, mine)) <= Cardinality(ids) /\ Cardinality(Ahead(d, mine)) # Cardinality(ids)
    BY <1>2, <2>1, <2>2, <2>3, FS_Subset
  <2> QED BY <1>1, <1>2, <1>3, <2>4
<1>6. ASSUME NEW u, d \notin F, mine \subseteq Mine(u), ~ Tied(d, u)
      PROVE  Cardinality(Ahead(d, mine)) >= n
  <2>1. Cardinality(F) = n
    BY <1>1, <1>3, <1>6
  <2>2. ASSUME NEW e \in F
        PROVE  stamp[e.message] > stamp[d.message]
    <3>1. stamp[d.message] <= stamp[e.message]
      BY <1>1, <1>6
    <3>2. PICK m \in messages : m.id = e.message /\ m.conversation = e.conversation
      BY <1>1, <1>4 DEF IInv, PointersResolve
    <3>3. m.id # d.message
      BY <1>1, <1>4, <1>6, <3>2 DEF IInv, PointersResolve
    <3>4. m.conversation \in Mine(u)
      BY <1>1, <1>6, <3>2 DEF Entries
    <3>5. stamp[e.message] # stamp[d.message]
      BY <1>6, <3>2, <3>3, <3>4 DEF Tied
    <3> QED BY <1>1, <1>4, <3>1, <3>5
  <2>3. ids \subseteq Ahead(d, mine)
    BY <1>1, <2>2 DEF Ahead
  <2> QED BY <1>2, <1>3, <2>1, <2>3, AheadFinite, FS_Subset
<1> QED BY <1>5, <1>6

LEMMA FindEntriesOK ==
  ASSUME IInv, StampsOK, NEW w \in View, ViewOK(w), w.pc = "entries",
         NEW F \in Fronts(w.mine, w.skip), NEW G \in Fronts(w.mine, w.skip + Limit),
         NEW q, q = [w EXCEPT !.pc = "count", !.page = G \ F]
  PROVE  q \in View /\ ViewOK(q)
<1>1. /\ q.pc = "count" /\ q.user = w.user /\ q.skip = w.skip /\ q.mine = w.mine
      /\ q.shown = w.shown /\ q.begun = w.begun /\ q.page = G \ F
  BY DEF View
<1>2. G \subseteq LastMessage
  BY DEF Fronts, Entries, IInv, TypeOK
<1>3. q \in View
  BY <1>2 DEF View
<1>4. MineOK(w) /\ Passed(w, w.mine, w.shown, w.skip)
  BY DEF ViewOK
<1>5. Passed(q, q.mine, q.shown \cup {d.conversation : d \in q.page}, q.skip + Limit)
  <2> SUFFICES ASSUME NEW d \in w.begun \cap lastMessages, ~ Tied(d, w.user),
                      d.conversation \notin w.shown, d \notin G \ F
               PROVE  Cardinality(Ahead(d, w.mine)) >= w.skip + Limit
    BY <1>1 DEF Passed
  <2>1. Cardinality(Ahead(d, w.mine)) >= w.skip
    BY <1>4 DEF Passed
  <2>2. d \in Entries(w.mine)
    BY <1>4 DEF MineOK, Entries
  <2>3. Cardinality(Ahead(d, w.mine)) \in Nat /\ w.skip \in Nat /\ w.skip + Limit \in Nat
    BY AheadFinite, LimitAssumption DEF View
  <2>4. d \notin F
    BY <2>1, <2>2, <2>3, FrontsAhead
  <2> QED BY <1>4, <2>2, <2>3, <2>4, FrontsAhead DEF MineOK
<1> QED BY <1>1, <1>3, <1>4, <1>5 DEF ViewOK, MineOK, Passed

LEMMA CountEntriesOK ==
  ASSUME IInv, StampsOK, NEW w \in View, ViewOK(w), w.pc = "count",
         NEW total, total = Cardinality({d.id : d \in Entries(w.mine)}),
         NEW q, q = [w EXCEPT !.pc = IF w.skip + Limit >= total THEN "ended" ELSE "next",
                              !.skip = w.skip + Limit,
                              !.shown = w.shown \cup {d.conversation : d \in w.page},
                              !.mine = {}, !.page = {}]
  PROVE  q \in View /\ ViewOK(q)
<1> DEFINE given == w.shown \cup {d.conversation : d \in w.page}
<1>1. /\ q.pc = (IF w.skip + Limit >= total THEN "ended" ELSE "next") /\ q.user = w.user
      /\ q.skip = w.skip + Limit /\ q.mine = {} /\ q.shown = given
      /\ q.begun = w.begun /\ q.page = {}
  BY DEF View
<1>2. given \subseteq Ref /\ w.skip + Limit \in Nat
  BY LimitAssumption DEF View, LastMessage
<1>3. q \in View
  BY <1>2 DEF View
<1>4. MineOK(w) /\ Passed(w, w.mine, given, w.skip + Limit)
  BY DEF ViewOK
<1>5. Passed(w, Mine(w.user), given, w.skip + Limit)
  BY <1>2, <1>4, MoreAhead DEF MineOK
<1>6. ASSUME w.skip + Limit >= total, NEW d \in w.begun \cap lastMessages
      PROVE  d.conversation \in given \/ Tied(d, w.user)
  <2> SUFFICES ASSUME d.conversation \notin given, ~ Tied(d, w.user)
               PROVE  FALSE
    OBVIOUS
  <2>1. Cardinality(Ahead(d, w.mine)) >= w.skip + Limit
    BY <1>4 DEF Passed
  <2>2. d \in Entries(w.mine)
    BY <1>4 DEF MineOK, Entries
  <2> DEFINE ids == {e.id : e \in Entries(w.mine)}
  <2>3. Ahead(d, w.mine) \subseteq ids /\ d.id \in ids
    BY <2>2 DEF Ahead
  <2>4. d.id \notin Ahead(d, w.mine)
    BY <2>2, NotAheadOfItself
  <2>5. IsFiniteSet(ids)
    <3>1. ids \subseteq {e.id : e \in lastMessages}
      BY DEF Entries
    <3> QED BY <3>1, FS_Subset DEF StampsOK
  <2>6. Cardinality(Ahead(d, w.mine)) <= total /\ Cardinality(Ahead(d, w.mine)) # total
    BY <2>3, <2>4, <2>5, FS_Subset
  <2>7. Cardinality(Ahead(d, w.mine)) \in Nat /\ total \in Nat
    BY <2>5, AheadFinite, FS_CardinalityType
  <2> QED BY <1>2, <1>6, <2>1, <2>6, <2>7
<1>7. \A d \in w.begun : d.message \in Call /\ Done(d.message) /\ d.conversation \in Mine(w.user)
  BY DEF ViewOK
<1>8. q.pc = "next" => Passed(q, Mine(q.user), q.shown, q.skip)
  BY <1>1, <1>5 DEF Passed
<1>9. q.pc = "ended" => \A d \in q.begun \cap lastMessages :
                         d.conversation \in q.shown \/ Tied(d, q.user)
  BY <1>1, <1>6
<1>10. q.pc \in {"next", "ended"}
  BY <1>1
<1> QED BY <1>1, <1>2, <1>3, <1>7, <1>8, <1>9, <1>10 DEF ViewOK

LEMMA FailListOK ==
  ASSUME StampsOK, NEW w \in View, ViewOK(w), w.pc \in {"entries", "count"},
         NEW q, q = [w EXCEPT !.pc = "next", !.mine = {}, !.page = {}]
  PROVE  q \in View /\ ViewOK(q)
<1>1. /\ q.pc = "next" /\ q.user = w.user /\ q.skip = w.skip
      /\ q.shown = w.shown /\ q.begun = w.begun
  BY DEF View
<1>2. q \in View
  BY DEF View
<1>3. MineOK(w) /\ Passed(w, w.mine, w.shown, w.skip)
  BY DEF ViewOK
<1>4. Passed(w, Mine(w.user), w.shown, w.skip)
  BY <1>3, MoreAhead DEF MineOK, View
<1> QED BY <1>1, <1>2, <1>4 DEF ViewOK, Passed

LEMMA ReaderStep ==
  ASSUME IInv, InboxInv, NEW v \in Reader, ReaderMoves(v)
  PROVE  InboxInv'
<1>1. UNCHANGED <<vars, time, stamp>>
  BY DEF ReaderMoves
<1>2. StampsOK'
  BY <1>1 DEF InboxInv, StampsOK, vars
<1>3. PICK w : w = view[v]
  OBVIOUS
<1>4. w \in View /\ ViewOK(w) /\ StampsOK /\ view \in [Reader -> View]
  BY <1>3 DEF InboxInv
<1>5. \E q : q \in View /\ ViewOK(q) /\ view' = [view EXCEPT ![v] = q]
  <2>1. ASSUME NEW u \in User, Open(v, u)
        PROVE  \E q : q \in View /\ ViewOK(q) /\ view' = [view EXCEPT ![v] = q]
    <3>1. PICK q : q = [Closed EXCEPT !.pc = "next", !.user = u, !.begun = Listed(u)]
      OBVIOUS
    <3> QED BY <1>4, <2>1, <3>1, OpenOK DEF Open
  <2>2. CASE FindMine(v)
    <3>1. PICK q : q = [w EXCEPT !.pc = "entries", !.mine = Mine(w.user)]
      OBVIOUS
    <3> QED BY <1>3, <1>4, <2>2, <3>1, FindMineOK DEF FindMine
  <2>3. CASE FindEntries(v)
    <3>1. PICK F \in Fronts(w.mine, w.skip), G \in Fronts(w.mine, w.skip + Limit) :
             view' = [view EXCEPT ![v].pc = "count", ![v].page = G \ F]
      BY <1>3, <2>3 DEF FindEntries
    <3>2. PICK q : q = [w EXCEPT !.pc = "count", !.page = G \ F]
      OBVIOUS
    <3>3. view' = [view EXCEPT ![v] = q]
      BY <1>3, <1>4, <3>1, <3>2
    <3> QED BY <1>3, <1>4, <2>3, <3>2, <3>3, FindEntriesOK DEF FindEntries
  <2>4. CASE CountEntries(v)
    <3>1. PICK total : total = Cardinality({d.id : d \in Entries(w.mine)})
      OBVIOUS
    <3>2. PICK q : q = [w EXCEPT !.pc = IF w.skip + Limit >= total THEN "ended" ELSE "next",
                                 !.skip = w.skip + Limit,
                                 !.shown = w.shown \cup {d.conversation : d \in w.page},
                                 !.mine = {}, !.page = {}]
      OBVIOUS
    <3>3. view' = [view EXCEPT ![v] = q]
      BY <1>3, <1>4, <2>4, <3>1, <3>2 DEF CountEntries
    <3> QED BY <1>3, <1>4, <2>4, <3>1, <3>2, <3>3, CountEntriesOK DEF CountEntries
  <2>5. CASE FailList(v)
    <3>1. PICK q : q = [w EXCEPT !.pc = "next", !.mine = {}, !.page = {}]
      OBVIOUS
    <3> QED BY <1>3, <1>4, <2>5, <3>1, FailListOK DEF FailList
  <2> QED BY <2>1, <2>2, <2>3, <2>4, <2>5 DEF ReaderMoves
<1>6. PICK q : q \in View /\ ViewOK(q) /\ view' = [view EXCEPT ![v] = q]
  BY <1>5
<1>7. view' \in [Reader -> View] /\ \A x \in Reader : ViewOK(view'[x])
  BY <1>4, <1>6 DEF InboxInv
<1>8. \A x \in Reader : ViewOK(view[x])'
  BY <1>1, <1>7
  DEF ViewOK, Passed, MineOK, Mine, Ahead, Entries, Tied, Done, vars
<1> QED BY <1>2, <1>7, <1>8 DEF InboxInv

-----------------------------------------------------------------------------
(* The theorem *)

\* What readers were given and what lies before the rest, at every step.
THEOREM InboxInvariance == InboxSpec => []InboxInv
<1>1. InboxInit => InboxInv
  <2> SUFFICES ASSUME InboxInit
               PROVE  InboxInv
    OBVIOUS
  <2>1. {d.id : d \in lastMessages} = {} /\ IsFiniteSet({})
    BY FS_EmptySet DEF InboxInit, Init
  <2>2. StampsOK
    BY <2>1 DEF InboxInit, Init, StampsOK, Idle
  <2>3. view \in [Reader -> View]
    BY DEF InboxInit, View, Closed
  <2>4. \A v \in Reader : ViewOK(view[v])
    BY DEF InboxInit, Closed, ViewOK
  <2> QED BY <2>2, <2>3, <2>4 DEF InboxInv
<1>2. IInv /\ InboxInv /\ [InboxNext]_allVars => InboxInv'
  <2> SUFFICES ASSUME IInv, InboxInv, [InboxNext]_allVars
               PROVE  InboxInv'
    OBVIOUS
  <2>1. CASE UNCHANGED allVars
    BY <2>1 DEF allVars, inboxVars, vars, InboxInv, StampsOK, ViewOK, Passed, MineOK, Mine, Ahead,
                Entries, Tied, Done
  <2> QED BY <2>1, CallStep, ReaderStep DEF InboxNext
<1> QED BY <1>1, <1>2, ReadersUnnoticed, Invariance, PTL DEF InboxSpec

\* lastConversations: although its three reads are in no transaction and pages
\* are counted from the front of a list that moves, a reader that has come to
\* the end was shown all that was there and has stayed, but for entries with
\* equal times.
THEOREM ReadersOverlookNothing == InboxSpec => []NothingOverlooked
<1>1. InboxInv => NothingOverlooked
  BY DEF InboxInv, ViewOK, NothingOverlooked
<1> QED BY <1>1, InboxInvariance, PTL
=============================================================================
