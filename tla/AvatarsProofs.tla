---------------------------- MODULE AvatarsProofs ----------------------------
(***************************************************************************)
(* Proofs about Avatars, for any users, any number of calls and any number *)
(* of them in flight.                                                      *)
(***************************************************************************)
EXTENDS Avatars, TLAPS

-----------------------------------------------------------------------------
(* The inductive invariant *)

Uploading == {"checkSize", "findUser", "convert", "insertAsset", "removeTemp",
              "saveUser", "commit"}

\* What the position of a handler says of the files: an upload that gets as far
\* as its document has its image, one past the finally block or a read has no
\* temporary file of its own.
HandlerOK(r) ==
  /\ call[r].pc \in Uploading => call[r].user \in User
  /\ call[r].pc \in {"insertAsset", "saveUser", "commit"} => r \in images
  /\ call[r].pc = "removeTemp" /\ call[r].ok => r \in images
  /\ call[r].pc = "openFile" => call[r].asset \in images
  /\ call[r].pc \in {"idle", "openFile", "saveUser", "commit"} => r \notin temp
  /\ call[r].pc = "ended" /\ r \in temp => r \in leaked

AssetsHaveFiles == \A a \in assets : a.id \in images

AvatarsAreAssets ==
  \A u \in User : avatar[u] # None => [id |-> avatar[u], uploader |-> u] \in assets

IInv ==
  /\ TypeOK
  /\ \A r \in Call : HandlerOK(r)
  /\ AssetsHaveFiles
  /\ AvatarsAreAssets

LEMMA Initially == Init => IInv
BY NoneAssumption
   DEF Init, IInv, TypeOK, HandlerOK, AssetsHaveFiles, AvatarsAreAssets, CallState, Idle, Pc,
       Uploading

-----------------------------------------------------------------------------
(* Steps of one call *)

\* A step of r moves r only, keeps every image and touches no other temporary
\* file; then the other handlers know what they knew.
Moves(r) ==
  /\ \E c \in CallState : call' = [call EXCEPT ![r] = c]
  /\ images \subseteq images'
  /\ temp \ {r} = temp' \ {r}
  /\ leaked \subseteq leaked'

LEMMA OthersKept ==
  ASSUME IInv, NEW r \in Call, Moves(r), NEW s \in Call, s # r
  PROVE  HandlerOK(s)'
<1>1. call'[s] = call[s]
  BY DEF Moves, IInv, TypeOK
<1>2. HandlerOK(s)
  BY DEF IInv
<1>3. s \in temp <=> s \in temp'
  BY DEF Moves
<1> QED BY <1>1, <1>2, <1>3 DEF HandlerOK, Moves, Uploading

\* A step that also leaves the documents alone has only its own handler to show.
LEMMA LocalStep ==
  ASSUME IInv, NEW r \in Call, Moves(r), UNCHANGED documents,
         temp' \subseteq Call, images' \subseteq Call, leaked' \subseteq Call,
         HandlerOK(r)'
  PROVE  IInv'
<1>1. TypeOK'
  BY DEF IInv, TypeOK, Moves, documents
<1>2. \A s \in Call : HandlerOK(s)'
  BY OthersKept
<1>3. AssetsHaveFiles' /\ AvatarsAreAssets'
  BY DEF IInv, AssetsHaveFiles, AvatarsAreAssets, Moves, documents
<1> QED BY <1>1, <1>2, <1>3 DEF IInv

\* An ended call leaves no file of its own, unless that is accounted for.
LEMMA EndStep ==
  ASSUME IInv, NEW r \in Call, End(r), UNCHANGED documents, images' = images,
         temp' \subseteq Call, leaked' \subseteq Call, leaked \subseteq leaked',
         temp \ {r} = temp' \ {r}, r \in temp' => r \in leaked'
  PROVE  IInv'
<1>1. [Idle EXCEPT !.pc = "ended"] \in CallState
  BY DEF CallState, Idle, Pc
<1>2. Moves(r)
  BY <1>1 DEF Moves, End
<1>3. call'[r].pc = "ended"
  BY DEF End, Idle, IInv, TypeOK
<1>4. HandlerOK(r)'
  BY <1>3 DEF HandlerOK, Uploading
<1> QED BY <1>2, <1>4, LocalStep DEF IInv, TypeOK

LEMMA CommitKeeps ==
  ASSUME IInv, NEW r \in Call, CommitAvatar(r)
  PROVE  IInv'
<1> DEFINE a == [id |-> r, uploader |-> call[r].user]
<1>1. /\ call[r] \in CallState /\ HandlerOK(r)
      /\ call[r].user \in User /\ r \in images /\ r \notin temp
  BY DEF IInv, TypeOK, HandlerOK, CommitAvatar, Uploading
<1>2. [Idle EXCEPT !.pc = "ended"] \in CallState
  BY DEF CallState, Idle, Pc
<1>3. Moves(r) /\ UNCHANGED files
  BY <1>2 DEF Moves, End, CommitAvatar, files
<1>4. TypeOK'
  BY <1>1, <1>3 DEF IInv, TypeOK, Moves, CommitAvatar, Asset, files
<1>5. \A s \in Call : HandlerOK(s)'
  <2>1. call'[r].pc = "ended"
    BY DEF CommitAvatar, End, Idle, IInv, TypeOK
  <2>2. HandlerOK(r)'
    BY <1>1, <1>3, <2>1 DEF HandlerOK, Uploading, files
  <2> QED BY <1>3, <2>2, OthersKept
<1>6. AssetsHaveFiles'
  BY <1>1, <1>3 DEF IInv, AssetsHaveFiles, CommitAvatar, files
<1>7. AvatarsAreAssets'
  BY <1>1 DEF IInv, TypeOK, AvatarsAreAssets, CommitAvatar
<1> QED BY <1>4, <1>5, <1>6, <1>7 DEF IInv

LEMMA CrashKeeps == IInv /\ Crash => IInv'
<1> SUFFICES ASSUME IInv, Crash PROVE IInv'
  OBVIOUS
<1>1. [Idle EXCEPT !.pc = "ended"] \in CallState
  BY DEF CallState, Idle, Pc
<1>2. TypeOK'
  BY <1>1 DEF IInv, TypeOK, Crash, documents
<1>3. ASSUME NEW r \in Call PROVE HandlerOK(r)'
  <2>1. HandlerOK(r)
    BY DEF IInv
  <2>2. CASE r \in InFlight
    <3>1. call'[r].pc = "ended"
      BY <2>2 DEF Crash, Idle
    <3> QED BY <2>2, <3>1 DEF Crash, HandlerOK, Uploading
  <2>3. CASE r \notin InFlight
    <3>1. call'[r] = call[r]
      BY <2>3 DEF Crash
    <3> QED BY <2>1, <3>1 DEF Crash, HandlerOK, Uploading
  <2> QED BY <2>2, <2>3
<1>4. AssetsHaveFiles' /\ AvatarsAreAssets'
  BY DEF IInv, Crash, AssetsHaveFiles, AvatarsAreAssets, documents
<1> QED BY <1>2, <1>3, <1>4 DEF IInv

LEMMA StepKeeps ==
  ASSUME IInv, NEW r \in Call, Step(r)
  PROVE  IInv'
<1> USE DEF Goto, files, documents
<1>1. call[r] \in CallState /\ call \in [Call -> CallState] /\ HandlerOK(r)
  BY DEF IInv, TypeOK
<1>2. temp \subseteq Call /\ images \subseteq Call /\ leaked \subseteq Call
  BY DEF IInv, TypeOK
<1>3. CASE CheckSize(r)
  <2>1. CASE Goto(r, "findUser") /\ UNCHANGED leaked
    <3>1. Moves(r)
      BY <1>1, <1>3, <2>1 DEF Moves, CheckSize, CallState, Pc
    <3>2. HandlerOK(r)'
      BY <1>1, <1>3, <2>1 DEF HandlerOK, CheckSize, Uploading
    <3> QED BY <1>2, <1>3, <2>1, <3>1, <3>2, LocalStep DEF CheckSize
  <2>2. CASE End(r) /\ leaked' = leaked \cup {r}
    BY <1>2, <1>3, <2>2, EndStep DEF CheckSize
  <2> QED BY <1>3, <2>1, <2>2 DEF CheckSize
<1>4. CASE FindUser(r)
  <2>1. Moves(r)
    BY <1>1, <1>4 DEF Moves, FindUser, CallState, Pc
  <2>2. HandlerOK(r)'
    BY <1>1, <1>4 DEF HandlerOK, FindUser, Uploading
  <2> QED BY <1>2, <1>4, <2>1, <2>2, LocalStep DEF FindUser
<1>5. CASE ConvertImage(r)
  <2>1. Moves(r)
    BY <1>1, <1>5 DEF Moves, ConvertImage, CallState, Pc
  <2>2. HandlerOK(r)'
    BY <1>1, <1>5 DEF HandlerOK, ConvertImage, Uploading
  <2> QED BY <1>2, <1>5, <2>1, <2>2, LocalStep DEF ConvertImage
<1>6. CASE InsertAsset(r)
  <2>1. call[r].user \in User
    BY <1>1, <1>6 DEF HandlerOK, InsertAsset, Uploading
  <2>2. avatar[call[r].user] \in Call \cup {None}
    BY <2>1 DEF IInv, TypeOK
  <2>3. PICK saw \in Call \cup {None} :
          call' = [call EXCEPT ![r].pc = "removeTemp", ![r].saw = saw]
    BY <1>6, <2>2 DEF InsertAsset
  <2>4. Moves(r)
    BY <1>1, <1>6, <2>3 DEF Moves, InsertAsset, CallState, Pc
  <2>5. HandlerOK(r)'
    BY <1>1, <1>6, <2>3 DEF HandlerOK, InsertAsset, Uploading
  <2> QED BY <1>2, <1>6, <2>4, <2>5, LocalStep DEF InsertAsset
<1>7. CASE RemoveTemp(r)
  <2>1. CASE call[r].ok
    <3>1. Moves(r)
      BY <1>1, <1>7, <2>1 DEF Moves, RemoveTemp, CallState, Pc
    <3>2. call'[r].pc = "saveUser" /\ call'[r].user = call[r].user /\ r \notin temp'
      BY <1>1, <1>7, <2>1 DEF RemoveTemp, CallState
    <3>3. call[r].user \in User /\ r \in images'
      BY <1>1, <1>7, <2>1 DEF HandlerOK, RemoveTemp, Uploading
    <3>4. HandlerOK(r)'
      BY <3>2, <3>3 DEF HandlerOK, Uploading
    <3> QED BY <1>2, <1>7, <3>1, <3>4, LocalStep DEF RemoveTemp
  <2>2. CASE ~ call[r].ok
    BY <1>2, <1>7, <2>2, EndStep DEF RemoveTemp
  <2> QED BY <2>1, <2>2
<1>8. CASE SaveUser(r)
  <2>1. CASE WriteConflict(r)
    BY <1>1, <1>2, <1>8, <2>1, EndStep DEF SaveUser, HandlerOK
  <2>2. CASE ~ WriteConflict(r)
    <3>1. Moves(r)
      BY <1>1, <1>8, <2>2 DEF Moves, SaveUser, CallState, Pc
    <3>2. call'[r].pc = "commit" /\ call'[r].user = call[r].user /\ UNCHANGED files
      BY <1>1, <1>8, <2>2 DEF SaveUser, CallState
    <3>3. call[r].user \in User /\ r \in images /\ r \notin temp
      BY <1>1, <1>8, <2>2 DEF HandlerOK, SaveUser, Uploading
    <3>4. HandlerOK(r)'
      BY <3>2, <3>3 DEF HandlerOK, Uploading
    <3> QED BY <1>2, <1>8, <3>1, <3>4, LocalStep DEF SaveUser
  <2> QED BY <2>1, <2>2
<1>9. CASE CommitAvatar(r)
  BY <1>9, CommitKeeps
<1>10. CASE OpenFile(r)
  BY <1>1, <1>2, <1>10, EndStep DEF OpenFile, HandlerOK
<1> QED BY <1>3, <1>4, <1>5, <1>6, <1>7, <1>8, <1>9, <1>10 DEF Step

LEMMA ArrivalKeeps ==
  ASSUME IInv, NEW r \in Call, \/ \E u \in User : StoreUpload(r, u)
                               \/ \E id \in Call : FindAsset(r, id)
  PROVE  IInv'
<1> USE DEF files, documents
<1>1. /\ call \in [Call -> CallState] /\ HandlerOK(r)
      /\ temp \subseteq Call /\ images \subseteq Call /\ leaked \subseteq Call
  BY DEF IInv, TypeOK
<1>2. ASSUME NEW u \in User, StoreUpload(r, u)
      PROVE  IInv'
  <2>1. CASE temp' = temp \cup {r} /\
             call' = [call EXCEPT ![r] = [Idle EXCEPT !.pc = "checkSize", !.user = u]]
    <3>1. [Idle EXCEPT !.pc = "checkSize", !.user = u] \in CallState
      BY DEF CallState, Idle, Pc
    <3>2. Moves(r)
      BY <1>2, <2>1, <3>1 DEF Moves, StoreUpload
    <3>3. HandlerOK(r)'
      BY <1>1, <2>1 DEF HandlerOK, Idle, Uploading
    <3> QED BY <1>1, <1>2, <2>1, <3>2, <3>3, LocalStep DEF StoreUpload
  <2>2. CASE End(r) /\ UNCHANGED temp
    BY <1>1, <1>2, <2>2, EndStep DEF StoreUpload, Arrives, HandlerOK
  <2> QED BY <1>2, <2>1, <2>2 DEF StoreUpload
<1>3. ASSUME NEW id \in Call, FindAsset(r, id)
      PROVE  IInv'
  <2>1. r \notin temp
    BY <1>1, <1>3 DEF FindAsset, Arrives, HandlerOK
  <2>2. CASE \E a \in assets : a.id = id
    <3>1. call' = [call EXCEPT ![r] = [Idle EXCEPT !.pc = "openFile", !.asset = id]]
      BY <1>3, <2>2 DEF FindAsset
    <3>2. [Idle EXCEPT !.pc = "openFile", !.asset = id] \in CallState
      BY DEF CallState, Idle, Pc
    <3>3. Moves(r)
      BY <1>3, <3>1, <3>2 DEF Moves, FindAsset
    <3>4. id \in images
      BY <2>2 DEF IInv, AssetsHaveFiles
    <3>5. HandlerOK(r)'
      BY <1>1, <1>3, <2>1, <3>1, <3>4 DEF HandlerOK, FindAsset, Idle, Uploading
    <3> QED BY <1>1, <1>3, <3>3, <3>5, LocalStep DEF FindAsset
  <2>3. CASE ~ \E a \in assets : a.id = id
    BY <1>1, <1>3, <2>1, <2>3, EndStep DEF FindAsset
  <2> QED BY <2>2, <2>3
<1> QED BY <1>2, <1>3

LEMMA FailureKeeps ==
  ASSUME IInv, NEW r \in Call, UploadFails(r) \/ Fail(r)
  PROVE  IInv'
<1> USE DEF files, documents
<1>1. /\ call \in [Call -> CallState] /\ HandlerOK(r)
      /\ temp \subseteq Call /\ images \subseteq Call /\ leaked \subseteq Call
  BY DEF IInv, TypeOK
<1>2. CASE UploadFails(r)
  <2>1. images \subseteq images' /\ images' \subseteq Call
    BY <1>1, <1>2 DEF UploadFails
  <2>2. Moves(r)
    BY <1>1, <1>2, <2>1 DEF Moves, UploadFails, CallState, Pc
  <2>3. HandlerOK(r)'
    BY <1>1, <1>2 DEF HandlerOK, UploadFails, Uploading
  <2> QED BY <1>1, <1>2, <2>1, <2>2, <2>3, LocalStep DEF UploadFails
<1>3. CASE Fail(r)
  BY <1>1, <1>3, EndStep DEF Fail
<1> QED BY <1>2, <1>3

\* The invariant is inductive.
THEOREM AvatarsInvariance == Spec => []IInv
<1>1. Init => IInv
  BY Initially
<1>2. IInv /\ [Next]_vars => IInv'
  <2> SUFFICES ASSUME IInv, [Next]_vars PROVE IInv'
    OBVIOUS
  <2>1. CASE Next
    BY <2>1, ArrivalKeeps, StepKeeps, FailureKeeps, CrashKeeps DEF Next
  <2>2. CASE UNCHANGED vars
    BY <2>2 DEF vars, files, documents, IInv, TypeOK, HandlerOK, AssetsHaveFiles,
                AvatarsAreAssets, Uploading
  <2> QED BY <2>1, <2>2
<1> QED BY <1>1, <1>2, PTL DEF Spec

-----------------------------------------------------------------------------
(* The properties *)

\* Files, documents and handlers are well typed.
THEOREM AvatarsTypeCorrect == Spec => []TypeOK
<1>1. IInv => TypeOK
  BY DEF IInv
<1> QED BY <1>1, AvatarsInvariance, PTL

\* An avatar has its asset and its file, whatever fails and whatever overlaps.
THEOREM AvatarsResolve == Spec => []AvatarResolves
<1>1. IInv => AvatarResolves
  BY DEF IInv, AvatarResolves, AssetsHaveFiles, AvatarsAreAssets
<1> QED BY <1>1, AvatarsInvariance, PTL

\* A found asset can be read.
THEOREM FoundFilesExist == Spec => []FoundFileExists
<1>1. IInv => FoundFileExists
  BY DEF IInv, FoundFileExists, HandlerOK
<1> QED BY <1>1, AvatarsInvariance, PTL

\* No uploaded file stays behind unaccounted for.
THEOREM TempFilesAccountedFor == Spec => []TempAccountedFor
<1>1. IInv => TempAccountedFor
  BY DEF IInv, TypeOK, TempAccountedFor, HandlerOK, InFlight
<1> QED BY <1>1, AvatarsInvariance, PTL

\* An asset appears only together with the avatar it is for.
THEOREM AssetsAreAvatars == Spec => AssetsBecomeAvatars
<1>1. IInv /\ [Next]_vars =>
        [\A a \in Asset : a \in assets' \ assets => avatar'[a.uploader] = a.id]_vars
  <2> SUFFICES ASSUME IInv, Next, NEW a \in Asset, a \in assets', a \notin assets
               PROVE  avatar'[a.uploader] = a.id
    BY DEF vars, documents
  <2>1. PICK r \in Call : CommitAvatar(r)
    BY DEF Next, Step, StoreUpload, CheckSize, FindUser, ConvertImage, InsertAsset,
           RemoveTemp, SaveUser, OpenFile, FindAsset, UploadFails, Fail, Crash, documents
  <2>2. a = [id |-> r, uploader |-> call[r].user]
    BY <2>1 DEF CommitAvatar
  <2>3. call[r].user \in User
    BY <2>1 DEF IInv, HandlerOK, CommitAvatar, Uploading
  <2> QED BY <2>1, <2>2, <2>3 DEF CommitAvatar, IInv, TypeOK
<1> QED BY <1>1, AvatarsInvariance, PTL DEF Spec, AssetsBecomeAvatars
=============================================================================
