------------------------------- MODULE Avatars -------------------------------
(***************************************************************************)
(* UsersService.updateAvatar and AssetsService: a user uploads an image,   *)
(* which passes through a file in assets/temp, a converted file in         *)
(* assets/images and a document of the collection 'assets' before it       *)
(* becomes the avatar of the user; any user may then read it by its id.    *)
(*                                                                         *)
(* File and document of an upload are named by its call, which stands for  *)
(* the random UUID and the fresh ObjectId.  Other calls run at every       *)
(* await.  File systems take no part in transactions.                      *)
(***************************************************************************)
EXTENDS Naturals, FiniteSets

CONSTANTS
  User,        \* ids of registered users
  Call,        \* API calls, also the names of what they store
  None,        \* null
  MaxInFlight  \* bound: calls whose handlers may be running at once

VARIABLES
  temp,    \* files in assets/temp
  images,  \* files in assets/images
  assets,  \* collection 'assets'
  avatar,  \* field avatar of the users
  leaked,  \* history: calls that ended without removing their temporary file
  call     \* call -> position and local variables of its handler

files == <<temp, images, leaked>>
documents == <<assets, avatar>>
vars == <<files, documents, call>>

Asset == [id: Call, uploader: User]

ASSUME NoneAssumption == None \notin Call /\ None \notin User

ASSUME BoundAssumption == MaxInFlight \in Nat

Pc == {"idle", "checkSize", "findUser", "convert", "insertAsset", "removeTemp",
       "saveUser", "commit", "openFile", "ended"}

CallState ==
  [pc: Pc,
   user: User \cup {None},   \* the caller
   asset: Call \cup {None},  \* asset to be read
   ok: BOOLEAN,              \* uploadImage is about to return, not to throw
   saw: Call \cup {None}]    \* avatar of the user in the transaction's snapshot

Idle == [pc |-> "idle", user |-> None, asset |-> None, ok |-> TRUE, saw |-> None]

InFlight == {r \in Call : call[r].pc \notin {"idle", "ended"}}

Arrives(r) ==
  /\ call[r].pc = "idle"
  /\ Cardinality(InFlight) < MaxInFlight

Goto(r, pc) == call' = [call EXCEPT ![r].pc = pc]

End(r) == call' = [call EXCEPT ![r] = [Idle EXCEPT !.pc = "ended"]]

-----------------------------------------------------------------------------
(* PUT /users/me/avatar *)

\* FileInterceptor: a file of another type is refused before it is stored.
StoreUpload(r, u) ==
  /\ Arrives(r)
  /\ \/ /\ temp' = temp \cup {r}
        /\ call' = [call EXCEPT ![r] = [Idle EXCEPT !.pc = "checkSize", !.user = u]]
     \/ End(r) /\ UNCHANGED temp
  /\ UNCHANGED <<images, leaked, documents>>

\* ParseFilePipe runs after the interceptor has stored the file: the file of
\* a request refused for its size stays.
CheckSize(r) ==
  /\ call[r].pc = "checkSize"
  /\ \/ Goto(r, "findUser") /\ UNCHANGED leaked
     \/ End(r) /\ leaked' = leaked \cup {r}
  /\ UNCHANGED <<temp, images, documents>>

\* The user document is loaded, then the session started.
FindUser(r) ==
  /\ call[r].pc = "findUser"
  /\ Goto(r, "convert")
  /\ UNCHANGED <<files, documents>>

\* convertImageToWebp, and the size of what it has written.
ConvertImage(r) ==
  /\ call[r].pc = "convert"
  /\ images' = images \cup {r}
  /\ Goto(r, "insertAsset")
  /\ UNCHANGED <<temp, leaked, documents>>

\* Mutant: the asset is created without the session.
InsertAsset_OutsideTransaction(r) ==
  /\ call[r].pc = "insertAsset"
  /\ assets' = assets \cup {[id |-> r, uploader |-> call[r].user]}
  /\ call' = [call EXCEPT ![r].pc = "removeTemp", ![r].saw = avatar[call[r].user]]
  /\ UNCHANGED <<files, avatar>>

\* The first operation of the transaction, which takes its snapshot.
InsertAsset(r) ==
  /\ call[r].pc = "insertAsset"
  /\ call' = [call EXCEPT ![r].pc = "removeTemp", ![r].saw = avatar[call[r].user]]
  /\ UNCHANGED <<files, documents>>

\* Mutant: the file goes only when the upload has succeeded.
RemoveTemp_OnSuccess(r) ==
  /\ call[r].pc = "removeTemp"
  /\ temp' = IF call[r].ok THEN temp \ {r} ELSE temp
  /\ IF call[r].ok THEN Goto(r, "saveUser") ELSE End(r)
  /\ UNCHANGED <<images, leaked, documents>>

\* The finally block of uploadImage: the uploaded file goes, then the result is
\* returned or the error thrown, which aborts the transaction.
RemoveTemp(r) ==
  /\ call[r].pc = "removeTemp"
  /\ temp' = temp \ {r}
  /\ IF call[r].ok THEN Goto(r, "saveUser") ELSE End(r)
  /\ UNCHANGED <<images, leaked, documents>>

\* The user was written by another open transaction, or since the snapshot.
WriteConflict(r) ==
  \/ avatar[call[r].user] # call[r].saw
  \/ \E s \in Call \ {r} : call[s].pc = "commit" /\ call[s].user = call[r].user

\* Mutant: the user is saved without the session.
SaveUser_OutsideTransaction(r) ==
  /\ call[r].pc = "saveUser"
  /\ IF WriteConflict(r) THEN End(r) /\ UNCHANGED avatar
     ELSE Goto(r, "commit") /\ avatar' = [avatar EXCEPT ![call[r].user] = r]
  /\ UNCHANGED <<files, assets>>

\* save writes the one path that was changed.  A write conflict aborts.
SaveUser(r) ==
  /\ call[r].pc = "saveUser"
  /\ IF WriteConflict(r) THEN End(r) ELSE Goto(r, "commit")
  /\ UNCHANGED <<files, documents>>

\* Mutant: the user gets the asset in place of its id.
CommitAvatar_Document(r) ==
  /\ call[r].pc = "commit"
  /\ assets' = assets \cup {[id |-> r, uploader |-> call[r].user]}
  /\ avatar' = [avatar EXCEPT ![call[r].user] = [id |-> r, uploader |-> call[r].user]]
  /\ End(r)
  /\ UNCHANGED files

\* The transaction commits the asset and the user.
CommitAvatar(r) ==
  /\ call[r].pc = "commit"
  /\ assets' = assets \cup {[id |-> r, uploader |-> call[r].user]}
  /\ avatar' = [avatar EXCEPT ![call[r].user] = r]
  /\ End(r)
  /\ UNCHANGED files

-----------------------------------------------------------------------------
(* GET /assets/:assetId *)

\* Mutant: the document is not looked up.
FindAsset_Any(r, id) ==
  /\ Arrives(r)
  /\ call' = [call EXCEPT ![r] = [Idle EXCEPT !.pc = "openFile", !.asset = id]]
  /\ UNCHANGED <<files, documents>>

FindAsset(r, id) ==
  /\ Arrives(r)
  /\ IF \E a \in assets : a.id = id
       THEN call' = [call EXCEPT ![r] = [Idle EXCEPT !.pc = "openFile", !.asset = id]]
       ELSE End(r)
  /\ UNCHANGED <<files, documents>>

\* checkFileExists, and the stream or 'Asset not found'.
OpenFile(r) ==
  /\ call[r].pc = "openFile"
  /\ End(r)
  /\ UNCHANGED <<files, documents>>

-----------------------------------------------------------------------------
(* Failures *)

\* The image cannot be converted, or the database refuses the asset: the error
\* passes through the finally block.  sharp may have begun to write the file.
UploadFails(r) ==
  /\ call[r].pc \in {"convert", "insertAsset"}
  /\ images' \in {images} \cup (IF call[r].pc = "convert" THEN {images \cup {r}} ELSE {})
  /\ call' = [call EXCEPT ![r].pc = "removeTemp", ![r].ok = FALSE]
  /\ UNCHANGED <<temp, leaked, documents>>

\* Any other failed operation ends the call and aborts its transaction.
Fail(r) ==
  /\ r \in InFlight
  /\ call[r].pc \notin {"convert", "insertAsset"}
  /\ End(r)
  /\ leaked' = leaked \cup ({r} \cap temp)
  /\ UNCHANGED <<temp, images, documents>>

\* The process stops, with every call in flight.  Nothing is tidied up at the
\* next start.
Crash ==
  /\ InFlight # {}
  /\ leaked' = leaked \cup (InFlight \cap temp)
  /\ call' = [r \in Call |-> IF r \in InFlight THEN [Idle EXCEPT !.pc = "ended"] ELSE call[r]]
  /\ UNCHANGED <<temp, images, documents>>

-----------------------------------------------------------------------------

Init ==
  /\ temp = {} /\ images = {} /\ leaked = {}
  /\ assets = {}
  /\ avatar = [u \in User |-> None]
  /\ call = [r \in Call |-> Idle]

Step(r) ==
  \/ CheckSize(r)
  \/ FindUser(r)
  \/ ConvertImage(r) \/ InsertAsset(r) \/ RemoveTemp(r)
  \/ SaveUser(r) \/ CommitAvatar(r)
  \/ OpenFile(r)

Next ==
  \/ \E r \in Call :
       \/ \E u \in User : StoreUpload(r, u)
       \/ \E id \in Call : FindAsset(r, id)
       \/ Step(r)
       \/ UploadFails(r)
       \/ Fail(r)
  \/ Crash

Spec == Init /\ [][Next]_vars

-----------------------------------------------------------------------------
(* Properties *)

\* Files, documents and handlers are well typed.
TypeOK ==
  /\ temp \subseteq Call
  /\ images \subseteq Call
  /\ leaked \subseteq Call
  /\ assets \subseteq Asset
  /\ avatar \in [User -> Call \cup {None}]
  /\ call \in [Call -> CallState]

\* The avatar of a user is a stored asset that he uploaded, and its file is
\* there, although file, asset and user are written one after the other and
\* the upload may fail or the process stop between any two of them.
AvatarResolves ==
  \A u \in User :
    avatar[u] # None =>
      /\ [id |-> avatar[u], uploader |-> u] \in assets
      /\ avatar[u] \in images

\* getAsset looks for the file an await after it has found the asset; the
\* second 'Asset not found' never happens.
FoundFileExists ==
  \A r \in Call : call[r].pc = "openFile" => call[r].asset \in images

\* The finally block of uploadImage removes the uploaded file, whatever becomes
\* of the upload.  One stays only after a call that was refused for its size,
\* failed before uploadImage or in rm itself, or was cut off by a crash.
TempAccountedFor == temp \subseteq InFlight \cup leaked

\* An asset is stored in the very step in which it becomes the avatar of its
\* uploader: of two racing uploads the one that is aborted leaves none.
AssetsBecomeAvatars ==
  [][\A a \in Asset : a \in assets' \ assets => avatar'[a.uploader] = a.id]_vars
=============================================================================
