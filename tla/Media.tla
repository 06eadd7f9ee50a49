------------------------------- MODULE Media -------------------------------
(***************************************************************************)
(* The pictures of palms and faces (app/media): an upload is downloaded,   *)
(* validated, put into the storage and then entered in the table assets,   *)
(* in this order and without a transaction over both; if the entry fails   *)
(* the object is deleted again. Any of the steps may fail or be cut. The   *)
(* cleanup and the erasure of a customer delete rows and never objects,    *)
(* which are left to a lifecycle policy of the storage. Each upload draws  *)
(* an asset id of its own, so the id stands for the upload.                *)
(***************************************************************************)
CONSTANT Asset

VARIABLES
  up,        \* [Asset -> Pc], the upload
  objects,   \* what the storage holds
  assets,      \* what the table holds, each row with status 'active'
  old,       \* past the retention: expires_at, the cleanup's cutoff, the policy's age
  unsure,    \* entered by a commit whose answer was lost, so taken for a failure
  left,      \* its object was left behind by a failed put, delete or a cut
  removed    \* its row was entered and deleted

mediaVars == <<up, objects, assets, old, unsure, left, removed>>

UploadPc == {"idle", "download", "validate", "put", "insert", "undo", "success", "failed", "cut"}
Over == {"success", "failed", "cut"}

MediaInit ==
  /\ up = [a \in Asset |-> "idle"]
  /\ objects = {} /\ assets = {} /\ old = {}
  /\ unsure = {} /\ left = {} /\ removed = {}

UploadAt(a, pc) == up[a] = pc
UploadGo(a, pc) == up' = [up EXCEPT ![a] = pc]

-----------------------------------------------------------------------------
\* ingest_image, from a URL: a face needs a consent token, of any age.
IngestImage(a) ==
  /\ UploadAt(a, "idle")
  /\ \E mode \in {"palm", "face"}, consented \in BOOLEAN :
       UploadGo(a, IF mode = "face" /\ ~consented THEN "failed" ELSE "download")
  /\ UNCHANGED <<objects, assets, old, unsure, left, removed>>

\* ingest_image_bytes, from an upload: nothing to download, but it may be empty.
IngestImageBytes(a) ==
  /\ UploadAt(a, "idle")
  /\ \E mode \in {"palm", "face"}, consented \in BOOLEAN, empty \in BOOLEAN :
       UploadGo(a, IF (mode = "face" /\ ~consented) \/ empty THEN "failed" ELSE "validate")
  /\ UNCHANGED <<objects, assets, old, unsure, left, removed>>

\* Not HTTPS, too large, too slow, not found: an ImageDownloadError ends it.
DownloadImageFromUrl(a) ==
  /\ UploadAt(a, "download")
  /\ UploadGo(a, "validate") \/ UploadGo(a, "failed")
  /\ UNCHANGED <<objects, assets, old, unsure, left, removed>>

\* Size, format, resolution, blur and brightness, each of which may refuse it.
ValidateImage(a) ==
  /\ UploadAt(a, "validate")
  /\ UploadGo(a, "put") \/ UploadGo(a, "failed")
  /\ UNCHANGED <<objects, assets, old, unsure, left, removed>>

\* backend.put: a failure may come after the object, or a part of it, was written.
\* A StorageError is returned, another error raised; both end the upload.
Put(a) ==
  /\ UploadAt(a, "put")
  /\ \/ UploadGo(a, "insert") /\ objects' = objects \cup {a} /\ UNCHANGED left
     \/ UploadGo(a, "failed") /\ UNCHANGED <<objects, left>>
     \/ UploadGo(a, "failed") /\ objects' = objects \cup {a} /\ left' = left \cup {a}
  /\ UNCHANGED <<assets, old, unsure, removed>>

\* Slip: an entry that failed is reported without deleting the object.
InsertAndGiveUp(a) ==
  /\ UploadAt(a, "insert")
  /\ \/ UploadGo(a, "success") /\ assets' = assets \cup {a} /\ UNCHANGED unsure
     \/ UploadGo(a, "failed") /\ UNCHANGED <<assets, unsure>>
  /\ UNCHANGED <<objects, old, left, removed>>

\* The row, in a transaction that commits with the connection's context: it may
\* raise before the commit, or after it because the answer was lost.
Insert(a) ==
  /\ UploadAt(a, "insert")
  /\ \/ UploadGo(a, "success") /\ assets' = assets \cup {a} /\ UNCHANGED unsure
     \/ UploadGo(a, "undo") /\ UNCHANGED <<assets, unsure>>
     \/ UploadGo(a, "undo") /\ assets' = assets \cup {a} /\ unsure' = unsure \cup {a}
  /\ UNCHANGED <<objects, old, left, removed>>

\* backend.delete after a failed entry; its own failure is swallowed.
Undo(a) ==
  /\ UploadAt(a, "undo")
  /\ UploadGo(a, "failed")
  /\ \/ objects' = objects \ {a} /\ UNCHANGED left
     \/ left' = left \cup {a} /\ UNCHANGED objects
  /\ UNCHANGED <<assets, old, unsure, removed>>

\* The process ends between two steps.
Cut(a) ==
  /\ up[a] \notin Over \cup {"idle"}
  /\ UploadGo(a, "cut")
  /\ left' = IF a \in objects THEN left \cup {a} ELSE left
  /\ UNCHANGED <<objects, assets, old, unsure, removed>>

-----------------------------------------------------------------------------
\* An upload is over long before the retention has passed.
Ages(a) ==
  /\ up[a] \in Over /\ a \notin old
  /\ old' = old \cup {a}
  /\ UNCHANGED <<up, objects, assets, unsure, left, removed>>

DeleteRows(S) ==
  /\ assets \cap S # {}
  /\ assets' = assets \ S
  /\ removed' = removed \cup (assets \cap S)
  /\ UNCHANGED <<up, objects, old, unsure, left>>

\* The cleanup's statement, and the statement of an erasure of any customer's rows.
PurgeOldInputAssets == DeleteRows(old)
EraseAssets == \E S \in SUBSET Asset : DeleteRows(S)

\* The storage's own policy, if it has one: nothing in the repository sets it up.
LifecycleRemoves ==
  \E a \in objects \cap old :
    /\ objects' = objects \ {a}
    /\ UNCHANGED <<up, assets, old, unsure, left, removed>>

MediaNext ==
  \/ \E a \in Asset : \/ IngestImage(a) \/ IngestImageBytes(a)
                      \/ DownloadImageFromUrl(a) \/ ValidateImage(a)
                      \/ Put(a) \/ Insert(a) \/ Undo(a) \/ Cut(a) \/ Ages(a)
  \/ PurgeOldInputAssets \/ EraseAssets \/ LifecycleRemoves

MediaSpec == MediaInit /\ [][MediaNext]_mediaVars

-----------------------------------------------------------------------------
\* validate_asset_for_combined and the sender look for a row before its expires_at.
Usable(a) == a \in assets \ old

\* A row that may still be used has its object, unless its upload was reported as
\* failed although it was entered.
UsableRowsHaveObjects == \A a \in Asset : Usable(a) => a \in objects \/ (a \in unsure /\ up[a] # "success")

\* An object without a row is being entered or taken back, was left behind by a
\* failure that is known, or is of a row that was purged or erased.
ObjectsAreAccountedFor ==
  \A a \in objects \ assets : up[a] \in {"insert", "undo"} \/ a \in left \/ a \in removed

\* Table and storage agree, through every failure and cut of the uploads, the purge,
\* the erasures and the storage's own policy.
AssetsAgree == UsableRowsHaveObjects /\ ObjectsAreAccountedFor
=============================================================================
