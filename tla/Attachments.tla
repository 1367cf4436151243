---------------------------- MODULE Attachments ----------------------------
(***************************************************************************)
(* The life of an uploaded image: a row of storage_objects for its bytes,  *)
(* one row of attachments for the upload and for each forwarded copy, and  *)
(* the bytes in the bucket.  Requests upload, send, forward and delete;    *)
(* the Cleaner reclaims.                                                   *)
(*                                                                         *)
(* A request's transaction locks the rows it reads until it commits, and   *)
(* so is one step.  The Cleaner's query is not: it runs under READ         *)
(* COMMITTED, decides on the snapshot of the statement, locks the object   *)
(* row only, and looks again at that row only if somebody changed it.      *)
(***************************************************************************)
EXTENDS Integers

CONSTANTS
  Attachment,  \* identifiers of rows of attachments
  Cleaner,     \* worker processes
  MaxObjects,  \* bound of the model on uploads
  MaxFaults    \* bound of the model on failures

ASSUME AttachmentAssumption == MaxObjects \in Nat /\ MaxFaults \in Nat

Object == 1..MaxObjects   \* in the order of created_at

VARIABLES
  storage_objects,  \* storage_objects[o]: its status, "none" before the insert
  attachments,      \* attachments[a]: its object_id and status
  bucket,           \* objects whose bytes are in the store
  upload,           \* upload[o]: where the request that uploads o is
  aged,             \* objects older than an hour
  lapsed,           \* attachments whose expires_at has passed
  cleaner,          \* cleaner[w]: where One is, the rows its query found, its object
  faults

rows == <<storage_objects, attachments>>
clock == <<aged, lapsed>>
attachmentVars == <<rows, bucket, upload, clock, cleaner, faults>>

NoRow == [object |-> 0, status |-> "none"]
Idle == [at |-> "idle", found |-> {}, object |-> 0]

AttachmentInit ==
  /\ storage_objects = [o \in Object |-> "none"]
  /\ attachments = [a \in Attachment |-> NoRow]
  /\ bucket = {}
  /\ upload = [o \in Object |-> "none"]
  /\ aged = {} /\ lapsed = {}
  /\ cleaner = [w \in Cleaner |-> Idle]
  /\ faults = 0

Fault == faults < MaxFaults /\ faults' = faults + 1

Row(a, o, status) == attachments' = [attachments EXCEPT ![a] = [object |-> o, status |-> status]]
Status(a, status) == attachments' = [attachments EXCEPT ![a].status = status]
Move(o, status) == storage_objects' = [storage_objects EXCEPT ![o] = status]

-----------------------------------------------------------------------------
(* Upload                                                                  *)

\* A slip: the second insert does not name the object.  No specification uses it.
BeginMutant(o, a) ==
  /\ storage_objects[o] = "none"
  /\ attachments[a] = NoRow
  /\ Move(o, "uploading")
  /\ Row(a, 0, "uploading")
  /\ upload' = [upload EXCEPT ![o] = "put"]
  /\ UNCHANGED <<bucket, clock, cleaner, faults>>

\* Begin: both rows are committed before anything is stored.
Begin(o, a) ==
  /\ storage_objects[o] = "none"
  /\ \A p \in 1..(o - 1) : storage_objects[p] # "none"
  /\ attachments[a] = NoRow
  /\ Move(o, "uploading")
  /\ Row(a, o, "uploading")
  /\ upload' = [upload EXCEPT ![o] = "put"]
  /\ UNCHANGED <<bucket, clock, cleaner, faults>>

Put(o) ==
  /\ upload[o] = "put"
  /\ bucket' = bucket \cup {o}
  /\ upload' = [upload EXCEPT ![o] = "ready"]
  /\ UNCHANGED <<rows, clock, cleaner, faults>>

\* The store fails or the process dies; the bytes may be stored all the same.
PutFails(o) ==
  /\ upload[o] = "put"
  /\ Fault
  /\ bucket' \in {bucket, bucket \cup {o}}
  /\ upload' = [upload EXCEPT ![o] = "ended"]
  /\ UNCHANGED <<rows, clock, cleaner>>

\* The row Ready locks: that of the upload, as long as nobody reclaimed it.
Uploading(o) == {a \in Attachment : attachments[a] = [object |-> o, status |-> "uploading"]}

\* A slip: the uploader's row is updated by its key alone.  No specification uses it.
ReadyMutant(o) ==
  /\ upload[o] = "ready"
  /\ upload' = [upload EXCEPT ![o] = "ended"]
  /\ \E a \in Attachment : attachments[a].object = o /\ Status(a, "ready")
  /\ Move(o, IF storage_objects[o] = "uploading" THEN "ready" ELSE storage_objects[o])
  /\ UNCHANGED <<bucket, clock, cleaner, faults>>

Ready(o) ==
  /\ upload[o] = "ready"
  /\ upload' = [upload EXCEPT ![o] = "ended"]
  /\ storage_objects[o] = "uploading"
  /\ \E a \in Uploading(o) : Status(a, "ready")
  /\ Move(o, "ready")
  /\ UNCHANGED <<bucket, clock, cleaner, faults>>

\* ErrLifecycle: the Cleaner was first.
ReadyRefused(o) ==
  /\ upload[o] = "ready"
  /\ Uploading(o) = {} \/ storage_objects[o] # "uploading"
  /\ upload' = [upload EXCEPT ![o] = "ended"]
  /\ UNCHANGED <<rows, bucket, clock, cleaner, faults>>

ReadyFails(o) ==
  /\ upload[o] = "ready"
  /\ Fault
  /\ upload' = [upload EXCEPT ![o] = "ended"]
  /\ UNCHANGED <<rows, bucket, clock, cleaner>>

-----------------------------------------------------------------------------
(* Use by messages                                                         *)

\* Send of an IMAGE locks the upload and its object and checks both.
Send(a) ==
  /\ attachments[a].status = "ready" /\ a \notin lapsed
  /\ storage_objects[attachments[a].object] = "ready"
  /\ Status(a, "attached")
  /\ UNCHANGED <<storage_objects, bucket, upload, clock, cleaner, faults>>

\* The copy is a row of its own that shares the object.
Forward(a, copy) ==
  /\ attachments[a].status = "attached"
  /\ storage_objects[attachments[a].object] = "ready"
  /\ attachments[copy] = NoRow
  /\ Row(copy, attachments[a].object, "attached")
  /\ UNCHANGED <<storage_objects, bucket, upload, clock, cleaner, faults>>

\* Delete ends the logical attachment of its message and leaves the object alone.
Delete(a) ==
  /\ attachments[a].status = "attached"
  /\ Status(a, "deleted")
  /\ UNCHANGED <<storage_objects, bucket, upload, clock, cleaner, faults>>

-----------------------------------------------------------------------------
(* Time                                                                    *)

\* The store answers a Put, or its connection times out, within the hour.
Age(o) ==
  /\ storage_objects[o] # "none" /\ upload[o] # "put"
  /\ o \notin aged
  /\ aged' = aged \cup {o}
  /\ UNCHANGED <<rows, bucket, upload, lapsed, cleaner, faults>>

\* 24 hours after the upload; only an upload in wait of its message is affected.
Lapse(a) ==
  /\ attachments[a].status = "ready" /\ attachments[a].object \in aged
  /\ a \notin lapsed
  /\ lapsed' = lapsed \cup {a}
  /\ UNCHANGED <<rows, bucket, upload, aged, cleaner, faults>>

-----------------------------------------------------------------------------
(* Cleaner                                                                 *)

Of(o, statuses) == {a \in Attachment : attachments[a].object = o /\ attachments[a].status \in statuses}

\* A slip: an object whose removal did not finish is not tried again.
DueMutant(o) ==
  /\ storage_objects[o] \in {"uploading", "ready"}
  /\ Of(o, {"attached"}) = {}
  /\ o \in aged \/ Of(o, {"ready"}) \cap lapsed # {}

Due(o) ==
  \/ storage_objects[o] = "pending_delete"
  \/ /\ storage_objects[o] \in {"uploading", "ready"}
     /\ Of(o, {"attached"}) = {}
     /\ o \in aged \/ Of(o, {"ready"}) \cap lapsed # {}

At(w, place) == cleaner' = [cleaner EXCEPT ![w].at = place]
Rest(w) == cleaner' = [cleaner EXCEPT ![w] = Idle]

\* The query of One evaluates its condition on its snapshot.
Look(w) ==
  /\ cleaner[w].at = "idle"
  /\ \E o \in Object : Due(o)
  /\ cleaner' = [cleaner EXCEPT ![w] = [at |-> "lock", found |-> {o \in Object : Due(o)}, object |-> 0]]
  /\ UNCHANGED <<rows, bucket, upload, clock, faults>>

\* What is looked at again when the object row is locked: its own status.
Lockable(w) == {o \in cleaner[w].found : storage_objects[o] \in {"uploading", "ready", "pending_delete"}}

\* A slip: only the rows of attachments are updated before the bytes are removed.
ClaimMutant(w, o) ==
  /\ cleaner[w].at = "lock" /\ o \in Lockable(w)
  /\ attachments' = [a \in Attachment |-> IF a \in Of(o, {"uploading", "ready"})
                                          THEN [attachments[a] EXCEPT !.status = "deleted"]
                                          ELSE attachments[a]]
  /\ cleaner' = [cleaner EXCEPT ![w] = [at |-> "remove", found |-> {}, object |-> o]]
  /\ UNCHANGED <<storage_objects, bucket, upload, clock, faults>>

\* The first row that is not locked; which rows are is left open.
Claim(w, o) ==
  /\ cleaner[w].at = "lock" /\ o \in Lockable(w)
  /\ attachments' = [a \in Attachment |-> IF a \in Of(o, {"uploading", "ready"})
                                          THEN [attachments[a] EXCEPT !.status = "deleted"]
                                          ELSE attachments[a]]
  /\ Move(o, "pending_delete")
  /\ cleaner' = [cleaner EXCEPT ![w] = [at |-> "remove", found |-> {}, object |-> o]]
  /\ UNCHANGED <<bucket, upload, clock, faults>>

NoRows(w) ==
  /\ cleaner[w].at = "lock" /\ Lockable(w) = {}
  /\ Rest(w)
  /\ UNCHANGED <<rows, bucket, upload, clock, faults>>

Remove(w) ==
  /\ cleaner[w].at = "remove"
  /\ bucket' = bucket \ {cleaner[w].object}
  /\ At(w, "mark")
  /\ UNCHANGED <<rows, upload, clock, faults>>

Mark(w) ==
  LET o == cleaner[w].object
  IN /\ cleaner[w].at = "mark"
     /\ IF storage_objects[o] = "pending_delete"
        THEN Move(o, "deleted") ELSE UNCHANGED storage_objects
     /\ Rest(w)
     /\ UNCHANGED <<attachments, bucket, upload, clock, faults>>

\* A statement or the store fails, or the worker dies: whatever was committed stays.
CleanerFails(w) ==
  /\ cleaner[w].at # "idle"
  /\ Fault
  /\ bucket' \in IF cleaner[w].at = "remove" THEN {bucket, bucket \ {cleaner[w].object}} ELSE {bucket}
  /\ Rest(w)
  /\ UNCHANGED <<rows, upload, clock>>

-----------------------------------------------------------------------------
One(w) == Look(w) \/ NoRows(w) \/ Remove(w) \/ Mark(w) \/ \E o \in Object : Claim(w, o)

AttachmentNext ==
  \/ \E o \in Object :
       \/ Put(o) \/ PutFails(o) \/ Ready(o) \/ ReadyRefused(o) \/ ReadyFails(o) \/ Age(o)
       \/ \E a \in Attachment : Begin(o, a)
  \/ \E a \in Attachment :
       Send(a) \/ Delete(a) \/ Lapse(a) \/ \E copy \in Attachment : Forward(a, copy)
  \/ \E w \in Cleaner : One(w) \/ CleanerFails(w)

\* Workers are restarted and Run calls One again every minute.
AttachmentFairness == \A w \in Cleaner : WF_attachmentVars(One(w))

AttachmentSpec == AttachmentInit /\ [][AttachmentNext]_attachmentVars /\ AttachmentFairness

-----------------------------------------------------------------------------
(* Properties                                                              *)

ObjectStatuses == {"none", "uploading", "ready", "pending_delete", "deleted"}
Statuses == {"none", "uploading", "ready", "attached", "deleted"}

\* The variables have their types: storage_objects, attachments and where each process is.
AttachmentTypeOK ==
  /\ storage_objects \in [Object -> ObjectStatuses]
  /\ attachments \in [Attachment -> [object : 0..MaxObjects, status : Statuses]]
  /\ \A a \in Attachment : attachments[a].status # "none" <=> attachments[a].object # 0
  /\ bucket \subseteq Object /\ aged \subseteq Object /\ lapsed \subseteq Attachment
  /\ upload \in [Object -> {"none", "put", "ready", "ended"}]
  /\ cleaner \in [Cleaner -> [at : {"idle", "lock", "remove", "mark"},
                              found : SUBSET Object, object : 0..MaxObjects]]
  /\ faults \in 0..MaxFaults

\* Get and Download trust the status of the object: the bytes of a ready object are
\* there, whatever failed during the upload and whoever is reclaiming what.
ReadyStored == \A o \in Object : storage_objects[o] = "ready" => o \in bucket

\* Upload, Ready and Cleaner move the two rows together: an upload that is not used yet
\* is in the state of its object, and none is left when the object is condemned.
RowsAgree ==
  \A a \in Attachment :
    attachments[a].status \in {"uploading", "ready"}
      => storage_objects[attachments[a].object] = attachments[a].status

\* An object older than an hour that no message refers to is removed with its bytes,
\* although requests and workers die between any two steps.
EventuallyReclaimed ==
  \A o \in Object :
    o \in aged ~> \/ storage_objects[o] = "deleted" /\ o \notin bucket
                  \/ Of(o, {"attached"}) # {}

\* "attached references always win": the object of an attached image is not reclaimed.
AttachedKept ==
  \A a \in Attachment :
    attachments[a].status = "attached" => storage_objects[attachments[a].object] = "ready"
=============================================================================
