-------------------------- MODULE AttachmentsProofs --------------------------
(***************************************************************************)
(* Proofs about uploads and their reclamation, for any set of logical      *)
(* attachments, any number of cleaners, uploads and failures.              *)
(***************************************************************************)
EXTENDS Attachments, TLAPS

-----------------------------------------------------------------------------
(* The inductive invariant                                                 *)

\* A row names an object that was inserted before it.
RowsExist ==
  \A a \in Attachment :
    attachments[a].status # "none" => storage_objects[attachments[a].object] # "none"

\* Of the rows of one object only that of the upload can be waiting for a message.
OneUpload ==
  \A a, b \in Attachment :
    /\ attachments[a].status \in {"uploading", "ready"}
    /\ attachments[b].status \in {"uploading", "ready"}
    /\ attachments[a].object = attachments[b].object
    => a = b

\* A request comes to Ready when its bytes are stored; unless the object was condemned
\* since, they still are.
PutBeforeReady ==
  \A o \in Object : upload[o] = "ready" /\ storage_objects[o] = "uploading" => o \in bucket

\* A cleaner removes bytes of condemned objects only.
Condemned ==
  \A w \in Cleaner : cleaner[w].at \in {"remove", "mark"} =>
    /\ cleaner[w].object \in Object
    /\ storage_objects[cleaner[w].object] \in {"pending_delete", "deleted"}

AttachmentInv ==
  /\ AttachmentTypeOK
  /\ RowsExist /\ OneUpload /\ RowsAgree
  /\ PutBeforeReady /\ Condemned /\ ReadyStored

-----------------------------------------------------------------------------
LEMMA InitInv == AttachmentInit => AttachmentInv
  BY AttachmentAssumption
  DEF AttachmentInit, AttachmentInv, AttachmentTypeOK, RowsExist, OneUpload, RowsAgree,
      PutBeforeReady, Condemned, ReadyStored, NoRow, Idle, ObjectStatuses, Statuses, Object

\* Begin inserts both rows.
LEMMA BeginInv ==
  ASSUME AttachmentInv, NEW o \in Object, NEW a \in Attachment, Begin(o, a)
  PROVE  AttachmentInv'
<1> USE DEF AttachmentInv, AttachmentTypeOK, Begin, Row, Move, NoRow, ObjectStatuses, Statuses, clock
<1>1. AttachmentTypeOK' BY AttachmentAssumption DEF Object
<1>2. RowsExist' BY DEF RowsExist, Object
<1>3. OneUpload' BY DEF OneUpload, RowsExist
<1>4. RowsAgree' BY DEF RowsAgree, RowsExist
<1>5. PutBeforeReady' BY DEF PutBeforeReady
<1>6. Condemned' BY DEF Condemned
<1>7. ReadyStored' BY DEF ReadyStored
<1> QED BY <1>1, <1>2, <1>3, <1>4, <1>5, <1>6, <1>7

\* The steps of the upload request before Ready touch no row.
LEMMA PutInv ==
  ASSUME AttachmentInv, NEW o \in Object, Put(o) \/ PutFails(o)
  PROVE  AttachmentInv'
<1> USE DEF AttachmentInv, AttachmentTypeOK, Put, PutFails, Fault, rows, clock
<1>1. AttachmentTypeOK'
  <2>1. CASE Put(o) BY <2>1, AttachmentAssumption DEF Object
  <2>2. CASE PutFails(o) BY <2>2, AttachmentAssumption DEF Object
  <2> QED BY <2>1, <2>2
<1>2. RowsExist' BY DEF RowsExist
<1>3. OneUpload' BY DEF OneUpload
<1>4. RowsAgree' BY DEF RowsAgree
<1>5. PutBeforeReady' BY DEF PutBeforeReady
<1>6. Condemned' BY DEF Condemned
<1>7. ReadyStored' BY DEF ReadyStored
<1> QED BY <1>1, <1>2, <1>3, <1>4, <1>5, <1>6, <1>7

\* Ready moves both rows, and the bytes are there.
LEMMA ReadyInv ==
  ASSUME AttachmentInv, NEW o \in Object, Ready(o)
  PROVE  AttachmentInv'
<1> USE DEF AttachmentInv, AttachmentTypeOK, Ready, Status, Move, Uploading, ObjectStatuses, Statuses, clock
<1>1. AttachmentTypeOK' BY AttachmentAssumption DEF Object
<1>2. RowsExist' BY DEF RowsExist
<1>3. OneUpload' BY DEF OneUpload
<1>4. RowsAgree' BY DEF RowsAgree, OneUpload
<1>5. PutBeforeReady' BY DEF PutBeforeReady
<1>6. Condemned' BY DEF Condemned
<1>7. ReadyStored' BY DEF ReadyStored, PutBeforeReady
<1> QED BY <1>1, <1>2, <1>3, <1>4, <1>5, <1>6, <1>7

\* A refused or failed Ready changes nothing but the request.
LEMMA RefusedInv ==
  ASSUME AttachmentInv, NEW o \in Object, ReadyRefused(o) \/ ReadyFails(o)
  PROVE  AttachmentInv'
<1> USE DEF AttachmentInv, AttachmentTypeOK, ReadyRefused, ReadyFails, Fault, rows, clock
<1>1. AttachmentTypeOK'
  <2>1. CASE ReadyRefused(o) BY <2>1, AttachmentAssumption DEF Object
  <2>2. CASE ReadyFails(o) BY <2>2, AttachmentAssumption DEF Object
  <2> QED BY <2>1, <2>2
<1>2. RowsExist' BY DEF RowsExist
<1>3. OneUpload' BY DEF OneUpload
<1>4. RowsAgree' BY DEF RowsAgree
<1>5. PutBeforeReady' BY DEF PutBeforeReady
<1>6. Condemned' BY DEF Condemned
<1>7. ReadyStored' BY DEF ReadyStored
<1> QED BY <1>1, <1>2, <1>3, <1>4, <1>5, <1>6, <1>7

\* Send takes an upload that is ready; Delete ends what Send or Forward began.
LEMMA SendInv ==
  ASSUME AttachmentInv, NEW a \in Attachment, Send(a) \/ Delete(a)
  PROVE  AttachmentInv'
<1> USE DEF AttachmentInv, AttachmentTypeOK, Send, Delete, Status, ObjectStatuses, Statuses, clock
<1>1. AttachmentTypeOK'
  <2>1. CASE Send(a) BY <2>1, AttachmentAssumption DEF Object
  <2>2. CASE Delete(a) BY <2>2, AttachmentAssumption DEF Object
  <2> QED BY <2>1, <2>2
<1>2. RowsExist' BY DEF RowsExist
<1>3. OneUpload' BY DEF OneUpload
<1>4. RowsAgree' BY DEF RowsAgree
<1>5. PutBeforeReady' BY DEF PutBeforeReady
<1>6. Condemned' BY DEF Condemned
<1>7. ReadyStored' BY DEF ReadyStored
<1> QED BY <1>1, <1>2, <1>3, <1>4, <1>5, <1>6, <1>7

\* A forward adds a row that never waits for a message.
LEMMA ForwardInv ==
  ASSUME AttachmentInv, NEW a \in Attachment, NEW copy \in Attachment, Forward(a, copy)
  PROVE  AttachmentInv'
<1> USE DEF AttachmentInv, AttachmentTypeOK, Forward, Row, NoRow, ObjectStatuses, Statuses, clock
<1>1. AttachmentTypeOK' BY AttachmentAssumption DEF Object
<1>2. RowsExist' BY DEF RowsExist, Object
<1>3. OneUpload' BY DEF OneUpload
<1>4. RowsAgree' BY DEF RowsAgree
<1>5. PutBeforeReady' BY DEF PutBeforeReady
<1>6. Condemned' BY DEF Condemned
<1>7. ReadyStored' BY DEF ReadyStored
<1> QED BY <1>1, <1>2, <1>3, <1>4, <1>5, <1>6, <1>7

\* Time changes no row.
LEMMA TimeInv ==
  ASSUME AttachmentInv, (\E o \in Object : Age(o)) \/ (\E a \in Attachment : Lapse(a))
  PROVE  AttachmentInv'
<1> USE DEF AttachmentInv, AttachmentTypeOK, Age, Lapse, rows, clock
<1>1. AttachmentTypeOK' BY AttachmentAssumption DEF Object
<1>2. RowsExist' BY DEF RowsExist
<1>3. OneUpload' BY DEF OneUpload
<1>4. RowsAgree' BY DEF RowsAgree
<1>5. PutBeforeReady' BY DEF PutBeforeReady
<1>6. Condemned' BY DEF Condemned
<1>7. ReadyStored' BY DEF ReadyStored
<1> QED BY <1>1, <1>2, <1>3, <1>4, <1>5, <1>6, <1>7

\* The query of the cleaner reads, and finding nothing to lock changes nothing.
LEMMA LookInv ==
  ASSUME AttachmentInv, NEW w \in Cleaner, Look(w) \/ NoRows(w)
  PROVE  AttachmentInv'
<1> USE DEF AttachmentInv, AttachmentTypeOK, Look, NoRows, Rest, Idle, rows, clock
<1>1. AttachmentTypeOK'
  <2>1. CASE Look(w) BY <2>1, AttachmentAssumption DEF Object
  <2>2. CASE NoRows(w) BY <2>2, AttachmentAssumption DEF Object
  <2> QED BY <2>1, <2>2
<1>2. RowsExist' BY DEF RowsExist
<1>3. OneUpload' BY DEF OneUpload
<1>4. RowsAgree' BY DEF RowsAgree
<1>5. PutBeforeReady' BY DEF PutBeforeReady
<1>6. Condemned' BY DEF Condemned
<1>7. ReadyStored' BY DEF ReadyStored
<1> QED BY <1>1, <1>2, <1>3, <1>4, <1>5, <1>6, <1>7

\* Claiming ends every waiting row of the object together with it.
LEMMA ClaimInv ==
  ASSUME AttachmentInv, NEW w \in Cleaner, NEW o \in Object, Claim(w, o)
  PROVE  AttachmentInv'
<1> USE DEF AttachmentInv, AttachmentTypeOK, Claim, Move, Of, Lockable, ObjectStatuses, Statuses, clock
<1>1. AttachmentTypeOK' BY AttachmentAssumption DEF Object
<1>2. RowsExist' BY DEF RowsExist
<1>3. OneUpload' BY DEF OneUpload
<1>4. RowsAgree' BY DEF RowsAgree
<1>5. PutBeforeReady' BY DEF PutBeforeReady
<1>6. Condemned' BY DEF Condemned
<1>7. ReadyStored' BY DEF ReadyStored
<1> QED BY <1>1, <1>2, <1>3, <1>4, <1>5, <1>6, <1>7

\* The bytes of a condemned object are removed, or the attempt fails.
LEMMA RemoveInv ==
  ASSUME AttachmentInv, NEW w \in Cleaner, Remove(w) \/ CleanerFails(w)
  PROVE  AttachmentInv'
<1> USE DEF AttachmentInv, AttachmentTypeOK, Remove, CleanerFails, Fault, At, Rest, Idle, rows, clock
<1>1. AttachmentTypeOK'
  <2>1. CASE Remove(w) BY <2>1, AttachmentAssumption DEF Object
  <2>2. CASE CleanerFails(w) BY <2>2, AttachmentAssumption DEF Object
  <2> QED BY <2>1, <2>2
<1>2. RowsExist' BY DEF RowsExist
<1>3. OneUpload' BY DEF OneUpload
<1>4. RowsAgree' BY DEF RowsAgree
<1>5. PutBeforeReady' BY DEF PutBeforeReady, Condemned
<1>6. Condemned' BY DEF Condemned
<1>7. ReadyStored' BY DEF ReadyStored, Condemned
<1> QED BY <1>1, <1>2, <1>3, <1>4, <1>5, <1>6, <1>7

\* A condemned object becomes deleted.
LEMMA MarkInv ==
  ASSUME AttachmentInv, NEW w \in Cleaner, Mark(w)
  PROVE  AttachmentInv'
<1> USE DEF AttachmentInv, AttachmentTypeOK, Mark, Move, Rest, Idle, ObjectStatuses, Statuses, clock
<1>0. cleaner[w].object \in Object /\ storage_objects[cleaner[w].object] \in {"pending_delete", "deleted"}
  BY DEF Condemned
<1>a. attachments' = attachments
  OBVIOUS
<1>b. \A p \in Object : storage_objects'[p] = storage_objects[p]
                         \/ (storage_objects[p] = "pending_delete" /\ storage_objects'[p] = "deleted")
  <2>1. CASE storage_objects[cleaner[w].object] = "pending_delete"
    <3>1. storage_objects' = [storage_objects EXCEPT ![cleaner[w].object] = "deleted"]
      BY <2>1
    <3> QED BY <3>1, <2>1, <1>0
  <2>2. CASE storage_objects[cleaner[w].object] # "pending_delete"
    <3>1. storage_objects' = storage_objects
      BY <2>2
    <3> QED BY <3>1
  <2> QED BY <2>1, <2>2
<1>c. \A a \in Attachment : attachments[a].status # "none" => attachments[a].object \in Object
  BY AttachmentAssumption DEF Object
<1>1. AttachmentTypeOK' BY <1>0, AttachmentAssumption DEF Object
<1>2. RowsExist' BY <1>a, <1>b, <1>c DEF RowsExist
<1>3. OneUpload' BY DEF OneUpload
<1>4. RowsAgree' BY <1>a, <1>b, <1>c DEF RowsAgree
<1>5. PutBeforeReady' BY <1>0 DEF PutBeforeReady
<1>6. Condemned' BY DEF Condemned
<1>7. ReadyStored' BY <1>0 DEF ReadyStored
<1> QED BY <1>1, <1>2, <1>3, <1>4, <1>5, <1>6, <1>7

LEMMA StepInv == AttachmentInv /\ [AttachmentNext]_attachmentVars => AttachmentInv'
<1> SUFFICES ASSUME AttachmentInv, [AttachmentNext]_attachmentVars PROVE AttachmentInv'
  OBVIOUS
<1>1. ASSUME NEW o \in Object, NEW a \in Attachment, Begin(o, a) PROVE AttachmentInv'
  BY <1>1, BeginInv
<1>2. ASSUME NEW o \in Object, Put(o) \/ PutFails(o) PROVE AttachmentInv'
  BY <1>2, PutInv
<1>3. ASSUME NEW o \in Object, Ready(o) PROVE AttachmentInv'
  BY <1>3, ReadyInv
<1>4. ASSUME NEW o \in Object, ReadyRefused(o) \/ ReadyFails(o) PROVE AttachmentInv'
  BY <1>4, RefusedInv
<1>5. ASSUME NEW a \in Attachment, Send(a) \/ Delete(a) PROVE AttachmentInv'
  BY <1>5, SendInv
<1>6. ASSUME NEW a \in Attachment, NEW copy \in Attachment, Forward(a, copy) PROVE AttachmentInv'
  BY <1>6, ForwardInv
<1>7. ASSUME (\E o \in Object : Age(o)) \/ (\E a \in Attachment : Lapse(a)) PROVE AttachmentInv'
  BY <1>7, TimeInv
<1>8. ASSUME NEW w \in Cleaner, Look(w) \/ NoRows(w) PROVE AttachmentInv'
  BY <1>8, LookInv
<1>9. ASSUME NEW w \in Cleaner, NEW o \in Object, Claim(w, o) PROVE AttachmentInv'
  BY <1>9, ClaimInv
<1>10. ASSUME NEW w \in Cleaner, Remove(w) \/ CleanerFails(w) PROVE AttachmentInv'
  BY <1>10, RemoveInv
<1>11. ASSUME NEW w \in Cleaner, Mark(w) PROVE AttachmentInv'
  BY <1>11, MarkInv
<1>12. CASE UNCHANGED attachmentVars
  BY <1>12 DEF attachmentVars, rows, clock, AttachmentInv, AttachmentTypeOK, RowsExist, OneUpload,
               RowsAgree, PutBeforeReady, Condemned, ReadyStored
<1> QED
  BY <1>1, <1>2, <1>3, <1>4, <1>5, <1>6, <1>7, <1>8, <1>9, <1>10, <1>11, <1>12
  DEF AttachmentNext, One

-----------------------------------------------------------------------------
\* The inductive invariant of uploads, requests and cleaners.
THEOREM AttachmentInvariant == AttachmentSpec => []AttachmentInv
  BY InitInv, StepInv, PTL DEF AttachmentSpec

\* Every variable keeps its type under every step.
THEOREM AttachmentTypes == AttachmentSpec => []AttachmentTypeOK
<1>1. AttachmentInv => AttachmentTypeOK BY DEF AttachmentInv
<1> QED BY <1>1, AttachmentInvariant, PTL

\* A ready object has its bytes, whoever uploads, reclaims or dies.
THEOREM ReadyAlwaysStored == AttachmentSpec => []ReadyStored
<1>1. AttachmentInv => ReadyStored BY DEF AttachmentInv
<1> QED BY <1>1, AttachmentInvariant, PTL

\* The row of an upload that waits for its message is in the state of its object.
THEOREM RowsAlwaysAgree == AttachmentSpec => []RowsAgree
<1>1. AttachmentInv => RowsAgree BY DEF AttachmentInv
<1> QED BY <1>1, AttachmentInvariant, PTL
=============================================================================
