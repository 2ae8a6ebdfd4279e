--------------------------- MODULE NamespaceProofs ---------------------------
(***************************************************************************)
(* Proofs about Gateway and Namespace: unique paths, deletion, buckets and *)
(* authorisation, for any number of files, paths, requests and keys.       *)
(***************************************************************************)
EXTENDS Gateway, SequenceTheorems, TLAPS

\* A request's record, with the fields the argument is about.
ReqType(x) ==
  x \in [op : Ops \cup {"none"}, at : Stages, id : {x.id}, key : {x.key}, late : BOOLEAN,
         path : {x.path}, to : {x.to}, locked : SUBSET FileId, expired : SUBSET FileId,
         stay : {x.stay}, seen : {x.seen}]
\* Its arguments, once a handler has called the store.
ReqArgs(x) ==
  /\ x.op \in {"rename", "delete"} /\ x.at \notin {"idle", "key", "admit", "done"} => x.id \in FileId
  /\ x.op = "put" /\ x.at = "commit" => x.id \in FileId
  /\ x.op \in {"mkdir", "put", "rename"} /\ x.at \notin {"idle", "key", "admit", "done"} => x.to \in Path
  /\ x.op = "rename" /\ x.at = "update" => x.path \in Seq(Nat)

Shape ==
  /\ files \in [FileId -> FileRec]
  /\ req = [r \in Request |-> req[r]]
  /\ \A r \in Request : ReqType(req[r]) /\ ReqArgs(req[r])

\* A transaction's rows are its own until it commits.  A soft delete that has
\* marked rows still selects them, they are still live, and it expires every
\* version of them that counts.
LockInv ==
  /\ \A r, q \in Request : r # q => LockedBy(r) \cap LockedBy(q) = {}
  /\ \A r \in Request : req[r].op = "delete" /\ req[r].at \in {"call", "files", "versions", "rows"} =>
       files[req[r].id].status # "none"
  /\ \A r \in Request : req[r].op = "delete" /\ req[r].at \in {"versions", "rows"} =>
       \A x \in req[r].locked :
         /\ Live(x) /\ x \in Selected(r)
         /\ req[r].at = "rows" /\ files[x].version \in {"pending", "committed"} => x \in req[r].expired

\* A key that exists belongs to an account; a request that came too late still
\* finds its key ended or the account suspended, and past the first lookup the
\* account.
KeyInv ==
  /\ key = [k \in Key |-> key[k]] /\ \A k \in Key : key[k] \in KeyRec
  /\ user \in {"none", "active", "suspended"}
  /\ (\E k \in Key : key[k].status # "none") => user # "none"
  /\ \A r \in Request : req[r].at \notin {"idle", "done"} =>
       /\ req[r].key \in Key /\ key[req[r].key].status # "none"
       /\ req[r].late => key[req[r].key].status = "ended" \/ user = "suspended"
       /\ req[r].at # "key" /\ req[r].late => user = "suspended"
       /\ req[r].at \notin {"key", "admit"} => ~req[r].late /\ (req[r].op # "list" => key[req[r].key].write)

Inv == Shape /\ OneLivePerPath /\ LockInv /\ DeletedExpires /\ KeyInv

-----------------------------------------------------------------------------
(* What a step does to the files                                           *)

Creates(x) ==
  /\ files[x] = NoFile /\ files'[x] \in FileRec /\ files'[x].status \in {"uploading", "active"}
  /\ files'[x].version \in {"none", "pending"} /\ Holders(files'[x].path) = {}
  /\ \A y \in FileId \ {x} : files'[y] = files[y]

Commits(r, x) ==
  /\ Unlocked(r, {x}) /\ Live(x)
  /\ files'[x] \in FileRec /\ files'[x].status = "active"
  /\ files'[x].path = files[x].path /\ files'[x].folder = files[x].folder
  /\ \A y \in FileId \ {x} : files'[y] = files[y]

Renames(r) ==
  /\ At(r, "rename", "update") /\ Unlocked(r, Subtree(r))
  /\ \A y \in Subtree(r) : Holders(MovedPath(r, y)) \subseteq Subtree(r)
  /\ \A y \in FileId :
       /\ files'[y] \in FileRec
       /\ files'[y].status = files[y].status /\ files'[y].folder = files[y].folder
       /\ files'[y].version = files[y].version /\ files'[y].rows = files[y].rows
       /\ files'[y].path = IF y \in Subtree(r) THEN MovedPath(r, y) ELSE files[y].path

Deletes(r) ==
  /\ At(r, "delete", "rows")
  /\ \A y \in FileId :
       /\ files'[y] \in FileRec
       /\ files'[y].path = files[y].path /\ files'[y].folder = files[y].folder
       /\ files'[y].status = IF y \in req[r].locked THEN "deleted" ELSE files[y].status
       /\ files'[y].version = IF y \in req[r].expired THEN "expired" ELSE files[y].version
       /\ files'[y].rows = IF y \in Selected(r) /\ files[y].rows = "stored" THEN "expiring" ELSE files[y].rows

Drops ==
  /\ \A x \in FileId : ~Live(x)
  /\ \A x \in FileId : \/ files'[x] = files[x]
                       \/ files[x].status = "deleted" /\ files'[x] = [NoFile EXCEPT !.status = "removed"]

FilesStep(r) ==
  /\ files' = [x \in FileId |-> files'[x]]
  /\ \/ files' = files
     \/ \E x \in FileId : Creates(x) \/ Commits(r, x)
     \/ Renames(r) \/ Deletes(r) \/ Drops

\* The rows a folder or a file is made of.
LEMMA NewFiles ==
  ASSUME NEW p \in Path
  PROVE  LET dir == [NoFile EXCEPT !.path = p, !.folder = TRUE, !.status = "active"]
             up == [NoFile EXCEPT !.path = p, !.status = "uploading", !.version = "pending"]
         IN  /\ dir \in FileRec /\ dir.status = "active" /\ dir.version = "none" /\ dir.path = p
             /\ up \in FileRec /\ up.status = "uploading" /\ up.version = "pending" /\ up.path = p
  BY Zenon DEF NoFile, FileRec, Statuses

\* A row that is gone.
LEMMA RemovedFile ==
  LET gone == [NoFile EXCEPT !.status = "removed"]
  IN  /\ gone \in FileRec /\ gone.status = "removed" /\ gone.version = "none" /\ gone.rows = "none"
      /\ NoFile \in FileRec /\ NoFile.status = "none"
  BY Zenon DEF NoFile, FileRec, Statuses

\* A request changes the files in one of these ways.
LEMMA FileKinds ==
  ASSUME Shape, NEW r \in Request, NamespaceStep(r)
  PROVE  FilesStep(r)
<1>0. files = [x \in FileId |-> files[x]] /\ \A x \in FileId : files[x] \in FileRec
  BY DEF Shape
<1>1. CASE files' = files
  BY <1>0, <1>1 DEF FilesStep
<1>2. ASSUME NEW x \in FileId, NEW rec \in FileRec, files[x] = NoFile, files' = [files EXCEPT ![x] = rec],
             rec.status \in {"uploading", "active"}, rec.version \in {"none", "pending"}, Holders(rec.path) = {}
      PROVE  FilesStep(r)
  <2>1. files'[x] = rec /\ \A y \in FileId \ {x} : files'[y] = files[y]
    BY <1>0, <1>2
  <2>2. files' = [y \in FileId |-> files'[y]]
    BY <1>0, <1>2
  <2>3. Creates(x)
    BY <1>2, <2>1 DEF Creates
  <2>4. QED
    BY <2>2, <2>3 DEF FilesStep
<1>3. CASE CreateFolder(r) /\ files' # files
  <2> DEFINE p == req[r].to
             dir == [NoFile EXCEPT !.path = p, !.folder = TRUE, !.status = "active"]
  <2>1. p \in Path
    BY <1>3 DEF CreateFolder, At, Shape, ReqArgs
  <2>2. PICK x \in FileId : files[x] = NoFile /\ files' = [files EXCEPT ![x] = dir]
    BY <1>3 DEF CreateFolder
  <2>3. Holders(p) = {}
    BY <1>3 DEF CreateFolder
  <2>4. dir \in FileRec /\ dir.status = "active" /\ dir.version = "none" /\ dir.path = p
    BY <2>1, NewFiles, Zenon
  <2> HIDE DEF dir, p
  <2>5. QED
    BY <1>2, <2>2, <2>3, <2>4, Zenon
<1>4. CASE BeginUpload(r) /\ files' # files
  <2> DEFINE p == req[r].to
             up == [NoFile EXCEPT !.path = p, !.status = "uploading", !.version = "pending"]
  <2>1. p \in Path
    BY <1>4, Zenon DEF BeginUpload, At, Shape, ReqArgs
  <2>2. Holders(p) = {} /\ \E x \in FileId : files[x] = NoFile /\ files' = [files EXCEPT ![x] = up]
    BY <1>4, Zenon DEF BeginUpload
  <2>3. up \in FileRec /\ up.status = "uploading" /\ up.version = "pending" /\ up.path = p
    BY <2>1, NewFiles, Zenon
  <2> HIDE DEF up, p
  <2>4. QED
    BY <1>2, <2>2, <2>3, Zenon
<1>5. CASE CommitUpload(r) /\ files' # files
  <2> DEFINE x == req[r].id
  <2>1. x \in FileId
    BY <1>5 DEF CommitUpload, At, Shape, ReqArgs
  <2>2. Unlocked(r, {x}) /\ Live(x)
    BY <1>5 DEF CommitUpload
  <2>3. files' = [files EXCEPT ![x] = [files[x] EXCEPT !.status = "active", !.version = "committed", !.rows = "stored"]]
    BY <1>5, Zenon DEF CommitUpload
  <2> HIDE DEF x
  <2>4. /\ files' = [y \in FileId |-> files'[y]]
        /\ files'[x] = [files[x] EXCEPT !.status = "active", !.version = "committed", !.rows = "stored"]
        /\ \A y \in FileId \ {x} : files'[y] = files[y]
    BY <1>0, <2>1, <2>3
  <2>5. /\ files'[x] \in FileRec /\ files'[x].status = "active"
        /\ files'[x].path = files[x].path /\ files'[x].folder = files[x].folder
    BY <1>0, <2>1, <2>4, Zenon DEF FileRec, Statuses
  <2>6. Commits(r, x)
    BY <2>2, <2>4, <2>5 DEF Commits
  <2>7. QED
    BY <2>1, <2>4, <2>6 DEF FilesStep
<1>6. CASE RenameFile(r) /\ files' # files
  <2> DEFINE moved == Subtree(r)
             taken == (UNION {Holders(MovedPath(r, y)) : y \in moved}) \ moved
  <2>1. /\ At(r, "rename", "update") /\ Unlocked(r, moved) /\ taken = {}
        /\ \A y \in moved : MovedPath(r, y) \in Path
        /\ files' = [y \in FileId |-> IF y \in moved THEN [files[y] EXCEPT !.path = MovedPath(r, y)]
                                      ELSE files[y]]
    BY <1>6 DEF RenameFile
  <2>2. ASSUME NEW y \in moved, NEW z \in Holders(MovedPath(r, y)), z \notin moved
        PROVE  FALSE
    <3> DEFINE H(u) == Holders(MovedPath(r, u))
    <3> HIDE DEF H, moved
    <3>0. z \in H(y)
      BY <2>2 DEF H
    <3>1. z \in UNION {H(u) : u \in moved}
      BY <2>2, <3>0
    <3> USE DEF H
    <3>2. z \in taken
      BY <2>2, <3>1
    <3>3. QED
      BY <2>1, <3>2
  <2> HIDE DEF moved, taken
  <2>3. \A y \in FileId :
          /\ files'[y] \in FileRec
          /\ files'[y].status = files[y].status /\ files'[y].folder = files[y].folder
          /\ files'[y].version = files[y].version /\ files'[y].rows = files[y].rows
          /\ files'[y].path = IF y \in moved THEN MovedPath(r, y) ELSE files[y].path
    BY <1>0, <2>1 DEF FileRec
  <2>4. files' = [y \in FileId |-> files'[y]]
    BY <2>1
  <2>5. Renames(r)
    BY <2>1, <2>2, <2>3 DEF Renames, moved
  <2>6. QED
    BY <2>4, <2>5 DEF FilesStep
<1>7. CASE SoftDeleteFile(r)
  <2> DEFINE rows == {x \in Selected(r) : files[x].rows = "stored"}
  <2>1. /\ At(r, "delete", "rows")
        /\ files' = [x \in FileId |->
             [files[x] EXCEPT !.status = IF x \in req[r].locked THEN "deleted" ELSE @,
                              !.version = IF x \in req[r].expired THEN "expired" ELSE @,
                              !.rows = IF x \in rows THEN "expiring" ELSE @]]
    BY <1>7, Zenon DEF SoftDeleteFile
  <2> HIDE DEF rows
  <2>2. files' = [y \in FileId |-> files'[y]]
    BY <2>1, Zenon
  <2>3. ASSUME NEW y \in FileId
        PROVE  /\ files'[y] \in FileRec
               /\ files'[y].path = files[y].path /\ files'[y].folder = files[y].folder
               /\ files'[y].status = IF y \in req[r].locked THEN "deleted" ELSE files[y].status
               /\ files'[y].version = IF y \in req[r].expired THEN "expired" ELSE files[y].version
               /\ files'[y].rows = IF y \in rows THEN "expiring" ELSE files[y].rows
    <3> DEFINE s == IF y \in req[r].locked THEN "deleted" ELSE files[y].status
               v == IF y \in req[r].expired THEN "expired" ELSE files[y].version
               w == IF y \in rows THEN "expiring" ELSE files[y].rows
    <3>1. files'[y] = [files[y] EXCEPT !.status = s, !.version = v, !.rows = w]
      BY <2>1, Zenon
    <3>2. files[y] \in FileRec
      BY <1>0
    <3>3. /\ s \in Statuses /\ v \in {"none", "pending", "committed", "expired"}
          /\ w \in {"none", "stored", "expiring"}
      BY <3>2 DEF FileRec, Statuses
    <3> HIDE DEF s, v, w
    <3>4. /\ files'[y] \in FileRec
          /\ files'[y].path = files[y].path /\ files'[y].folder = files[y].folder
          /\ files'[y].status = s /\ files'[y].version = v /\ files'[y].rows = w
      BY <3>1, <3>2, <3>3, Zenon DEF FileRec
    <3>5. QED
      BY <3>4 DEF s, v, w
  <2>4. Deletes(r)
    <3>1. ASSUME NEW y \in FileId
          PROVE  files'[y].rows = IF y \in Selected(r) /\ files[y].rows = "stored" THEN "expiring" ELSE files[y].rows
      BY <2>3, Zenon DEF rows
    <3>2. QED
      BY <2>1, <2>3, <3>1, Zenon DEF Deletes
  <2>5. QED
    BY <2>2, <2>4 DEF FilesStep
<1>8. CASE DeleteBucket(r) /\ files' # files
  <2> DEFINE rows == {x \in FileId : files[x].status = "deleted"}
  <2>1. /\ \A x \in FileId : ~Live(x)
        /\ files' = [x \in FileId |-> IF x \in rows THEN [NoFile EXCEPT !.status = "removed"] ELSE files[x]]
    BY <1>8 DEF DeleteBucket
  <2>2. Drops
    BY <2>1 DEF Drops
  <2>3. QED
    BY <2>1, <2>2 DEF FilesStep
<1>9. QED
  BY <1>1, <1>3, <1>4, <1>5, <1>6, <1>7, <1>8, Zenon
  DEF NamespaceStep, CreateBucket, BucketByID, RenameCheck, FileByID, DeleteFiles, DeleteVersions,
      BucketEmpty, ListFiles, RequestFails

-----------------------------------------------------------------------------
(* What a step does to the requests                                        *)

\* Two records of a request that differ in what a listing saw, if at all.
Same(x, y) ==
  /\ x.op = y.op /\ x.at = y.at /\ x.id = y.id /\ x.key = y.key /\ x.late = y.late
  /\ x.path = y.path /\ x.to = y.to /\ x.locked = y.locked /\ x.expired = y.expired

OthersKept(r) ==
  /\ req' = [q \in Request |-> req'[q]]
  /\ \A q \in Request \ {r} : ReqType(req'[q]) /\ Same(req'[q], req[q])

Ended(x) == x.op = "none" /\ x.at = "done" /\ x.locked = {} /\ x.expired = {}

Started(x) ==
  /\ x.at = "key" /\ x.op # "none" /\ x.locked = {} /\ x.expired = {}
  /\ x.key \in Key /\ key[x.key].status # "none"
  /\ x.late = (key[x.key].status # "active" \/ user # "active")

\* The same request, before and after a statement that does not end it.
Goes(x, y) == y.op = x.op /\ y.key = x.key /\ y.late = x.late
Rows(x, y) == y.locked = x.locked /\ y.expired = x.expired

\* The two lookups of the key, and the call of the handler.
Admitted(x, y) ==
  /\ Goes(x, y) /\ Rows(x, y)
  /\ \/ x.at = "key" /\ y.at = "admit" /\ key[x.key].status = "active"
     \/ /\ x.at = "admit" /\ y.at = "call" /\ user = "active"
        /\ x.op = "list" \/ key[x.key].write
        /\ x.op \in {"delete", "rename"} => y.id \in FileId /\ files[y.id].status # "none"
        /\ x.op \in {"mkdir", "put", "rename"} => y.to \in Path

\* A statement of a request that neither renames nor deletes a file.
Handled(x, y) ==
  /\ Goes(x, y) /\ Rows(x, y)
  /\ x.at \notin {"idle", "key", "admit", "done"} /\ y.at \notin {"idle", "key", "admit"}
  /\ x.op \notin {"rename", "delete"} /\ y.to = x.to
  /\ x.op = "put" /\ y.at = "commit" => y.id \in FileId

\* The statements of a rename and of a soft delete before the last.
Prepared(r, x, y) ==
  /\ Goes(x, y) /\ y.id = x.id /\ y.to = x.to /\ files' = files
  /\ \/ /\ x.op = "rename" /\ x.at = "call" /\ y.at = "update"
        /\ y.path = files[x.id].path /\ y.locked = {x.id} /\ y.expired = x.expired /\ Unlocked(r, {x.id})
     \/ /\ x.op = "delete" /\ x.at = "call" /\ y.at = "files" /\ Rows(x, y)
     \/ /\ x.op = "delete" /\ x.at = "files" /\ y.at = "versions" /\ y.path = x.path
        /\ y.locked = {z \in Selected(r) : Live(z)} /\ y.expired = x.expired /\ Unlocked(r, y.locked)
     \/ /\ x.op = "delete" /\ x.at = "versions" /\ y.at = "rows" /\ y.path = x.path
        /\ y.locked = x.locked /\ Unlocked(r, y.expired)
        /\ y.expired = {z \in Selected(r) : files[z].version \in {"pending", "committed"}}

RequestStep(r) ==
  /\ OthersKept(r) /\ ReqType(req'[r])
  /\ \/ Ended(req'[r])
     \/ req[r].at = "idle" /\ Started(req'[r])
     \/ Admitted(req[r], req'[r])
     \/ Handled(req[r], req'[r])
     \/ Prepared(r, req[r], req'[r])

\* What an answer leaves.
LEMMA EndedFields ==
  LET y == [NoReq EXCEPT !.at = "done"] IN ReqType(y) /\ Ended(y)
  BY Zenon DEF NoReq, ReqType, Ended, Stages, Ops

\* Rows that leave a listing change nothing else.
LEMMA StayFields ==
  ASSUME NEW x, ReqType(x), NEW s
  PROVE  LET y == [x EXCEPT !.stay = s] IN ReqType(y) /\ Same(y, x)
  BY DEF ReqType, Same

\* A step that rewrites one request leaves the others.
LEMMA OneRequest ==
  ASSUME Shape, NEW r \in Request, NEW new, req' = [req EXCEPT ![r] = new]
  PROVE  OthersKept(r) /\ req'[r] = new
  BY DEF Shape, OthersKept, Same

\* An answer, also that of a step which moves rows under a listing.
LEMMA AnswerStep ==
  ASSUME Shape, NEW r \in Request, NEW moved, Answers(r) \/ AnswersMoving(r, moved)
  PROVE  RequestStep(r)
<1>1. CASE Answers(r)
  BY <1>1, OneRequest, EndedFields, Zenon DEF Answers, RequestStep
<1>2. CASE AnswersMoving(r, moved)
  <2>1. /\ req' = [q \in Request |-> req'[q]] /\ req'[r] = [NoReq EXCEPT !.at = "done"]
        /\ \A q \in Request \ {r} : req'[q] = [req[q] EXCEPT !.stay = req[q].stay \ moved]
    BY <1>2 DEF AnswersMoving
  <2>2. ASSUME NEW q \in Request \ {r}
        PROVE  ReqType(req'[q]) /\ Same(req'[q], req[q])
    <3> DEFINE s == req[q].stay \ moved
    <3>1. req'[q] = [req[q] EXCEPT !.stay = s] /\ ReqType(req[q])
      BY <2>1 DEF Shape
    <3> HIDE DEF s
    <3>2. QED
      BY <3>1, StayFields
  <2>3. QED
    BY <2>1, <2>2, EndedFields DEF RequestStep, OthersKept
<1>3. QED
  BY <1>1, <1>2

\* A step of a request in the store moves it in one of these ways.
LEMMA StoreStep ==
  ASSUME Shape, NEW r \in Request, NamespaceStep(r)
  PROVE  RequestStep(r)
<1>0. ReqType(req[r]) /\ ReqArgs(req[r])
  BY DEF Shape
<1>1. CASE \E moved : Answers(r) \/ AnswersMoving(r, moved)
  BY <1>1, AnswerStep
<1>2. ASSUME NEW y, req' = [req EXCEPT ![r] = y], ReqType(y), Handled(req[r], y) \/ Prepared(r, req[r], y)
      PROVE  RequestStep(r)
  BY <1>2, OneRequest, Zenon DEF RequestStep
<1>3. CASE BucketByID(r) \/ BucketEmpty(r)
  <2>1. CASE Answers(r)
    BY <1>1, <2>1
  <2>2. CASE ~Answers(r)
    <3>1. PICK a \in {"insert", "drop"} : req' = [req EXCEPT ![r] = [req[r] EXCEPT !.at = a]]
      BY <1>3, <2>2 DEF BucketByID, BucketEmpty, Goto
    <3> DEFINE y == [req[r] EXCEPT !.at = a]
    <3>2. /\ ReqType(y) /\ Goes(req[r], y) /\ Rows(req[r], y) /\ y.at = a /\ y.to = req[r].to
      BY <1>0 DEF ReqType, Goes, Rows, Stages
    <3>3. req[r].op \in {"mkdir", "put", "rmbucket"} /\ req[r].at = "call"
      BY <1>3 DEF BucketByID, BucketEmpty, At
    <3> HIDE DEF y
    <3>4. Handled(req[r], y)
      BY <3>2, <3>3 DEF Handled
    <3>5. QED
      BY <1>2, <3>1, <3>2, <3>4, Zenon DEF y
  <2>3. QED
    BY <2>1, <2>2
<1>4. CASE BeginUpload(r) /\ ~Answers(r)
  <2>1. PICK x \in FileId : req' = [req EXCEPT ![r] = [req[r] EXCEPT !.id = x, !.at = "commit"]]
    BY <1>4, Zenon DEF BeginUpload, Holders
  <2> DEFINE y == [req[r] EXCEPT !.id = x, !.at = "commit"]
  <2>2. ReqType(y) /\ Goes(req[r], y) /\ Rows(req[r], y) /\ y.at = "commit" /\ y.id = x /\ y.to = req[r].to
    BY <1>0, Zenon DEF ReqType, Goes, Rows, Stages
  <2>3. req[r].op = "put" /\ req[r].at = "insert"
    BY <1>4 DEF BeginUpload, At
  <2> HIDE DEF y
  <2>4. Handled(req[r], y)
    BY <2>2, <2>3 DEF Handled
  <2>5. QED
    BY <1>2, <2>1, <2>2, <2>4, Zenon DEF y
<1>5. CASE RenameCheck(r) /\ ~Answers(r)
  <2> DEFINE x == req[r].id
             y == [req[r] EXCEPT !.path = files[x].path, !.locked = {x}, !.at = "update"]
  <2>1. req' = [req EXCEPT ![r] = y] /\ Unlocked(r, {x}) /\ files' = files
    BY <1>5, Zenon DEF RenameCheck
  <2>2. req[r].op = "rename" /\ req[r].at = "call"
    BY <1>5 DEF RenameCheck, At
  <2>3. {x} \in SUBSET FileId
    BY <1>0, <2>2 DEF ReqArgs
  <2>4. /\ ReqType(y) /\ Goes(req[r], y) /\ y.at = "update" /\ y.id = x /\ y.to = req[r].to
        /\ y.path = files[x].path /\ y.locked = {x} /\ y.expired = req[r].expired
    BY <1>0, <2>3, Zenon DEF ReqType, Goes, Stages
  <2> HIDE DEF y
  <2>5. Prepared(r, req[r], y)
    BY <2>1, <2>2, <2>4 DEF Prepared
  <2>6. QED
    BY <1>2, <2>1, <2>4, <2>5, Zenon
<1>6. CASE FileByID(r) /\ ~Answers(r)
  <2> DEFINE y == [req[r] EXCEPT !.path = files[req[r].id].path, !.at = "files"]
  <2>1. req' = [req EXCEPT ![r] = y] /\ files' = files
    BY <1>6, Zenon DEF FileByID
  <2>2. req[r].op = "delete" /\ req[r].at = "call"
    BY <1>6 DEF FileByID, At
  <2>3. ReqType(y) /\ Goes(req[r], y) /\ Rows(req[r], y) /\ y.at = "files" /\ y.id = req[r].id /\ y.to = req[r].to
    BY <1>0, Zenon DEF ReqType, Goes, Rows, Stages
  <2> HIDE DEF y
  <2>4. Prepared(r, req[r], y)
    BY <2>1, <2>2, <2>3 DEF Prepared
  <2>5. QED
    BY <1>2, <2>1, <2>3, <2>4, Zenon
<1>7. CASE DeleteFiles(r) \/ DeleteVersions(r)
  <2>0. req[r].op = "delete" /\ req[r].id \in FileId
    BY <1>0, <1>7 DEF DeleteFiles, DeleteVersions, At, ReqArgs
  <2>1. Selected(r) \subseteq FileId
    BY <2>0 DEF Selected, Under
  <2>2. CASE DeleteFiles(r)
    <3> DEFINE dead == {x \in Selected(r) : Live(x)}
               y == [req[r] EXCEPT !.locked = dead, !.at = "versions"]
    <3>1. req' = [req EXCEPT ![r] = y] /\ Unlocked(r, dead) /\ files' = files /\ req[r].at = "files"
      BY <2>2, Zenon DEF DeleteFiles, At
    <3>2. dead \in SUBSET FileId
      BY <2>1
    <3> HIDE DEF dead
    <3>3. /\ ReqType(y) /\ Goes(req[r], y) /\ y.at = "versions" /\ y.id = req[r].id /\ y.to = req[r].to
          /\ y.path = req[r].path /\ y.locked = dead /\ y.expired = req[r].expired
      BY <1>0, <3>2, Zenon DEF ReqType, Goes, Stages
    <3> HIDE DEF y
    <3>4. Prepared(r, req[r], y)
      BY <2>0, <3>1, <3>3 DEF Prepared, dead
    <3>5. QED
      BY <1>2, <3>1, <3>3, <3>4, Zenon
  <2>3. CASE DeleteVersions(r)
    <3> DEFINE expired == {x \in Selected(r) : files[x].version \in {"pending", "committed"}}
               y == [req[r] EXCEPT !.expired = expired, !.at = "rows"]
    <3>1. req' = [req EXCEPT ![r] = y] /\ Unlocked(r, expired) /\ files' = files /\ req[r].at = "versions"
      BY <2>3, Zenon DEF DeleteVersions, At
    <3>2. expired \in SUBSET FileId
      BY <2>1
    <3> HIDE DEF expired
    <3>3. /\ ReqType(y) /\ Goes(req[r], y) /\ y.at = "rows" /\ y.id = req[r].id /\ y.to = req[r].to
          /\ y.path = req[r].path /\ y.locked = req[r].locked /\ y.expired = expired
      BY <1>0, <3>2, Zenon DEF ReqType, Goes, Stages
    <3> HIDE DEF y
    <3>4. Prepared(r, req[r], y)
      BY <2>0, <3>1, <3>3 DEF Prepared, expired
    <3>5. QED
      BY <1>2, <3>1, <3>3, <3>4, Zenon
  <2>4. QED
    BY <1>7, <2>2, <2>3
<1>8. CASE ListFiles(r)
  <2> DEFINE rows == After(r)
             s == req[r].seen \o SubSeq(rows, 1, Min({PageSize, Len(rows)}))
             p == IF Len(rows) > PageSize THEN files[rows[PageSize]].path ELSE req[r].path
             a == IF Len(rows) > PageSize THEN "call" ELSE "done"
             y == [req[r] EXCEPT !.seen = s, !.path = p, !.at = a]
  <2>1. req' = [req EXCEPT ![r] = y]
    BY <1>8, Zenon DEF ListFiles
  <2>2. req[r].op = "list" /\ req[r].at = "call" /\ a \in {"call", "done"}
    BY <1>8 DEF ListFiles, At
  <2> HIDE DEF s, p, a
  <2>3. ReqType(y) /\ Goes(req[r], y) /\ Rows(req[r], y) /\ y.at = a /\ y.to = req[r].to
    BY <1>0, <2>2, Zenon DEF ReqType, Goes, Rows, Stages
  <2> HIDE DEF y
  <2>4. Handled(req[r], y)
    BY <2>2, <2>3 DEF Handled
  <2>5. QED
    BY <1>2, <2>1, <2>3, <2>4, Zenon
<1>9. CreateBucket(r) \/ CreateFolder(r) \/ CommitUpload(r) \/ RenameFile(r) \/ SoftDeleteFile(r)
      \/ DeleteBucket(r) \/ RequestFails(r) => \E moved : Answers(r) \/ AnswersMoving(r, moved)
  BY Zenon DEF CreateBucket, CreateFolder, CommitUpload, RenameFile, SoftDeleteFile, DeleteBucket, RequestFails
<1>10. QED
  BY <1>1, <1>3, <1>4, <1>5, <1>6, <1>7, <1>8, <1>9 DEF NamespaceStep

\* So does one in the gateway.
LEMMA GatewayStep ==
  ASSUME Shape, NEW r \in Request,
         Serve(r) \/ \E k \in Key, op \in Ops : Arrives(r, k, op)
  PROVE  RequestStep(r)
<1>0. ReqType(req[r])
  BY DEF Shape
<1>1. CASE Answers(r)
  BY <1>1, AnswerStep
<1>2. ASSUME NEW y, req' = [req EXCEPT ![r] = y], ReqType(y), Admitted(req[r], y)
      PROVE  RequestStep(r)
  BY <1>2, OneRequest, Zenon DEF RequestStep
<1>3. ASSUME NEW k \in Key, NEW op \in Ops, Arrives(r, k, op)
      PROVE  RequestStep(r)
  <2> DEFINE late == key[k].status # "active" \/ user # "active"
             y == [NoReq EXCEPT !.op = op, !.at = "key", !.key = k, !.late = late]
  <2>1. req[r].at = "idle" /\ key[k].status # "none" /\ req' = [req EXCEPT ![r] = y]
    BY <1>3, Zenon DEF Arrives
  <2>2. late \in BOOLEAN
    OBVIOUS
  <2> HIDE DEF late
  <2>3. /\ ReqType(y) /\ y.at = "key" /\ y.op = op /\ y.key = k /\ y.late = late
        /\ y.locked = {} /\ y.expired = {}
    BY <2>2, Zenon DEF NoReq, ReqType, Stages
  <2> HIDE DEF y
  <2>4. Started(y)
    BY <2>1, <2>3 DEF Started, Ops, late
  <2>5. QED
    BY <2>1, <2>3, <2>4, OneRequest, Zenon DEF RequestStep
<1>4. CASE APIKeyByHash(r) /\ ~Answers(r)
  <2> DEFINE y == [req[r] EXCEPT !.at = "admit"]
  <2>1. req[r].at = "key" /\ key[req[r].key].status = "active" /\ req' = [req EXCEPT ![r] = y]
    BY <1>4 DEF APIKeyByHash, Goto
  <2>2. ReqType(y) /\ Goes(req[r], y) /\ Rows(req[r], y) /\ y.at = "admit"
    BY <1>0 DEF ReqType, Goes, Rows, Stages
  <2> HIDE DEF y
  <2>3. Admitted(req[r], y)
    BY <2>1, <2>2 DEF Admitted
  <2>4. QED
    BY <1>2, <2>1, <2>2, <2>3, Zenon
<1>5. ASSUME NEW y, NEW ops, Handle(r, ops, y), ReqType(y), Goes(req[r], y), Rows(req[r], y), y.at = "call",
             req[r].op \in {"delete", "rename"} => y.id \in Known,
             req[r].op \in {"mkdir", "put", "rename"} => y.to \in Path
      PROVE  RequestStep(r)
  <2>1. req[r].at = "admit" /\ Allowed(r) /\ req' = [req EXCEPT ![r] = y]
    BY <1>5 DEF Handle
  <2>2. Admitted(req[r], y)
    BY <1>5, <2>1 DEF Admitted, Allowed, Known
  <2>3. QED
    BY <1>2, <1>5, <2>1, <2>2, Zenon
<1>6. CASE handleListFiles(r)
  <2> DEFINE s == {x \in FileId : Live(x)}
             y == [req[r] EXCEPT !.at = "call", !.stay = s]
  <2>1. Handle(r, {"list"}, y)
    BY <1>6 DEF handleListFiles
  <2> HIDE DEF s
  <2>2. ReqType(y) /\ Goes(req[r], y) /\ Rows(req[r], y) /\ y.at = "call"
    BY <1>0, Zenon DEF ReqType, Goes, Rows, Stages
  <2>3. req[r].op = "list"
    BY <2>1 DEF Handle
  <2> HIDE DEF y
  <2>4. QED
    BY <1>5, <2>1, <2>2, <2>3
<1>7. CASE handleCreateBucket(r) \/ handleDeleteBucket(r)
  <2> DEFINE y == [req[r] EXCEPT !.at = "call"]
  <2>1. PICK op \in {"mkbucket", "rmbucket"} : Handle(r, {op}, y)
    BY <1>7 DEF handleCreateBucket, handleDeleteBucket
  <2>2. ReqType(y) /\ Goes(req[r], y) /\ Rows(req[r], y) /\ y.at = "call"
    BY <1>0 DEF ReqType, Goes, Rows, Stages
  <2>3. req[r].op = op
    BY <2>1 DEF Handle
  <2> HIDE DEF y
  <2>4. QED
    BY <1>5, <2>1, <2>2, <2>3
<1>8. CASE handleCreateFolder(r) \/ handlePlanUpload(r)
  <2>1. PICK op \in {"mkdir", "put"} : \E p \in Path : Handle(r, {op}, [req[r] EXCEPT !.at = "call", !.to = p])
    BY <1>8, Zenon DEF handleCreateFolder, handlePlanUpload
  <2>2. PICK p \in Path : Handle(r, {op}, [req[r] EXCEPT !.at = "call", !.to = p])
    BY <2>1, Zenon
  <2> DEFINE y == [req[r] EXCEPT !.at = "call", !.to = p]
  <2>3. ReqType(y) /\ Goes(req[r], y) /\ Rows(req[r], y) /\ y.at = "call" /\ y.to = p
    BY <1>0, Zenon DEF ReqType, Goes, Rows, Stages
  <2>4. req[r].op = op /\ Handle(r, {op}, y)
    BY <2>2 DEF Handle
  <2> HIDE DEF y
  <2>5. QED
    BY <1>5, <2>3, <2>4
<1>9. CASE handleDeleteFile(r)
  <2>1. PICK x \in Known : Handle(r, {"delete"}, [req[r] EXCEPT !.at = "call", !.id = x])
    BY <1>9, Zenon DEF handleDeleteFile
  <2> DEFINE y == [req[r] EXCEPT !.at = "call", !.id = x]
  <2>2. ReqType(y) /\ Goes(req[r], y) /\ Rows(req[r], y) /\ y.at = "call" /\ y.id = x
    BY <1>0, Zenon DEF ReqType, Goes, Rows, Stages
  <2>3. req[r].op = "delete" /\ Handle(r, {"delete"}, y)
    BY <2>1 DEF Handle
  <2> HIDE DEF y
  <2>4. QED
    BY <1>5, <2>2, <2>3
<1>10. CASE handleRename(r)
  <2>1. PICK x \in Known, p \in Path : Handle(r, {"rename"}, [req[r] EXCEPT !.at = "call", !.id = x, !.to = p])
    BY <1>10, Zenon DEF handleRename
  <2> DEFINE y == [req[r] EXCEPT !.at = "call", !.id = x, !.to = p]
  <2>2. ReqType(y) /\ Goes(req[r], y) /\ Rows(req[r], y) /\ y.at = "call" /\ y.id = x /\ y.to = p
    BY <1>0, Zenon DEF ReqType, Goes, Rows, Stages
  <2>3. Handle(r, {"rename"}, y)
    BY <2>1
  <2> HIDE DEF y
  <2>4. QED
    BY <1>5, <2>2, <2>3
<1>11. QED
  BY <1>1, <1>3, <1>4, <1>6, <1>7, <1>8, <1>9, <1>10 DEF Serve, Refuse

\* What a step does to the keys and the account: a key that ended stays so,
\* and so does a suspension.
AccessStep ==
  /\ key' = [k \in Key |-> key'[k]]
  /\ \A k \in Key :
       /\ key'[k] \in KeyRec
       /\ key[k].status # "none" => key'[k].status # "none" /\ key'[k].write = key[k].write
       /\ key[k].status = "ended" => key'[k].status = "ended"
       /\ key[k].status = "none" /\ key'[k].status # "none" => user = "active"
  /\ user' \in {"none", "active", "suspended"}
  /\ user = "suspended" => user' = "suspended"
  /\ user # "none" => user' # "none"

StoreOrGateway(r) == FilesStep(r) /\ RequestStep(r) /\ UNCHANGED access

\* Every step serves one request or changes the keys and the account.
LEMMA StepKinds ==
  ASSUME Shape, KeyInv, [Next]_vars
  PROVE  \/ \E r \in Request : StoreOrGateway(r)
         \/ UNCHANGED <<files, req>> /\ AccessStep
<1>0. /\ key = [k \in Key |-> key[k]] /\ \A k \in Key : key[k] \in KeyRec
      /\ user \in {"none", "active", "suspended"}
  BY DEF KeyInv
<1>1. CASE UNCHANGED <<files, req, access>>
  BY <1>0, <1>1 DEF AccessStep, access
<1>2. ASSUME NEW r \in Request, NamespaceStep(r) /\ UNCHANGED access
      PROVE  StoreOrGateway(r)
  BY <1>2, FileKinds, StoreStep DEF StoreOrGateway
<1>3. ASSUME NEW r \in Request, Serve(r) \/ \E k \in Key, op \in Ops : Arrives(r, k, op)
      PROVE  StoreOrGateway(r)
  <2>1. UNCHANGED files /\ UNCHANGED access
    <3>1. CASE \E k \in Key, op \in Ops : Arrives(r, k, op)
      BY <3>1 DEF Arrives
    <3>2. CASE APIKeyByHash(r) \/ Refuse(r)
      BY <3>2 DEF APIKeyByHash, Refuse
    <3>3. CASE \E ops, called : Handle(r, ops, called)
      BY <3>3 DEF Handle
    <3>4. QED
      BY <1>3, <3>1, <3>2, <3>3, Zenon
      DEF Serve, handleListFiles, handleCreateBucket, handleDeleteBucket, handleCreateFolder,
          handlePlanUpload, handleDeleteFile, handleRename
  <2>2. FilesStep(r)
    BY <2>1 DEF FilesStep, Shape
  <2>3. QED
    BY <1>3, <2>1, <2>2, GatewayStep DEF StoreOrGateway
<1>4. ASSUME NEW k \in Key, NEW rec \in KeyRec, UNCHANGED <<files, req, user>>, key' = [key EXCEPT ![k] = rec],
             rec.status # "none", key[k].status # "none" => rec.write = key[k].write, key[k].status # "ended",
             key[k].status = "none" => user = "active"
      PROVE  UNCHANGED <<files, req>> /\ AccessStep
  BY <1>0, <1>4 DEF AccessStep
<1>5. ASSUME NEW k \in Key, NEW write \in BOOLEAN, CreateAPIKey(k, write)
      PROVE  UNCHANGED <<files, req>> /\ AccessStep
  <2> DEFINE rec == [status |-> "active", write |-> write]
  <2>1. rec \in KeyRec /\ rec.status = "active"
    BY DEF KeyRec
  <2>2. UNCHANGED <<files, req, user>> /\ key' = [key EXCEPT ![k] = rec] /\ key[k].status = "none" /\ user = "active"
    BY <1>5 DEF CreateAPIKey
  <2> HIDE DEF rec
  <2>3. QED
    BY <1>4, <2>1, <2>2, Zenon
<1>6. ASSUME NEW k \in Key, RevokeAPIKey(k) \/ KeyExpires(k)
      PROVE  UNCHANGED <<files, req>> /\ AccessStep
  <2> DEFINE rec == [key[k] EXCEPT !.status = "ended"]
  <2>1. UNCHANGED <<files, req, user>> /\ key' = [key EXCEPT ![k] = rec] /\ key[k].status = "active"
    BY <1>6 DEF RevokeAPIKey, KeyExpires
  <2>2. rec \in KeyRec /\ rec.status = "ended" /\ rec.write = key[k].write
    BY <1>0 DEF KeyRec
  <2> HIDE DEF rec
  <2>3. QED
    BY <1>4, <2>1, <2>2, Zenon
<1>7. CASE CreateUser \/ SuspendUser
  BY <1>0, <1>7 DEF CreateUser, SuspendUser, AccessStep
<1>8. QED
  BY <1>1, <1>2, <1>3, <1>5, <1>6, <1>7 DEF Next, vars

\* The records keep their types.
LEMMA ShapeStep ==
  ASSUME Shape, KeyInv, [Next]_vars
  PROVE  Shape'
<1>1. CASE UNCHANGED <<files, req>>
  BY <1>1 DEF Shape, ReqType, ReqArgs
<1>2. ASSUME NEW r \in Request, StoreOrGateway(r)
      PROVE  Shape'
  <2>0. FilesStep(r) /\ RequestStep(r)
    BY <1>2 DEF StoreOrGateway
  <2>1. files' \in [FileId -> FileRec]
    <3>1. \A x \in FileId : files'[x] \in FileRec
      BY <2>0, RemovedFile, Zenon DEF FilesStep, Shape, Creates, Commits, Renames, Deletes, Drops
    <3>2. files' = [x \in FileId |-> files'[x]]
      BY <2>0 DEF FilesStep
    <3>3. QED
      BY <3>1, <3>2
  <2>2. OthersKept(r) /\ ReqType(req'[r])
    BY <2>0 DEF RequestStep
  <2>3. ASSUME NEW q \in Request \ {r}
        PROVE  ReqType(req'[q]) /\ ReqArgs(req'[q])
    <3>1. ReqType(req'[q]) /\ Same(req'[q], req[q]) /\ ReqArgs(req[q])
      BY <2>2 DEF OthersKept, Shape
    <3>2. ReqArgs(req'[q])
      BY <3>1 DEF Same, ReqArgs
    <3>3. QED
      BY <3>1, <3>2
  <2>4. ReqArgs(req'[r])
    <3>0. ReqArgs(req[r]) /\ \A x \in FileId : files[x].path \in Seq(Nat)
      <4>1. \A x \in FileId : files[x].path \in Path \cup {<<>>}
        BY DEF Shape, FileRec
      <4>2. Path \cup {<<>>} \subseteq Seq(Nat)
        BY NamespaceAssumption, EmptySeq, Zenon
      <4>3. QED
        BY <4>1, <4>2 DEF Shape
    <3>1. CASE Ended(req'[r])
      BY <3>1 DEF Ended, ReqArgs
    <3>2. CASE Started(req'[r])
      BY <3>2 DEF Started, ReqArgs
    <3>3. CASE Admitted(req[r], req'[r])
      BY <3>3 DEF Admitted, Goes, ReqArgs
    <3>4. CASE Handled(req[r], req'[r])
      BY <3>0, <3>4 DEF Handled, Goes, ReqArgs
    <3>5. CASE Prepared(r, req[r], req'[r])
      BY <3>0, <3>5 DEF Prepared, Goes, ReqArgs
    <3>6. QED
      BY <2>0, <3>1, <3>2, <3>3, <3>4, <3>5 DEF RequestStep
  <2>5. req' = [q \in Request |-> req'[q]] /\ \A q \in Request : ReqType(req'[q]) /\ ReqArgs(req'[q])
    BY <2>2, <2>3, <2>4 DEF OthersKept
  <2>6. QED
    BY <2>1, <2>5 DEF Shape, ReqType, ReqArgs
<1>3. QED
  BY <1>1, <1>2, StepKinds

\* A key that is let in stays known, and a request that is let in came in time.
LEMMA KeyStep ==
  ASSUME Shape, KeyInv, [Next]_vars
  PROVE  KeyInv'
<1>1. CASE UNCHANGED <<files, req>> /\ AccessStep
  <2>1. (\E k \in Key : key'[k].status # "none") => user' # "none"
    BY <1>1 DEF KeyInv, AccessStep
  <2>2. ASSUME NEW r \in Request, req[r].at \notin {"idle", "done"}
        PROVE  /\ req[r].key \in Key /\ key'[req[r].key].status # "none"
               /\ req[r].late => key'[req[r].key].status = "ended" \/ user' = "suspended"
               /\ req[r].at # "key" /\ req[r].late => user' = "suspended"
               /\ req[r].at \notin {"key", "admit"} => ~req[r].late /\ (req[r].op # "list" => key'[req[r].key].write)
    BY <1>1, <2>2 DEF KeyInv, AccessStep
  <2>3. QED
    BY <1>1, <2>1, <2>2 DEF KeyInv, AccessStep
<1>2. ASSUME NEW r \in Request, StoreOrGateway(r)
      PROVE  KeyInv'
  <2>0. UNCHANGED <<key, user>> /\ RequestStep(r)
    BY <1>2 DEF StoreOrGateway, access
  <2> DEFINE OK(x) == x.at \notin {"idle", "done"} =>
               /\ x.key \in Key /\ key[x.key].status # "none"
               /\ x.late => key[x.key].status = "ended" \/ user = "suspended"
               /\ x.at # "key" /\ x.late => user = "suspended"
               /\ x.at \notin {"key", "admit"} => ~x.late /\ (x.op # "list" => key[x.key].write)
  <2>1. \A q \in Request : OK(req[q])
    BY DEF KeyInv
  <2>2. ASSUME NEW q \in Request \ {r}
        PROVE  OK(req'[q])
    <3>1. Same(req'[q], req[q])
      BY <2>0 DEF RequestStep, OthersKept
    <3>2. QED
      BY <2>1, <3>1 DEF Same
  <2>3. OK(req'[r])
    <3>0. OK(req[r]) /\ \A k \in Key : key[k].status \in {"none", "active", "ended"} /\ (key[k].status # "none" => user # "none")
      BY <2>1 DEF KeyInv, KeyRec
    <3>1. CASE Ended(req'[r])
      BY <3>1 DEF Ended
    <3>2. CASE Started(req'[r])
      BY <3>0, <3>2, Zenon DEF Started, KeyInv
    <3>3. CASE Admitted(req[r], req'[r])
      BY <3>0, <3>3 DEF Admitted, Goes
    <3>4. CASE Handled(req[r], req'[r])
      BY <3>0, <3>4 DEF Handled, Goes
    <3>5. CASE Prepared(r, req[r], req'[r])
      BY <3>0, <3>5 DEF Prepared, Goes
    <3>6. QED
      BY <2>0, <3>1, <3>2, <3>3, <3>4, <3>5 DEF RequestStep
  <2>4. QED
    BY <2>0, <2>2, <2>3 DEF KeyInv
<1>3. QED
  BY <1>1, <1>2, StepKinds

-----------------------------------------------------------------------------
(* Paths                                                                   *)

\* A path is its folder's path and the rest.
LEMMA PathParts ==
  ASSUME NEW s \in Seq(Nat), NEW p \in Seq(Nat), IsPrefix(p, s)
  PROVE  s = p \o SubSeq(s, Len(p) + 1, Len(s)) /\ SubSeq(s, Len(p) + 1, Len(s)) \in Seq(Nat)
<1>1. Len(p) \in Nat /\ Len(s) \in Nat /\ Len(p) <= Len(s) /\ SubSeq(p, 1, Len(p)) = SubSeq(s, 1, Len(p))
  BY LenProperties DEF IsPrefix
<1>2. SubSeq(s, 1, Len(s)) = SubSeq(s, 1, Len(p)) \o SubSeq(s, Len(p) + 1, Len(s))
  <2>1. 1 \in 1 .. Len(s) + 1 /\ Len(p) \in 1 - 1 .. Len(s) /\ Len(s) \in Len(p) .. Len(s)
    BY <1>1
  <2>2. QED
    BY <2>1, ConcatAdjacentSubSeq, Zenon
<1>3. SubSeq(s, 1, Len(s)) = s /\ SubSeq(p, 1, Len(p)) = p
  BY SubSeqFull
<1>4. SubSeq(s, Len(p) + 1, Len(s)) \in Seq(Nat)
  <2>1. \A i \in Len(p) + 1 .. Len(s) : s[i] \in Nat
    BY <1>1, ElementOfSeq
  <2>2. Len(p) + 1 \in Int /\ Len(s) \in Int
    BY <1>1
  <2>3. QED
    BY <2>1, <2>2, SubSeqProperties
<1>5. QED
  BY <1>1, <1>2, <1>3, <1>4, Zenon

\* Two rows of a folder that a rename takes to the same path had the same path.
LEMMA SameMove ==
  ASSUME NEW s \in Seq(Nat), NEW t \in Seq(Nat), NEW p \in Seq(Nat), NEW q \in Seq(Nat),
         IsPrefix(p, s), IsPrefix(p, t),
         q \o SubSeq(s, Len(p) + 1, Len(s)) = q \o SubSeq(t, Len(p) + 1, Len(t))
  PROVE  s = t
<1> DEFINE u == SubSeq(s, Len(p) + 1, Len(s))
           v == SubSeq(t, Len(p) + 1, Len(t))
<1>1. u \in Seq(Nat) /\ v \in Seq(Nat) /\ s = p \o u /\ t = p \o v
  BY PathParts, Zenon
<1>2. u = v
  <2>1. q \o u = q \o v
    BY Zenon
  <2> HIDE DEF u, v
  <2>2. QED
    BY <1>1, <2>1, ConcatSimplifications, Zenon
<1>3. QED
  BY <1>1, <1>2, Zenon

\* Live rows keep different paths.
LEMMA UniqueStep ==
  ASSUME Shape, KeyInv, OneLivePerPath, [Next]_vars
  PROVE  OneLivePerPath'
<1>1. CASE files' = files
  BY <1>1 DEF OneLivePerPath, Live
<1>2. ASSUME NEW r \in Request, FilesStep(r),
             NEW x \in FileId, NEW y \in FileId, x # y,
             files'[x].status \in {"uploading", "active"}, files'[y].status \in {"uploading", "active"},
             files'[x].path = files'[y].path
      PROVE  FALSE
  <2>0. ~(Live(x) /\ Live(y) /\ files[x].path = files[y].path)
    BY <1>2 DEF OneLivePerPath
  <2>1. CASE files' = files
    BY <1>2, <2>0, <2>1 DEF Live
  <2>2. ASSUME NEW z \in FileId, Creates(z) PROVE FALSE
    <3>1. \A u \in FileId \ {z} : files'[u] = files[u] /\ ~(Live(u) /\ files[u].path = files'[z].path)
      BY <2>2 DEF Creates, Holders
    <3>2. QED
      BY <1>2, <2>0, <3>1 DEF Live
  <2>3. ASSUME NEW z \in FileId, Commits(r, z) PROVE FALSE
    BY <1>2, <2>0, <2>3 DEF Commits, Live
  <2>4. CASE Renames(r)
    <3> DEFINE p == req[r].path
    <3>1. /\ Live(x) /\ Live(y)
          /\ \A z \in {x, y} : files'[z].path = IF z \in Subtree(r) THEN MovedPath(r, z) ELSE files[z].path
          /\ \A z \in {x, y} : z \in Subtree(r) => Holders(MovedPath(r, z)) \subseteq Subtree(r)
      BY <1>2, <2>4 DEF Renames, Live
    <3>2. CASE x \in Subtree(r) /\ y \in Subtree(r)
      <4>1. files[req[r].id].folder
        BY <1>2, <3>2 DEF Subtree
      <4>2. IsPrefix(p, files[x].path) /\ IsPrefix(p, files[y].path)
        BY <3>2, <4>1 DEF Subtree, Under
      <4>3. p \in Seq(Nat) /\ req[r].to \in Seq(Nat)
        BY <2>4, NamespaceAssumption DEF Renames, At, Shape, ReqArgs
      <4>4. files[x].path \in Seq(Nat) /\ files[y].path \in Seq(Nat)
        <5>1. files[x].path \in Path \cup {<<>>} /\ files[y].path \in Path \cup {<<>>}
          BY DEF Shape, FileRec
        <5>2. QED
          BY <5>1, NamespaceAssumption, EmptySeq, Zenon
      <4>5. MovedPath(r, x) = MovedPath(r, y)
        BY <1>2, <3>1, <3>2
      <4>6. files[x].path = files[y].path
        BY <4>2, <4>3, <4>4, <4>5, SameMove, Zenon DEF MovedPath
      <4>7. QED
        BY <2>0, <3>1, <4>6
    <3>3. CASE x \in Subtree(r) /\ y \notin Subtree(r)
      <4>1. y \in Holders(MovedPath(r, x))
        BY <1>2, <3>1, <3>3 DEF Holders
      <4>2. QED
        BY <3>1, <3>3, <4>1
    <3>4. CASE x \notin Subtree(r) /\ y \in Subtree(r)
      <4>1. x \in Holders(MovedPath(r, y))
        BY <1>2, <3>1, <3>4 DEF Holders
      <4>2. QED
        BY <3>1, <3>4, <4>1
    <3>5. CASE x \notin Subtree(r) /\ y \notin Subtree(r)
      BY <1>2, <2>0, <3>1, <3>5
    <3>6. QED
      BY <3>2, <3>3, <3>4, <3>5
  <2>5. CASE Deletes(r)
    BY <1>2, <2>0, <2>5 DEF Deletes, Live
  <2>6. CASE Drops
    BY <1>2, <2>6, RemovedFile, Zenon DEF Drops, Live
  <2>7. QED
    BY <1>2, <2>1, <2>2, <2>3, <2>4, <2>5, <2>6 DEF FilesStep
<1>3. QED
  BY <1>1, <1>2, StepKinds DEF StoreOrGateway, OneLivePerPath, Live

-----------------------------------------------------------------------------
(* Locks and deletion                                                      *)

\* A live row that another request has marked keeps its path and status, and
\* gets no version that counts.
LEMMA MarkedKept ==
  ASSUME Shape, LockInv, NEW r \in Request, FilesStep(r), NEW q \in Request \ {r},
         NEW x \in FileId, x \in req[q].locked, Live(x)
  PROVE  /\ files'[x].path = files[x].path /\ files'[x].status = files[x].status
         /\ files'[x].version \in {"pending", "committed"} => files[x].version = files'[x].version
<1>0. x \in LockedBy(q) /\ LockedBy(q) \cap LockedBy(r) = {}
  BY DEF LockInv, LockedBy
<1>1. ASSUME NEW z \in FileId, Creates(z)
      PROVE  files'[x] = files[x]
  BY <1>1, RemovedFile DEF Creates, Live
<1>2. ASSUME NEW z \in FileId, Commits(r, z)
      PROVE  files'[x] = files[x]
  BY <1>0, <1>2 DEF Commits, Unlocked
<1>3. CASE Renames(r)
  <2>1. x \notin Subtree(r)
    BY <1>0, <1>3 DEF Renames, Unlocked
  <2>2. QED
    BY <1>3, <2>1 DEF Renames
<1>4. CASE Deletes(r)
  <2>1. x \notin req[r].locked /\ x \notin req[r].expired
    BY <1>0 DEF LockedBy
  <2>2. QED
    BY <1>4, <2>1 DEF Deletes
<1>5. QED
  BY <1>1, <1>2, <1>3, <1>4 DEF FilesStep, Drops

\* A row that was there is never unknown again, and while a row is live no row
\* turns from a folder into a file.
LEMMA FoldersStay ==
  ASSUME Shape, NEW r \in Request, FilesStep(r), NEW i \in FileId, files[i].status # "none"
  PROVE  /\ files'[i].status # "none"
         /\ (\E x \in FileId : Live(x)) => files'[i].folder = files[i].folder
<1>1. ASSUME NEW z \in FileId, Creates(z)
      PROVE  files'[i] = files[i]
  BY <1>1, RemovedFile DEF Creates
<1>2. ASSUME NEW z \in FileId, Commits(r, z)
      PROVE  files'[i].folder = files[i].folder /\ files'[i].status # "none"
  BY <1>2 DEF Commits
<1>3. CASE Renames(r) \/ Deletes(r)
  BY <1>3 DEF Renames, Deletes
<1>4. CASE Drops
  BY <1>4, RemovedFile, Zenon DEF Drops
<1>5. QED
  BY <1>1, <1>2, <1>3, <1>4 DEF FilesStep

\* Marked rows stay the request's own and stay as the deletion needs them.
LEMMA LockStep ==
  ASSUME Shape, KeyInv, LockInv, [Next]_vars
  PROVE  LockInv'
<1>1. CASE UNCHANGED <<files, req>>
  BY <1>1 DEF LockInv, LockedBy, Live, Selected, Under
<1>2. ASSUME NEW r \in Request, StoreOrGateway(r)
      PROVE  LockInv'
  <2>0. FilesStep(r) /\ RequestStep(r) /\ OthersKept(r)
    BY <1>2 DEF StoreOrGateway, RequestStep
  <2>1. \A q \in Request \ {r} : LockedBy(q)' = LockedBy(q)
    BY <2>0 DEF OthersKept, Same, LockedBy
  <2>2. PICK rows : Unlocked(r, rows) /\ LockedBy(r)' \subseteq LockedBy(r) \cup rows
    <3>0. Unlocked(r, {})
      BY DEF Unlocked
    <3>1. CASE Ended(req'[r]) \/ Started(req'[r])
      BY <3>0, <3>1 DEF Ended, Started, LockedBy
    <3>2. CASE Admitted(req[r], req'[r]) \/ Handled(req[r], req'[r])
      BY <3>0, <3>2 DEF Admitted, Handled, Rows, LockedBy
    <3>3. CASE Prepared(r, req[r], req'[r])
      <4>1. CASE Rows(req[r], req'[r])
        BY <3>0, <4>1 DEF Rows, LockedBy
      <4>2. CASE req'[r].expired = req[r].expired /\ Unlocked(r, req'[r].locked)
        BY <4>2 DEF LockedBy
      <4>3. CASE req'[r].locked = req[r].locked /\ Unlocked(r, req'[r].expired)
        BY <4>3 DEF LockedBy
      <4>4. QED
        BY <3>3, <4>1, <4>2, <4>3 DEF Prepared
    <3>4. QED
      BY <2>0, <3>1, <3>2, <3>3 DEF RequestStep
  <2>3. ASSUME NEW q \in Request, NEW s \in Request, q # s
        PROVE  LockedBy(q)' \cap LockedBy(s)' = {}
    <3>1. LockedBy(q) \cap LockedBy(s) = {}
      BY <2>3 DEF LockInv
    <3>2. CASE q # r /\ s # r
      BY <2>1, <3>1, <3>2
    <3>3. CASE q = r
      BY <2>1, <2>2, <2>3, <3>1, <3>3 DEF Unlocked
    <3>4. CASE s = r
      BY <2>1, <2>2, <2>3, <3>1, <3>4 DEF Unlocked
    <3>5. QED
      BY <3>2, <3>3, <3>4
  <2> DEFINE Told(q) == req[q].op = "delete" /\ req[q].at \in {"call", "files", "versions", "rows"}
             Marks(q) == req[q].op = "delete" /\ req[q].at \in {"versions", "rows"}
             Kept(q, x) == /\ Live(x) /\ x \in Selected(q)
                           /\ req[q].at = "rows" /\ files[x].version \in {"pending", "committed"} => x \in req[q].expired
  <2>4. \A q \in Request : /\ Told(q) => req[q].id \in FileId /\ files[req[q].id].status # "none"
                           /\ Marks(q) => Told(q) /\ \A x \in req[q].locked : x \in FileId /\ Kept(q, x)
    BY DEF LockInv, Shape, ReqArgs, ReqType
  <2>5. ASSUME NEW q \in Request \ {r}
        PROVE  /\ Told(q)' => files'[req'[q].id].status # "none"
               /\ Marks(q)' => \A x \in req'[q].locked : Kept(q, x)'
    <3>1. Same(req'[q], req[q])
      BY <2>0 DEF OthersKept
    <3>2. Told(q)' => files'[req'[q].id].status # "none"
      BY <2>0, <2>4, <3>1, FoldersStay, Zenon DEF Same
    <3>3. ASSUME Marks(q), NEW x \in req[q].locked
          PROVE  Kept(q, x)'
      <4>0. x \in FileId /\ Kept(q, x) /\ req[q].id \in FileId /\ files[req[q].id].status # "none"
        BY <2>4, <3>3
      <4>1. /\ files'[x].path = files[x].path /\ files'[x].status = files[x].status
            /\ files'[x].version \in {"pending", "committed"} => files[x].version = files'[x].version
        BY <2>0, <3>3, <4>0, MarkedKept
      <4>2. files'[req[q].id].folder = files[req[q].id].folder
        BY <2>0, <4>0, FoldersStay
      <4>3. (x \in Selected(q))'
        BY <3>1, <4>0, <4>1, <4>2 DEF Selected, Under, Same
      <4>4. Live(x)'
        BY <4>0, <4>1 DEF Live
      <4>5. req'[q].at = "rows" /\ files'[x].version \in {"pending", "committed"} => x \in req'[q].expired
        BY <3>1, <4>0, <4>1 DEF Same
      <4>6. QED
        BY <4>3, <4>4, <4>5
    <3>4. QED
      BY <3>1, <3>2, <3>3 DEF Same
  <2>6. /\ Told(r)' => files'[req'[r].id].status # "none"
        /\ Marks(r)' => \A x \in req'[r].locked : Kept(r, x)'
    <3>1. CASE Ended(req'[r]) \/ Started(req'[r]) \/ Handled(req[r], req'[r])
      BY <3>1 DEF Ended, Started, Handled, Goes
    <3>2. CASE Admitted(req[r], req'[r])
      <4>1. req'[r].at \in {"admit", "call"}
        BY <3>2 DEF Admitted
      <4>2. CASE Told(r)'
        <5>1. req'[r].id \in FileId /\ files[req'[r].id].status # "none"
          BY <3>2, <4>2 DEF Admitted, Goes
        <5>2. QED
          BY <2>0, <4>1, <5>1, FoldersStay
      <4>3. QED
        BY <4>1, <4>2
    <3>3. CASE Prepared(r, req[r], req'[r]) /\ Told(r)'
      <4>0. Told(r) /\ files' = files /\ req'[r].id = req[r].id
        BY <3>3 DEF Prepared, Goes
      <4>1. files'[req'[r].id].status # "none"
        BY <2>4, <4>0
      <4>2. CASE req'[r].at = "files"
        BY <4>1, <4>2
      <4>3. CASE req'[r].at = "versions"
        <5>1. req'[r].path = req[r].path /\ req'[r].locked = {z \in Selected(r) : Live(z)}
          BY <3>3, <4>3 DEF Prepared
        <5>2. Selected(r)' = Selected(r) /\ \A x \in FileId : Live(x)' = Live(x)
          BY <4>0, <5>1 DEF Selected, Under, Live
        <5>3. \A x \in req'[r].locked : (Live(x) /\ x \in Selected(r))'
          BY <4>0, <5>1, <5>2 DEF Live
        <5>4. QED
          BY <4>1, <4>3, <5>3
      <4>4. CASE req'[r].at = "rows"
        <5>1. /\ req[r].at = "versions" /\ req'[r].path = req[r].path /\ req'[r].locked = req[r].locked
              /\ req'[r].expired = {z \in Selected(r) : files[z].version \in {"pending", "committed"}}
          BY <3>3, <4>4 DEF Prepared
        <5>2. \A x \in req[r].locked : x \in FileId /\ Live(x) /\ x \in Selected(r)
          BY <2>4, <4>0, <5>1
        <5>3. Selected(r)' = Selected(r)
          BY <4>0, <5>1 DEF Selected, Under
        <5>4. ASSUME NEW x \in req'[r].locked
              PROVE  Kept(r, x)'
          <6>1. Live(x)'
            BY <4>0, <5>1, <5>2 DEF Live
          <6>2. (x \in Selected(r))'
            BY <5>1, <5>2, <5>3
          <6>3. files'[x].version \in {"pending", "committed"} => x \in req'[r].expired
            BY <4>0, <5>1, <5>2
          <6>4. QED
            BY <6>1, <6>2, <6>3
        <5>5. QED
          BY <4>1, <5>4
      <4>5. QED
        BY <3>3, <4>2, <4>3, <4>4 DEF Prepared, Goes
    <3>4. QED
      BY <2>0, <3>1, <3>2, <3>3 DEF RequestStep
  <2>7. QED
    <3>1. \A q, s \in Request : q # s => LockedBy(q)' \cap LockedBy(s)' = {}
      BY <2>3
    <3>2. \A q \in Request : /\ Told(q)' => files'[req'[q].id].status # "none"
                             /\ Marks(q)' => \A x \in req'[q].locked : Kept(q, x)'
      BY <2>5, <2>6
    <3>3. QED
      BY <3>1, <3>2 DEF LockInv
<1>3. QED
  BY <1>1, <1>2, StepKinds

\* Deleted files keep no version that counts and no stored placement.
LEMMA DeletedStep ==
  ASSUME Shape, KeyInv, LockInv, DeletedExpires, [Next]_vars
  PROVE  DeletedExpires'
<1>1. CASE files' = files
  BY <1>1 DEF DeletedExpires
<1>2. ASSUME NEW r \in Request, FilesStep(r), NEW x \in FileId, files'[x].status = "deleted"
      PROVE  files'[x].version \in {"none", "expired"} /\ files'[x].rows # "stored"
  <2>0. /\ files[x].version \in {"none", "pending", "committed", "expired"}
        /\ files[x].status = "deleted" => files[x].version \in {"none", "expired"} /\ files[x].rows # "stored"
    BY DEF Shape, FileRec, DeletedExpires
  <2>1. CASE files' = files
    BY <1>2, <2>0, <2>1
  <2>2. CASE \E z \in FileId : Creates(z) \/ Commits(r, z)
    BY <1>2, <2>0, <2>2 DEF Creates, Commits
  <2>3. CASE Renames(r)
    BY <1>2, <2>0, <2>3 DEF Renames
  <2>4. CASE Deletes(r)
    <3>1. CASE x \in req[r].locked
      <4>1. /\ x \in Selected(r)
            /\ files[x].version \in {"pending", "committed"} => x \in req[r].expired
        BY <2>4, <3>1 DEF LockInv, Deletes, At
      <4>2. QED
        BY <2>0, <2>4, <4>1 DEF Deletes
    <3>2. CASE x \notin req[r].locked
      BY <1>2, <2>0, <2>4, <3>2 DEF Deletes
    <3>3. QED
      BY <3>1, <3>2
  <2>5. CASE Drops
    BY <1>2, <2>0, <2>5, RemovedFile, Zenon DEF Drops
  <2>6. QED
    BY <1>2, <2>1, <2>2, <2>3, <2>4, <2>5 DEF FilesStep
<1>3. QED
  BY <1>1, <1>2, StepKinds DEF StoreOrGateway, DeletedExpires

\* The invariant holds in the tables a server starts on.
LEMMA InitInv == Init => Inv
<1> SUFFICES ASSUME Init PROVE Inv
  OBVIOUS
<1>1. PICK live \in SUBSET FileId : \E at \in [live -> Path] : \E folder \in SUBSET live :
        /\ IsInjective(at)
        /\ files = [x \in FileId |->
             IF x \notin live THEN NoFile
             ELSE [path |-> at[x], folder |-> x \in folder, status |-> "active",
                   version |-> IF x \in folder THEN "none" ELSE "committed",
                   rows |-> IF x \in folder THEN "none" ELSE "stored"]]
  BY Zenon DEF Init, NamespaceInit
<1>2. PICK at \in [live -> Path] : \E folder \in SUBSET live :
        /\ IsInjective(at)
        /\ files = [x \in FileId |->
             IF x \notin live THEN NoFile
             ELSE [path |-> at[x], folder |-> x \in folder, status |-> "active",
                   version |-> IF x \in folder THEN "none" ELSE "committed",
                   rows |-> IF x \in folder THEN "none" ELSE "stored"]]
  BY <1>1
<1>3. IsInjective(at) /\ files = [x \in FileId |-> files[x]]
  BY <1>2
<1>4. ASSUME NEW x \in FileId
      PROVE  /\ files[x] \in FileRec /\ files[x].status # "deleted"
             /\ Live(x) => x \in live /\ files[x].path = at[x]
  <2>1. PICK folder \in SUBSET live :
          files = [y \in FileId |->
             IF y \notin live THEN NoFile
             ELSE [path |-> at[y], folder |-> y \in folder, status |-> "active",
                   version |-> IF y \in folder THEN "none" ELSE "committed",
                   rows |-> IF y \in folder THEN "none" ELSE "stored"]]
    BY <1>2
  <2>2. CASE x \notin live
    BY <2>1, <2>2, RemovedFile DEF Live
  <2>3. CASE x \in live
    <3> DEFINE f == x \in folder
               v == IF x \in folder THEN "none" ELSE "committed"
               w == IF x \in folder THEN "none" ELSE "stored"
    <3>1. files[x] = [path |-> at[x], folder |-> f, status |-> "active", version |-> v, rows |-> w]
      BY <2>1, <2>3
    <3>2. at[x] \in Path /\ f \in BOOLEAN /\ v \in {"none", "committed"} /\ w \in {"none", "stored"}
      BY <2>3
    <3> HIDE DEF f, v, w
    <3>3. QED
      BY <2>3, <3>1, <3>2 DEF FileRec, Statuses, Live
  <2>4. QED
    BY <2>2, <2>3
<1>5. /\ req = [r \in Request |-> req[r]]
      /\ \A r \in Request : /\ ReqType(req[r]) /\ req[r].at = "idle" /\ req[r].op = "none"
                            /\ req[r].locked = {} /\ req[r].expired = {}
  <2>1. /\ ReqType(NoReq) /\ NoReq.at = "idle" /\ NoReq.op = "none"
        /\ NoReq.locked = {} /\ NoReq.expired = {}
    BY DEF NoReq, ReqType, Stages, Ops
  <2>2. req = [r \in Request |-> NoReq]
    BY DEF Init
  <2>3. \A r \in Request : req[r] = NoReq
    BY <2>2
  <2>4. QED
    BY <2>1, <2>2, <2>3
<1>6. Shape
  BY <1>3, <1>4, <1>5 DEF Shape, ReqArgs
<1>7. OneLivePerPath
  BY <1>3, <1>4 DEF OneLivePerPath, IsInjective
<1>8. LockInv /\ DeletedExpires
  BY <1>4, <1>5 DEF LockInv, LockedBy, DeletedExpires
<1>9. KeyInv
  <2>1. key = [k \in Key |-> [status |-> "none", write |-> FALSE]] /\ user \in {"none", "active"}
    BY DEF Init
  <2>2. key = [k \in Key |-> key[k]] /\ \A k \in Key : key[k] \in KeyRec /\ key[k].status = "none"
    BY <2>1 DEF KeyRec
  <2>3. QED
    BY <1>5, <2>1, <2>2 DEF KeyInv
<1>10. QED
  BY <1>6, <1>7, <1>8, <1>9 DEF Inv

-----------------------------------------------------------------------------
\* The invariant of the namespace and its gateway: well-formed rows, unique
\* paths, exclusive marks, complete deletions and known keys, at every
\* statement of every request.
THEOREM NamespaceInvariant == Spec => []Inv
<1>1. Inv /\ [Next]_vars => Inv'
  BY ShapeStep, UniqueStep, LockStep, DeletedStep, KeyStep DEF Inv
<1>2. QED
  BY <1>1, InitInv, PTL DEF Spec

\* Path uniqueness (the partial unique index with RenameFile's rewriting of a
\* subtree): never two live rows at one path.
THEOREM PathsAreUnique == Spec => []OneLivePerPath
<1>1. Inv => OneLivePerPath
  BY DEF Inv
<1>2. QED
  BY <1>1, NamespaceInvariant, PTL

\* SoftDeleteFile's "billing stops at delete", although its three statements
\* each select anew what they change: nothing of a deleted file still counts.
THEOREM DeletionIsComplete == Spec => []DeletedExpires
<1>1. Inv => DeletedExpires
  BY DEF Inv
<1>2. QED
  BY <1>1, NamespaceInvariant, PTL

\* A request past the gateway came with a live key of an active account, and
\* with the scope its route needs.
THEOREM RequestsAreAuthorised == Spec => []Authorised
<1>1. Inv => Authorised
  BY DEF Inv, KeyInv, Authorised
<1>2. QED
  BY <1>1, NamespaceInvariant, PTL

\* DeleteBucket takes no live file along.
THEOREM BucketsDropDeletedOnly == Spec => LiveOutlivesBucket
<1>1. ASSUME Inv, [Next]_vars
      PROVE  [\A x \in FileId : Live(x) => files'[x].status # "removed"]_<<bucket, files>>
  <2>0. Shape /\ KeyInv
    BY <1>1 DEF Inv
  <2>1. CASE UNCHANGED files
    BY <2>1 DEF Live
  <2>2. ASSUME NEW r \in Request, FilesStep(r), NEW x \in FileId, Live(x)
        PROVE  files'[x].status # "removed"
    <3>1. CASE files' = files
      BY <2>2, <3>1 DEF Live
    <3>2. CASE \E z \in FileId : Creates(z) \/ Commits(r, z)
      BY <2>2, <3>2 DEF Creates, Commits, Live
    <3>3. CASE Renames(r) \/ Deletes(r)
      BY <2>2, <3>3 DEF Renames, Deletes, Live
    <3>4. CASE Drops
      BY <2>2, <3>4 DEF Drops
    <3>5. QED
      BY <2>2, <3>1, <3>2, <3>3, <3>4 DEF FilesStep
  <2>3. QED
    BY <1>1, <2>0, <2>1, <2>2, StepKinds DEF StoreOrGateway
<1>2. QED
  BY <1>1, NamespaceInvariant, PTL DEF Spec, LiveOutlivesBucket
=============================================================================
