------------------------------ MODULE Namespace ------------------------------
(***************************************************************************)
(* Buckets, folders and paths (internal/store/files.go, buckets.go).  The  *)
(* hierarchy is path-based: a folder is a row of its own and everything    *)
(* whose path starts with the folder's is in it.  The requests of an       *)
(* account's clients run statement by statement against the tables, at     *)
(* READ COMMITTED: a transaction's writes appear when it commits, and the  *)
(* rows it has written stay locked until then.                             *)
(***************************************************************************)
EXTENDS Naturals, SequencesExt

CONSTANTS
  FileId,        \* rows of the files table
  Path,          \* the paths in use: sequences of components, numbered in collation order
  Request,       \* requests, each served once
  Key,           \* API keys
  PageSize,      \* the limit of a listing
  MaxInitial,    \* bound on the files there are at the start
  None

ASSUME NamespaceAssumption == Path \subseteq Seq(Nat)

VARIABLES
  bucket,   \* "none", "live" or "gone"
  files,    \* FileId -> row, with its version and placements
  req       \* Request -> what its handler is at

Statuses == {"none", "uploading", "active", "deleted", "removed"}
FileRec == [path : Path \cup {<<>>}, folder : BOOLEAN, status : Statuses,
            version : {"none", "pending", "committed", "expired"},
            rows : {"none", "stored", "expiring"}]
NoFile == [path |-> <<>>, folder |-> FALSE, status |-> "none", version |-> "none", rows |-> "none"]

Stages == {"idle", "key", "admit", "call", "insert", "commit", "update", "files", "versions", "rows", "drop", "done"}
Ops == {"mkbucket", "mkdir", "put", "rename", "delete", "list", "rmbucket"}

ReqRec == [op : Ops \cup {"none"}, at : Stages, id : FileId \cup {None},
           key : Key \cup {None}, late : BOOLEAN,
           path : Path \cup {<<>>}, to : Path \cup {<<>>},
           locked : SUBSET FileId, expired : SUBSET FileId,
           stay : SUBSET FileId, seen : Seq(FileId)]
NoReq == [op |-> "none", at |-> "idle", id |-> None, key |-> None,
          late |-> FALSE, path |-> <<>>, to |-> <<>>,
          locked |-> {}, expired |-> {}, stay |-> {}, seen |-> <<>>]

Live(x) == files[x].status \in {"uploading", "active"}
\* path = $2 OR path LIKE $2 || '/%'
Under(p) == {x \in FileId : files[x].status \notin {"none", "removed"} /\ IsPrefix(p, files[x].path)}
\* The partial unique index on the paths of rows that are not deleted.
Holders(p) == {x \in FileId : Live(x) /\ files[x].path = p}
\* Rows a transaction has written and not committed; others wait for them.
LockedBy(q) == req[q].locked \cup req[q].expired
Unlocked(r, rows) == \A q \in Request \ {r} : LockedBy(q) \cap rows = {}

\* The order of the paths: component by component, a folder before its files.
Before(p, q) ==
  \/ IsStrictPrefix(p, q)
  \/ \E i \in DOMAIN p \cap DOMAIN q : p[i] < q[i] /\ \A j \in 1..(i - 1) : p[j] = q[j]

\* The tables as requests served one after another leave them: folders and
\* committed files at different paths, or no bucket yet.
NamespaceInit ==
  /\ bucket \in {"none", "live"}
  /\ \E live \in SUBSET FileId : \E at \in [live -> Path] : \E folder \in SUBSET live :
       /\ Cardinality(live) <= (IF bucket = "live" THEN MaxInitial ELSE 0) /\ IsInjective(at)
       /\ files = [x \in FileId |->
            IF x \notin live THEN NoFile
            ELSE [path |-> at[x], folder |-> x \in folder, status |-> "active",
                  version |-> IF x \in folder THEN "none" ELSE "committed",
                  rows |-> IF x \in folder THEN "none" ELSE "stored"]]

NamespaceTypeOK ==
  /\ bucket \in {"none", "live", "gone"}
  /\ files \in [FileId -> FileRec]
  /\ req \in [Request -> ReqRec]

At(r, op, at) == req[r].op = op /\ req[r].at = at
Goto(r, at) == req' = [req EXCEPT ![r].at = at]
Answers(r) == req' = [req EXCEPT ![r] = [NoReq EXCEPT !.at = "done"]]
\* The rows in moved are not where a listing under way may have seen them.
AnswersMoving(r, moved) ==
  req' = [q \in Request |-> IF q = r THEN [NoReq EXCEPT !.at = "done"]
                            ELSE [req[q] EXCEPT !.stay = @ \ moved]]

-----------------------------------------------------------------------------
\* The insert of CreateBucket.  A bucket made once this one is gone is another
\* row; one of the same name before that is a conflict.
CreateBucket(r) ==
  /\ At(r, "mkbucket", "call")
  /\ bucket' = IF bucket = "none" THEN "live" ELSE bucket
  /\ Answers(r)
  /\ UNCHANGED files

\* BucketByID, the statement before the insert of a folder or file.
BucketByID(r) ==
  /\ At(r, "mkdir", "call") \/ At(r, "put", "call")
  /\ IF bucket = "live" THEN Goto(r, "insert") ELSE Answers(r)
  /\ UNCHANGED <<bucket, files>>

\* The insert of CreateFolder; it fails without the bucket or with the path in use.
CreateFolder(r) ==
  /\ At(r, "mkdir", "insert")
  /\ LET p == req[r].to IN
     /\ Unlocked(r, Holders(p))
     /\ IF bucket = "live" /\ Holders(p) = {}
        THEN \E x \in FileId :
               /\ files[x] = NoFile
               /\ files' = [files EXCEPT ![x] = [NoFile EXCEPT !.path = p, !.folder = TRUE, !.status = "active"]]
        ELSE UNCHANGED files
  /\ Answers(r)
  /\ UNCHANGED bucket

\* BeginUpload: a new file with a pending version, or the one this path has.
BeginUpload(r) ==
  /\ At(r, "put", "insert")
  /\ LET p == req[r].to IN
     \/ /\ bucket = "live" /\ Holders(p) = {}
        /\ \E x \in FileId :
             /\ files[x] = NoFile
             /\ files' = [files EXCEPT ![x] =
                  [NoFile EXCEPT !.path = p, !.status = "uploading", !.version = "pending"]]
             /\ req' = [req EXCEPT ![r].id = x, ![r].at = "commit"]
     \/ \E x \in Holders(p) :
             /\ files[x].status = "uploading" /\ files[x].version = "pending"
             /\ req' = [req EXCEPT ![r].id = x, ![r].at = "commit"]
             /\ UNCHANGED files
     \/ /\ bucket # "live" \/ \E x \in Holders(p) : files[x].status = "active"
        /\ Answers(r) /\ UNCHANGED files
  /\ UNCHANGED bucket

\* CommitUpload: the version is still pending and its file not deleted.
CommitUpload(r) ==
  /\ At(r, "put", "commit")
  /\ LET x == req[r].id IN
     /\ Unlocked(r, {x})
     /\ files' = IF Live(x) /\ files[x].version = "pending"
                 THEN [files EXCEPT ![x].status = "active", ![x].version = "committed", ![x].rows = "stored"]
                 ELSE files
  /\ Answers(r)
  /\ UNCHANGED bucket

-----------------------------------------------------------------------------
\* RenameFile up to the count of collisions: the row is read FOR UPDATE, a row
\* with the new path is answered as it is, and a folder moves only to a path
\* with nothing at or below it outside the folder itself.
RenameCheck(r) ==
  /\ At(r, "rename", "call")
  /\ LET x == req[r].id
         p == req[r].to
         old == files[x].path
         collisions == {y \in Under(p) \ Under(old) : Live(y)} IN
     /\ Unlocked(r, {x})
     /\ IF ~Live(x) \/ old = p \/ (files[x].folder /\ collisions # {})
        THEN Answers(r)
        ELSE req' = [req EXCEPT ![r].path = old, ![r].locked = {x}, ![r].at = "update"]
  /\ UNCHANGED <<bucket, files>>

\* The rows the UPDATE moves: the file, or every live row in the folder.
Subtree(r) == IF files[req[r].id].folder THEN {y \in Under(req[r].path) : Live(y)} ELSE {req[r].id}
\* Variant with a bug: every row of the subtree gets the folder's new path.
MovedPathFlat(r, y) == req[r].to

MovedPath(r, y) == req[r].to \o SubSeq(files[y].path, Len(req[r].path) + 1, Len(files[y].path))

\* The UPDATE and the commit; the unique index refuses a path that is taken.
RenameFile(r) ==
  /\ At(r, "rename", "update")
  /\ LET moved == Subtree(r)
         taken == (UNION {Holders(MovedPath(r, y)) : y \in moved}) \ moved IN
     /\ Unlocked(r, moved)
     /\ \A y \in moved : MovedPath(r, y) \in Path
     /\ Unlocked(r, taken)
     /\ IF taken = {}
        THEN /\ files' = [y \in FileId |-> IF y \in moved THEN [files[y] EXCEPT !.path = MovedPath(r, y)]
                                          ELSE files[y]]
             /\ AnswersMoving(r, moved)
        ELSE Answers(r) /\ UNCHANGED files
  /\ UNCHANGED bucket

-----------------------------------------------------------------------------
\* SoftDeleteFile looks the row up before its transaction, without a lock.
FileByID(r) ==
  /\ At(r, "delete", "call")
  /\ LET x == req[r].id IN
     IF Live(x) THEN req' = [req EXCEPT ![r].path = files[x].path, ![r].at = "files"]
     ELSE Answers(r)
  /\ UNCHANGED <<bucket, files>>

\* What a statement of SoftDeleteFile selects: the file, or every row in the
\* folder as the path was when it was looked up.
Selected(r) == IF files[req[r].id].folder THEN Under(req[r].path) ELSE {req[r].id}

\* First statement: deleted_at of the live rows.
DeleteFiles(r) ==
  /\ At(r, "delete", "files")
  /\ LET dead == {x \in Selected(r) : Live(x)} IN
     /\ Unlocked(r, dead)
     /\ req' = [req EXCEPT ![r].locked = dead, ![r].at = "versions"]
  /\ UNCHANGED <<bucket, files>>

\* Variant with a bug: the versions of the folder's own path only.
DeleteVersionsShallow(r) ==
  /\ At(r, "delete", "versions")
  /\ LET expired == {x \in Selected(r) : files[x].path = req[r].path /\ files[x].version \in {"pending", "committed"}} IN
     /\ Unlocked(r, expired)
     /\ req' = [req EXCEPT ![r].expired = expired, ![r].at = "rows"]
  /\ UNCHANGED <<bucket, files>>

\* Second statement: the versions, of every row now at those paths.
DeleteVersions(r) ==
  /\ At(r, "delete", "versions")
  /\ LET expired == {x \in Selected(r) : files[x].version \in {"pending", "committed"}} IN
     /\ Unlocked(r, expired)
     /\ req' = [req EXCEPT ![r].expired = expired, ![r].at = "rows"]
  /\ UNCHANGED <<bucket, files>>

\* Third statement, the placements of every row now at those paths, and commit.
SoftDeleteFile(r) ==
  /\ At(r, "delete", "rows")
  /\ LET rows == {x \in Selected(r) : files[x].rows = "stored"} IN
     /\ files' = [x \in FileId |->
          [files[x] EXCEPT !.status = IF x \in req[r].locked THEN "deleted" ELSE @,
                           !.version = IF x \in req[r].expired THEN "expired" ELSE @,
                           !.rows = IF x \in rows THEN "expiring" ELSE @]]
     /\ AnswersMoving(r, req[r].locked)
  /\ UNCHANGED bucket

-----------------------------------------------------------------------------
\* DeleteBucket up to its count of live files.
BucketEmpty(r) ==
  /\ At(r, "rmbucket", "call")
  /\ IF bucket = "live" /\ \A x \in FileId : ~Live(x) THEN Goto(r, "drop") ELSE Answers(r)
  /\ UNCHANGED <<bucket, files>>

\* Variant with a bug: every file row of the bucket goes, not only the deleted.
DeleteBucketAll(r) ==
  /\ At(r, "rmbucket", "drop")
  /\ LET rows == {x \in FileId : files[x].status \notin {"none", "removed"}} IN
     IF bucket = "live" /\ \A x \in rows : files[x].version = "none"
     THEN /\ bucket' = "gone"
          /\ files' = [x \in FileId |-> IF x \in rows THEN [NoFile EXCEPT !.status = "removed"] ELSE files[x]]
     ELSE UNCHANGED <<bucket, files>>
  /\ Answers(r)

\* The rest of it: the deleted rows go, then the bucket.  A version keeps its
\* file row, and a file row its bucket, by their foreign keys; the transaction
\* then fails as a whole.
DeleteBucket(r) ==
  /\ At(r, "rmbucket", "drop")
  /\ LET rows == {x \in FileId : files[x].status = "deleted"} IN
     IF bucket = "live" /\ (\A x \in FileId : ~Live(x)) /\ (\A x \in rows : files[x].version = "none")
     THEN /\ bucket' = "gone"
          /\ files' = [x \in FileId |-> IF x \in rows THEN [NoFile EXCEPT !.status = "removed"] ELSE files[x]]
     ELSE UNCHANGED <<bucket, files>>
  /\ Answers(r)

\* The rows after the cursor, which is the path of the last row listed, in order.
After(r) == SetToSortSeq({x \in FileId : Live(x) /\ Before(req[r].path, files[x].path)},
                         LAMBDA x, y : Before(files[x].path, files[y].path))

\* Variant with a bug: the next page starts after the row that showed there is one.
ListFilesSkipping(r) ==
  /\ At(r, "list", "call")
  /\ LET rows == After(r)
         page == SubSeq(rows, 1, Min({PageSize, Len(rows)})) IN
     req' = [req EXCEPT ![r].seen = @ \o page,
                        ![r].path = IF Len(rows) > PageSize THEN files[rows[PageSize + 1]].path ELSE @,
                        ![r].at = IF Len(rows) > PageSize THEN "call" ELSE "done"]
  /\ UNCHANGED <<bucket, files>>

\* ListFiles: a page of rows, and a cursor when there are more.
ListFiles(r) ==
  /\ At(r, "list", "call")
  /\ LET rows == After(r)
         page == SubSeq(rows, 1, Min({PageSize, Len(rows)})) IN
     req' = [req EXCEPT ![r].seen = @ \o page,
                        ![r].path = IF Len(rows) > PageSize THEN files[rows[PageSize]].path ELSE @,
                        ![r].at = IF Len(rows) > PageSize THEN "call" ELSE "done"]
  /\ UNCHANGED <<bucket, files>>

\* A statement fails, the caller gives up or the process stops: rolled back.
RequestFails(r) ==
  /\ req[r].at \notin {"idle", "done"}
  /\ Answers(r)
  /\ UNCHANGED <<bucket, files>>

NamespaceStep(r) ==
  \/ CreateBucket(r) \/ BucketByID(r) \/ CreateFolder(r) \/ BeginUpload(r) \/ CommitUpload(r)
  \/ RenameCheck(r) \/ RenameFile(r)
  \/ FileByID(r) \/ DeleteFiles(r) \/ DeleteVersions(r) \/ SoftDeleteFile(r)
  \/ BucketEmpty(r) \/ DeleteBucket(r) \/ ListFiles(r) \/ RequestFails(r)

-----------------------------------------------------------------------------
\* "billing stops at delete" (SoftDeleteFile): a deleted file has no version
\* that counts and no stored placement, whatever was uploaded into the folder,
\* renamed or deleted while its transaction ran.
DeletedExpires ==
  \A x \in FileId : files[x].status = "deleted" =>
    files[x].version \in {"none", "expired"} /\ files[x].rows # "stored"

\* Path uniqueness: no two live rows of the bucket share a path, also after a
\* folder rename has rewritten a subtree while others create and move files.
OneLivePerPath ==
  \A x, y \in FileId : Live(x) /\ Live(y) /\ files[x].path = files[y].path => x = y

\* A listing read page by page (ListFiles with its cursor) shows every file
\* that stayed where it was, once, although files before and after the cursor
\* come, go and move between the pages.
ListsStayers ==
  \A r \in Request : req[r].op = "list" /\ req[r].at = "done" =>
    \A x \in req[r].stay : Cardinality({i \in DOMAIN req[r].seen : req[r].seen[i] = x}) = 1

\* DeleteBucket never takes a live file along, although it counts them in a
\* statement before: a row leaves the table only after its file was deleted.
LiveOutlivesBucket ==
  [][\A x \in FileId : Live(x) => files'[x].status # "removed"]_<<bucket, files>>

-----------------------------------------------------------------------------
\* SoftDeleteFile "sets deleted_at, expires versions, and marks placements
\* expiring in one transaction": a version expires with its file.
ExpiredIsDeleted ==
  \A x \in FileId : files[x].version = "expired" => ~Live(x)
=============================================================================
