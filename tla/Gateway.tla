------------------------------ MODULE Gateway ------------------------------
(***************************************************************************)
(* The public API in front of the namespace (internal/gateway, the         *)
(* metadata service's HTTP handlers and API keys).  A request is           *)
(* authenticated by two lookups, checked for scope and rate, and then      *)
(* handed to the store; keys are revoked and expire meanwhile.  One        *)
(* account: the store's statements are all scoped to the owner.            *)
(***************************************************************************)
EXTENDS Namespace

VARIABLES
  key,    \* Key -> [status, write]: the row of api_keys
  user    \* status of the account

KeyRec == [status : {"none", "active", "ended"}, write : BOOLEAN]
access == <<key, user>>
vars == <<bucket, files, req, access>>

TypeOK ==
  /\ NamespaceTypeOK
  /\ key \in [Key -> KeyRec]
  /\ user \in {"none", "active", "suspended"}

Init ==
  /\ NamespaceInit
  /\ req = [r \in Request |-> NoReq]
  /\ key = [k \in Key |-> [status |-> "none", write |-> FALSE]]
  /\ user = IF bucket = "live" THEN "active" ELSE "none"

\* POST /auth/register.
CreateUser ==
  /\ user = "none"
  /\ user' = "active"
  /\ UNCHANGED <<bucket, files, req, key>>

\* POST /auth/api-keys, authenticated by password.
CreateAPIKey(k, write) ==
  /\ key[k].status = "none" /\ user = "active"
  /\ key' = [key EXCEPT ![k] = [status |-> "active", write |-> write]]
  /\ UNCHANGED <<bucket, files, req, user>>

\* DELETE /auth/api-keys/{id}, with a key of the account that may write.
RevokeAPIKey(k) ==
  /\ key[k].status = "active" /\ user = "active"
  /\ \E by \in Key : key[by].status = "active" /\ key[by].write
  /\ key' = [key EXCEPT ![k].status = "ended"]
  /\ UNCHANGED <<bucket, files, req, user>>

\* expires_at passes.
KeyExpires(k) ==
  /\ key[k].status = "active"
  /\ key' = [key EXCEPT ![k].status = "ended"]
  /\ UNCHANGED <<bucket, files, req, user>>

\* An operator sets users.status.
SuspendUser ==
  /\ user = "active"
  /\ user' = "suspended"
  /\ UNCHANGED <<bucket, files, req, key>>

\* A request comes in with a key.
Arrives(r, k, op) ==
  /\ req[r].at = "idle" /\ key[k].status # "none"
  /\ req' = [req EXCEPT ![r] = [NoReq EXCEPT !.op = op, !.at = "key", !.key = k,
                                 !.late = key[k].status # "active" \/ user # "active"]]
  /\ UNCHANGED <<bucket, files, access>>

\* Variant with a bug: revocation and expiry are not looked at.
APIKeyByHashAny(r) ==
  /\ req[r].at = "key"
  /\ Goto(r, "admit")
  /\ UNCHANGED <<bucket, files, access>>

\* LookupAPIKey, first statement: a key neither revoked nor expired.
APIKeyByHash(r) ==
  /\ req[r].at = "key"
  /\ IF key[req[r].key].status = "active" THEN Goto(r, "admit") ELSE Answers(r)
  /\ UNCHANGED <<bucket, files, access>>

\* Its second statement, the account of the key, and the scope the route needs.
Allowed(r) == user = "active" /\ (req[r].op = "list" \/ key[req[r].key].write)

\* with(): a request whose key or account does not pass, or has not the scope,
\* is answered.  The limiter may refuse as well, or any call fail (RequestFails).
Refuse(r) ==
  /\ req[r].at = "admit" /\ ~Allowed(r)
  /\ Answers(r)
  /\ UNCHANGED <<bucket, files, access>>

\* Otherwise its handler calls the metadata service with the arguments in called.
Handle(r, ops, called) ==
  /\ req[r].at = "admit" /\ Allowed(r) /\ req[r].op \in ops
  /\ req' = [req EXCEPT ![r] = called]
  /\ UNCHANGED <<bucket, files, access>>

handleListFiles(r) ==
  Handle(r, {"list"}, [req[r] EXCEPT !.at = "call", !.stay = {x \in FileId : Live(x)}])

handleCreateBucket(r) == Handle(r, {"mkbucket"}, [req[r] EXCEPT !.at = "call"])

handleDeleteBucket(r) == Handle(r, {"rmbucket"}, [req[r] EXCEPT !.at = "call"])

handleCreateFolder(r) == \E p \in Path : Handle(r, {"mkdir"}, [req[r] EXCEPT !.at = "call", !.to = p])

handlePlanUpload(r) == \E p \in Path : Handle(r, {"put"}, [req[r] EXCEPT !.at = "call", !.to = p])

\* Ids come from earlier answers: a row that is, or was, there.
Known == {x \in FileId : files[x].status # "none"}

handleDeleteFile(r) == \E x \in Known : Handle(r, {"delete"}, [req[r] EXCEPT !.at = "call", !.id = x])

handleRename(r) == \E x \in Known, p \in Path :
  Handle(r, {"rename"}, [req[r] EXCEPT !.at = "call", !.id = x, !.to = p])

Serve(r) ==
  \/ APIKeyByHash(r) \/ Refuse(r)
  \/ handleListFiles(r) \/ handleCreateBucket(r) \/ handleDeleteBucket(r)
  \/ handleCreateFolder(r) \/ handlePlanUpload(r) \/ handleDeleteFile(r) \/ handleRename(r)

Next ==
  \/ \E k \in Key, write \in BOOLEAN : CreateAPIKey(k, write)
  \/ \E k \in Key : RevokeAPIKey(k) \/ KeyExpires(k)
  \/ CreateUser \/ SuspendUser
  \/ \E r \in Request, k \in Key, op \in Ops : Arrives(r, k, op)
  \/ \E r \in Request : Serve(r)
  \/ \E r \in Request : NamespaceStep(r) /\ UNCHANGED access

Spec == Init /\ [][Next]_vars

-----------------------------------------------------------------------------
\* A request is served only with a key that was neither revoked nor expired
\* when it came, of an account that was active then, and a read-only key
\* changes nothing; the two lookups do not see one state of the tables.
Authorised ==
  \A r \in Request : req[r].at \notin {"idle", "key", "admit", "done"} =>
    ~req[r].late /\ (req[r].op # "list" => key[req[r].key].write)
=============================================================================
