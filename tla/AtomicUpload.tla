---------------------------- MODULE AtomicUpload ----------------------------
(***************************************************************************)
(* What a path of the store promises its clients, with no plans, tickets,  *)
(* fragments or nodes: a version appears in one step and whole, stays      *)
(* readable until the owner deletes its file, is never published twice,    *)
(* and a client is told "committed" only of a version that is there.       *)
(***************************************************************************)
CONSTANTS File, Version, Session, None

VARIABLES
  life,       \* File -> none, uploading, active, deleted
  content,    \* File -> the version a reader gets, or None
  published,  \* File -> its readable versions
  withdrawn,  \* versions no one will ever read
  told        \* Session -> the version it was told is committed, or None

avars == <<life, content, published, withdrawn, told>>

Init ==
  /\ life = [x \in File |-> "none"]
  /\ content = [x \in File |-> None]
  /\ published = [x \in File |-> {}]
  /\ withdrawn = {}
  /\ told = [s \in Session |-> None]

\* The path is free: a new file opens under it.
Create(x) ==
  /\ life[x] = "none"
  /\ \A y \in File : life[y] \notin {"uploading", "active"}
  /\ life' = [life EXCEPT ![x] = "uploading"]
  /\ UNCHANGED <<content, published, withdrawn, told>>

\* A version appears, whole, and the client that uploaded it is told.  A
\* client that planned a version of its own meanwhile may publish it next.
Publish(s, x, v) ==
  /\ life[x] \in {"uploading", "active"}
  /\ v \notin withdrawn /\ \A y \in File : v \notin published[y]
  /\ life' = [life EXCEPT ![x] = "active"]
  /\ content' = [content EXCEPT ![x] = v]
  /\ published' = [published EXCEPT ![x] = @ \cup {v}]
  /\ told' = [told EXCEPT ![s] = v]
  /\ UNCHANGED withdrawn

\* A client that asks again is told of a version that is still there.
Tell(s, x) ==
  /\ life[x] = "active"
  /\ \E v \in published[x] : told' = [told EXCEPT ![s] = v]
  /\ UNCHANGED <<life, content, published, withdrawn>>

Forget(s) ==
  /\ told' = [told EXCEPT ![s] = None]
  /\ UNCHANGED <<life, content, published, withdrawn>>

\* The owner deletes the file, once or again: with it go its versions, and
\* those that were about to appear.
Delete(x) ==
  /\ life[x] # "none"
  /\ life' = [life EXCEPT ![x] = "deleted"]
  /\ content' = [content EXCEPT ![x] = None]
  /\ published' = [published EXCEPT ![x] = {}]
  /\ \E drafts \in SUBSET Version :
       /\ \A y \in File \ {x} : drafts \cap published[y] = {}
       /\ withdrawn' = withdrawn \cup published[x] \cup drafts
  /\ UNCHANGED told

Next ==
  \/ \E x \in File : Create(x) \/ Delete(x)
  \/ \E s \in Session, x \in File : Tell(s, x) \/ \E v \in Version : Publish(s, x, v)
  \/ \E s \in Session : Forget(s)

Spec == Init /\ [][Next]_avars
=============================================================================
