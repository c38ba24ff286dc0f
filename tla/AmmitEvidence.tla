--------------------------- MODULE AmmitEvidence ---------------------------
(***************************************************************************)
(* POST /evidence: a file is spooled and hashed, put into a versioned      *)
(* bucket unless its key is there already, and then a row of the index     *)
(* names it.  A client that waited too long hangs up and sends it again,   *)
(* beside the handler that is still at work; the bucket may fail before or *)
(* after it has stored; the process may be killed anywhere in between.     *)
(*                                                                         *)
(* A key is a ticket and the hash of the bytes, so bytes are a hash here.  *)
(***************************************************************************)
EXTENDS Integers, FiniteSets, AmmitProcess

CONSTANTS
  Uploads,    \* records: the ticket, the test that is proved, sum, and whether the form is whole
  Posts       \* the requests there may be, in this order

VARIABLES
  bucket,     \* of each key, how many versions of it there are
  rows,       \* the index, by id: what is proved, and the object that proves it
  lock,       \* evidenceLocks: the post that holds the lock of a key, or 0
  post        \* of each post, its handler

evidenceVars == <<bucket, rows, lock, post, lives>>

\* Requests are numbered, and 0 is none of them.
Numbered == IsFiniteSet(Uploads) /\ Posts \subseteq Nat \ {0} /\ MaxLives \in Nat \ {0}

evidenceKey(u) == <<u.ticket, u.sum>>
Keys == {evidenceKey(u) : u \in Uploads}
Proof(u) == [test |-> u.test, sum |-> u.sum]
Proofs == {Proof(u) : u \in Uploads}
Free == 0

PostSteps == {"unsent", "spooled", "locked", "putting", "stored", "answered"}
Unsent == [at |-> "unsent", up |-> {}, version |-> 0, gone |-> FALSE, answer |-> 0]
Post == [at : PostSteps, up : SUBSET Uploads, version : Nat, gone : BOOLEAN, answer : {0, 201, 400, 500, 502}]
EvidenceTypeOK ==
  /\ bucket \in [Keys -> Nat]
  /\ rows \in [Proofs -> [id : Nat, key : Keys \cup {<< >>}, version : Nat]]
  /\ lock \in [Keys -> Posts \cup {Free}]
  /\ post \in [Posts -> Post]
  /\ \A i \in Posts : /\ (post[i].up = {}) = (post[i].at = "unsent") /\ \A u, v \in post[i].up : u = v
                      /\ post[i].answer # 0 => post[i].at = "answered"
  /\ lives \in 1 .. MaxLives

NoRow == [id |-> 0, key |-> << >>, version |-> 0]
EvidenceInit ==
  /\ bucket = [k \in Keys |-> 0] /\ rows = [p \in Proofs |-> NoRow]
  /\ lock = [k \in Keys |-> Free] /\ post = [i \in Posts |-> Unsent] /\ lives = 1

-----------------------------------------------------------------------------
Up(i) == CHOOSE u \in post[i].up : TRUE
Key(i) == evidenceKey(Up(i))
To(i, at) == post' = [post EXCEPT ![i].at = at]
\* A client that has gone hears nothing.
Answer(i, code) == post' = [post EXCEPT ![i].at = "answered", ![i].answer = IF post[i].gone THEN 0 ELSE code]

\* A form that lacks a field is refused before anything is stored.
evidenceRowOf(u) ==
  IF u.whole THEN [Unsent EXCEPT !.at = "spooled", !.up = {u}]
  ELSE [Unsent EXCEPT !.at = "answered", !.up = {u}, !.answer = 400]
\* An upload, sent, and sent again by a client that heard 5xx or nothing.
Heard(u) == {post[i].answer : i \in {j \in Posts : post[j].up = {u} /\ ~post[j].gone}}
postEvidence(i, u) ==
  /\ post[i].at = "unsent" /\ \A j \in Posts : j < i => post[j].at # "unsent"
  /\ \A c \in Heard(u) : c \in {500, 502}
  /\ post' = [post EXCEPT ![i] = evidenceRowOf(u)]
  /\ UNCHANGED <<bucket, rows, lock, lives>>
HangUp(i) ==
  /\ post[i].at \notin {"unsent", "answered"} /\ ~post[i].gone
  /\ post' = [post EXCEPT ![i].gone = TRUE] /\ UNCHANGED <<bucket, rows, lock, lives>>

\* storeEvidence, under the lock of its key: found is enough, and what is not
\* is put.  Both are given up when the client is gone.
MutOpen(k) == TRUE                            \* there is no lock
Open(k) == lock[k] = Free
Locks(i) ==
  /\ post[i].at = "spooled" /\ Open(Key(i))
  /\ lock' = [lock EXCEPT ![Key(i)] = i] /\ To(i, "locked") /\ UNCHANGED <<bucket, rows, lives>>
Unlocks(i) == lock' = [lock EXCEPT ![Key(i)] = Free]
Stored(i, version) ==
  post' = [post EXCEPT ![i].at = "stored", ![i].version = version]
Stat(i) ==
  /\ post[i].at = "locked" /\ ~post[i].gone
  /\ IF bucket[Key(i)] > 0 THEN Stored(i, bucket[Key(i)]) /\ Unlocks(i)
     ELSE To(i, "putting") /\ UNCHANGED lock
  /\ UNCHANGED <<bucket, rows, lives>>
Put(i) ==
  /\ post[i].at = "putting" /\ ~post[i].gone
  /\ bucket' = [bucket EXCEPT ![Key(i)] = @ + 1]
  /\ Stored(i, bucket'[Key(i)]) /\ Unlocks(i) /\ UNCHANGED <<rows, lives>>

\* The bucket says no, or nobody waits: what was put may be there all the same.
MutFails(i) == Stored(i, bucket[Key(i)] + 1)  \* the error is not looked at
Fails(i) == Answer(i, 502)
StoreFails(i, landed) ==
  /\ post[i].at \in {"locked", "putting"} /\ (landed => post[i].at = "putting")
  /\ bucket' = IF landed THEN [bucket EXCEPT ![Key(i)] = @ + 1] ELSE bucket
  /\ Fails(i) /\ Unlocks(i) /\ UNCHANGED <<rows, lives>>

\* One row per test and bytes: ON CONFLICT (run, test, kind, sha256) DO UPDATE.
Indexed == {p \in Proofs : rows[p].id > 0}
NextId == 1 + Cardinality(Indexed)
Row(i) == [id |-> IF rows[Proof(Up(i))].id > 0 THEN rows[Proof(Up(i))].id ELSE NextId,
           key |-> Key(i), version |-> post[i].version]
Indexes(i) ==
  /\ post[i].at = "stored" /\ ~post[i].gone
  /\ rows' = [rows EXCEPT ![Proof(Up(i))] = Row(i)]
  /\ Answer(i, 201) /\ UNCHANGED <<bucket, lock, lives>>
IndexFails(i, written) ==
  /\ post[i].at = "stored"
  /\ rows' = IF written THEN [rows EXCEPT ![Proof(Up(i))] = Row(i)] ELSE rows
  /\ Answer(i, 500) /\ UNCHANGED <<bucket, lock, lives>>

\* Killed: a put on its way has landed, or it never does.
Killed(landed) ==
  /\ lives < MaxLives /\ lives' = lives + 1
  /\ landed \subseteq {i \in Posts : post[i].at = "putting"}
  /\ bucket' = [k \in Keys |-> bucket[k] + Cardinality({i \in landed : Key(i) = k})]
  /\ lock' = [k \in Keys |-> Free]
  /\ post' = [i \in Posts |-> IF post[i].at \in {"unsent", "answered"} THEN post[i]
                              ELSE [post[i] EXCEPT !.at = "answered", !.gone = TRUE]]
  /\ UNCHANGED rows

\* GET /evidence/file/<sum>: the first row with these bytes.
serveEvidenceFile(sum) ==
  LET found == {p \in Indexed : p.sum = sum}
  IN  {rows[p] : p \in {q \in found : \A r \in found : rows[q].id <= rows[r].id}}

Handler(i) ==
  \/ Locks(i) \/ Stat(i) \/ Put(i) \/ Indexes(i)
  \/ \E b \in BOOLEAN : StoreFails(i, b) \/ IndexFails(i, b)
EvidenceNext ==
  \/ \E i \in Posts : Handler(i) \/ HangUp(i) \/ \E u \in Uploads : postEvidence(i, u)
  \/ \E landed \in SUBSET Posts : Killed(landed)
EvidenceSpec == EvidenceInit /\ [][EvidenceNext]_evidenceVars

-----------------------------------------------------------------------------
(* Properties                                                              *)

\* An upload answered 201 is proved for good: its row is there, and the file
\* that its hash serves is an object that is in the bucket, with its bytes.
ProofIsKept ==
  \A i \in Posts : post[i].answer = 201 =>
    /\ rows[Proof(Up(i))].id > 0
    /\ serveEvidenceFile(Up(i).sum) # {}
    /\ \A r \in serveEvidenceFile(Up(i).sum) : r.key[2] = Up(i).sum /\ r.version \in 1 .. bucket[r.key]

\* However many send the same bytes, however often: one version of one file.
OneVersion == \A k \in Keys : bucket[k] <= 1

(* What makes these hold, whoever hangs up and wherever a put is cut off.  *)

\* The lock of a key is held by the one post that looks for it or puts it.
LocksHeld ==
  /\ \A k \in Keys : lock[k] # Free => Key(lock[k]) = k /\ post[lock[k]].at \in {"locked", "putting"}
  /\ \A i \in Posts : post[i].at \in {"locked", "putting"} => lock[Key(i)] = i
\* What is put is not there; what is stored, or named by a row, is.
PutOnce == \A i \in Posts : post[i].at = "putting" => bucket[Key(i)] = 0
StoredIsThere == \A i \in Posts : post[i].at = "stored" => post[i].version \in 1 .. bucket[Key(i)]
RowsAreTrue ==
  \A p \in Indexed : rows[p].key \in Keys /\ rows[p].key[2] = p.sum /\ rows[p].version \in 1 .. bucket[rows[p].key]
\* Rows are numbered as they come, so each has a number of its own.
RowsNumbered ==
  /\ \A p \in Indexed : rows[p].id <= Cardinality(Indexed)
  /\ \A p, q \in Indexed : rows[p].id = rows[q].id => p = q

\* What is answered is kept, once.
EvidenceInv ==
  /\ EvidenceTypeOK /\ ProofIsKept /\ OneVersion
  /\ LocksHeld /\ PutOnce /\ StoredIsThere /\ RowsAreTrue /\ RowsNumbered
=============================================================================
