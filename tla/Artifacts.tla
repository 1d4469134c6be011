----------------------------- MODULE Artifacts -----------------------------
(***************************************************************************)
(* Uploads of one artifact name of a run: ArtifactsClient.upload in the    *)
(* job's processes, and the three endpoints of worker_views.py.  Every     *)
(* call of upload is one of Uploads; calls of one process, or of           *)
(* successive attempts of the run, may overlap.                            *)
(*                                                                         *)
(* Limitations: an upload that is too large is a refusal; a store that     *)
(* gives presigned URLs does not exist yet; content and its digest are the *)
(* same thing here.                                                        *)
(***************************************************************************)
EXTENDS Integers, Sequences

CONSTANTS
  Uploads,
  Attempt,     \* [Uploads -> the attempt whose process makes the call]
  Retries,     \* of a request, by the session
  MaxFailures, \* bound: lost requests and replies, timeouts
  MaxRewrites  \* bound: files the job writes to during their upload

VARIABLES
  client,   \* the calls: where they are, the digest they computed, retries left
  file,     \* what their files hold
  token,    \* the attempt whose token the server knows
  calls,    \* requests at the server
  row,      \* the RunArtifact
  store,    \* the storage backend: what was saved, each under a path of its own
  alone,    \* no other upload has been under way since this one began
  failures, rewrites

vars == <<client, file, token, calls, row, store, alone, failures, rewrites>>

-----------------------------------------------------------------------------
Nothing == <<"nothing">>   \* no digest yet
Contents == Uploads \X (0..MaxRewrites)
Steps == {"slot", "put", "complete"}
Paths == 1..Len(store)     \* 1 is the path of the slot, others are alternatives to it
Under(u) == client[u].pc \in Steps \/ \E q \in calls : q.u = u

TypeOK ==
  /\ client \in [Uploads -> [pc: Steps \cup {"idle", "done", "failed"},
                             digest: Contents \cup {Nothing}, left: 0..Retries]]
  /\ file \in [Uploads -> Contents]
  /\ \A q \in calls : q \in [u: Uploads, kind: Steps, body: Contents,
                             left: 0..Retries, open: BOOLEAN, ready: BOOLEAN, saved: Nat]
  /\ row \in [exists: BOOLEAN, path: Nat \ {0}, digest: Contents \cup {Nothing}, uploaded: BOOLEAN]
  /\ store \in Seq(Contents)
  /\ alone \in [Uploads -> BOOLEAN]
  /\ failures \in 0..MaxFailures /\ rewrites \in 0..MaxRewrites

Init ==
  /\ client = [u \in Uploads |-> [pc |-> "idle", digest |-> Nothing, left |-> 0]]
  /\ file = [u \in Uploads |-> <<u, 0>>]
  /\ token = 1 /\ calls = {}
  /\ row = [exists |-> FALSE, path |-> 1, digest |-> Nothing, uploaded |-> FALSE]
  /\ store = <<>>
  /\ alone = [u \in Uploads |-> TRUE]
  /\ failures = 0 /\ rewrites = 0

-----------------------------------------------------------------------------
(* ArtifactsClient.upload *)

\* Slots carry no content; a PUT reads the file again, and completion has the digest
\* computed before.
Request(u, kind, digest, left) ==
  [u |-> u, kind |-> kind, body |-> IF kind = "put" THEN file[u] ELSE digest,
   left |-> left, open |-> TRUE, ready |-> FALSE, saved |-> 0]
Send(u, kind, digest, rest) ==
  /\ client' = [client EXCEPT ![u] = [pc |-> kind, digest |-> digest, left |-> Retries]]
  /\ calls' = rest \cup {Request(u, kind, digest, Retries)}

Start(u) ==
  /\ client[u].pc = "idle" /\ Attempt[u] <= token
  /\ Send(u, "slot", file[u], calls)
  /\ alone' = [v \in Uploads |-> IF v = u THEN \A w \in Uploads \ {u} : ~Under(w) ELSE FALSE]
  /\ UNCHANGED <<file, token, row, store, failures, rewrites>>

\* The job writes to the file again.
Rewrite(u) ==
  /\ client[u].pc \in Steps /\ rewrites < MaxRewrites
  /\ rewrites' = rewrites + 1
  /\ file' = [file EXCEPT ![u] = <<u, rewrites + 1>>]
  /\ UNCHANGED <<client, token, calls, row, store, alone, failures>>

End(u, pc, rest) ==
  client' = [client EXCEPT ![u].pc = pc] /\ calls' = rest

\* How a request ends for the client, if it still waits; rest is what stays at the server.
Answer(q, status, rest) ==
  LET u == q.u IN
  IF ~q.open THEN calls' = rest /\ UNCHANGED client
  ELSE CASE status = "ok" /\ q.kind = "slot"     -> Send(u, "put", client[u].digest, rest)
         [] status = "ok" /\ q.kind = "put"      -> Send(u, "complete", client[u].digest, rest)
         [] status = "ok" /\ q.kind = "complete" -> End(u, "done", rest)
         [] status = "error" /\ client[u].left > 0 ->
              /\ client' = [client EXCEPT ![u].left = @ - 1]
              /\ calls' = rest \cup {Request(u, q.kind, client[u].digest, client[u].left - 1)}
         [] OTHER -> End(u, "failed", rest)

Timeout(q) ==
  /\ q.open /\ failures < MaxFailures
  /\ failures' = failures + 1
  /\ Answer(q, "error", (calls \ {q}) \cup {[q EXCEPT !.open = FALSE]})
  /\ UNCHANGED <<file, token, row, store, alone, rewrites>>

\* The request or its reply is lost, or the server process dies.
Lose(q) ==
  /\ failures < MaxFailures
  /\ failures' = failures + 1
  /\ Answer(q, "error", calls \ {q})
  /\ UNCHANGED <<file, token, row, store, alone, rewrites>>

\* The run is claimed again; or a process dies with its uploads.
Retry ==
  /\ \E u \in Uploads : token < Attempt[u]
  /\ token' = token + 1
  /\ UNCHANGED <<client, file, calls, row, store, alone, failures, rewrites>>

Kill(a) ==
  /\ \E u \in Uploads : Attempt[u] = a /\ client[u].pc \in Steps
  /\ client' = [u \in Uploads |-> IF Attempt[u] = a /\ client[u].pc # "done"
                                  THEN [client[u] EXCEPT !.pc = "failed"] ELSE client[u]]
  /\ calls' = {[q EXCEPT !.open = @ /\ Attempt[q.u] # a] : q \in calls}
  /\ UNCHANGED <<file, token, row, store, alone, failures, rewrites>>

-----------------------------------------------------------------------------
(* RunArtifactsView, RunArtifactContentView, RunArtifactCompleteView *)

\* The token is looked up first; the request goes on although it may end meanwhile.
Authorize(q) ==
  /\ ~q.ready
  /\ IF Attempt[q.u] = token
     THEN calls' = (calls \ {q}) \cup {[q EXCEPT !.ready = TRUE]} /\ UNCHANGED client
     ELSE Answer(q, "refused", calls \ {q})
  /\ UNCHANGED <<file, token, row, store, alone, failures, rewrites>>

\* get_or_create: a second upload of the name gets the row of the first as it is.
Slot(q) ==
  /\ q.ready /\ q.kind = "slot"
  /\ row' = [row EXCEPT !.exists = TRUE]
  /\ Answer(q, "ok", calls \ {q})
  /\ UNCHANGED <<file, token, store, alone, failures, rewrites>>

Pointed_Slot(path) == row
Pointed(path) == [row EXCEPT !.path = path]

\* The storage never overwrites: a path that is taken gives another.
StoreContent(q) ==
  /\ q.ready /\ q.kind = "put" /\ q.saved = 0
  /\ store' = Append(store, q.body)
  /\ calls' = (calls \ {q}) \cup {[q EXCEPT !.saved = Len(store) + 1]}
  /\ UNCHANGED <<client, file, token, row, alone, failures, rewrites>>

\* Then the row is saved, without a transaction around the two.
SavePath(q) ==
  /\ q.saved # 0
  /\ row' = Pointed(q.saved)
  /\ Answer(q, "ok", calls \ {q})
  /\ UNCHANGED <<file, token, store, alone, failures, rewrites>>

Complete(q) ==
  /\ q.ready /\ q.kind = "complete"
  /\ row' = [row EXCEPT !.digest = q.body, !.uploaded = TRUE]
  /\ Answer(q, "ok", calls \ {q})
  /\ UNCHANGED <<file, token, store, alone, failures, rewrites>>

-----------------------------------------------------------------------------
Next == \/ \E u \in Uploads : Start(u) \/ Rewrite(u)
        \/ \E q \in calls : \/ Timeout(q) \/ Lose(q) \/ Authorize(q)
                            \/ Slot(q) \/ StoreContent(q) \/ SavePath(q) \/ Complete(q)
        \/ Retry \/ \E a \in {Attempt[u] : u \in Uploads} : Kill(a)

Spec == Init /\ [][Next]_vars

-----------------------------------------------------------------------------
(* Properties. *)

\* An artifact marked as uploaded has content.  When upload has returned, with no other
\* upload of the name under way since it began and no change to its file, the digest is
\* that of the stored content, whatever was lost, repeated or late, and whatever earlier
\* uploads of the name left behind (ArtifactsClient.upload, RunArtifactContentView.put).
UploadedMatches ==
  /\ row.uploaded => row.path \in Paths
  /\ \A u \in Uploads : client[u].pc = "done" /\ alone[u] /\ file[u] = client[u].digest =>
       row.uploaded /\ row.path \in Paths /\ store[row.path] = row.digest /\ row.digest = file[u]
=============================================================================
