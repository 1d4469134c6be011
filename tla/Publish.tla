------------------------------ MODULE Publish ------------------------------
(***************************************************************************)
(* remote-jobs publish: several runs of the command for one definition     *)
(* name, against a registry whose tag moves and Nautobot's REST API.       *)
(*                                                                         *)
(* Limitations: of a definition there are the image with its digest, one   *)
(* field a manifest may leave out, and the zone that a pinned definition   *)
(* must have; an argument or a manifest that cannot be read ends the       *)
(* command before it does anything.                                        *)
(***************************************************************************)
EXTENDS Integers

CONSTANTS
  Publishers,  \* runs of the command
  Given,       \* those with --digest, or a digest in the reference
  Access,      \* [publisher -> what its registry asks for: nothing, basic, bearer]
  Credentials, \* publishers that have --registry-username and -password
  Optional,    \* publishers whose manifest has the field
  Pinned,      \* publishers whose zone_policy is pinned
  Retries,     \* of a REST request, by the session
  MaxPushes,   \* bound: of another image under the tag
  MaxEdits,    \* bound: an administrator deletes the definition or gives it a zone
  MaxFailures  \* bound: lost requests and replies, timeouts

VARIABLES
  tag,      \* the digest the tag has
  pub,      \* the commands: where they are, the digest they send, retries left
  calls,    \* PATCH and POST requests at the server
  record,   \* the JobDefinition
  carried,  \* publishers whose payload the record has had
  muddled,  \* publishers that did not get some reply
  edits, failures

vars == <<tag, pub, calls, record, carried, muddled, edits, failures>>

-----------------------------------------------------------------------------
Digests == 0..MaxPushes
Record == [key: 0..MaxEdits, image: Publishers, digest: Digests, field: Publishers \cup {"default"}, zone: BOOLEAN]
NoRecord == [image |-> "nobody"]
Writing == {"patch", "post"}

TypeOK ==
  /\ tag \in Digests
  /\ pub \in [Publishers -> [pc: Writing \cup {"head", "token", "get", "published", "failed"},
                             digest: Digests, token: BOOLEAN, left: 0..Retries]]
  /\ \A q \in calls : q \in [p: Publishers, kind: Writing, key: 0..MaxEdits, left: 0..Retries,
                             open: BOOLEAN, copy: Record \cup {NoRecord}]
  /\ record \in Record \cup {NoRecord}
  /\ carried \subseteq Publishers /\ muddled \subseteq Publishers
  /\ edits \in 0..MaxEdits /\ failures \in 0..MaxFailures

Init ==
  /\ tag = 0
  /\ pub = [p \in Publishers |-> [pc |-> IF p \in Given THEN "get" ELSE "head", digest |-> 0,
                                  token |-> FALSE, left |-> 0]]
  /\ calls = {} /\ record = NoRecord /\ carried = {} /\ muddled = {}
  /\ edits = 0 /\ failures = 0

Push == tag < MaxPushes /\ tag' = tag + 1
        /\ UNCHANGED <<pub, calls, record, carried, muddled, edits, failures>>

Edit(delete) ==
  /\ edits < MaxEdits /\ record # NoRecord
  /\ edits' = edits + 1
  /\ record' = IF delete THEN NoRecord ELSE [record EXCEPT !.zone = TRUE]
  /\ UNCHANGED <<tag, pub, calls, carried, muddled, failures>>

-----------------------------------------------------------------------------
(* resolve_digest: its requests are not retried. *)

Moves(p, pc) == pub' = [pub EXCEPT ![p].pc = pc]

\* HEAD of the tag's manifest, again with the token of the bearer challenge.
Head(p) ==
  /\ pub[p].pc = "head"
  /\ IF Access[p] = "nothing" \/ (Access[p] = "basic" /\ p \in Credentials) \/ pub[p].token
     THEN pub' = [pub EXCEPT ![p].pc = "get", ![p].digest = tag]
     ELSE Moves(p, IF Access[p] = "bearer" THEN "token" ELSE "failed")
  /\ UNCHANGED <<tag, calls, record, carried, muddled, edits, failures>>

Token(p, granted) ==
  /\ pub[p].pc = "token"
  /\ pub' = [pub EXCEPT ![p].pc = IF granted THEN "head" ELSE "failed", ![p].token = granted]
  /\ UNCHANGED <<tag, calls, record, carried, muddled, edits, failures>>

-----------------------------------------------------------------------------
(* upsert_job_definition *)

Call(p, kind, key, left) ==
  [p |-> p, kind |-> kind, key |-> key, left |-> left, open |-> TRUE, copy |-> NoRecord]

\* Find the definition by its name; then change that one or make a new one.
Get(p) ==
  LET kind == IF record = NoRecord THEN "post" ELSE "patch"
      key == IF record = NoRecord THEN 0 ELSE record.key
  IN
  /\ pub[p].pc = "get"
  /\ pub' = [pub EXCEPT ![p].pc = kind, ![p].left = Retries]
  /\ calls' = calls \cup {Call(p, kind, key, Retries)}
  /\ UNCHANGED <<tag, record, carried, muddled, edits, failures>>

\* A request of the registry or the look-up fails for good.
Fail(p) ==
  /\ pub[p].pc \in {"head", "get"} /\ failures < MaxFailures
  /\ failures' = failures + 1
  /\ Moves(p, "failed")
  /\ UNCHANGED <<tag, calls, record, carried, muddled, edits>>

Answer_ExistsIsFine(q, status, rest) ==
  /\ calls' = rest
  /\ IF q.open THEN Moves(q.p, IF status = "ok" \/ q.kind = "post" THEN "published" ELSE "failed")
     ELSE UNCHANGED pub

\* How a request ends for the command, if it still waits; rest is what stays at the server.
Answer(q, status, rest) ==
  LET left == pub[q.p].left - 1 IN
  IF ~q.open THEN calls' = rest /\ UNCHANGED pub
  ELSE IF status = "error" /\ pub[q.p].left > 0
  THEN pub' = [pub EXCEPT ![q.p].left = left] /\ calls' = rest \cup {Call(q.p, q.kind, q.key, left)}
  ELSE Moves(q.p, IF status = "ok" THEN "published" ELSE "failed") /\ calls' = rest

\* The reply does not come in time, or the request or its reply is lost.
Unanswered(q, runsOn) ==
  /\ q.open /\ failures < MaxFailures
  /\ failures' = failures + 1
  /\ muddled' = muddled \cup {q.p}
  /\ Answer(q, "error", (calls \ {q}) \cup IF runsOn THEN {[q EXCEPT !.open = FALSE]} ELSE {})
  /\ UNCHANGED <<tag, record, carried, edits>>

-----------------------------------------------------------------------------
(* The REST API of job-definitions. *)

Payload(p, r) ==
  [key |-> IF r = NoRecord THEN edits ELSE r.key, image |-> p, digest |-> pub[p].digest,
   zone |-> r # NoRecord /\ r.zone,
   field |-> IF p \in Optional THEN p ELSE IF r = NoRecord THEN "default" ELSE r.field]
Clean(p, r) == p \in Pinned => r # NoRecord /\ r.zone

Create(q) ==
  /\ q.kind = "post"
  /\ IF record = NoRecord /\ Clean(q.p, NoRecord)
     THEN /\ record' = Payload(q.p, NoRecord) /\ carried' = carried \cup {q.p}
          /\ Answer(q, "ok", calls \ {q})
     ELSE Answer(q, "refused", calls \ {q}) /\ UNCHANGED <<record, carried>>
  /\ UNCHANGED <<tag, muddled, edits, failures>>

Load(q) ==
  /\ q.kind = "patch" /\ q.copy = NoRecord
  /\ IF record # NoRecord /\ record.key = q.key /\ Clean(q.p, record)
     THEN calls' = (calls \ {q}) \cup {[q EXCEPT !.copy = record]} /\ UNCHANGED pub
     ELSE Answer(q, "refused", calls \ {q})
  /\ UNCHANGED <<tag, record, carried, muddled, edits, failures>>

\* Every field is saved, those the payload leaves out as they were loaded.  A row deleted
\* meanwhile is there again, unless its name is taken.
SavePatch(q) ==
  /\ q.copy # NoRecord
  /\ IF record = NoRecord \/ record.key = q.key
     THEN /\ record' = Payload(q.p, q.copy) /\ carried' = carried \cup {q.p}
          /\ Answer(q, "ok", calls \ {q})
     ELSE Answer(q, "error", calls \ {q}) /\ UNCHANGED <<record, carried>>
  /\ UNCHANGED <<tag, muddled, edits, failures>>

-----------------------------------------------------------------------------
Next == \/ Push
        \/ \E delete \in BOOLEAN : Edit(delete)
        \/ \E p \in Publishers : \/ Head(p) \/ Get(p) \/ Fail(p)
                                 \/ \E granted \in BOOLEAN : Token(p, granted)
        \/ \E q \in calls : \/ Create(q) \/ Load(q) \/ SavePatch(q)
                            \/ \E runsOn \in BOOLEAN : Unanswered(q, runsOn)

Spec == Init /\ [][Next]_vars

-----------------------------------------------------------------------------
(* Properties. *)

\* The command's exit code tells what it did: published, the definition has had its whole
\* payload; failed, the definition is untouched by it, unless the reply to a write was lost:
\* a repeated POST fails on its own first one (upsert_job_definition, run).
PublishHonest ==
  \A p \in Publishers : /\ pub[p].pc = "published" => p \in carried
                        /\ pub[p].pc = "failed" /\ p \notin muddled => p \notin carried
=============================================================================
