------------------------------ MODULE Secrets ------------------------------
(***************************************************************************)
(* ctx.secrets and the redaction of what a job writes (SDK: secrets,       *)
(* redaction, JobLogger.log, RedactingStream).  A text is a sequence of    *)
(* fragments, a value a text that replacement treats as a unit.            *)
(*                                                                         *)
(* Limitations: one access type and one secret type; parameters without    *)
(* templates; what a job writes past sys.stdout and sys.stderr, or builds  *)
(* out of a part of a value.                                               *)
(***************************************************************************)
EXTENDS Integers, SequencesExt, FiniteSetsExt

CONSTANTS
  Threads,    \* of the job
  Groups,     \* SecretsGroups the job asks for
  Provider,   \* [secret -> slug]
  Source,     \* [secret -> the text its provider finds in the container, or Missing]
  Missing, Gone,
  Builtin,    \* slugs registered at import
  Plugins,    \* slugs whose entry point loads
  Space,      \* the fragment that strip takes off
  Mask,
  MinLength,
  Token,      \* the scoped token
  Pieces,     \* texts a job writes around a value
  MaxEdits    \* bound: changes of the directory

VARIABLES
  held,       \* Nautobot: the secret a group has, Missing for none, Gone for no group
  thread,     \* the threads: where in get, for which group, what it has found
  known,      \* slugs in the registry
  loaded,     \* _entry_points_loaded
  registered, \* values the redactor knows
  got,        \* values the job's code has seen
  wrapped,    \* sys.stdout and sys.stderr are redacting
  out,        \* what the last step wrote, and around what
  edits

vars == <<held, thread, known, loaded, registered, got, wrapped, out, edits>>

-----------------------------------------------------------------------------
SecretIds == DOMAIN Source
Nothing == [before |-> <<>>, value |-> <<>>, after |-> <<>>, text |-> <<>>, redacted |-> FALSE]
Idle == [pc |-> "idle", group |-> Missing, secret |-> Missing]
TypeOK ==
  /\ held \in [Groups -> SecretIds \cup {Missing, Gone}]
  /\ thread \in [Threads -> [pc: {"idle", "group", "association", "secret", "provider", "load",
                                  "resolve"},
                             group: Groups \cup {Missing}, secret: SecretIds \cup {Missing}]]
  /\ known \subseteq Builtin \cup Plugins /\ loaded \in BOOLEAN /\ wrapped \in BOOLEAN
  /\ {v \in got : Len(v) >= MinLength} \subseteq registered
  /\ edits \in 0..MaxEdits

Init ==
  /\ held \in [Groups -> SecretIds]
  /\ thread = [t \in Threads |-> Idle]
  /\ known = Builtin /\ loaded = FALSE
  /\ registered = {Token} /\ got = {Token} /\ wrapped = TRUE
  /\ out = Nothing /\ edits = 0

Silent == out' = Nothing

\* An administrator changes or deletes a group between two of the job's requests.
Edit(g, s) ==
  /\ edits < MaxEdits /\ s # held[g]
  /\ held' = [held EXCEPT ![g] = s]
  /\ edits' = edits + 1
  /\ Silent /\ UNCHANGED <<thread, known, loaded, registered, got, wrapped>>

-----------------------------------------------------------------------------
(* SecretsClient.get *)

Goto(t, pc) == thread' = [thread EXCEPT ![t].pc = pc]
Raise(t) == thread' = [thread EXCEPT ![t] = Idle]
Directory == <<known, loaded, registered, got>>

Get(t, g) ==
  /\ thread[t].pc = "idle"
  /\ thread' = [thread EXCEPT ![t] = [Idle EXCEPT !.pc = "group", !.group = g]]
  /\ Silent /\ UNCHANGED <<held, Directory, wrapped, edits>>

LookupGroup(t) ==
  /\ thread[t].pc = "group"
  /\ IF held[thread[t].group] = Gone THEN Raise(t) ELSE Goto(t, "association")
  /\ Silent /\ UNCHANGED <<held, Directory, wrapped, edits>>

LookupAssociation(t) ==
  LET s == held[thread[t].group] IN
  /\ thread[t].pc = "association"
  /\ IF s \in SecretIds
     THEN thread' = [thread EXCEPT ![t].pc = "secret", ![t].secret = s]
     ELSE Raise(t)
  /\ Silent /\ UNCHANGED <<held, Directory, wrapped, edits>>

\* The request for the secret may fail too.
LookupSecret(t, fails) ==
  /\ thread[t].pc = "secret"
  /\ IF fails THEN Raise(t) ELSE Goto(t, "provider")
  /\ Silent /\ UNCHANGED <<held, Directory, wrapped, edits>>

\* ProviderRegistry.get; the flag is set before the entry points are loaded, and another
\* thread that comes meanwhile finds its provider unknown.
FindProvider(t) ==
  LET slug == Provider[thread[t].secret] IN
  /\ thread[t].pc = "provider"
  /\ Goto(t, IF slug \in known THEN "resolve" ELSE IF loaded THEN "idle" ELSE "load")
  /\ loaded' = (loaded \/ slug \notin known)
  /\ Silent /\ UNCHANGED <<held, known, registered, got, wrapped, edits>>

LoadEntryPoints(t) ==
  /\ thread[t].pc = "load"
  /\ known' = known \cup Plugins
  /\ IF Provider[thread[t].secret] \in known' THEN Goto(t, "resolve") ELSE Raise(t)
  /\ Silent /\ UNCHANGED <<held, loaded, registered, got, wrapped, edits>>

Strip(v) == LET kept == {i \in DOMAIN v : v[i] # Space} IN
            IF kept = {} THEN <<>> ELSE SubSeq(v, Min(kept), Max(kept))

Resolved(s) == IF Provider[s] = "text-file" THEN Strip(Source[s]) ELSE Source[s]

\* provider.resolve, redaction.register and the return to the job.
Resolve(t) ==
  LET s == thread[t].secret IN
  /\ thread[t].pc = "resolve"
  /\ Raise(t)
  /\ IF Source[s] = Missing THEN UNCHANGED <<registered, got>>
     ELSE /\ registered' = registered \cup {v \in {Resolved(s)} : Len(v) >= MinLength}
          /\ got' = got \cup {Resolved(s)}
  /\ Silent /\ UNCHANGED <<held, known, loaded, wrapped, edits>>

-----------------------------------------------------------------------------
(* What the job writes. *)

At(v, text) == {i \in 1..(Len(text) - Len(v) + 1) : SubSeq(text, i, i + Len(v) - 1) = v}
Within(v, text) == At(v, text) # {}
\* str.replace takes one occurrence at a time, from the left.
Once(v, x) == IF Within(v, x) THEN ReplaceSubSeqAt(Min(At(v, x)), <<Mask>>, v, x) ELSE x
Replaced(v, text) ==
  LET left[n \in 0..Len(text)] == IF n = 0 THEN text ELSE Once(v, left[n - 1])
  IN left[Len(text)]

\* registered_values: longest first, in any order otherwise.
Listings == {s \in [1..Cardinality(registered) -> registered] :
               \A i, j \in DOMAIN s : s[i] = s[j] => i = j}
Orders_Shortest == {s \in Listings : \A i, j \in DOMAIN s : i < j => Len(s[i]) <= Len(s[j])}
Orders == {s \in Listings : \A i, j \in DOMAIN s : i < j => Len(s[i]) >= Len(s[j])}
Redacted(s, text) ==
  LET left[n \in 0..Len(s)] == IF n = 0 THEN text ELSE Replaced(s[n], left[n - 1])
  IN left[Len(s)]
Redactions(text) == {Redacted(s, text) : s \in Orders}

\* A log entry is redacted before it is buffered or echoed; what is printed, by the
\* streams.
Write(t, redacted, before, v, after) ==
  LET text == before \o v \o after IN
  /\ thread[t].pc = "idle" /\ v \in got
  /\ redacted \/ ~wrapped
  /\ \E x \in (IF redacted THEN Redactions(text) ELSE {text}) :
       out' = [before |-> before, value |-> v, after |-> after, text |-> x, redacted |-> redacted]
  /\ UNCHANGED <<held, thread, Directory, wrapped, edits>>

\* job.main restores the streams once the logs are flushed; a thread may write on.
Restore ==
  /\ wrapped /\ wrapped' = FALSE
  /\ Silent /\ UNCHANGED <<held, thread, Directory, edits>>

-----------------------------------------------------------------------------
Next ==
  \/ \E t \in Threads :
       \/ (\E g \in Groups : Get(t, g)) \/ LookupGroup(t) \/ LookupAssociation(t)
       \/ (\E fails \in BOOLEAN : LookupSecret(t, fails))
       \/ FindProvider(t) \/ LoadEntryPoints(t) \/ Resolve(t)
  \/ (\E g \in Groups, s \in SecretIds \cup {Missing, Gone} : Edit(g, s))
  \/ (\E t \in Threads, redacted \in BOOLEAN, v \in got, before, after \in Pieces :
        Write(t, redacted, before, v, after))
  \/ Restore

Spec == Init /\ [][Next]_vars

-----------------------------------------------------------------------------
(* Properties. *)

\* A value that the job got and writes while the streams redact is not in the text that
\* comes out, nor is a fragment of it, unless another value straddles its end there or it
\* is too short to be registered (SecretsClient.get, registered_values, redact).
Fragments(v) == {v[i] : i \in DOMAIN v}
Straddled ==
  \E w \in registered : /\ Within(w, out.before \o out.value \o out.after)
                        /\ ~Within(w, out.value) /\ ~Within(out.value, w)
Masked ==
  out.redacted /\ Len(out.value) >= MinLength =>
    /\ ~Within(out.value, out.text)
    /\ \/ Straddled
       \/ Fragments(out.value) \cap Fragments(out.text) \subseteq Fragments(out.before \o out.after)
=============================================================================
