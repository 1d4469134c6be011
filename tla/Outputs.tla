------------------------------- MODULE Outputs -------------------------------
(***************************************************************************)
(* What comes out of a container and where it ends up: console lines, as   *)
(* far as the sink (Console) and from there on (LogPipeline), structured   *)
(* log entries (JobLogs), redacted text (Secrets) and artifacts; and what  *)
(* the publish command makes of a definition.  They share no state, so     *)
(* each is explored by itself.                                             *)
(***************************************************************************)
EXTENDS LogPipeline

CONSTANTS Retries, MaxFailures, MaxEdits \* several parts have them

CONSTANTS Attempts, MaxEntries, BatchSize, Oversize
VARIABLES proc, post, log_token, log_calls, stored, marks, warned, replayed, log_failures
JL == <<proc, post, log_token, log_calls, stored, marks, warned, replayed, log_failures>>
J == INSTANCE JobLogs WITH
  token <- log_token, calls <- log_calls, failures <- log_failures

CONSTANTS Uploads, Attempt, MaxRewrites, UploadFailures
VARIABLES upload, file, token, puts, row, store, alone, put_failures, rewrites
UL == <<upload, file, token, puts, row, store, alone, put_failures, rewrites>>
U == INSTANCE Artifacts WITH
  client <- upload, calls <- puts, failures <- put_failures, MaxFailures <- UploadFailures

CONSTANTS Streams, QueueSize, MaxAttachments
VARIABLES container, printed, supervisor, pump, queue, console, emitted, attachments
CN == <<container, printed, supervisor, pump, queue, console, emitted, attachments>>
C == INSTANCE Console

CONSTANTS Threads, Groups, Provider, Source, Missing, Gone, Builtin, Plugins, Space, Mask,
          MinLength, ScopedToken, Pieces
VARIABLES held, thread, known, loaded, registered, got, wrapped, out, edits
SC == <<held, thread, known, loaded, registered, got, wrapped, out, edits>>
S == INSTANCE Secrets WITH Token <- ScopedToken

CONSTANTS Publishers, Given, Access, Credentials, Optional, Pinned, MaxPushes
VARIABLES tag, pub, writes, record, carried, muddled, pub_edits, pub_failures
PB == <<tag, pub, writes, record, carried, muddled, pub_edits, pub_failures>>
P == INSTANCE Publish WITH calls <- writes, edits <- pub_edits, failures <- pub_failures

ASSUME OutputsAssumption ==
  /\ {Retries, MaxFailures, UploadFailures, MaxEdits, MaxEntries, MaxRewrites, MaxPushes} \subseteq Nat
  /\ {Attempts, QueueSize, MaxAttachments} \subseteq Nat \ {0}
  /\ Streams # {}

\* The values, the token and what is written around them are texts.  No value has the mask
\* in it: no replacement could hide that part.
IsText(v) == v \in Seq(S!Fragments(v))
ASSUME RedactionAssumption ==
  /\ MinLength \in Nat \ {0}
  /\ \A v \in Pieces : IsText(v)
  /\ \A v \in {ScopedToken} \cup {Source[s] : s \in {r \in DOMAIN Source : Source[r] # Missing}} :
       IsText(v) /\ Mask \notin S!Fragments(v)
  /\ Len(ScopedToken) >= 1

VARIABLE part
all == <<part, vars, CN, JL, UL, SC, PB>>

-----------------------------------------------------------------------------
AllInit ==
  /\ part \in {"pipeline", "console", "entries", "artifacts", "secrets", "publish"}
  /\ Init /\ C!Init /\ J!Init /\ U!Init /\ S!Init /\ P!Init
  \* what a part that stands still begins with does not matter
  /\ part = "pipeline" \/ sink.type = "http"
  /\ part = "secrets" \/ held = [g \in Groups |-> CHOOSE s \in DOMAIN Source : TRUE]

Pipeline == part = "pipeline" /\ Next /\ UNCHANGED <<part, CN, JL, UL, SC, PB>>
Printing == part = "console" /\ C!Next /\ UNCHANGED <<part, vars, JL, UL, SC, PB>>
Entries == part = "entries" /\ J!Next /\ UNCHANGED <<part, vars, CN, UL, SC, PB>>
Uploading == part = "artifacts" /\ U!Next /\ UNCHANGED <<part, vars, CN, JL, SC, PB>>
Redacting == part = "secrets" /\ S!Next /\ UNCHANGED <<part, vars, CN, JL, UL, PB>>
Publishing == part = "publish" /\ P!Next /\ UNCHANGED <<part, vars, CN, JL, UL, SC>>

Step == Pipeline \/ Printing \/ Entries \/ Uploading \/ Redacting \/ Publishing

\* LogPipeline's fairness: none of those actions is enabled in its first state.
OutputsSpec ==
  /\ AllInit /\ [][Step]_all
  /\ WF_vars(FlushExpired) /\ WF_vars(Send) /\ WF_vars(Serve) /\ WF_vars(Ship)

-----------------------------------------------------------------------------
\* One type invariant for the parts.
TypesOK == TypeOK /\ C!TypeOK /\ J!TypeOK /\ U!TypeOK /\ S!TypeOK /\ P!TypeOK

\* The parts' own properties, stated there.
ConsoleComplete == C!ConsoleComplete
EntriesAccounted == J!EntriesAccounted
UploadedMatches == U!UploadedMatches
Masked == S!Masked
PublishHonest == P!PublishHonest
=============================================================================
