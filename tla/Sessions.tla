------------------------------ MODULE Sessions ------------------------------
(***************************************************************************)
(* A worker's credential and its calls through the gateway: enrollment     *)
(* (enroll.py, EnrollView), the handshake (gateway main.py, auth.py,       *)
(* VerifySessionView), WorkerBridge, the consumers of the RPC channel      *)
(* (rpc/bridge.py) and worker.rotate.                                      *)
(*                                                                         *)
(* A session secret is derived from the worker and its generation, so a    *)
(* key is a generation number here.                                        *)
(***************************************************************************)
EXTENDS Integers, Sequences, FiniteSets

CONSTANTS
  Agents,     \* agent processes, each with its state volume
  Tokens,     \* enrollment tokens
  TokenOf,    \* REMOTE_JOBS_ENROLL_TOKEN of an agent
  Names,
  NameOf,     \* config.name of an agent
  SingleUse,  \* the tokens with single_use
  Consumers,  \* processes that subscribe to remote-jobs:gateway:rpc
  Switched,   \* the workers an operator disables and enables again
  Callers,    \* bound: the agents that make calls
  MaxCalls,   \* bound: calls
  MaxFaults   \* bound: crashes, lost connections, lost requests and replies

ASSUME SessionsAssumption ==
  /\ TokenOf \in [Agents -> Tokens]
  /\ NameOf \in [Agents -> Names]
  /\ SingleUse \subseteq Tokens
  /\ Switched \subseteq Names /\ Callers \subseteq Agents
  /\ {MaxCalls, MaxFaults} \subseteq Nat

VARIABLES
  worker,   \* the Worker row of a name; agent: whose request created it
  token,    \* the WorkerEnrollmentToken rows
  posts,    \* enroll requests the server has let in
  agent,    \* an agent: its process, volume and connection
  bridges,  \* the WorkerBridges of the gateway
  calls,    \* the requests agents made, in order
  frames,   \* requests published and not yet handled, one for each consumer
  answers,  \* replies on their way from a bridge to its agent
  fate,     \* what became of a worker's key in force, whose agent was told of it or not
  served,   \* the requests whose agent was told of a key
  faults

vars == <<worker, token, posts, agent, bridges, calls, frames, answers, fate, served, faults>>
gateway == <<bridges, calls, frames, answers>>
history == <<fate, served>>

-----------------------------------------------------------------------------
NoKey == -1
NoWorker == [gen |-> NoKey, enabled |-> FALSE, token |-> CHOOSE t \in Tokens : TRUE,
             agent |-> CHOOSE a \in Agents : TRUE]

Keys == {NoKey} \cup Nat
Post == [agent: Agents, waited: BOOLEAN, granted: BOOLEAN]
Session == [agent: Agents, n: Nat]
Call == [session: Session, sent: BOOLEAN,
         waited: BOOLEAN, pending: BOOLEAN, relayed: Nat]
Ids == DOMAIN calls
Reply == [call: Ids, key: Keys]
Frame == [call: Ids, consumer: Consumers, read: Keys]

\* The agent is told of the key, by an answer on its way or one it has read; or the reply was
\* lost on the way or had nobody left to reach; or a consumer issued the key once more for a
\* request whose agent was told of one already.
Fates == {"told", "lost", "again"}

Current(a) == [agent |-> a, n |-> agent[a].n]
Connected(a) == agent[a].open
Exists(n) == worker[n].gen # NoKey
KeyOf(a) == worker[NameOf[a]].gen

\* The fields that are read are typed, and whoever waits for an answer is
\* connected as when it asked: the end of a connection fails its calls, and
\* the end of a bridge its futures.
TypeOK ==
  /\ \A n \in Names : worker[n].gen \in Keys /\ worker[n].enabled \in BOOLEAN
  /\ token \in [Tokens -> [used: BOOLEAN, expired: BOOLEAN]]
  /\ posts \subseteq Post /\ bridges \subseteq Session
  /\ \A a \in Agents : agent[a] \in
       [key: Keys, vol: Keys, open: BOOLEAN, n: Nat]
  /\ \A c \in Ids :
       /\ calls[c] \in Call
       /\ calls[c].waited => /\ Connected(calls[c].session.agent)
                             /\ calls[c].session = Current(calls[c].session.agent)
       /\ calls[c].pending => calls[c].session \in bridges
  /\ frames \subseteq Frame /\ answers \subseteq Reply
  /\ fate \in [Names -> Fates] /\ served \subseteq Ids /\ faults \in 0..MaxFaults

Init ==
  /\ worker = [n \in Names |-> NoWorker]
  /\ token = [t \in Tokens |-> [used |-> FALSE, expired |-> FALSE]]
  /\ agent = [a \in Agents |-> [key |-> NoKey, vol |-> NoKey, open |-> FALSE, n |-> 0]]
  /\ posts = {} /\ bridges = {} /\ calls = <<>> /\ frames = {} /\ answers = {}
  /\ fate = [n \in Names |-> "told"] /\ served = {}
  /\ faults = 0

Fault == faults < MaxFaults /\ faults' = faults + 1

-----------------------------------------------------------------------------
\* What an agent's lost connection leaves behind.
AnswersTo(s) == {r \in answers : calls[r.call].session = s}
Awaited(r) == calls[r.call].waited

\* Nobody waits any more for the answer that carries the key in force.
Untold(s) == fate' = IF \E r \in AnswersTo(s) : Awaited(r) /\ r.key = KeyOf(s.agent)
                       THEN [fate EXCEPT ![NameOf[s.agent]] = "lost"] ELSE fate

\* A lost connection that leaves its futures alone.
Forsaken_KeepsWaiting(s) == calls

Forsaken(s) == [c \in Ids |-> IF calls[c].session = s THEN [calls[c] EXCEPT !.waited = FALSE]
                                                       ELSE calls[c]]
Forsake(s) ==
  /\ calls' = Forsaken(s)
  /\ answers' = answers \ AnswersTo(s)
  /\ Untold(s)

-----------------------------------------------------------------------------
(* Enrollment. *)

\* An agent runs while it has a key in memory.  It is started with the persisted one.
Boot(a) ==
  /\ agent[a].key = NoKey /\ agent[a].vol # NoKey
  /\ agent' = [agent EXCEPT ![a].key = agent[a].vol]
  /\ UNCHANGED <<worker, token, posts, gateway, history, faults>>

Unread(a) == {p \in posts : p.agent = a /\ p.waited}
Valid(t) == ~token[t].expired /\ (t \in SingleUse => ~token[t].used)

\* Started without one it posts its token.  The checks before the transaction: the token
\* authenticates, the name is free.  A refused agent exits and may be started again.
Ask(a) ==
  /\ agent[a].vol = NoKey /\ Unread(a) = {}
  /\ Valid(TokenOf[a]) /\ ~Exists(NameOf[a])
  /\ posts' = posts \cup {[agent |-> a, waited |-> TRUE, granted |-> FALSE]}
  /\ UNCHANGED <<worker, token, agent, gateway, history, faults>>

\* The token checked before its row is locked, and not again.
Granted_NoRecheck(p) == ~Exists(NameOf[p.agent])

\* The transaction, the token's row locked.  The name is unique in the database.
Granted(p) == Valid(TokenOf[p.agent]) /\ ~Exists(NameOf[p.agent])

Redeem(p) ==
  /\ ~p.granted
  /\ IF Granted(p)
       THEN /\ worker' = [worker EXCEPT ![NameOf[p.agent]] =
                 [gen |-> 0, enabled |-> TRUE, token |-> TokenOf[p.agent], agent |-> p.agent]]
            /\ token' = [token EXCEPT ![TokenOf[p.agent]].used = TRUE]
            /\ posts' = (posts \ {p}) \cup {q \in {[p EXCEPT !.granted = TRUE]} : p.waited}
            /\ fate' = [fate EXCEPT ![NameOf[p.agent]] = IF p.waited THEN "told" ELSE "lost"]
       ELSE /\ posts' = posts \ {p}
            /\ UNCHANGED <<worker, token, fate>>
  /\ UNCHANGED <<agent, gateway, served, faults>>

\* The reply arrives and is persisted.
Enrolled(p) ==
  /\ p.granted
  /\ posts' = posts \ {p}
  /\ agent' = [agent EXCEPT ![p.agent].key = 0, ![p.agent].vol = 0]
  /\ UNCHANGED <<worker, token, gateway, history, faults>>

\* The request fails or times out, or the agent dies.  The server may go on with it.
EnrollFails(a) ==
  /\ Unread(a) # {} /\ Fault
  /\ posts' = (posts \ Unread(a)) \cup {[p EXCEPT !.waited = FALSE] : p \in {q \in Unread(a) : ~q.granted}}
  /\ fate' = IF \E p \in Unread(a) : p.granted
                THEN [fate EXCEPT ![NameOf[a]] = "lost"] ELSE fate
  /\ UNCHANGED <<worker, token, agent, gateway, served>>

Expire(t) ==
  /\ ~token[t].expired
  /\ token' = [token EXCEPT ![t].expired = TRUE]
  /\ UNCHANGED <<worker, posts, agent, gateway, history, faults>>

-----------------------------------------------------------------------------
(* The connection. *)

\* The handshake is signed with the key in memory; the app derives it anew.
Verified(a) == worker[NameOf[a]].enabled /\ agent[a].key = KeyOf(a)

\* A handshake is accepted, and a bridge subscribes to the worker's channels.  A
\* rejected one, or an app that cannot be reached, leaves the agent as it was.
Connect(a) ==
  /\ agent[a].key # NoKey /\ ~Connected(a)
  /\ Verified(a)
  /\ agent' = [agent EXCEPT ![a].open = TRUE, ![a].n = @ + 1]
  /\ bridges' = bridges \cup {[agent |-> a, n |-> agent[a].n + 1]}
  /\ UNCHANGED <<worker, token, posts, calls, frames, answers, history, faults>>

\* The agent's end goes: its network or its process.  The gateway does not know yet.
LinkLost(a, stays) ==
  /\ Connected(a) /\ Fault
  /\ Forsake(Current(a))
  /\ agent' = [agent EXCEPT ![a].open = FALSE,
                            ![a].key = IF stays THEN @ ELSE NoKey]
  /\ UNCHANGED <<worker, token, posts, bridges, frames, served>>

Unpended(s, cs) == [c \in DOMAIN cs |-> IF cs[c].session = s THEN [cs[c] EXCEPT !.pending = FALSE]
                                                             ELSE cs[c]]

\* The gateway's end goes: the socket of an agent that left, or the gateway itself.
BridgeCloses(s) ==
  /\ s \in bridges
  /\ bridges' = bridges \ {s}
  /\ IF Connected(s.agent) /\ Current(s.agent) = s
       THEN /\ Fault
            /\ calls' = Unpended(s, Forsaken(s))
            /\ answers' = answers \ AnswersTo(s)
            /\ Untold(s)
            /\ agent' = [agent EXCEPT ![s.agent].open = FALSE]
       ELSE /\ calls' = Unpended(s, calls)
            /\ UNCHANGED <<agent, answers, fate, faults>>
  /\ UNCHANGED <<worker, token, posts, frames, served>>

-----------------------------------------------------------------------------
(* Calls.  Requests have fresh ids, so an answer names its call.  They are all     *)
(* worker.rotate: any other takes the same way and leaves the key alone.           *)

Waiting(a) == \E c \in Ids : calls[c].session.agent = a /\ calls[c].waited

\* rotate_session_secret is awaited before it is called again.
Rotate(a) ==
  /\ Connected(a) /\ a \in Callers /\ Len(calls) < MaxCalls
  /\ ~Waiting(a)
  /\ calls' = Append(calls, [session |-> Current(a), sent |-> FALSE, waited |-> TRUE,
                             pending |-> FALSE, relayed |-> 0])
  /\ UNCHANGED <<worker, token, posts, agent, bridges, frames, answers, history, faults>>

\* The bridge's future has its result, or its timeout, and goes to the socket.
Relay(c, key) ==
  LET s == calls[c].session
      heard == Connected(s.agent) /\ Current(s.agent) = s
  IN /\ calls' = [calls EXCEPT ![c].pending = FALSE, ![c].relayed = @ + 1]
     /\ answers' = answers \cup {r \in {[call |-> c, key |-> key]} : heard}

\* An answer published on the call's channel.  Nobody waits for a late one.
Publish(c, key) ==
  IF calls[c].pending THEN Relay(c, key) ELSE UNCHANGED <<calls, answers>>

\* The bridge reads the frame: publishes it, or refuses it.
Forward(c) ==
  /\ ~calls[c].sent /\ calls[c].session \in bridges
  /\ calls' = [calls EXCEPT ![c].sent = TRUE, ![c].pending = TRUE]
  /\ frames' = frames \cup {[call |-> c, consumer |-> k, read |-> NoKey] : k \in Consumers}
  /\ UNCHANGED <<worker, token, posts, agent, bridges, answers, history, faults>>

\* Over the rate: the refusal names the call.
Refuse(c) ==
  /\ ~calls[c].sent /\ calls[c].session \in bridges /\ Fault
  /\ LET s == calls[c].session IN
     /\ calls' = [calls EXCEPT ![c].sent = TRUE, ![c].relayed = @ + 1]
     /\ answers' = answers \cup {r \in {[call |-> c, key |-> NoKey]} :
                                   Connected(s.agent) /\ Current(s.agent) = s}
  /\ UNCHANGED <<worker, token, posts, agent, bridges, frames, history>>

\* Over the size: the refusal has no id, so the agent takes it for nobody's and waits on.
Oversize(c) ==
  /\ ~calls[c].sent /\ calls[c].session \in bridges /\ Fault
  /\ calls' = [calls EXCEPT ![c].sent = TRUE]
  /\ UNCHANGED <<worker, token, posts, agent, bridges, frames, answers, history>>

\* The future stays registered after its timeout.
Upstream_KeepsFuture(c) ==
  /\ calls[c].pending
  /\ LET s == calls[c].session IN
     /\ calls' = [calls EXCEPT ![c].relayed = @ + 1]
     /\ answers' = answers \cup {r \in {[call |-> c, key |-> NoKey]} :
                                   Connected(s.agent) /\ Current(s.agent) = s}
  /\ UNCHANGED <<worker, token, posts, agent, bridges, frames, history, faults>>

\* rpc_response_timeout_seconds.
Upstream(c) ==
  /\ calls[c].pending
  /\ Relay(c, NoKey)
  /\ UNCHANGED <<worker, token, posts, agent, bridges, frames, history, faults>>

-----------------------------------------------------------------------------
(* The app. *)

WorkerOf(f) == NameOf[calls[f.call].session.agent]

\* dispatch_rpc fetches the worker, without a lock.
Read(f) ==
  /\ f.read = NoKey
  /\ frames' = (frames \ {f}) \cup {[f EXCEPT !.read = worker[WorkerOf(f)].gen]}
  /\ UNCHANGED <<worker, token, posts, agent, bridges, calls, answers, history, faults>>

NextKey(f) == f.read + 1

Save(f) == worker' = [worker EXCEPT ![WorkerOf(f)].gen = NextKey(f)]

\* The key in force after the save: the agent that waits is told of it, or it is not.
Issue(f, told) ==
  /\ fate' = IF told THEN [fate EXCEPT ![WorkerOf(f)] = "told"]
              ELSE IF worker[WorkerOf(f)].gen = NextKey(f) THEN fate
              ELSE [fate EXCEPT ![WorkerOf(f)] = IF f.call \in served THEN "again" ELSE "lost"]
  /\ served' = IF told THEN served \cup {f.call} ELSE served

Handle(f) ==
  /\ f.read # NoKey
  /\ frames' = frames \ {f}
  /\ Save(f)
  /\ Publish(f.call, NextKey(f))
  /\ Issue(f, calls[f.call].pending /\ calls[f.call].waited)
  /\ UNCHANGED <<token, posts, agent, bridges, faults>>

\* The consumer was down, or dies: before it saves, or before it publishes.
ConsumerDies(f, saved) ==
  /\ saved => f.read # NoKey
  /\ Fault
  /\ frames' = frames \ {f}
  /\ IF saved THEN Save(f) /\ Issue(f, FALSE) ELSE UNCHANGED <<worker, history>>
  /\ UNCHANGED <<token, posts, agent, bridges, calls, answers>>

Switch(n) ==  \* an operator enables or disables the worker
  /\ Exists(n)
  /\ worker' = [worker EXCEPT ![n].enabled = ~@]
  /\ UNCHANGED <<token, posts, agent, gateway, history, faults>>

-----------------------------------------------------------------------------
(* The answer. *)

\* The state file written, the secret of the running agent not replaced; and the reverse.
Adopt_OnDiskOnly(a, key) == [agent EXCEPT ![a].vol = key]
Adopt_InMemoryOnly(a, key) == [agent EXCEPT ![a].key = key]

Adopt(a, key) == [agent EXCEPT ![a].key = key, ![a].vol = key]

Receive(r) ==
  LET a == calls[r.call].session.agent
      waited == calls[r.call].waited
  IN /\ answers' = answers \ {r}
     /\ calls' = [calls EXCEPT ![r.call].waited = FALSE]
     /\ agent' = IF waited /\ r.key # NoKey THEN Adopt(a, r.key) ELSE agent
     /\ UNCHANGED <<worker, token, posts, bridges, frames, history, faults>>

CallTimeout(c) ==  \* DEFAULT_CALL_TIMEOUT
  /\ calls[c].waited
  /\ calls' = [calls EXCEPT ![c].waited = FALSE]
  /\ Untold(calls[c].session)
  /\ UNCHANGED <<worker, token, posts, agent, bridges, frames, answers, served, faults>>

-----------------------------------------------------------------------------
Enroll(a) == Boot(a) \/ Ask(a) \/ EnrollFails(a)
Bridge(c) == Forward(c) \/ Refuse(c) \/ Oversize(c) \/ Upstream(c) \/ CallTimeout(c)
App(f) == Read(f) \/ Handle(f) \/ (\E saved \in BOOLEAN : ConsumerDies(f, saved))

Next ==
  \/ \E a \in Agents : Enroll(a) \/ Connect(a)
       \/ (\E stays \in BOOLEAN : LinkLost(a, stays)) \/ Rotate(a)
  \/ \E p \in posts : Redeem(p) \/ Enrolled(p)
  \/ \E s \in bridges : BridgeCloses(s)
  \/ \E c \in Ids : Bridge(c)
  \/ \E f \in frames : App(f)
  \/ \E r \in answers : Receive(r)
  \/ \E n \in Switched : Switch(n)
  \/ \E t \in Tokens : Expire(t)

Spec == Init /\ [][Next]_vars

\* The agent is restarted and reconnects, and the app can be reached now and then.
FairSpec == Spec /\ \A a \in Agents : WF_vars(Boot(a)) /\ SF_vars(Connect(a))

-----------------------------------------------------------------------------
(* Safety. *)

\* A single-use token makes one worker, however many requests present it at once
\* (SPEC 7.1, EnrollView.post).
OneWorkerPerToken == \A t \in SingleUse :
  Cardinality({n \in Names : Exists(n) /\ worker[n].token = t}) <= 1

\* An agent's persisted key is the one in force or that one is on its way to it, with two
\* exceptions, both the code's.  The reply that carried the key in force was lost or had
\* nobody left to reach; or every call was answered, and another consumer, which reads and
\* saves without a lock, has rotated once more for a call that was answered already: a key
\* nobody is told of, or an older one again.  The order of answers, retries, restarts and
\* reconnects loses no key (handle_worker_rotate, rotate_session_secret, EnrollView.post, enroll).
Owner(a) == Exists(NameOf[a]) /\ worker[NameOf[a]].agent = a
GrantedTo(a) == \E p \in posts : p.agent = a /\ p.granted
OnTheWay(a) == \/ \E r \in answers : calls[r.call].session.agent = a /\ Awaited(r) /\ r.key = KeyOf(a)
               \/ GrantedTo(a)
KeyKept == \A a \in Agents : Owner(a) =>
  agent[a].vol = KeyOf(a) \/ OnTheWay(a) \/ fate[NameOf[a]] \in {"lost", "again"}

\* A request has one answer on its socket: the app's, the gateway's timeout or
\* its refusal, also when timeout and answer race and several consumers answer
\* (WorkerBridge._await_response, _redis_reader).
AnsweredOnce == \A c \in Ids : calls[c].relayed <= 1

-----------------------------------------------------------------------------
(* Liveness. *)

\* An agent that holds the worker's key is connected again and again, through
\* restarts, rotations and rejected handshakes (GatewayConnection.run_forever).
HoldsKey(a) == Exists(NameOf[a]) /\ worker[NameOf[a]].enabled /\ agent[a].vol = KeyOf(a)
Reconnects == \A a \in Agents : <>[]HoldsKey(a) => []<>Connected(a)
=============================================================================
