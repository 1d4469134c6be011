----------------------------- MODULE SessionsProofs -----------------------------
(*******************************************************************************)
(* Proofs about Sessions: a worker's credential and its calls.  Typed says what *)
(* values the state holds; on top of it CallsSound (who waits is connected, one *)
(* answer to a call) and WorkersSound (what a token made) are kept by every     *)
(* step, and in the last part KeysSound (where a worker's key is) with them.    *)
(*******************************************************************************)
EXTENDS Sessions, TLAPS, FiniteSetTheorems, SequenceTheorems

LEMMA Bounds ==
  /\ \A a \in Agents : TokenOf[a] \in Tokens /\ NameOf[a] \in Names
  /\ SingleUse \subseteq Tokens /\ Switched \subseteq Names
  /\ MaxFaults \in Nat /\ MaxCalls \in Nat
BY SessionsAssumption DEF SessionsAssumption

-----------------------------------------------------------------------------
(* Types. *)

WorkerRow == [gen: Keys, enabled: BOOLEAN, token: Tokens \cup {NoWorker.token},
              agent: Agents \cup {NoWorker.agent}]
AgentRow == [key: Keys, vol: Keys, open: BOOLEAN, n: Nat]

Typed ==
  /\ worker \in [Names -> WorkerRow]
  /\ token \in [Tokens -> [used: BOOLEAN, expired: BOOLEAN]]
  /\ \A p \in posts : p \in Post
  /\ agent \in [Agents -> AgentRow]
  /\ \A s \in bridges : s \in Session
  /\ calls \in Seq(Call)
  /\ \A f \in frames : f \in Frame
  /\ \A r \in answers : r \in Reply
  /\ fate \in [Names -> Fates] /\ served \subseteq Ids /\ faults \in 0..MaxFaults

LEMMA KeysType == NoKey \in Keys /\ NoKey \notin Nat /\ (\A k \in Keys : k # NoKey => k \in Nat) /\ 0 # NoKey
                  /\ 0 \in Keys
BY DEF Keys, NoKey

LEMMA CallFields ==
  ASSUME NEW k \in Call
  PROVE  /\ k.session \in Session /\ k.session.agent \in Agents /\ k.session.n \in Nat
         /\ k.sent \in BOOLEAN /\ k.waited \in BOOLEAN /\ k.pending \in BOOLEAN /\ k.relayed \in Nat
BY DEF Call, Session

LEMMA CallChange ==
  ASSUME NEW k \in Call
  PROVE  /\ [k EXCEPT !.waited = FALSE] \in Call
         /\ [k EXCEPT !.waited = FALSE].session = k.session
         /\ [k EXCEPT !.waited = FALSE].sent = k.sent
         /\ [k EXCEPT !.waited = FALSE].pending = k.pending
         /\ [k EXCEPT !.waited = FALSE].relayed = k.relayed
         /\ [k EXCEPT !.waited = FALSE].waited = FALSE
         /\ [k EXCEPT !.pending = FALSE] \in Call
         /\ [k EXCEPT !.pending = FALSE].session = k.session
         /\ [k EXCEPT !.pending = FALSE].sent = k.sent
         /\ [k EXCEPT !.pending = FALSE].waited = k.waited
         /\ [k EXCEPT !.pending = FALSE].relayed = k.relayed
         /\ [k EXCEPT !.pending = FALSE].pending = FALSE
BY DEF Call

LEMMA WorkerUpdate ==
  ASSUME worker \in [Names -> WorkerRow], NEW n \in Names, NEW row \in WorkerRow,
         worker' = [worker EXCEPT ![n] = row]
  PROVE  /\ worker' \in [Names -> WorkerRow] /\ worker'[n] = row
         /\ \A m \in Names \ {n} : worker'[m] = worker[m]
OBVIOUS

LEMMA AgentUpdate ==
  ASSUME agent \in [Agents -> AgentRow], NEW a \in Agents, NEW row \in AgentRow,
         agent' = [agent EXCEPT ![a] = row]
  PROVE  /\ agent' \in [Agents -> AgentRow] /\ agent'[a] = row
         /\ \A b \in Agents \ {a} : agent'[b] = agent[b]
OBVIOUS

LEMMA CallUpdate ==
  ASSUME calls \in Seq(Call), NEW c \in Ids, NEW k \in Call, calls' = [calls EXCEPT ![c] = k]
  PROVE  /\ calls' \in Seq(Call) /\ Ids' = Ids /\ Len(calls') = Len(calls) /\ calls'[c] = k
         /\ \A d \in Ids \ {c} : calls'[d] = calls[d]
BY DEF Ids

\* What a step of an agent leaves of its record.
LEMMA KeyChange ==
  ASSUME agent \in [Agents -> AgentRow], NEW a \in Agents, NEW key \in Keys,
         agent' = [agent EXCEPT ![a].key = key]
  PROVE  /\ agent' \in [Agents -> AgentRow]
         /\ agent'[a].key = key /\ agent'[a].vol = agent[a].vol
         /\ agent'[a].open = agent[a].open /\ agent'[a].n = agent[a].n
         /\ \A b \in Agents \ {a} : agent'[b] = agent[b]
<1>1. PICK r : r = [agent[a] EXCEPT !.key = key]
  OBVIOUS
<1>2. /\ r \in AgentRow /\ r.key = key /\ r.vol = agent[a].vol /\ r.open = agent[a].open
      /\ r.n = agent[a].n
  BY <1>1 DEF AgentRow
<1>3. agent' = [agent EXCEPT ![a] = r]
  BY <1>1
<1> QED BY <1>2, <1>3, AgentUpdate

LEMMA KeyAdopted ==
  ASSUME agent \in [Agents -> AgentRow], NEW a \in Agents, NEW key \in Keys,
         agent' = [agent EXCEPT ![a].key = key, ![a].vol = key]
  PROVE  /\ agent' \in [Agents -> AgentRow]
         /\ agent'[a].key = key /\ agent'[a].vol = key
         /\ agent'[a].open = agent[a].open /\ agent'[a].n = agent[a].n
         /\ \A b \in Agents \ {a} : agent'[b] = agent[b]
<1>1. PICK x : x = [agent[a] EXCEPT !.key = key]
  OBVIOUS
<1>2. x \in AgentRow /\ x.open = agent[a].open /\ x.n = agent[a].n /\ x.key = key
  BY <1>1 DEF AgentRow
<1>3. PICK r : r = [x EXCEPT !.vol = key]
  OBVIOUS
<1>4. r \in AgentRow /\ r.open = agent[a].open /\ r.n = agent[a].n /\ r.key = key /\ r.vol = key
  BY <1>2, <1>3 DEF AgentRow
<1>5. agent' = [agent EXCEPT ![a] = r]
  <2>1. PICK g : g = [agent EXCEPT ![a] = x]
    OBVIOUS
  <2>2. agent' = [g EXCEPT ![a].vol = key] /\ g[a] = x
    BY <1>1, <2>1
  <2>3. agent' = [g EXCEPT ![a] = r]
    BY <1>3, <2>2
  <2> QED BY <2>1, <2>3
<1> QED BY <1>4, <1>5, AgentUpdate

LEMMA Opened ==
  ASSUME agent \in [Agents -> AgentRow], NEW a \in Agents,
         agent' = [agent EXCEPT ![a].open = TRUE, ![a].n = @ + 1]
  PROVE  /\ agent' \in [Agents -> AgentRow]
         /\ agent'[a].key = agent[a].key /\ agent'[a].vol = agent[a].vol
         /\ agent'[a].open /\ agent'[a].n = agent[a].n + 1
         /\ \A b \in Agents \ {a} : agent'[b] = agent[b]
<1>1. PICK r : r = [key |-> agent[a].key, vol |-> agent[a].vol, open |-> TRUE, n |-> agent[a].n + 1]
  OBVIOUS
<1>2. /\ r \in AgentRow /\ r.key = agent[a].key /\ r.vol = agent[a].vol /\ r.open
      /\ r.n = agent[a].n + 1
  BY <1>1 DEF AgentRow
<1>3. agent' = [agent EXCEPT ![a] = r]
  BY <1>1 DEF AgentRow
<1> QED BY <1>2, <1>3, AgentUpdate

LEMMA Closed ==
  ASSUME agent \in [Agents -> AgentRow], NEW a \in Agents, NEW key \in {agent[a].key, NoKey},
         \/ agent' = [agent EXCEPT ![a].open = FALSE, ![a].key = key]
         \/ agent' = [agent EXCEPT ![a].open = FALSE] /\ key = agent[a].key
  PROVE  /\ agent' \in [Agents -> AgentRow]
         /\ agent'[a].key = key /\ agent'[a].vol = agent[a].vol
         /\ ~agent'[a].open /\ agent'[a].n = agent[a].n
         /\ \A b \in Agents \ {a} : agent'[b] = agent[b]
<1>1. PICK r : r = [key |-> key, vol |-> agent[a].vol, open |-> FALSE, n |-> agent[a].n]
  OBVIOUS
<1>2. /\ r \in AgentRow /\ r.key = key /\ r.vol = agent[a].vol /\ ~r.open
      /\ r.n = agent[a].n
  BY <1>1, KeysType DEF AgentRow
<1>3. agent' = [agent EXCEPT ![a] = r]
  BY <1>1 DEF AgentRow
<1> QED BY <1>2, <1>3, AgentUpdate

\* The calls after the end of a session, at the agent's end or the gateway's.
LEMMA ForsakenCalls ==
  ASSUME calls \in Seq(Call), NEW s
  PROVE  /\ Forsaken(s) \in Seq(Call) /\ DOMAIN Forsaken(s) = Ids
         /\ \A c \in Ids :
              /\ Forsaken(s)[c].session = calls[c].session
              /\ Forsaken(s)[c].sent = calls[c].sent
              /\ Forsaken(s)[c].pending = calls[c].pending
              /\ Forsaken(s)[c].relayed = calls[c].relayed
              /\ Forsaken(s)[c].waited <=> (calls[c].waited /\ calls[c].session # s)
<1>1. \A c \in Ids :
        LET k == IF calls[c].session = s THEN [calls[c] EXCEPT !.waited = FALSE] ELSE calls[c]
        IN  /\ k \in Call
            /\ k.session = calls[c].session /\ k.sent = calls[c].sent
            /\ k.pending = calls[c].pending /\ k.relayed = calls[c].relayed
            /\ k.waited <=> (calls[c].waited /\ calls[c].session # s)
  <2> SUFFICES ASSUME NEW c \in Ids
               PROVE  LET k == IF calls[c].session = s THEN [calls[c] EXCEPT !.waited = FALSE] ELSE calls[c]
                      IN  /\ k \in Call
                          /\ k.session = calls[c].session /\ k.sent = calls[c].sent
                          /\ k.pending = calls[c].pending /\ k.relayed = calls[c].relayed
                          /\ k.waited <=> (calls[c].waited /\ calls[c].session # s)
    OBVIOUS
  <2>1. PICK k \in Call : k = calls[c]
    BY DEF Ids
  <2>2. CASE k.session = s
    BY <2>1, <2>2, CallChange
  <2>3. CASE k.session # s
    BY <2>1, <2>3
  <2> QED BY <2>2, <2>3
<1>2. \A c \in Ids : Forsaken(s)[c] =
        IF calls[c].session = s THEN [calls[c] EXCEPT !.waited = FALSE] ELSE calls[c]
  BY DEF Forsaken
<1>3. DOMAIN Forsaken(s) = Ids /\ Ids = 1..Len(calls) /\ Len(calls) \in Nat
  BY DEF Forsaken, Ids
<1>4. Forsaken(s) \in Seq(Call)
  <2>1. Forsaken(s) \in [1..Len(calls) -> Call]
    BY <1>1, <1>3 DEF Forsaken
  <2> QED BY <1>3, <2>1, SeqDef
<1> QED BY <1>1, <1>2, <1>3, <1>4

LEMMA UnpendedCalls ==
  ASSUME NEW s, NEW cs \in Seq(Call)
  PROVE  /\ Unpended(s, cs) \in Seq(Call) /\ DOMAIN Unpended(s, cs) = DOMAIN cs
         /\ \A c \in DOMAIN cs :
              /\ Unpended(s, cs)[c].session = cs[c].session
              /\ Unpended(s, cs)[c].sent = cs[c].sent
              /\ Unpended(s, cs)[c].waited = cs[c].waited
              /\ Unpended(s, cs)[c].relayed = cs[c].relayed
              /\ Unpended(s, cs)[c].pending <=> (cs[c].pending /\ cs[c].session # s)
<1>1. \A c \in DOMAIN cs :
        LET k == IF cs[c].session = s THEN [cs[c] EXCEPT !.pending = FALSE] ELSE cs[c]
        IN  /\ k \in Call
            /\ k.session = cs[c].session /\ k.sent = cs[c].sent
            /\ k.waited = cs[c].waited /\ k.relayed = cs[c].relayed
            /\ k.pending <=> (cs[c].pending /\ cs[c].session # s)
  <2> SUFFICES ASSUME NEW c \in DOMAIN cs
               PROVE  LET k == IF cs[c].session = s THEN [cs[c] EXCEPT !.pending = FALSE] ELSE cs[c]
                      IN  /\ k \in Call
                          /\ k.session = cs[c].session /\ k.sent = cs[c].sent
                          /\ k.waited = cs[c].waited /\ k.relayed = cs[c].relayed
                          /\ k.pending <=> (cs[c].pending /\ cs[c].session # s)
    OBVIOUS
  <2>1. PICK k \in Call : k = cs[c]
    BY DEF Ids
  <2>2. CASE k.session = s
    BY <2>1, <2>2, CallChange
  <2>3. CASE k.session # s
    BY <2>1, <2>3
  <2> QED BY <2>2, <2>3
<1>2. \A c \in DOMAIN cs : Unpended(s, cs)[c] =
        IF cs[c].session = s THEN [cs[c] EXCEPT !.pending = FALSE] ELSE cs[c]
  BY DEF Unpended
<1>3. DOMAIN Unpended(s, cs) = DOMAIN cs /\ DOMAIN cs = 1..Len(cs) /\ Len(cs) \in Nat
  BY DEF Unpended
<1>4. Unpended(s, cs) \in Seq(Call)
  <2>1. Unpended(s, cs) \in [1..Len(cs) -> Call]
    BY <1>1, <1>3 DEF Unpended
  <2> QED BY <1>3, <2>1, SeqDef
<1> QED BY <1>1, <1>2, <1>3, <1>4

LEMMA WaitEnds ==
  ASSUME calls \in Seq(Call), NEW c \in Ids, calls' = [calls EXCEPT ![c].waited = FALSE]
  PROVE  /\ calls' \in Seq(Call) /\ Ids' = Ids /\ Len(calls') = Len(calls)
         /\ \A d \in Ids : calls'[d].session = calls[d].session
         /\ \A d \in Ids \ {c} : calls'[d] = calls[d]
         /\ calls'[c].sent = calls[c].sent
         /\ calls'[c].waited = FALSE
         /\ calls'[c].pending = calls[c].pending
         /\ calls'[c].relayed = calls[c].relayed
<1>1. PICK k \in Call : k = calls[c]
  BY DEF Ids
<1>2. PICK x : x = [k EXCEPT !.waited = FALSE]
  OBVIOUS
<1>3. /\ x \in Call /\ x.session = k.session /\ x.sent = k.sent
      /\ x.waited = FALSE /\ x.pending = k.pending /\ x.relayed = k.relayed
  BY <1>2 DEF Call
<1>4. calls' = [calls EXCEPT ![c] = x]
  BY <1>1, <1>2
<1>5. /\ calls' \in Seq(Call) /\ Ids' = Ids /\ Len(calls') = Len(calls) /\ calls'[c] = x
      /\ \A d \in Ids \ {c} : calls'[d] = calls[d]
  BY <1>3, <1>4, CallUpdate
<1> QED BY <1>1, <1>3, <1>5, Zenon

LEMMA Dropped ==
  ASSUME calls \in Seq(Call), NEW c \in Ids, calls' = [calls EXCEPT ![c].sent = TRUE]
  PROVE  /\ calls' \in Seq(Call) /\ Ids' = Ids /\ Len(calls') = Len(calls)
         /\ \A d \in Ids : calls'[d].session = calls[d].session
         /\ \A d \in Ids \ {c} : calls'[d] = calls[d]
         /\ calls'[c].sent = TRUE
         /\ calls'[c].waited = calls[c].waited
         /\ calls'[c].pending = calls[c].pending
         /\ calls'[c].relayed = calls[c].relayed
<1>1. PICK k \in Call : k = calls[c]
  BY DEF Ids
<1>2. PICK x : x = [k EXCEPT !.sent = TRUE]
  OBVIOUS
<1>3. /\ x \in Call /\ x.session = k.session /\ x.sent = TRUE
      /\ x.waited = k.waited /\ x.pending = k.pending /\ x.relayed = k.relayed
  BY <1>2 DEF Call
<1>4. calls' = [calls EXCEPT ![c] = x]
  BY <1>1, <1>2
<1>5. /\ calls' \in Seq(Call) /\ Ids' = Ids /\ Len(calls') = Len(calls) /\ calls'[c] = x
      /\ \A d \in Ids \ {c} : calls'[d] = calls[d]
  BY <1>3, <1>4, CallUpdate
<1> QED BY <1>1, <1>3, <1>5, Zenon

LEMMA Sent ==
  ASSUME calls \in Seq(Call), NEW c \in Ids, calls' = [calls EXCEPT ![c].sent = TRUE, ![c].pending = TRUE]
  PROVE  /\ calls' \in Seq(Call) /\ Ids' = Ids /\ Len(calls') = Len(calls)
         /\ \A d \in Ids : calls'[d].session = calls[d].session
         /\ \A d \in Ids \ {c} : calls'[d] = calls[d]
         /\ calls'[c].sent = TRUE
         /\ calls'[c].waited = calls[c].waited
         /\ calls'[c].pending = TRUE
         /\ calls'[c].relayed = calls[c].relayed
<1>1. PICK k \in Call : k = calls[c]
  BY DEF Ids
<1>2. PICK x : x = [k EXCEPT !.sent = TRUE]
  OBVIOUS
<1>3. /\ x \in Call /\ x.session = k.session /\ x.sent = TRUE
      /\ x.waited = k.waited /\ x.pending = k.pending /\ x.relayed = k.relayed
  BY <1>2 DEF Call
<1>4. PICK m : m = TRUE
  OBVIOUS
<1>7. m \in BOOLEAN
  BY <1>4 DEF Call
<1>8. PICK r : r = [x EXCEPT !.pending = m]
  OBVIOUS
<1>5. /\ r \in Call /\ r.session = k.session /\ r.sent = TRUE
      /\ r.waited = k.waited /\ r.pending = m /\ r.relayed = k.relayed
  BY <1>3, <1>7, <1>8 DEF Call
<1>6. calls' = [calls EXCEPT ![c] = r]
  <2>1. PICK g : g = [calls EXCEPT ![c] = x]
    OBVIOUS
  <2>2. g[c] = x /\ x.relayed = k.relayed
    BY <1>3, <2>1 DEF Ids
  <2>3. calls' = [g EXCEPT ![c].pending = m]
    BY <1>1, <1>2, <1>4, <2>1, <2>2
  <2>4. calls' = [g EXCEPT ![c] = r]
    BY <1>8, <2>2, <2>3
  <2> QED BY <2>1, <2>4
<1>9. /\ calls' \in Seq(Call) /\ Ids' = Ids /\ Len(calls') = Len(calls) /\ calls'[c] = r
      /\ \A d \in Ids \ {c} : calls'[d] = calls[d]
  BY <1>5, <1>6, CallUpdate
<1> QED BY <1>1, <1>4, <1>5, <1>9, Zenon

LEMMA RefusedCall ==
  ASSUME calls \in Seq(Call), NEW c \in Ids, calls' = [calls EXCEPT ![c].sent = TRUE, ![c].relayed = @ + 1]
  PROVE  /\ calls' \in Seq(Call) /\ Ids' = Ids /\ Len(calls') = Len(calls)
         /\ \A d \in Ids : calls'[d].session = calls[d].session
         /\ \A d \in Ids \ {c} : calls'[d] = calls[d]
         /\ calls'[c].sent = TRUE
         /\ calls'[c].waited = calls[c].waited
         /\ calls'[c].pending = calls[c].pending
         /\ calls'[c].relayed = calls[c].relayed + 1
<1>1. PICK k \in Call : k = calls[c]
  BY DEF Ids
<1>2. PICK x : x = [k EXCEPT !.sent = TRUE]
  OBVIOUS
<1>3. /\ x \in Call /\ x.session = k.session /\ x.sent = TRUE
      /\ x.waited = k.waited /\ x.pending = k.pending /\ x.relayed = k.relayed
  BY <1>2 DEF Call
<1>4. PICK m : m = k.relayed + 1
  OBVIOUS
<1>7. m \in Nat
  BY <1>4 DEF Call
<1>8. PICK r : r = [x EXCEPT !.relayed = m]
  OBVIOUS
<1>5. /\ r \in Call /\ r.session = k.session /\ r.sent = TRUE
      /\ r.waited = k.waited /\ r.pending = k.pending /\ r.relayed = m
  BY <1>3, <1>7, <1>8 DEF Call
<1>6. calls' = [calls EXCEPT ![c] = r]
  <2>1. PICK g : g = [calls EXCEPT ![c] = x]
    OBVIOUS
  <2>2. g[c] = x /\ x.relayed = k.relayed
    BY <1>3, <2>1 DEF Ids
  <2>3. calls' = [g EXCEPT ![c].relayed = m]
    BY <1>1, <1>2, <1>4, <2>1, <2>2
  <2>4. calls' = [g EXCEPT ![c] = r]
    BY <1>8, <2>2, <2>3
  <2> QED BY <2>1, <2>4
<1>9. /\ calls' \in Seq(Call) /\ Ids' = Ids /\ Len(calls') = Len(calls) /\ calls'[c] = r
      /\ \A d \in Ids \ {c} : calls'[d] = calls[d]
  BY <1>5, <1>6, CallUpdate
<1> QED BY <1>1, <1>4, <1>5, <1>9, Zenon

LEMMA RelayedCall ==
  ASSUME calls \in Seq(Call), NEW c \in Ids,
         calls' = [calls EXCEPT ![c].pending = FALSE, ![c].relayed = @ + 1]
  PROVE  /\ calls' \in Seq(Call) /\ Ids' = Ids /\ Len(calls') = Len(calls)
         /\ \A d \in Ids : calls'[d].session = calls[d].session
         /\ \A d \in Ids \ {c} : calls'[d] = calls[d]
         /\ calls'[c].sent = calls[c].sent
         /\ calls'[c].waited = calls[c].waited
         /\ calls'[c].pending = FALSE
         /\ calls'[c].relayed = calls[c].relayed + 1
<1>1. PICK k \in Call : k = calls[c]
  BY DEF Ids
<1>2. PICK x : x = [k EXCEPT !.pending = FALSE]
  OBVIOUS
<1>3. /\ x \in Call /\ x.session = k.session /\ x.sent = k.sent
      /\ x.waited = k.waited /\ x.pending = FALSE /\ x.relayed = k.relayed
  BY <1>2 DEF Call
<1>4. PICK m : m = k.relayed + 1
  OBVIOUS
<1>7. m \in Nat
  BY <1>4 DEF Call
<1>8. PICK r : r = [x EXCEPT !.relayed = m]
  OBVIOUS
<1>5. /\ r \in Call /\ r.session = k.session /\ r.sent = k.sent
      /\ r.waited = k.waited /\ r.pending = FALSE /\ r.relayed = m
  BY <1>3, <1>7, <1>8 DEF Call
<1>6. calls' = [calls EXCEPT ![c] = r]
  <2>1. PICK g : g = [calls EXCEPT ![c] = x]
    OBVIOUS
  <2>2. g[c] = x /\ x.relayed = k.relayed
    BY <1>3, <2>1 DEF Ids
  <2>3. calls' = [g EXCEPT ![c].relayed = m]
    BY <1>1, <1>2, <1>4, <2>1, <2>2
  <2>4. calls' = [g EXCEPT ![c] = r]
    BY <1>8, <2>2, <2>3
  <2> QED BY <2>1, <2>4
<1>9. /\ calls' \in Seq(Call) /\ Ids' = Ids /\ Len(calls') = Len(calls) /\ calls'[c] = r
      /\ \A d \in Ids \ {c} : calls'[d] = calls[d]
  BY <1>5, <1>6, CallUpdate
<1> QED BY <1>1, <1>4, <1>5, <1>9, Zenon

LEMMA Appended ==
  ASSUME calls \in Seq(Call), NEW k \in Call, calls' = Append(calls, k)
  PROVE  /\ calls' \in Seq(Call) /\ Ids' = Ids \cup {Len(calls) + 1} /\ Ids \subseteq Ids'
         /\ Len(calls) + 1 \notin Ids
         /\ calls'[Len(calls) + 1] = k /\ \A c \in Ids : calls'[c] = calls[c]
BY DEF Ids

LEMMA Named ==
  ASSUME Typed
  PROVE  /\ \A a \in Agents : Current(a) \in Session
         /\ \A c \in Ids : calls[c] \in Call /\ calls[c].session \in Session
                           /\ calls[c].session.agent \in Agents
         /\ \A f \in frames : f.call \in Ids /\ f.consumer \in Consumers /\ f.read \in Keys
         /\ \A r \in answers : r.call \in Ids /\ r.key \in Keys
         /\ \A p \in posts : p.agent \in Agents /\ p.waited \in BOOLEAN /\ p.granted \in BOOLEAN
         /\ \A s \in bridges : s.agent \in Agents
<1>1. \A a \in Agents : Current(a) \in Session
  BY DEF Typed, Current, Session, AgentRow
<1>2. \A c \in Ids : calls[c] \in Call
  BY DEF Typed, Ids
<1>3. \A c \in Ids : calls[c].session \in Session /\ calls[c].session.agent \in Agents
  BY <1>2, CallFields
<1> QED BY <1>1, <1>2, <1>3 DEF Typed, Frame, Reply, Post, Session

LEMMA StepTypes ==
  ASSUME Typed, Ids \subseteq Ids'
  PROVE  /\ (\A f \in frames : f \in Frame') /\ (\A r \in answers : r \in Reply')
         /\ \A c \in Ids, k \in Keys : [call |-> c, key |-> k] \in Reply'
         /\ \A c \in Ids, x \in Consumers, k \in Keys : [call |-> c, consumer |-> x, read |-> k] \in Frame'
BY DEF Typed, Frame, Reply

\* A step that leaves the gateway alone.
LEMMA GatewayKept ==
  ASSUME Typed, UNCHANGED gateway
  PROVE  /\ (\A s \in bridges' : s \in Session) /\ calls' \in Seq(Call)
         /\ (\A f \in frames' : f \in Frame') /\ (\A r \in answers' : r \in Reply')
         /\ served \subseteq Ids'
<1>1. UNCHANGED <<bridges, calls, frames, answers>>
  BY DEF gateway
<1>2. Ids' = Ids
  BY <1>1 DEF Ids
<1> QED BY <1>1, <1>2 DEF Typed, Frame, Reply

LEMMA FaultType == ASSUME Typed, Fault PROVE faults' \in 0..MaxFaults
BY Bounds DEF Typed, Fault

\* A worker's key may become lost; it does not come back that way.
LEMMA KeyLost ==
  ASSUME fate \in [Names -> Fates], NEW n \in Names, fate' = [fate EXCEPT ![n] = "lost"]
  PROVE  /\ fate' \in [Names -> Fates] /\ fate'[n] = "lost"
         /\ \A m \in Names \ {n} : fate'[m] = fate[m]
         /\ \A m \in Names : fate'[m] = "told" => fate[m] = "told"
BY DEF Fates

LEMMA UntoldType ==
  ASSUME fate \in [Names -> Fates], NEW s \in Session, Untold(s)
  PROVE  /\ fate' \in [Names -> Fates]
         /\ \A m \in Names : fate'[m] = "told" => fate[m] = "told"
         /\ (\E r \in AnswersTo(s) : Awaited(r) /\ r.key = KeyOf(s.agent)) => fate'[NameOf[s.agent]] = "lost"
<1>1. NameOf[s.agent] \in Names
  BY Bounds DEF Session
<1>2. CASE \E r \in AnswersTo(s) : Awaited(r) /\ r.key = KeyOf(s.agent)
  <2>1. fate' = [fate EXCEPT ![NameOf[s.agent]] = "lost"]
    BY <1>2 DEF Untold
  <2> QED BY <1>1, <2>1, KeyLost
<1>3. CASE ~\E r \in AnswersTo(s) : Awaited(r) /\ r.key = KeyOf(s.agent)
  BY <1>3 DEF Untold
<1> QED BY <1>2, <1>3

LEMMA PostChange ==
  ASSUME NEW p \in Post
  PROVE  /\ [p EXCEPT !.granted = TRUE] \in Post
         /\ [p EXCEPT !.granted = TRUE].agent = p.agent /\ [p EXCEPT !.granted = TRUE].waited = p.waited
         /\ [p EXCEPT !.granted = TRUE].granted = TRUE
         /\ [p EXCEPT !.waited = FALSE] \in Post
         /\ [p EXCEPT !.waited = FALSE].agent = p.agent /\ [p EXCEPT !.waited = FALSE].granted = p.granted
         /\ [p EXCEPT !.waited = FALSE].waited = FALSE
BY DEF Post

LEMMA TokenUsed ==
  ASSUME token \in [Tokens -> [used: BOOLEAN, expired: BOOLEAN]], NEW t \in Tokens,
         token' = [token EXCEPT ![t].used = TRUE]
  PROVE  /\ token' \in [Tokens -> [used: BOOLEAN, expired: BOOLEAN]]
         /\ token'[t].used /\ \A u \in Tokens : token[u].used => token'[u].used
<1>1. PICK r : r = [token[t] EXCEPT !.used = TRUE]
  OBVIOUS
<1>2. r \in [used: BOOLEAN, expired: BOOLEAN] /\ r.used = TRUE
  BY <1>1
<1>3. token' = [token EXCEPT ![t] = r]
  BY <1>1
<1>4. /\ token' \in [Tokens -> [used: BOOLEAN, expired: BOOLEAN]]
      /\ token'[t] = r /\ \A u \in Tokens \ {t} : token'[u] = token[u]
  BY <1>2, <1>3
<1> QED BY <1>2, <1>4

LEMMA RowOf ==
  ASSUME NEW a \in Agents, NEW t \in Tokens
  PROVE  [gen |-> 0, enabled |-> TRUE, token |-> t, agent |-> a] \in WorkerRow
BY KeysType DEF WorkerRow

\* A worker's key is saved; nothing else of its row changes.
LEMMA KeySaved ==
  ASSUME worker \in [Names -> WorkerRow], NEW n \in Names, NEW key \in Keys,
         worker' = [worker EXCEPT ![n].gen = key]
  PROVE  /\ worker' \in [Names -> WorkerRow] /\ worker'[n].gen = key
         /\ worker'[n].enabled = worker[n].enabled /\ worker'[n].token = worker[n].token
         /\ worker'[n].agent = worker[n].agent
         /\ \A m \in Names \ {n} : worker'[m] = worker[m]
<1>1. PICK w \in WorkerRow : w = worker[n]
  OBVIOUS
<1>2. PICK r : r = [w EXCEPT !.gen = key]
  OBVIOUS
<1>3. r \in WorkerRow /\ r.gen = key /\ r.enabled = w.enabled /\ r.token = w.token /\ r.agent = w.agent
  BY <1>2 DEF WorkerRow
<1>4. worker' = [worker EXCEPT ![n] = r]
  BY <1>1, <1>2
<1>5. /\ worker' \in [Names -> WorkerRow] /\ worker'[n] = r
      /\ \A m \in Names \ {n} : worker'[m] = worker[m]
  BY <1>3, <1>4, WorkerUpdate
<1> QED BY <1>1, <1>3, <1>5, Zenon

LEMMA SwitchedRow ==
  ASSUME worker \in [Names -> WorkerRow], NEW n \in Names,
         worker' = [worker EXCEPT ![n].enabled = ~@]
  PROVE  /\ worker' \in [Names -> WorkerRow] /\ worker'[n].gen = worker[n].gen
         /\ worker'[n].token = worker[n].token /\ worker'[n].agent = worker[n].agent
         /\ \A m \in Names \ {n} : worker'[m] = worker[m]
<1>1. PICK w \in WorkerRow : w = worker[n]
  OBVIOUS
<1>2. PICK r : r = [w EXCEPT !.enabled = ~@]
  OBVIOUS
<1>3. r \in WorkerRow /\ r.gen = w.gen /\ r.token = w.token /\ r.agent = w.agent
  BY <1>2 DEF WorkerRow
<1>4. worker' = [worker EXCEPT ![n] = r]
  BY <1>1, <1>2
<1>5. /\ worker' \in [Names -> WorkerRow] /\ worker'[n] = r
      /\ \A m \in Names \ {n} : worker'[m] = worker[m]
  BY <1>3, <1>4, WorkerUpdate
<1> QED BY <1>1, <1>3, <1>5, Zenon

LEMMA SaveType ==
  ASSUME Typed, NEW f \in frames, f.read # NoKey, Save(f)
  PROVE  /\ WorkerOf(f) \in Names /\ NextKey(f) \in Keys /\ NextKey(f) # NoKey /\ NextKey(f) \in Nat
         /\ worker' \in [Names -> WorkerRow] /\ worker'[WorkerOf(f)].gen = NextKey(f)
         /\ worker'[WorkerOf(f)].enabled = worker[WorkerOf(f)].enabled
         /\ worker'[WorkerOf(f)].token = worker[WorkerOf(f)].token
         /\ worker'[WorkerOf(f)].agent = worker[WorkerOf(f)].agent
         /\ \A m \in Names \ {WorkerOf(f)} : worker'[m] = worker[m]
<1>1. WorkerOf(f) \in Names
  BY Named, Bounds DEF WorkerOf
<1>2. f.read \in Nat
  BY Named, KeysType
<1>3. NextKey(f) \in Nat
  BY <1>2 DEF NextKey
<1>4. NextKey(f) \in Keys /\ NextKey(f) # NoKey
  BY <1>3, KeysType DEF Keys
<1>5. worker' = [worker EXCEPT ![WorkerOf(f)].gen = NextKey(f)]
  BY DEF Save
<1> QED BY <1>1, <1>3, <1>4, <1>5, KeySaved DEF Typed

\* A key issued: only its worker's fate changes, and to told only where the agent is told of it,
\* or knows the key already.
LEMMA IssueType ==
  ASSUME Typed, NEW f \in frames, NEW told \in BOOLEAN, Issue(f, told)
  PROVE  /\ fate' \in [Names -> Fates] /\ served' \subseteq Ids
         /\ \A n \in Names \ {WorkerOf(f)} : fate'[n] = fate[n]
         /\ told \/ fate'[WorkerOf(f)] # "told"
              \/ (fate'[WorkerOf(f)] = fate[WorkerOf(f)] /\ worker[WorkerOf(f)].gen = NextKey(f))
<1>1. WorkerOf(f) \in Names /\ f.call \in Ids
  BY Named, Bounds DEF WorkerOf
<1>2. {"told", "lost", "again"} = Fates
  BY DEF Fates
<1>3. CASE told
  BY <1>1, <1>2, <1>3 DEF Issue, Typed
<1>4. CASE ~told
  <2>1. served' = served
    BY <1>4 DEF Issue
  <2>2. CASE worker[WorkerOf(f)].gen = NextKey(f)
    BY <1>4, <2>1, <2>2 DEF Issue, Typed
  <2>3. CASE worker[WorkerOf(f)].gen # NextKey(f)
    <3>1. PICK x \in {"again", "lost"} : fate' = [fate EXCEPT ![WorkerOf(f)] = x]
      BY <1>4, <2>3 DEF Issue
    <3>2. x \in Fates /\ x # "told"
      BY DEF Fates
    <3> QED BY <1>1, <2>1, <3>1, <3>2 DEF Typed
  <2> QED BY <2>2, <2>3
<1> QED BY <1>3, <1>4

\* An answer goes to the socket of its agent.
LEMMA RelayType ==
  ASSUME Typed, NEW c \in Ids, NEW key \in Keys, Relay(c, key)
  PROVE  /\ calls' \in Seq(Call) /\ Ids' = Ids
         /\ (\A r \in answers' : r \in Reply')
<1>1. calls' \in Seq(Call) /\ Ids' = Ids
  BY RelayedCall DEF Relay, Typed
<1>2. \A r \in answers' : r \in Reply'
  BY <1>1, StepTypes DEF Relay
<1> QED BY <1>1, <1>2

LEMMA TypedNext == ASSUME Typed, [Next]_vars PROVE Typed'
<1>0. USE Named, FaultType
<1>1. ASSUME NEW a \in Agents, Boot(a) PROVE Typed'
  <2>1. agent' \in [Agents -> AgentRow]
    BY <1>1, KeyChange DEF Boot, Typed, AgentRow
  <2> QED BY <1>1, <2>1, GatewayKept DEF Boot, Typed, history
<1>2. ASSUME NEW a \in Agents, Ask(a) PROVE Typed'
  <2>1. \A p \in posts' : p \in Post
    <3>1. [agent |-> a, waited |-> TRUE, granted |-> FALSE] \in Post
      BY DEF Post
    <3> QED BY <1>2, <3>1 DEF Ask, Typed
  <2> QED BY <1>2, <2>1, GatewayKept DEF Ask, Typed, history
<1>3. ASSUME NEW a \in Agents, EnrollFails(a) PROVE Typed'
  <2>1. \A p \in posts' : p \in Post
    <3>1. \A q \in posts : q \in Post /\ [q EXCEPT !.waited = FALSE] \in Post
      BY PostChange DEF Typed
    <3>2. posts' = (posts \ Unread(a))
                      \cup {[q EXCEPT !.waited = FALSE] : q \in {x \in Unread(a) : ~x.granted}}
      BY <1>3 DEF EnrollFails
    <3>3. Unread(a) \subseteq posts
      BY DEF Unread
    <3> QED BY <3>1, <3>2, <3>3, Zenon
  <2>2. fate' \in [Names -> Fates]
    BY <1>3, KeyLost, Bounds DEF EnrollFails, Typed
  <2> QED BY <1>3, <2>1, <2>2, GatewayKept DEF EnrollFails, Typed
<1>4. ASSUME NEW a \in Agents, Connect(a) PROVE Typed'
  <2>1. agent' \in [Agents -> AgentRow]
    BY <1>4, Opened DEF Connect, Typed
  <2>2. \A s \in bridges' : s \in Session
    BY <1>4 DEF Connect, Typed, Session, AgentRow
  <2>3. calls' = calls /\ Ids' = Ids
    BY <1>4 DEF Connect, Ids
  <2> QED BY <1>4, <2>1, <2>2, <2>3, StepTypes DEF Connect, Typed, history
<1>5. ASSUME NEW a \in Agents, NEW stays \in BOOLEAN, LinkLost(a, stays) PROVE Typed'
  <2>1. agent' \in [Agents -> AgentRow]
    BY <1>5, Closed DEF LinkLost, Typed
  <2>2. calls' \in Seq(Call) /\ Ids' = Ids
    BY <1>5, ForsakenCalls DEF LinkLost, Forsake, Typed, Ids
  <2>3. Current(a) \in Session
    OBVIOUS
  <2>4. answers' \subseteq answers /\ fate' \in [Names -> Fates]
    BY <1>5, <2>3, UntoldType DEF LinkLost, Forsake, Typed
  <2> QED BY <1>5, <2>1, <2>2, <2>4, StepTypes DEF LinkLost, Typed
<1>6. ASSUME NEW a \in Agents, Rotate(a) PROVE Typed'
  <2>1. PICK k : k = [session |-> Current(a), sent |-> FALSE, waited |-> TRUE,
                      pending |-> FALSE, relayed |-> 0]
    OBVIOUS
  <2>2. k \in Call
    BY <2>1 DEF Call
  <2>3. calls' \in Seq(Call) /\ Ids \subseteq Ids'
    BY <1>6, <2>1, <2>2, Appended DEF Rotate, Typed
  <2> QED BY <1>6, <2>3, StepTypes DEF Rotate, Typed, history
<1>7. ASSUME NEW p \in posts, Redeem(p) PROVE Typed'
  <2>1. CASE Granted(p)
    <3>1. worker' \in [Names -> WorkerRow]
      <4>1. PICK row : row = [gen |-> 0, enabled |-> TRUE, token |-> TokenOf[p.agent], agent |-> p.agent]
        OBVIOUS
      <4>2. row \in WorkerRow /\ NameOf[p.agent] \in Names
        BY <4>1, RowOf, Bounds
      <4>3. worker' = [worker EXCEPT ![NameOf[p.agent]] = row]
        BY <1>7, <2>1, <4>1 DEF Redeem
      <4> QED BY <4>2, <4>3, WorkerUpdate DEF Typed
    <3>2. token' \in [Tokens -> [used: BOOLEAN, expired: BOOLEAN]]
      <4>1. TokenOf[p.agent] \in Tokens
        BY Bounds
      <4>2. token' = [token EXCEPT ![TokenOf[p.agent]].used = TRUE]
        BY <1>7, <2>1 DEF Redeem
      <4> QED BY <4>1, <4>2, TokenUsed DEF Typed
    <3>3. \A q \in posts' : q \in Post
      <4>1. [p EXCEPT !.granted = TRUE] \in Post
        BY PostChange DEF Typed
      <4>2. \A q \in posts' : q \in posts \/ q = [p EXCEPT !.granted = TRUE]
        BY <1>7, <2>1 DEF Redeem
      <4> QED BY <4>1, <4>2 DEF Typed
    <3>4. fate' \in [Names -> Fates]
      BY <1>7, <2>1, Bounds DEF Redeem, Typed, Fates
    <3> QED BY <1>7, <3>1, <3>2, <3>3, <3>4, GatewayKept DEF Redeem, Typed
  <2>2. CASE ~Granted(p)
    BY <1>7, <2>2, GatewayKept DEF Redeem, Typed
  <2> QED BY <2>1, <2>2
<1>8. ASSUME NEW p \in posts, Enrolled(p) PROVE Typed'
  <2>1. agent' \in [Agents -> AgentRow]
    BY <1>8, KeyAdopted, KeysType DEF Enrolled, Typed
  <2> QED BY <1>8, <2>1, GatewayKept DEF Enrolled, Typed, history
<1>9. ASSUME NEW s \in bridges, BridgeCloses(s) PROVE Typed'
  <2>1. \A x \in bridges' : x \in Session
    BY <1>9 DEF BridgeCloses, Typed
  <2>2. CASE Connected(s.agent) /\ Current(s.agent) = s
    <3>1. agent' \in [Agents -> AgentRow]
      BY <1>9, <2>2, Closed DEF BridgeCloses, Typed
    <3>2. calls' \in Seq(Call) /\ Ids' = Ids
      BY <1>9, <2>2, ForsakenCalls, UnpendedCalls DEF BridgeCloses, Typed, Ids
    <3>3. answers' \subseteq answers /\ fate' \in [Names -> Fates]
      BY <1>9, <2>2, UntoldType DEF BridgeCloses, Typed
    <3>4. faults' \in 0..MaxFaults
      BY <1>9, <2>2 DEF BridgeCloses
    <3> QED BY <1>9, <2>1, <3>1, <3>2, <3>3, <3>4, StepTypes DEF BridgeCloses, Typed
  <2>3. CASE ~(Connected(s.agent) /\ Current(s.agent) = s)
    <3>1. calls' = Unpended(s, calls) /\ UNCHANGED <<agent, answers, fate, faults>>
      BY <1>9, <2>3 DEF BridgeCloses
    <3>2. calls' \in Seq(Call) /\ Ids' = Ids
      BY <3>1, UnpendedCalls DEF Typed, Ids
    <3> QED BY <1>9, <2>1, <3>1, <3>2, StepTypes DEF BridgeCloses, Typed
  <2> QED BY <2>2, <2>3
<1>10. ASSUME NEW c \in Ids, Forward(c) PROVE Typed'
  <2>1. calls' \in Seq(Call) /\ Ids' = Ids
    BY <1>10, Sent DEF Forward, Typed
  <2>2. \A f \in frames' : f \in Frame'
    BY <1>10, <2>1, StepTypes, KeysType DEF Forward
  <2> QED BY <1>10, <2>1, <2>2, StepTypes DEF Forward, Typed, history
<1>11. ASSUME NEW c \in Ids, Refuse(c) PROVE Typed'
  <2>1. calls' \in Seq(Call) /\ Ids' = Ids
    BY <1>11, RefusedCall DEF Refuse, Typed
  <2>2. \A r \in answers' : r \in Reply'
    BY <1>11, <2>1, StepTypes, KeysType DEF Refuse
  <2> QED BY <1>11, <2>1, <2>2, StepTypes DEF Refuse, Typed, history
<1>21. ASSUME NEW c \in Ids, Oversize(c) PROVE Typed'
  <2>1. calls' \in Seq(Call) /\ Ids' = Ids
    BY <1>21, Dropped DEF Oversize, Typed
  <2> QED BY <1>21, <2>1, StepTypes DEF Oversize, Typed, history
<1>12. ASSUME NEW c \in Ids, Upstream(c) PROVE Typed'
  BY <1>12, RelayType, StepTypes, KeysType DEF Upstream, Typed, history
<1>13. ASSUME NEW c \in Ids, CallTimeout(c) PROVE Typed'
  <2>1. calls' \in Seq(Call) /\ Ids' = Ids
    BY <1>13, WaitEnds DEF CallTimeout, Typed
  <2>2. fate' \in [Names -> Fates]
    BY <1>13, UntoldType DEF CallTimeout, Typed
  <2> QED BY <1>13, <2>1, <2>2, StepTypes DEF CallTimeout, Typed
<1>14. ASSUME NEW f \in frames, Read(f) PROVE Typed'
  <2>1. calls' = calls /\ Ids' = Ids
    BY <1>14 DEF Read, Ids
  <2>2. [f EXCEPT !.read = worker[WorkerOf(f)].gen] \in Frame
    BY Bounds DEF Typed, Frame, WorkerOf, WorkerRow
  <2>3. \A g \in frames' : g \in Frame'
    BY <1>14, <2>1, <2>2, StepTypes DEF Read, Frame
  <2> QED BY <1>14, <2>1, <2>3, StepTypes DEF Read, Typed, history
<1>15. ASSUME NEW f \in frames, Handle(f) PROVE Typed'
  <2>1. worker' \in [Names -> WorkerRow] /\ NextKey(f) \in Keys
    BY <1>15, SaveType DEF Handle
  <2>2. calls' \in Seq(Call) /\ Ids' = Ids /\ (\A r \in answers' : r \in Reply')
    <3>1. CASE Relay(f.call, NextKey(f))
      BY <2>1, <3>1, RelayType
    <3>2. CASE UNCHANGED <<calls, answers>>
      <4>1. Ids' = Ids
        BY <3>2 DEF Ids
      <4> QED BY <3>2, <4>1, StepTypes DEF Typed
    <3> QED BY <1>15, <3>1, <3>2 DEF Handle, Publish
  <2>3. fate' \in [Names -> Fates] /\ served' \subseteq Ids
    <3>1. PICK told \in BOOLEAN : Issue(f, told)
      BY <1>15, CallFields DEF Handle
    <3> QED BY <3>1, IssueType
  <2> QED BY <1>15, <2>1, <2>2, <2>3, StepTypes DEF Handle, Typed
<1>16. ASSUME NEW f \in frames, NEW saved \in BOOLEAN, ConsumerDies(f, saved) PROVE Typed'
  <2>1. worker' \in [Names -> WorkerRow]
    BY <1>16, SaveType DEF ConsumerDies, Typed
  <2>2. calls' = calls /\ Ids' = Ids
    BY <1>16 DEF ConsumerDies, Ids
  <2>3. fate' \in [Names -> Fates] /\ served' \subseteq Ids
    BY <1>16, IssueType DEF ConsumerDies, Typed, history
  <2> QED BY <1>16, <2>1, <2>2, <2>3, StepTypes DEF ConsumerDies, Typed
<1>17. ASSUME NEW r \in answers, Receive(r) PROVE Typed'
  <2>1. calls' \in Seq(Call) /\ Ids' = Ids
    BY <1>17, WaitEnds DEF Receive, Typed
  <2>2. agent' \in [Agents -> AgentRow]
    BY <1>17, KeyAdopted DEF Receive, Adopt, Typed
  <2> QED BY <1>17, <2>1, <2>2, StepTypes DEF Receive, Typed, history
<1>18. ASSUME NEW n \in Switched, Switch(n) PROVE Typed'
  BY <1>18, SwitchedRow, GatewayKept, Bounds DEF Switch, Typed, history
<1>19. ASSUME NEW t \in Tokens, Expire(t) PROVE Typed'
  BY <1>19, GatewayKept DEF Expire, Typed, history
<1>20. CASE UNCHANGED vars
  BY <1>20, GatewayKept DEF vars, gateway, Typed, history
<1> QED
  BY <1>1, <1>2, <1>3, <1>4, <1>5, <1>6, <1>7, <1>8, <1>9, <1>10, <1>11, <1>12, <1>13, <1>14,
     <1>15, <1>16, <1>17, <1>18, <1>19, <1>20, <1>21 DEF Next, Enroll, Bridge, App

-----------------------------------------------------------------------------
(* Calls. *)

\* Whoever waits is connected as when it asked, and a call is answered at most once: not before
\* it is sent, and while the bridge waits for it, not yet.
Live(s) == Connected(s.agent) /\ s = Current(s.agent)
Waits == \A c \in Ids : calls[c].waited => Live(calls[c].session)
Bridged == \A c \in Ids : calls[c].pending => calls[c].session \in bridges
Once(c) ==
  /\ ~calls[c].sent => ~calls[c].pending /\ calls[c].relayed = 0
  /\ calls[c].pending => calls[c].relayed = 0
  /\ calls[c].relayed <= 1
Answered == \A c \in Ids : Once(c)

CallsSound == Waits /\ Bridged /\ Answered

\* A session lives as long as its agent's record is left alone.
LEMMA LiveStays ==
  ASSUME NEW s, Live(s), agent'[s.agent] = agent[s.agent]
  PROVE  Live(s)'
BY DEF Live, Connected, Current

LEMMA TypedIsTypeOK == ASSUME Typed, CallsSound PROVE TypeOK
<1>1. \A n \in Names : worker[n].gen \in Keys /\ worker[n].enabled \in BOOLEAN
  BY DEF Typed, WorkerRow
<1>2. \A a \in Agents : agent[a] \in [key: Keys, vol: Keys, open: BOOLEAN, n: Nat]
  BY DEF Typed, AgentRow
<1>3. \A c \in Ids : calls[c] \in Call
  BY Named
<1> QED
  BY <1>1, <1>2, <1>3, Zenon DEF Typed, CallsSound, Waits, Live, Bridged, TypeOK

\* No step touches a call's session, nobody waits again, and no call or answer is forgotten.
CallsKept ==
  /\ Ids \subseteq Ids'
  /\ \A c \in Ids : /\ calls'[c].session = calls[c].session
                    /\ calls'[c].waited => calls[c].waited
                    /\ calls[c].relayed # 0 => calls'[c].relayed # 0
                    /\ calls[c].sent => calls'[c].sent

LEMMA SessionsKept ==
  ASSUME Typed, [Next]_vars
  PROVE  CallsKept
<1> USE Named DEF Typed
<1>1. ASSUME UNCHANGED calls PROVE CallsKept
  BY <1>1 DEF Ids, CallsKept
<1>2. ASSUME NEW a \in Agents, NEW stays \in BOOLEAN, LinkLost(a, stays)
      PROVE  CallsKept
  BY <1>2, ForsakenCalls DEF LinkLost, Forsake, Ids, CallsKept
<1>3. ASSUME NEW a \in Agents, Rotate(a)
      PROVE  CallsKept
  <2>1. PICK k : k = [session |-> Current(a), sent |-> FALSE, waited |-> TRUE,
                      pending |-> FALSE, relayed |-> 0]
    OBVIOUS
  <2>2. k \in Call
    BY <2>1 DEF Call
  <2> QED BY <1>3, <2>1, <2>2, Appended DEF Rotate, CallsKept
<1>4. ASSUME NEW s \in bridges, BridgeCloses(s)
      PROVE  CallsKept
  <2>1. PICK cs : cs \in {calls, Forsaken(s)} /\ calls' = Unpended(s, cs)
    BY <1>4 DEF BridgeCloses
  <2>2. /\ cs \in Seq(Call) /\ DOMAIN cs = Ids
        /\ \A c \in Ids : /\ cs[c].session = calls[c].session /\ cs[c].relayed = calls[c].relayed
                          /\ cs[c].sent = calls[c].sent
                          /\ cs[c].waited => calls[c].waited
    BY <2>1, ForsakenCalls DEF Ids
  <2> QED BY <2>1, <2>2, UnpendedCalls DEF Ids, CallsKept
<1>5. ASSUME NEW c \in Ids, Forward(c) \/ CallTimeout(c) PROVE CallsKept
  BY <1>5, Sent, WaitEnds DEF Forward, CallTimeout, CallsKept
<1>12. ASSUME NEW c \in Ids, Oversize(c) PROVE CallsKept
  BY <1>12, Dropped DEF Oversize, CallsKept
<1>6. ASSUME NEW c \in Ids, Refuse(c) PROVE CallsKept
  <2>1. calls[c].relayed \in Nat
    BY CallFields
  <2>2. calls'[c].relayed = calls[c].relayed + 1
    BY <1>6, RefusedCall DEF Refuse
  <2>3. calls'[c].relayed # 0
    BY <2>1, <2>2
  <2> QED BY <1>6, <2>3, RefusedCall DEF Refuse, CallsKept
<1>7. ASSUME NEW c \in Ids, NEW key, Relay(c, key) PROVE CallsKept
  <2>1. calls[c].relayed \in Nat
    BY CallFields
  <2>2. calls'[c].relayed = calls[c].relayed + 1
    BY <1>7, RelayedCall DEF Relay
  <2>3. calls'[c].relayed # 0
    BY <2>1, <2>2
  <2> QED BY <1>7, <2>3, RelayedCall DEF Relay, CallsKept
<1>8. ASSUME NEW f \in frames, Handle(f) PROVE CallsKept
  BY <1>1, <1>7, <1>8 DEF Handle, Publish
<1>9. ASSUME NEW c \in Ids, Upstream(c) PROVE CallsKept
  BY <1>7, <1>9 DEF Upstream
<1>10. ASSUME NEW r \in answers, Receive(r) PROVE CallsKept
  BY <1>10, WaitEnds DEF Receive, CallsKept
<1>11. ASSUME \/ \E a \in Agents : Enroll(a) \/ Connect(a)
              \/ \E p \in posts : Redeem(p) \/ Enrolled(p)
              \/ \E f \in frames : Read(f) \/ \E saved \in BOOLEAN : ConsumerDies(f, saved)
              \/ \E n \in Switched : Switch(n)
              \/ \E t \in Tokens : Expire(t)
              \/ UNCHANGED vars
       PROVE  UNCHANGED calls
  BY <1>11 DEF Enroll, Boot, Ask, EnrollFails, Connect, Redeem, Enrolled, Read, ConsumerDies, Switch,
               Expire, vars, gateway
<1> QED
  BY <1>1, <1>2, <1>3, <1>4, <1>5, <1>6, <1>8, <1>9, <1>10, <1>11, <1>12 DEF Next, Bridge, App

LEMMA RelaySound ==
  ASSUME Typed, CallsSound, NEW c \in Ids, NEW key \in Keys, Relay(c, key), calls[c].pending,
         UNCHANGED <<agent, bridges>>
  PROVE  CallsSound'
<1>1. /\ Ids' = Ids /\ (\A d \in Ids \ {c} : calls'[d] = calls[d])
      /\ calls'[c].session = calls[c].session /\ calls'[c].sent = calls[c].sent
      /\ calls'[c].waited = calls[c].waited /\ calls'[c].pending = FALSE
      /\ calls'[c].relayed = calls[c].relayed + 1
  BY RelayedCall DEF Relay, Typed
<1>2. Waits' /\ Bridged'
  BY <1>1 DEF CallsSound, Waits, Bridged, Live, Connected, Current
<1>3. calls[c].relayed = 0 /\ calls[c].sent
  BY Named DEF CallsSound, Answered, Once
<1>4. calls'[c].relayed = 1 /\ 1 <= 1
  BY <1>1, <1>3
<1>5. \A d \in Ids : Once(d)'
  <2> SUFFICES ASSUME NEW d \in Ids PROVE Once(d)'
    OBVIOUS
  <2>1. CASE d = c
    BY <1>1, <1>3, <1>4, <2>1, Zenon DEF Once
  <2>2. CASE d # c
    <3>1. calls'[d] = calls[d] /\ Once(d)
      BY <1>1, <2>2 DEF CallsSound, Answered, Once
    <3> QED BY <3>1, Zenon DEF Once
  <2> QED BY <2>1, <2>2
<1> QED BY <1>1, <1>2, <1>5, Zenon DEF CallsSound, Answered, Once

LEMMA CallsNext == ASSUME Typed, CallsSound, [Next]_vars PROVE CallsSound'
<1> USE Named DEF Typed
<1>1. ASSUME UNCHANGED calls, UNCHANGED bridges,
             \A a \in Agents : Connected(a)' = Connected(a) /\ Current(a)' = Current(a)
      PROVE  CallsSound'
  <2>1. Ids' = Ids
    BY <1>1 DEF Ids
  <2> QED BY <1>1, <2>1 DEF CallsSound, Waits, Bridged, Live, Answered, Once
<1>2. ASSUME NEW a \in Agents, Boot(a) PROVE CallsSound'
  <2>1. \A b \in Agents : Connected(b)' = Connected(b) /\ Current(b)' = Current(b)
    BY <1>2, KeyChange DEF Boot, Connected, Current, AgentRow
  <2> QED BY <1>1, <1>2, <2>1 DEF Boot, gateway
<1>3. ASSUME NEW p \in posts, Enrolled(p) PROVE CallsSound'
  <2>1. \A b \in Agents : Connected(b)' = Connected(b) /\ Current(b)' = Current(b)
    BY <1>3, KeyAdopted, KeysType DEF Enrolled, Connected, Current
  <2> QED BY <1>1, <1>3, <2>1 DEF Enrolled, gateway
<1>4. ASSUME NEW a \in Agents, Connect(a) PROVE CallsSound'
  <2>1. /\ ~Connected(a) /\ UNCHANGED calls /\ bridges \subseteq bridges'
        /\ \A b \in Agents \ {a} : agent'[b] = agent[b]
    BY <1>4, Opened DEF Connect
  <2>2. Ids' = Ids
    BY <2>1 DEF Ids
  <2>3. ASSUME NEW s \in Session, Live(s) PROVE Live(s)'
    <3>1. s.agent \in Agents \ {a}
      BY <2>1, <2>3 DEF Live, Session
    <3> QED BY <2>1, <2>3, <3>1, LiveStays
  <2>4. Waits'
    <3> SUFFICES ASSUME NEW c \in Ids, calls[c].waited PROVE Live(calls[c].session)'
      BY <2>1, <2>2 DEF Waits
    <3>1. PICK s \in Session : s = calls[c].session
      OBVIOUS
    <3>2. Live(s)
      BY <3>1 DEF CallsSound, Waits
    <3>3. Live(s)' /\ s = calls'[c].session
      BY <2>1, <2>3, <3>1, <3>2
    <3> QED BY <3>3
  <2> QED BY <2>1, <2>2, <2>4 DEF CallsSound, Bridged, Answered, Once
<1>5. ASSUME NEW a \in Agents, NEW stays \in BOOLEAN, LinkLost(a, stays) PROVE CallsSound'
  <2>1. \A b \in Agents \ {a} : agent'[b] = agent[b]
    BY <1>5, Closed DEF LinkLost
  <2>2. /\ calls' = Forsaken(Current(a)) /\ Ids' = Ids /\ UNCHANGED bridges
    BY <1>5, ForsakenCalls DEF LinkLost, Forsake, Ids
  <2>3. \A c \in Ids :
           /\ calls'[c].session = calls[c].session /\ calls'[c].sent = calls[c].sent
           /\ calls'[c].pending = calls[c].pending /\ calls'[c].relayed = calls[c].relayed
           /\ calls'[c].waited <=> (calls[c].waited /\ calls[c].session # Current(a))
    BY <2>2, ForsakenCalls
  <2>4. ASSUME NEW s \in Session, Live(s), s # Current(a) PROVE Live(s)'
    <3>1. s.agent \in Agents \ {a}
      BY <2>4 DEF Live, Session
    <3> QED BY <2>1, <2>4, <3>1, LiveStays
  <2>5. Waits'
    <3> SUFFICES ASSUME NEW c \in Ids, calls'[c].waited PROVE Live(calls[c].session)'
      BY <2>2 DEF Waits
    <3>1. PICK s \in Session : s = calls[c].session
      OBVIOUS
    <3>2. Live(s) /\ s # Current(a)
      BY <2>3, <3>1 DEF CallsSound, Waits
    <3>3. Live(s)' /\ s = calls'[c].session
      BY <2>3, <2>4, <3>1, <3>2
    <3> QED BY <3>3
  <2> QED BY <2>2, <2>3, <2>5 DEF CallsSound, Bridged, Answered, Once
<1>6. ASSUME NEW a \in Agents, Rotate(a) PROVE CallsSound'
  <2>1. PICK k : k = [session |-> Current(a), sent |-> FALSE, waited |-> TRUE,
                      pending |-> FALSE, relayed |-> 0]
    OBVIOUS
  <2>2. k \in Call /\ k.session = Current(a) /\ ~k.sent /\ ~k.pending /\ k.relayed = 0
    BY <2>1 DEF Call
  <2>3. PICK m : m = Len(calls) + 1
    OBVIOUS
  <2>4. Ids' = Ids \cup {m} /\ calls'[m] = k /\ \A c \in Ids : calls'[c] = calls[c]
    BY <1>6, <2>1, <2>2, <2>3, Appended DEF Rotate
  <2>5. Live(k.session) /\ UNCHANGED <<agent, bridges>>
    BY <1>6, <2>2 DEF Rotate, Current, Live
  <2>6. ASSUME NEW s, Live(s) PROVE Live(s)'
    BY <2>5, <2>6, LiveStays
  <2>7. Waits'
    <3> SUFFICES ASSUME NEW c \in Ids', calls'[c].waited PROVE Live(calls[c].session)'
      BY DEF Waits
    <3>1. PICK s : s = calls'[c].session
      OBVIOUS
    <3>2. Live(s)
      BY <2>4, <2>5, <3>1 DEF CallsSound, Waits
    <3>3. Live(s)'
      BY <2>6, <3>2
    <3> QED BY <3>1, <3>3
  <2>8. Bridged' /\ Answered'
    BY <2>2, <2>4, <2>5 DEF CallsSound, Bridged, Answered, Once
  <2> QED BY <2>7, <2>8 DEF CallsSound
<1>7. ASSUME NEW s \in bridges, BridgeCloses(s) PROVE CallsSound'
  <2>1. PICK cs : /\ cs \in {calls, Forsaken(s)} /\ calls' = Unpended(s, cs)
                  /\ \/ UNCHANGED agent
                     \/ /\ cs = Forsaken(s) /\ Current(s.agent) = s
                        /\ \A b \in Agents \ {s.agent} : agent'[b] = agent[b]
    BY <1>7, Closed DEF BridgeCloses
  <2>2. /\ cs \in Seq(Call) /\ DOMAIN cs = Ids
        /\ \A c \in Ids :
             /\ cs[c].session = calls[c].session /\ cs[c].sent = calls[c].sent
             /\ cs[c].pending = calls[c].pending /\ cs[c].relayed = calls[c].relayed
             /\ cs[c].waited => calls[c].waited
             /\ cs = Forsaken(s) => (cs[c].waited => calls[c].session # s)
    BY <2>1, ForsakenCalls DEF Ids
  <2>3. /\ Ids' = Ids
        /\ \A c \in Ids :
             /\ calls'[c].session = calls[c].session /\ calls'[c].sent = calls[c].sent
             /\ calls'[c].relayed = calls[c].relayed /\ calls'[c].waited = cs[c].waited
             /\ calls'[c].pending <=> (calls[c].pending /\ calls[c].session # s)
    BY <2>1, <2>2, UnpendedCalls DEF Ids
  <2>4. Waits'
    <3> SUFFICES ASSUME NEW c \in Ids, calls'[c].waited PROVE Live(calls[c].session)'
      BY <2>3 DEF Waits
    <3>1. PICK l \in Session : l = calls[c].session
      OBVIOUS
    <3>2. Live(l) /\ (cs = Forsaken(s) => l # s) /\ l = calls'[c].session
      BY <2>2, <2>3, <3>1 DEF CallsSound, Waits
    <3>3. CASE UNCHANGED agent
      BY <3>2, <3>3, LiveStays
    <3>4. CASE /\ cs = Forsaken(s) /\ Current(s.agent) = s
               /\ \A b \in Agents \ {s.agent} : agent'[b] = agent[b]
      <4>1. l.agent \in Agents \ {s.agent}
        BY <3>2, <3>4 DEF Live, Session
      <4>2. agent'[l.agent] = agent[l.agent]
        BY <3>4, <4>1
      <4> QED BY <3>2, <4>2, LiveStays
    <3>5. Live(l)'
      BY <2>1, <3>2, <3>3, <3>4
    <3> QED BY <3>2, <3>5
  <2>5. Bridged' /\ Answered'
    BY <1>7, <2>3 DEF BridgeCloses, CallsSound, Bridged, Answered, Once
  <2> QED BY <2>4, <2>5 DEF CallsSound
<1>8. ASSUME NEW c \in Ids, Forward(c) PROVE CallsSound'
  <2>1. /\ Ids' = Ids /\ (\A d \in Ids \ {c} : calls'[d] = calls[d])
        /\ calls'[c].session = calls[c].session /\ calls'[c].sent
        /\ calls'[c].waited = calls[c].waited /\ calls'[c].relayed = calls[c].relayed
        /\ UNCHANGED <<agent, bridges>> /\ ~calls[c].sent /\ calls[c].session \in bridges
    BY <1>8, Sent DEF Forward
  <2>2. Waits' /\ Bridged'
    BY <2>1 DEF CallsSound, Waits, Bridged, Live, Connected, Current
  <2>3. Answered'
    BY <2>1 DEF CallsSound, Answered, Once
  <2> QED BY <2>2, <2>3 DEF CallsSound
<1>9. ASSUME NEW c \in Ids, Refuse(c) PROVE CallsSound'
  <2>1. /\ Ids' = Ids /\ (\A d \in Ids \ {c} : calls'[d] = calls[d])
        /\ calls'[c].session = calls[c].session /\ calls'[c].sent
        /\ calls'[c].waited = calls[c].waited /\ calls'[c].pending = calls[c].pending
        /\ calls'[c].relayed = calls[c].relayed + 1
        /\ UNCHANGED <<agent, bridges>> /\ ~calls[c].sent
    BY <1>9, RefusedCall DEF Refuse
  <2>2. Waits' /\ Bridged'
    BY <2>1 DEF CallsSound, Waits, Bridged, Live, Connected, Current
  <2>3. calls[c].relayed = 0 /\ ~calls[c].pending
    BY <2>1 DEF CallsSound, Answered, Once
  <2>4. Answered'
    BY <2>1, <2>3 DEF CallsSound, Answered, Once
  <2> QED BY <2>2, <2>4 DEF CallsSound
<1>17. ASSUME NEW c \in Ids, Oversize(c) PROVE CallsSound'
  <2>1. /\ Ids' = Ids /\ (\A d \in Ids \ {c} : calls'[d] = calls[d])
        /\ calls'[c].session = calls[c].session /\ calls'[c].sent
        /\ calls'[c].waited = calls[c].waited /\ calls'[c].pending = calls[c].pending
        /\ calls'[c].relayed = calls[c].relayed
        /\ UNCHANGED <<agent, bridges>>
    BY <1>17, Dropped DEF Oversize
  <2>2. Waits' /\ Bridged'
    BY <2>1 DEF CallsSound, Waits, Bridged, Live, Connected, Current
  <2>3. Answered'
    BY <2>1 DEF CallsSound, Answered, Once
  <2> QED BY <2>2, <2>3 DEF CallsSound
<1>10. ASSUME NEW c \in Ids, Upstream(c) PROVE CallsSound'
  BY <1>10, RelaySound, KeysType DEF Upstream
<1>11. ASSUME NEW c \in Ids, calls' = [calls EXCEPT ![c].waited = FALSE], UNCHANGED bridges,
              \A a \in Agents : Connected(a)' = Connected(a) /\ Current(a)' = Current(a)
       PROVE  CallsSound'
  <2>1. /\ Ids' = Ids /\ (\A d \in Ids \ {c} : calls'[d] = calls[d])
        /\ calls'[c].session = calls[c].session /\ calls'[c].sent = calls[c].sent
        /\ ~calls'[c].waited /\ calls'[c].pending = calls[c].pending
        /\ calls'[c].relayed = calls[c].relayed
    BY <1>11, WaitEnds
  <2>2. Waits' /\ Bridged'
    BY <1>11, <2>1 DEF CallsSound, Waits, Bridged, Live
  <2>3. Answered'
    BY <2>1 DEF CallsSound, Answered, Once
  <2> QED BY <2>2, <2>3 DEF CallsSound
<1>12. ASSUME NEW c \in Ids, CallTimeout(c) PROVE CallsSound'
  BY <1>11, <1>12 DEF CallTimeout, Connected, Current
<1>13. ASSUME NEW r \in answers, Receive(r) PROVE CallsSound'
  <2>1. \A a \in Agents : Connected(a)' = Connected(a) /\ Current(a)' = Current(a)
    <3>1. CASE UNCHANGED agent
      BY <3>1 DEF Connected, Current
    <3>2. CASE agent' = Adopt(calls[r.call].session.agent, r.key)
      BY <3>2, KeyAdopted DEF Adopt, Connected, Current
    <3> QED BY <1>13, <3>1, <3>2 DEF Receive
  <2> QED BY <1>11, <1>13, <2>1 DEF Receive
<1>14. ASSUME NEW f \in frames, Handle(f) PROVE CallsSound'
  <2>1. UNCHANGED <<agent, bridges>>
    BY <1>14 DEF Handle
  <2>2. CASE UNCHANGED calls
    BY <1>1, <2>1, <2>2 DEF Connected, Current
  <2>3. CASE calls[f.call].pending /\ Relay(f.call, NextKey(f))
    BY <1>14, <2>1, <2>3, RelaySound, SaveType DEF Handle
  <2> QED BY <1>14, <2>2, <2>3 DEF Handle, Publish
<1>15. CASE UNCHANGED <<agent, bridges, calls>>
  BY <1>1, <1>15 DEF Connected, Current
<1>16. ASSUME \/ \E a \in Agents : Ask(a) \/ EnrollFails(a)
              \/ \E p \in posts : Redeem(p)
              \/ \E f \in frames : Read(f) \/ \E saved \in BOOLEAN : ConsumerDies(f, saved)
              \/ \E n \in Switched : Switch(n)
              \/ \E t \in Tokens : Expire(t)
              \/ UNCHANGED vars
       PROVE  CallsSound'
  <2>1. UNCHANGED <<agent, bridges, calls>>
    BY <1>16 DEF Ask, EnrollFails, Redeem, Read, ConsumerDies, Switch, Expire, vars, gateway
  <2> QED BY <1>15, <2>1
<1> QED
  BY <1>2, <1>3, <1>4, <1>5, <1>6, <1>7, <1>8, <1>9, <1>10, <1>12, <1>13, <1>14, <1>16, <1>17
     DEF Next, Enroll, Bridge, App

LEMMA TypedInit == Init => Typed /\ CallsSound
<1> SUFFICES ASSUME Init PROVE Typed /\ CallsSound
  OBVIOUS
<1>1. NoWorker \in WorkerRow
  BY KeysType DEF NoWorker, WorkerRow
<1>2. [key |-> NoKey, vol |-> NoKey, open |-> FALSE, n |-> 0] \in AgentRow
  BY KeysType DEF AgentRow
<1>3. Typed
  BY <1>1, <1>2, Bounds DEF Init, Typed, Fates
<1>4. Ids = {}
  BY DEF Init, Ids
<1> QED BY <1>3, <1>4 DEF CallsSound, Waits, Bridged, Answered, Once

\* Every reachable state is well typed; nobody waits across the end of its connection.
THEOREM TypeCorrect == Spec => []TypeOK
<1>1. Init => Typed /\ CallsSound
  BY TypedInit
<1>2. Typed /\ CallsSound /\ [Next]_vars => (Typed /\ CallsSound)'
  BY TypedNext, CallsNext
<1>3. Typed /\ CallsSound => TypeOK
  BY TypedIsTypeOK
<1> QED BY <1>1, <1>2, <1>3, PTL DEF Spec

\* A request has one answer on its socket, for any number of agents, consumers and calls and
\* however answers, timeouts, refusals and the ends of connections interleave.
THEOREM OneAnswer == Spec => []AnsweredOnce
<1>1. Init => Typed /\ CallsSound
  BY TypedInit
<1>2. Typed /\ CallsSound /\ [Next]_vars => (Typed /\ CallsSound)'
  BY TypedNext, CallsNext
<1>3. CallsSound => AnsweredOnce
  BY DEF CallsSound, Answered, Once, AnsweredOnce
<1> QED BY <1>1, <1>2, <1>3, PTL DEF Spec

-----------------------------------------------------------------------------
(* Workers. *)

\* A key that was read is a worker's; a single-use token that made a worker is used, and made one.
Existing == \A f \in frames : f.read # NoKey => Exists(WorkerOf(f))
Spent == \A n \in Names : Exists(n) /\ worker[n].token \in SingleUse => token[worker[n].token].used
OneEach == \A m, n \in Names :
  Exists(m) /\ Exists(n) /\ worker[m].token = worker[n].token /\ worker[m].token \in SingleUse => m = n

WorkersSound == Existing /\ Spent /\ OneEach

RowsKept == \A n \in Names :
  /\ Exists(n)' <=> Exists(n)
  /\ worker'[n].token = worker[n].token /\ worker'[n].agent = worker[n].agent
TokensKept == \A t \in Tokens : token[t].used => token'[t].used

LEMMA SavedRows ==
  ASSUME Typed, Existing, NEW f \in frames, f.read # NoKey, Save(f)
  PROVE  RowsKept
<1>1. Exists(WorkerOf(f))
  BY DEF Existing
<1> QED BY <1>1, SaveType DEF RowsKept, Exists

\* A row is made by a redeemed token, and nothing but its key and its switch ever changes.
LEMMA WorkersKept ==
  ASSUME Typed, Existing, [Next]_vars, ~\E p \in posts : Redeem(p) /\ Granted(p)
  PROVE  RowsKept /\ TokensKept
<1>1. CASE UNCHANGED <<worker, token>>
  BY <1>1 DEF RowsKept, TokensKept, Exists
<1>2. ASSUME NEW f \in frames, Handle(f) PROVE RowsKept /\ TokensKept
  BY <1>2, SavedRows DEF Handle, TokensKept
<1>3. ASSUME NEW f \in frames, NEW saved \in BOOLEAN, ConsumerDies(f, saved) PROVE RowsKept /\ TokensKept
  BY <1>3, SavedRows, <1>1 DEF ConsumerDies, TokensKept
<1>4. ASSUME NEW n \in Switched, Switch(n) PROVE RowsKept /\ TokensKept
  BY <1>4, SwitchedRow, Bounds DEF Switch, Typed, RowsKept, TokensKept, Exists
<1>5. ASSUME NEW t \in Tokens, Expire(t) PROVE RowsKept /\ TokensKept
  <2>1. PICK r : r = [token[t] EXCEPT !.expired = TRUE]
    OBVIOUS
  <2>2. r.used = token[t].used
    BY <2>1 DEF Typed
  <2>3. token' = [token EXCEPT ![t] = r]
    BY <1>5, <2>1 DEF Expire
  <2>4. TokensKept
    BY <2>2, <2>3 DEF TokensKept, Typed
  <2> QED BY <1>5, <2>4 DEF Expire, RowsKept, Exists
<1>6. ASSUME NEW p \in posts, Redeem(p) PROVE UNCHANGED <<worker, token>>
  BY <1>6 DEF Redeem
<1>7. ASSUME \/ \E a \in Agents : \/ Enroll(a) \/ Connect(a) \/ Rotate(a)
                                  \/ \E stays \in BOOLEAN : LinkLost(a, stays)
             \/ \E p \in posts : Enrolled(p)
             \/ \E s \in bridges : BridgeCloses(s)
             \/ \E c \in Ids : Bridge(c)
             \/ \E f \in frames : Read(f)
             \/ \E r \in answers : Receive(r)
             \/ UNCHANGED vars
      PROVE  UNCHANGED <<worker, token>>
  BY <1>7 DEF Enroll, Boot, Ask, EnrollFails, Connect, Rotate, LinkLost, Enrolled, BridgeCloses, Bridge,
              Forward, Refuse, Oversize, Upstream, CallTimeout, Read, Receive, vars
<1> QED BY <1>1, <1>2, <1>3, <1>4, <1>5, <1>6, <1>7 DEF Next, App

\* A granted request makes a worker of a free name.
LEMMA RedeemedRows ==
  ASSUME Typed, NEW p \in posts, Redeem(p), Granted(p)
  PROVE  /\ NameOf[p.agent] \in Names /\ TokenOf[p.agent] \in Tokens
         /\ ~Exists(NameOf[p.agent]) /\ worker'[NameOf[p.agent]].gen = 0
         /\ worker'[NameOf[p.agent]].token = TokenOf[p.agent]
         /\ worker'[NameOf[p.agent]].agent = p.agent
         /\ \A n \in Names \ {NameOf[p.agent]} : worker'[n] = worker[n]
         /\ TokenOf[p.agent] \in SingleUse => ~token[TokenOf[p.agent]].used
         /\ token'[TokenOf[p.agent]].used /\ TokensKept
<1>1. p.agent \in Agents /\ NameOf[p.agent] \in Names /\ TokenOf[p.agent] \in Tokens
  BY Named, Bounds
<1>2. PICK row : row = [gen |-> 0, enabled |-> TRUE, token |-> TokenOf[p.agent], agent |-> p.agent]
  OBVIOUS
<1>3. row \in WorkerRow /\ row.gen = 0 /\ row.token = TokenOf[p.agent] /\ row.agent = p.agent
  BY <1>1, <1>2, RowOf
<1>4. worker' = [worker EXCEPT ![NameOf[p.agent]] = row]
  BY <1>2 DEF Redeem
<1>5. worker'[NameOf[p.agent]] = row /\ \A n \in Names \ {NameOf[p.agent]} : worker'[n] = worker[n]
  BY <1>1, <1>3, <1>4, WorkerUpdate DEF Typed
<1>6. token' = [token EXCEPT ![TokenOf[p.agent]].used = TRUE]
  BY DEF Redeem
<1>7. token'[TokenOf[p.agent]].used /\ TokensKept
  BY <1>1, <1>6, TokenUsed DEF Typed, TokensKept
<1> QED BY <1>1, <1>3, <1>5, <1>7 DEF Granted, Valid

LEMMA FramesNext ==
  ASSUME Typed, WorkersSound, [Next]_vars
  PROVE  \A f \in frames' : f.read # NoKey => f.call \in Ids /\ Exists(WorkerOf(f))
<1> USE Named
<1>1. \A f \in frames : f.read # NoKey => f.call \in Ids /\ Exists(WorkerOf(f))
  BY DEF WorkersSound, Existing
<1>2. ASSUME NEW c \in Ids, Forward(c) PROVE \A f \in frames' : f \in frames \/ f.read = NoKey
  BY <1>2 DEF Forward
<1>3. ASSUME NEW f \in frames, Read(f)
      PROVE  \A g \in frames' : g.read # NoKey => g \in frames \/ (g.call \in Ids /\ Exists(WorkerOf(g)))
  <2>1. PICK h : h = [f EXCEPT !.read = worker[WorkerOf(f)].gen]
    OBVIOUS
  <2>2. h.call = f.call /\ h.read = worker[WorkerOf(f)].gen
    BY <2>1 DEF Typed, Frame
  <2>3. \A g \in frames' : g \in frames \/ g = h
    BY <1>3, <2>1 DEF Read
  <2>4. h.read # NoKey => h.call \in Ids /\ Exists(WorkerOf(h))
    BY <2>2 DEF Exists, WorkerOf
  <2> QED BY <2>3, <2>4
<1>4. ASSUME \/ \E a \in Agents : \/ Enroll(a) \/ Connect(a) \/ Rotate(a)
                                  \/ \E stays \in BOOLEAN : LinkLost(a, stays)
             \/ \E p \in posts : Redeem(p) \/ Enrolled(p)
             \/ \E s \in bridges : BridgeCloses(s)
             \/ \E c \in Ids : Refuse(c) \/ Oversize(c) \/ Upstream(c) \/ CallTimeout(c)
             \/ \E f \in frames : Handle(f) \/ \E saved \in BOOLEAN : ConsumerDies(f, saved)
             \/ \E r \in answers : Receive(r)
             \/ \E n \in Switched : Switch(n)
             \/ \E t \in Tokens : Expire(t)
             \/ UNCHANGED vars
      PROVE  frames' \subseteq frames
  BY <1>4 DEF Enroll, Boot, Ask, EnrollFails, Connect, Rotate, LinkLost, Redeem, Enrolled, BridgeCloses,
              Refuse, Oversize, Upstream, CallTimeout, Handle, ConsumerDies, Receive, Switch, Expire, vars, gateway
<1> QED BY <1>1, <1>2, <1>3, <1>4 DEF Next, Bridge, App

LEMMA WorkersNext == ASSUME Typed, WorkersSound, [Next]_vars PROVE WorkersSound'
<1> USE Named
<1>1. \A n \in Names : Exists(n) => Exists(n)'
  <2>1. CASE \E p \in posts : Redeem(p) /\ Granted(p)
    BY <2>1, RedeemedRows DEF Exists
  <2>2. CASE ~\E p \in posts : Redeem(p) /\ Granted(p)
    BY <2>2, WorkersKept DEF WorkersSound, RowsKept
  <2> QED BY <2>1, <2>2
<1>2. Existing'
  <2> SUFFICES ASSUME NEW f \in frames', f.read # NoKey PROVE Exists(WorkerOf(f))'
    BY DEF Existing
  <2>1. PICK n : n = WorkerOf(f)
    OBVIOUS
  <2>2. f.call \in Ids /\ Exists(n)
    BY <2>1, FramesNext
  <2>3. n \in Names
    BY <2>1, <2>2, Bounds DEF WorkerOf
  <2>4. NameOf[calls'[f.call].session.agent] = n
    BY <2>1, <2>2, SessionsKept DEF WorkerOf, CallsKept
  <2> QED BY <1>1, <2>2, <2>3, <2>4 DEF WorkerOf, Exists
<1>3. CASE ~\E p \in posts : Redeem(p) /\ Granted(p)
  <2>1. RowsKept /\ TokensKept
    BY <1>3, WorkersKept DEF WorkersSound
  <2>2. \A n \in Names : /\ (worker'[n].gen # NoKey) <=> (worker[n].gen # NoKey)
                         /\ worker'[n].token = worker[n].token
    BY <2>1, Zenon DEF RowsKept, Exists
  <2>3. Spent' /\ OneEach'
    BY <2>1, <2>2, Bounds DEF WorkersSound, Spent, OneEach, TokensKept, Exists
  <2> QED BY <1>2, <2>3 DEF WorkersSound
<1>4. ASSUME NEW p \in posts, Redeem(p), Granted(p) PROVE WorkersSound'
  <2>1. PICK m \in Names, t \in Tokens : m = NameOf[p.agent] /\ t = TokenOf[p.agent]
    BY Bounds
  <2>2. /\ worker'[m].token = t /\ (\A n \in Names \ {m} : worker'[n] = worker[n])
        /\ t \in SingleUse => ~token[t].used
        /\ token'[t].used /\ TokensKept
    BY <1>4, <2>1, RedeemedRows
  <2>3. \A n \in Names \ {m} : Exists(n) /\ worker[n].token \in SingleUse => worker[n].token # t
    BY <2>2 DEF WorkersSound, Spent
  <2>4. Spent'
    BY <2>2, Bounds DEF WorkersSound, Spent, TokensKept, Exists
  <2>5. OneEach'
    BY <2>2, <2>3 DEF WorkersSound, OneEach, Exists
  <2> QED BY <1>2, <2>4, <2>5 DEF WorkersSound
<1> QED BY <1>3, <1>4

LEMMA OneEachIsOneWorker == ASSUME OneEach PROVE OneWorkerPerToken
<1> SUFFICES ASSUME NEW t \in SingleUse
             PROVE  Cardinality({n \in Names : Exists(n) /\ worker[n].token = t}) <= 1
  BY DEF OneWorkerPerToken
<1>1. PICK made : made = {n \in Names : Exists(n) /\ worker[n].token = t}
  OBVIOUS
<1>2. CASE made = {}
  BY <1>1, <1>2, FS_EmptySet
<1>3. CASE made # {}
  <2>1. PICK n : n \in made
    BY <1>3
  <2>2. made = {n}
    BY <1>1, <2>1 DEF OneEach
  <2>3. Cardinality({n}) = 1
    BY FS_Singleton
  <2> QED BY <1>1, <2>2, <2>3
<1> QED BY <1>2, <1>3

\* However many agents present a single-use token at once, and whatever is lost on the way, it
\* makes one worker: for any number of agents, tokens and names.
THEOREM OneWorker == Spec => []OneWorkerPerToken
<1>1. Init => Typed /\ WorkersSound
  <2>1. Init => Typed
    BY TypedInit
  <2>2. Init => WorkersSound
    BY DEF Init, WorkersSound, Existing, Spent, OneEach, Exists, NoWorker
  <2> QED BY <2>1, <2>2
<1>2. Typed /\ WorkersSound /\ [Next]_vars => (Typed /\ WorkersSound)'
  BY TypedNext, WorkersNext
<1>3. WorkersSound => OneWorkerPerToken
  BY OneEachIsOneWorker DEF WorkersSound
<1> QED BY <1>1, <1>2, <1>3, PTL DEF Spec

-----------------------------------------------------------------------------
(* Where a worker's key is.  KeysSound says, besides the above, who holds a key, what  *)
(* a granted request finds and what the answers carry that are waited for.            *)

Holds(a) == agent[a].vol # NoKey

\* Only the agent whose request made the worker has a key, a connection, a call.
Owned ==
  /\ \A a \in Agents : /\ agent[a].key # NoKey => Holds(a)
                       /\ Connected(a) => Holds(a)
                       /\ Holds(a) \/ GrantedTo(a) => Owner(a)
  /\ \A c \in Ids : Holds(calls[c].session.agent)

\* A granted request is waited for by an agent without a key, whose worker has the first one.
Grants == \A p \in posts : p.granted => p.waited /\ ~Holds(p.agent) /\ KeyOf(p.agent) = 0

\* An agent waits for one call at a time.  An answer on its way counts as relayed, and is
\* the only one to its call.
OneWaits == \A c, d \in Ids :
  calls[c].waited /\ calls[d].waited /\ calls[c].session.agent = calls[d].session.agent => c = d
Heard == \A r \in answers : calls[r.call].relayed # 0
Single == \A r, x \in answers : r.call = x.call => r = x

\* The keys that an agent waits for and that are on their way are the worker's, and
\* without one the persisted key is: as long as the agent was told of the one in force.
KeyedTo(a) == {r \in answers : calls[r.call].session.agent = a /\ Awaited(r) /\ r.key # NoKey}
InStep(a) == /\ \A r \in KeyedTo(a) : r.key = KeyOf(a)
             /\ KeyedTo(a) = {} => agent[a].vol = KeyOf(a)
Told(a) == fate[NameOf[a]] = "told"
KeyFor(a) == ~Told(a) \/ ~Owner(a) \/ GrantedTo(a) \/ InStep(a)

KeysSound == Owned /\ Grants /\ OneWaits /\ Heard /\ Single /\ \A a \in Agents : KeyFor(a)

\* What a step does to an agent's keys, to the workers' keys and to the answers.
Granting(p) == Redeem(p) /\ Granted(p)
Adopting(a, r) == Receive(r) /\ r \in KeyedTo(a)

LEMMA AgentSteps ==
  ASSUME Typed, [Next]_vars, NEW a \in Agents
  PROVE  \/ /\ agent'[a].vol = agent[a].vol
            /\ agent'[a].key \in {agent[a].key, agent[a].vol, NoKey}
            /\ agent'[a].open => agent[a].open \/ agent[a].key # NoKey
         \/ /\ agent'[a].vol # NoKey
            /\ \/ \E p \in posts : Enrolled(p) /\ p.agent = a /\ agent'[a].vol = 0
               \/ \E r \in answers : Adopting(a, r) /\ agent'[a].vol = r.key
<1> DEFINE Kept == /\ agent'[a].vol = agent[a].vol
                   /\ agent'[a].key \in {agent[a].key, agent[a].vol, NoKey}
                   /\ agent'[a].open => agent[a].open \/ agent[a].key # NoKey
<1> USE Named DEF Typed
<1>1. CASE UNCHANGED agent
  BY <1>1
<1>2. ASSUME NEW b \in Agents, Boot(b) PROVE Kept
  BY <1>2, KeyChange DEF Boot, AgentRow
<1>3. ASSUME NEW b \in Agents, Connect(b) PROVE Kept
  BY <1>3, Opened DEF Connect
<1>4. ASSUME NEW b \in Agents, NEW stays \in BOOLEAN, LinkLost(b, stays) PROVE Kept
  BY <1>4, Closed DEF LinkLost
<1>5. ASSUME NEW s \in bridges, BridgeCloses(s) PROVE Kept
  BY <1>5, Closed DEF BridgeCloses
<1>6. ASSUME NEW p \in posts, Enrolled(p)
      PROVE  Kept \/ (Enrolled(p) /\ p.agent = a /\ agent'[a].vol = 0)
  BY <1>6, KeyAdopted, KeysType DEF Enrolled
<1>7. ASSUME NEW r \in answers, Receive(r)
      PROVE  Kept \/ (Adopting(a, r) /\ agent'[a].vol = r.key /\ r.key # NoKey)
  <2>1. CASE UNCHANGED agent
    BY <1>1, <2>1
  <2>2. CASE calls[r.call].waited /\ r.key # NoKey /\ agent' = Adopt(calls[r.call].session.agent, r.key)
    <3>1. CASE calls[r.call].session.agent = a
      <4>1. r \in KeyedTo(a)
        BY <2>2, <3>1 DEF KeyedTo, Awaited
      <4>2. agent'[a].vol = r.key
        <5>1. r.key \in Keys /\ agent' = Adopt(a, r.key)
          BY <2>2, <3>1
        <5> QED BY <5>1, KeyAdopted DEF Adopt
      <4> QED BY <1>7, <2>2, <4>1, <4>2 DEF Adopting
    <3>2. CASE calls[r.call].session.agent # a
      BY <2>2, <3>2, KeyAdopted DEF Adopt
    <3> QED BY <3>1, <3>2
  <2> QED BY <1>7, <2>1, <2>2 DEF Receive
<1>8. ASSUME \/ \E b \in Agents : Ask(b) \/ EnrollFails(b) \/ Rotate(b)
             \/ \E p \in posts : Redeem(p)
             \/ \E c \in Ids : Bridge(c)
             \/ \E f \in frames : App(f)
             \/ \E n \in Switched : Switch(n)
             \/ \E t \in Tokens : Expire(t)
             \/ UNCHANGED vars
      PROVE  UNCHANGED agent
  BY <1>8 DEF Ask, EnrollFails, Rotate, Redeem, Bridge, Forward, Refuse, Oversize, Upstream, CallTimeout, App, Read,
              Handle, ConsumerDies, Switch, Expire, vars
<1>9. \/ UNCHANGED agent
      \/ \E b \in Agents : Boot(b) \/ Connect(b) \/ \E stays \in BOOLEAN : LinkLost(b, stays)
      \/ \E s \in bridges : BridgeCloses(s)
      \/ \E p \in posts : Enrolled(p)
      \/ \E r \in answers : Receive(r)
  BY <1>8 DEF Next, Enroll
<1>10. Kept \/ (\E p \in posts : Enrolled(p) /\ p.agent = a /\ agent'[a].vol = 0)
            \/ (\E r \in answers : Adopting(a, r) /\ agent'[a].vol = r.key /\ r.key # NoKey)
  BY <1>1, <1>2, <1>3, <1>4, <1>5, <1>6, <1>7, <1>9
<1> QED BY <1>10, KeysType

LEMMA GenSteps ==
  ASSUME Typed, [Next]_vars, NEW n \in Names
  PROVE  \/ worker'[n].gen = worker[n].gen
         \/ \E p \in posts : Granting(p) /\ NameOf[p.agent] = n
         \/ \E f \in frames : f.read # NoKey /\ WorkerOf(f) = n
<1>1. CASE UNCHANGED worker
  BY <1>1
<1>2. ASSUME NEW p \in posts, Redeem(p)
      PROVE  worker'[n] = worker[n] \/ (Granting(p) /\ NameOf[p.agent] = n)
  <2>1. CASE Granted(p)
    BY <1>2, <2>1, RedeemedRows DEF Granting
  <2>2. CASE ~Granted(p)
    BY <1>2, <2>2 DEF Redeem
  <2> QED BY <2>1, <2>2
<1>3. ASSUME NEW f \in frames, App(f)
      PROVE  worker'[n] = worker[n] \/ (f.read # NoKey /\ WorkerOf(f) = n)
  <2>1. CASE UNCHANGED worker
    BY <2>1
  <2>2. CASE f.read # NoKey /\ Save(f)
    BY <2>2, SaveType
  <2> QED BY <1>3, <2>1, <2>2 DEF App, Read, Handle, ConsumerDies
<1>4. ASSUME NEW m \in Switched, Switch(m) PROVE worker'[n].gen = worker[n].gen
  BY <1>4, SwitchedRow, Bounds DEF Switch, Typed
<1>5. ASSUME \/ \E a \in Agents : \/ Enroll(a) \/ Connect(a) \/ Rotate(a)
                                  \/ \E stays \in BOOLEAN : LinkLost(a, stays)
             \/ \E p \in posts : Enrolled(p)
             \/ \E s \in bridges : BridgeCloses(s)
             \/ \E c \in Ids : Bridge(c)
             \/ \E r \in answers : Receive(r)
             \/ \E t \in Tokens : Expire(t)
             \/ UNCHANGED vars
      PROVE  UNCHANGED worker
  BY <1>5 DEF Enroll, Boot, Ask, EnrollFails, Connect, Rotate, LinkLost, Enrolled, BridgeCloses, Bridge,
              Forward, Refuse, Oversize, Upstream, CallTimeout, Receive, Expire, vars
<1>6. \/ UNCHANGED worker
      \/ \E p \in posts : Redeem(p)
      \/ \E f \in frames : App(f)
      \/ \E m \in Switched : Switch(m)
  BY <1>5 DEF Next
<1> QED BY <1>1, <1>2, <1>3, <1>4, <1>6

\* A granted request was granted before, or is granted now; only an ungranted one is let go.
LEMMA PostSteps ==
  ASSUME Typed, Grants, [Next]_vars
  PROVE  /\ \A p \in posts' : p.granted =>
              \/ p \in posts
              \/ \E q \in posts : Granting(q) /\ q.agent = p.agent /\ p.waited
         /\ \A p \in posts : Enrolled(p) => p \notin posts'
<1> USE DEF Typed
<1>1. \A p \in posts : p \in Post
  OBVIOUS
<1>2. ASSUME NEW q \in posts, Redeem(q)
      PROVE  \A p \in posts' : p.granted =>
               p \in posts \/ (Granting(q) /\ q.agent = p.agent /\ p.waited)
  <2>1. PICK g : g = [q EXCEPT !.granted = TRUE]
    OBVIOUS
  <2>2. g.agent = q.agent /\ g.waited = q.waited
    BY <1>1, <2>1, PostChange
  <2>3. CASE Granted(q)
    <3>1. posts' = (posts \ {q}) \cup {x \in {g} : q.waited}
      BY <1>2, <2>1, <2>3 DEF Redeem
    <3> QED BY <1>2, <2>2, <2>3, <3>1 DEF Granting
  <2>4. CASE ~Granted(q)
    BY <1>2, <2>4 DEF Redeem
  <2> QED BY <2>3, <2>4
<1>3. ASSUME NEW a \in Agents, EnrollFails(a) PROVE \A p \in posts' : p.granted => p \in posts
  <2>1. \A p \in posts' : p \in posts \/ \E q \in posts : ~q.granted /\ p = [q EXCEPT !.waited = FALSE]
    BY <1>3 DEF EnrollFails, Unread
  <2>2. \A q \in posts : [q EXCEPT !.waited = FALSE].granted = q.granted
    BY <1>1, PostChange
  <2> QED BY <2>1, <2>2
<1>4. ASSUME NEW a \in Agents, Ask(a) PROVE \A p \in posts' : p.granted => p \in posts
  BY <1>4 DEF Ask
<1>5. ASSUME \/ \E a \in Agents : \/ Boot(a) \/ Connect(a) \/ Rotate(a)
                                  \/ \E stays \in BOOLEAN : LinkLost(a, stays)
             \/ \E p \in posts : Enrolled(p)
             \/ \E s \in bridges : BridgeCloses(s)
             \/ \E c \in Ids : Bridge(c)
             \/ \E f \in frames : App(f)
             \/ \E r \in answers : Receive(r)
             \/ \E n \in Switched : Switch(n)
             \/ \E t \in Tokens : Expire(t)
             \/ UNCHANGED vars
      PROVE  posts' \subseteq posts
  BY <1>5 DEF Boot, Connect, Rotate, LinkLost, Enrolled, BridgeCloses, Bridge, Forward, Refuse, Oversize, Upstream,
              CallTimeout, App, Read, Handle, ConsumerDies, Receive, Switch, Expire, vars
<1>6. \A p \in posts : Enrolled(p) => p \notin posts'
  BY DEF Enrolled
<1>7. \/ posts' \subseteq posts
      \/ \E q \in posts : Redeem(q)
      \/ \E a \in Agents : Ask(a) \/ EnrollFails(a)
  BY <1>5 DEF Next, Enroll
<1> QED BY <1>2, <1>3, <1>4, <1>6, <1>7

\* An answer that is new is the first to its call.
Answers(c, r) == /\ r.call = c /\ calls[c].relayed = 0 /\ calls'[c].relayed # 0
                 /\ answers' \subseteq answers \cup {r}

LEMMA AnswerSteps ==
  ASSUME Typed, CallsSound, [Next]_vars
  PROVE  answers' \subseteq answers \/ \E c \in Ids : \E r : Answers(c, r)
<1> USE Named
<1>1. ASSUME NEW c \in Ids, NEW key, Relay(c, key), calls[c].pending
      PROVE  \E r : Answers(c, r)
  <2>1. calls[c].relayed = 0
    BY <1>1 DEF CallsSound, Answered, Once
  <2>2. calls'[c].relayed = calls[c].relayed + 1
    BY <1>1, RelayedCall DEF Relay, Typed
  <2>3. calls'[c].relayed # 0
    BY <2>1, <2>2
  <2>4. PICK new : new = [call |-> c, key |-> key]
    OBVIOUS
  <2>5. new.call = c /\ answers' \subseteq answers \cup {new}
    BY <1>1, <2>4 DEF Relay
  <2> QED BY <2>1, <2>3, <2>5 DEF Answers
<1>2. ASSUME NEW c \in Ids, Refuse(c) PROVE \E r : Answers(c, r)
  <2>1. calls[c].relayed = 0
    BY <1>2 DEF CallsSound, Answered, Once, Refuse
  <2>2. calls'[c].relayed = calls[c].relayed + 1
    BY <1>2, RefusedCall DEF Refuse, Typed
  <2>3. calls'[c].relayed # 0
    BY <2>1, <2>2
  <2>4. PICK new : new = [call |-> c, key |-> NoKey]
    OBVIOUS
  <2>5. new.call = c /\ answers' \subseteq answers \cup {new}
    BY <1>2, <2>4 DEF Refuse
  <2> QED BY <2>1, <2>3, <2>5 DEF Answers
<1>3. ASSUME NEW c \in Ids, Upstream(c) PROVE \E r : Answers(c, r)
  BY <1>1, <1>3 DEF Upstream
<1>4. ASSUME NEW f \in frames, Handle(f) PROVE answers' \subseteq answers \/ \E r : Answers(f.call, r)
  <2>1. CASE UNCHANGED answers
    BY <2>1
  <2>2. CASE calls[f.call].pending /\ Relay(f.call, NextKey(f))
    BY <1>1, <2>2
  <2> QED BY <1>4, <2>1, <2>2 DEF Handle, Publish
<1>5. ASSUME \/ \E a \in Agents : \/ Enroll(a) \/ Connect(a) \/ Rotate(a)
                                  \/ \E stays \in BOOLEAN : LinkLost(a, stays)
             \/ \E p \in posts : Redeem(p) \/ Enrolled(p)
             \/ \E s \in bridges : BridgeCloses(s)
             \/ \E c \in Ids : Forward(c) \/ Oversize(c) \/ CallTimeout(c)
             \/ \E f \in frames : Read(f) \/ \E saved \in BOOLEAN : ConsumerDies(f, saved)
             \/ \E x \in answers : Receive(x)
             \/ \E n \in Switched : Switch(n)
             \/ \E t \in Tokens : Expire(t)
             \/ UNCHANGED vars
      PROVE  answers' \subseteq answers
  BY <1>5 DEF Enroll, Boot, Ask, EnrollFails, Connect, Rotate, LinkLost, Forsake, Redeem, Enrolled,
              BridgeCloses, Forward, Oversize, CallTimeout, Read, ConsumerDies, Receive, Switch, Expire,
              vars, gateway
<1>6. \/ answers' \subseteq answers
      \/ \E c \in Ids : Refuse(c) \/ Upstream(c)
      \/ \E f \in frames : Handle(f)
  BY <1>5 DEF Next, Bridge, App
<1> QED BY <1>2, <1>3, <1>4, <1>6

LEMMA CallSteps ==
  ASSUME Typed, [Next]_vars, NEW c \in Ids'
  PROVE  \/ c \in Ids
         \/ calls'[c].session.agent \in Agents /\ Rotate(calls'[c].session.agent) /\ Ids' = Ids \cup {c}
<1> USE Named DEF Typed
<1>1. CASE UNCHANGED calls
  BY <1>1 DEF Ids
<1>2. ASSUME NEW a \in Agents, Rotate(a)
      PROVE  c \in Ids \/ (calls'[c].session.agent = a /\ Ids' = Ids \cup {c})
  <2>1. PICK k : k = [session |-> Current(a), sent |-> FALSE, waited |-> TRUE,
                      pending |-> FALSE, relayed |-> 0]
    OBVIOUS
  <2>2. k \in Call /\ k.session.agent = a
    BY <2>1 DEF Call, Current
  <2>3. PICK m : m = Len(calls) + 1
    OBVIOUS
  <2>4. Ids' = Ids \cup {m} /\ calls'[m] = k
    BY <1>2, <2>1, <2>2, <2>3, Appended DEF Rotate
  <2> QED BY <2>2, <2>4
<1>3. ASSUME NEW a \in Agents, NEW stays \in BOOLEAN, LinkLost(a, stays) PROVE c \in Ids
  BY <1>3, ForsakenCalls DEF LinkLost, Forsake, Ids
<1>4. ASSUME NEW s \in bridges, BridgeCloses(s) PROVE c \in Ids
  BY <1>4, ForsakenCalls, UnpendedCalls DEF BridgeCloses, Ids
<1>5. ASSUME NEW d \in Ids, Bridge(d) PROVE c \in Ids
  BY <1>5, Sent, RefusedCall, Dropped, RelayedCall, WaitEnds DEF Bridge, Forward, Refuse, Oversize, Upstream, Relay, CallTimeout
<1>6. ASSUME NEW f \in frames, Handle(f) PROVE c \in Ids
  <2>1. CASE UNCHANGED calls
    BY <1>1, <2>1 DEF Ids
  <2>2. CASE Relay(f.call, NextKey(f))
    BY <2>2, RelayedCall DEF Relay
  <2> QED BY <1>6, <2>1, <2>2 DEF Handle, Publish
<1>7. ASSUME NEW r \in answers, Receive(r) PROVE c \in Ids
  BY <1>7, WaitEnds DEF Receive
<1>8. ASSUME \/ \E a \in Agents : Enroll(a) \/ Connect(a)
             \/ \E p \in posts : Redeem(p) \/ Enrolled(p)
             \/ \E f \in frames : Read(f) \/ \E saved \in BOOLEAN : ConsumerDies(f, saved)
             \/ \E n \in Switched : Switch(n)
             \/ \E t \in Tokens : Expire(t)
             \/ UNCHANGED vars
      PROVE  UNCHANGED calls
  BY <1>8 DEF Enroll, Boot, Ask, EnrollFails, Connect, Redeem, Enrolled, Read, ConsumerDies, Switch,
              Expire, vars, gateway
<1> QED BY <1>1, <1>2, <1>3, <1>4, <1>5, <1>6, <1>7, <1>8 DEF Next, App

\* Workers stay with the agent that made them.
LEMMA OwnersKept ==
  ASSUME Typed, WorkersSound, [Next]_vars, NEW a \in Agents, Owner(a)
  PROVE  Owner(a)'
<1> USE Bounds
<1>1. CASE \E p \in posts : Redeem(p) /\ Granted(p)
  BY <1>1, RedeemedRows DEF Owner, Exists
<1>2. CASE ~\E p \in posts : Redeem(p) /\ Granted(p)
  BY <1>2, WorkersKept DEF WorkersSound, RowsKept, Owner
<1> QED BY <1>1, <1>2

LEMMA OwnedNext == ASSUME Typed, WorkersSound, KeysSound, [Next]_vars PROVE Owned'
<1> USE Named
<1>1. Owned /\ Grants
  BY DEF KeysSound
<1>2. ASSUME NEW a \in Agents, Holds(a) PROVE Holds(a)'
  BY <1>2, AgentSteps DEF Holds
<1>3. ASSUME NEW a \in Agents, Holds(a)' \/ GrantedTo(a)' PROVE Owner(a)'
  <2>1. CASE Holds(a) \/ GrantedTo(a)
    BY <1>1, <2>1, OwnersKept DEF Owned
  <2>2. CASE ~Holds(a) /\ ~GrantedTo(a) /\ Holds(a)'
    <3>1. ~\E p \in posts : Enrolled(p) /\ p.agent = a
      BY <2>2 DEF Enrolled, GrantedTo
    <3>2. ~\E r \in answers : Adopting(a, r)
      BY <1>1, <2>2 DEF Adopting, KeyedTo, Owned
    <3> QED BY <2>2, <3>1, <3>2, AgentSteps DEF Holds
  <2>3. CASE ~GrantedTo(a) /\ GrantedTo(a)'
    <3>1. PICK q \in posts : Granting(q) /\ q.agent = a
      BY <1>1, <2>3, PostSteps DEF GrantedTo
    <3> QED BY <3>1, RedeemedRows, KeysType DEF Granting, Owner, Exists
  <2> QED BY <1>3, <2>1, <2>2, <2>3
<1>4. ASSUME NEW a \in Agents, agent'[a].key # NoKey \/ Connected(a)' PROVE Holds(a)'
  BY <1>1, <1>4, AgentSteps DEF Owned, Holds, Connected
<1>5. ASSUME NEW c \in Ids' PROVE Holds(calls[c].session.agent)'
  <2>1. PICK b : b = calls'[c].session.agent
    OBVIOUS
  <2>2. CASE c \in Ids
    BY <1>1, <1>2, <2>1, <2>2, SessionsKept DEF Owned, CallsKept, Holds
  <2>3. CASE b \in Agents /\ Rotate(b)
    BY <1>1, <1>2, <2>1, <2>3 DEF Rotate, Owned, Holds
  <2> QED BY <2>1, <2>2, <2>3, CallSteps
<1> QED BY <1>3, <1>4, <1>5 DEF Owned

LEMMA GrantsNext == ASSUME Typed, WorkersSound, KeysSound, [Next]_vars PROVE Grants'
<1> USE Named
<1>1. Owned /\ Grants
  BY DEF KeysSound
<1> SUFFICES ASSUME NEW p \in posts', p.granted
             PROVE  p.waited /\ ~Holds(p.agent)' /\ KeyOf(p.agent)' = 0
  BY DEF Grants
<1>2. CASE p \in posts
  <2>1. PICK a \in Agents : a = p.agent
    BY <1>2
  <2>2. p.waited /\ ~Holds(a) /\ KeyOf(a) = 0 /\ Owner(a)
    BY <1>1, <1>2, <2>1 DEF Grants, Owned, GrantedTo
  <2>3. ~Holds(a)'
    <3>1. ~\E q \in posts : Enrolled(q) /\ q.agent = a
      <4> SUFFICES ASSUME NEW q \in posts, Enrolled(q), q.agent = a PROVE FALSE
        OBVIOUS
      <4>1. q.granted /\ q.waited
        BY <1>1 DEF Enrolled, Grants
      <4>2. p.granted = TRUE /\ p.waited = TRUE /\ q.granted = TRUE /\ q.waited = TRUE
        BY <1>2, <2>2, <4>1
      <4>4. p \in Post /\ q \in Post /\ p.agent = q.agent
        BY <1>2, <2>1 DEF Typed
      <4>3. q = p
        BY <4>2, <4>4 DEF Post
      <4> QED BY <4>3, <1>1, PostSteps
    <3>2. ~\E r \in answers : Adopting(a, r)
      BY <1>1, <2>2 DEF Adopting, KeyedTo, Owned
    <3> QED BY <2>2, <3>1, <3>2, AgentSteps DEF Holds
  <2>4. KeyOf(a)' = 0
    <3>1. ~\E q \in posts : Granting(q) /\ NameOf[q.agent] = NameOf[a]
      BY <2>2, RedeemedRows DEF Granting, Owner
    <3>2. ~\E f \in frames : f.read # NoKey /\ WorkerOf(f) = NameOf[a]
      <4> SUFFICES ASSUME NEW f \in frames, WorkerOf(f) = NameOf[a] PROVE FALSE
        OBVIOUS
      <4>1. PICK b \in Agents : b = calls[f.call].session.agent
        OBVIOUS
      <4>2. Holds(b) /\ Owner(b) /\ NameOf[b] = NameOf[a]
        BY <1>1, <4>1 DEF Owned, WorkerOf
      <4>3. b = a
        BY <2>2, <4>2 DEF Owner
      <4> QED BY <2>2, <4>2, <4>3
    <3> QED BY <2>2, <3>1, <3>2, GenSteps, Bounds DEF KeyOf
  <2> QED BY <2>1, <2>2, <2>3, <2>4
<1>3. ASSUME NEW q \in posts, Granting(q), q.agent = p.agent, p.waited
      PROVE  p.waited /\ ~Holds(p.agent)' /\ KeyOf(p.agent)' = 0
  <2>1. ~Holds(q.agent)
    BY <1>1, <1>3, RedeemedRows DEF Granting, Owned, Owner
  <2>2. agent' = agent
    BY <1>3 DEF Granting, Redeem
  <2> QED BY <1>3, <2>1, <2>2, RedeemedRows DEF Granting, Holds, KeyOf
<1> QED BY <1>1, <1>2, <1>3, PostSteps

LEMMA WaitsOnce == ASSUME Typed, KeysSound, [Next]_vars PROVE OneWaits'
<1> USE Named
<1>1. OneWaits /\ CallsKept
  BY SessionsKept DEF KeysSound
<1> SUFFICES ASSUME NEW c \in Ids', NEW d \in Ids', calls'[c].waited, calls'[d].waited,
                    calls'[c].session.agent = calls'[d].session.agent
             PROVE  c = d
  BY DEF OneWaits
<1>2. CASE c \in Ids /\ d \in Ids
  BY <1>1, <1>2 DEF OneWaits, CallsKept
<1>3. ASSUME NEW x \in Ids', NEW y \in Ids', x \notin Ids, calls'[y].waited,
             calls'[x].session.agent = calls'[y].session.agent
      PROVE  x = y
  <2>1. PICK a \in Agents : a = calls'[x].session.agent /\ Rotate(a) /\ Ids' = Ids \cup {x}
    BY <1>3, CallSteps
  <2>2. y \notin Ids
    BY <1>1, <1>3, <2>1 DEF Rotate, Waiting, CallsKept
  <2> QED BY <2>1, <2>2
<1> QED BY <1>2, <1>3

LEMMA HeardNext == ASSUME Typed, CallsSound, KeysSound, [Next]_vars PROVE Heard' /\ Single'
<1>1. Heard /\ Single
  BY DEF KeysSound
<1>2. \A r \in answers : r.call \in Ids /\ calls[r.call].relayed # 0 /\ calls'[r.call].relayed # 0
  BY <1>1, SessionsKept, Named DEF Heard, CallsKept
<1>3. CASE answers' \subseteq answers
  BY <1>1, <1>2, <1>3 DEF Heard, Single
<1>4. CASE \E c \in Ids : \E r : Answers(c, r)
  BY <1>1, <1>2, <1>4 DEF Answers, Heard, Single
<1> QED BY <1>3, <1>4, AnswerSteps

\* The keys an agent waits for stay the same, when no answer to it is new or gone and none of
\* its waits ends.
LEMMA KeyedSame ==
  ASSUME Typed, [Next]_vars, NEW a \in Agents,
         \A r \in answers' : \/ r \in answers \/ r.key = NoKey
                            \/ ~calls'[r.call].waited \/ calls'[r.call].session.agent # a,
         \A r \in KeyedTo(a) : r \in answers' /\ calls'[r.call].waited
  PROVE  KeyedTo(a)' = KeyedTo(a)
<1>1. \A r \in answers : /\ r.call \in Ids /\ calls'[r.call].session = calls[r.call].session
                         /\ calls'[r.call].waited => calls[r.call].waited
  BY Named, SessionsKept DEF CallsKept
<1>2. ASSUME NEW r PROVE r \in KeyedTo(a)' <=> r \in KeyedTo(a)
  BY <1>1 DEF KeyedTo, Awaited
<1> QED BY <1>2

LEMMA KeyStays ==
  ASSUME NEW a \in Agents, KeyFor(a),
         Told(a)' => Told(a), KeyOf(a)' = KeyOf(a), agent'[a].vol = agent[a].vol,
         Owner(a)' => Owner(a), GrantedTo(a) => GrantedTo(a)', KeyedTo(a)' = KeyedTo(a)
  PROVE  KeyFor(a)'
<1>1. InStep(a) => InStep(a)'
  BY Zenon DEF InStep
<1> QED BY <1>1, Zenon DEF KeyFor

\* A step that leaves the workers, the waits, the keyed answers and the persisted keys alone.
LEMMA QuietStep ==
  ASSUME Typed, [Next]_vars, KeysSound, NEW a \in Agents,
         UNCHANGED <<worker, fate>>, agent'[a].vol = agent[a].vol,
         GrantedTo(a) => GrantedTo(a)',
         \A r \in answers' : r \in answers \/ r.key = NoKey,
         \A r \in answers : r \in answers' \/ r.key = NoKey,
         \A c \in Ids : calls'[c].waited = calls[c].waited
  PROVE  KeyFor(a)'
<1>1. \A r \in KeyedTo(a) : r \in answers' /\ calls'[r.call].waited
  BY Named DEF KeyedTo, Awaited
<1>2. KeyedTo(a)' = KeyedTo(a)
  BY <1>1, KeyedSame
<1>3. KeyOf(a)' = KeyOf(a) /\ (Owner(a)' <=> Owner(a)) /\ (Told(a)' <=> Told(a))
  BY DEF KeyOf, Owner, Exists, Told
<1> QED BY <1>2, <1>3, KeyStays DEF KeysSound

\* An agent stops waiting: a key on its way to it that is in force is lost.
LEMMA WaitOver ==
  ASSUME Typed, CallsSound, KeysSound, [Next]_vars, NEW s \in Session,
         NEW a \in Agents, Untold(s), UNCHANGED <<worker, posts>>, agent'[a].vol = agent[a].vol,
         answers' \subseteq answers,
         \A r \in answers : calls[r.call].session # s => r \in answers',
         \A c \in Ids : calls'[c].waited <=> (calls[c].waited /\ calls[c].session # s)
  PROVE  KeyFor(a)'
<1> USE Named
<1>1. /\ KeyOf(a)' = KeyOf(a) /\ (Owner(a)' <=> Owner(a)) /\ (GrantedTo(a)' <=> GrantedTo(a))
      /\ Told(a)' => Told(a)
  BY UntoldType, Bounds DEF KeyOf, Owner, Exists, GrantedTo, Told, Typed
<1>2. ASSUME \A r \in KeyedTo(a) : calls[r.call].session # s PROVE KeyFor(a)'
  <2>1. \A r \in KeyedTo(a) : r \in answers' /\ calls'[r.call].waited
    BY <1>2 DEF KeyedTo, Awaited
  <2>2. KeyedTo(a)' = KeyedTo(a)
    BY <2>1, KeyedSame
  <2> QED BY <1>1, <2>2, KeyStays DEF KeysSound
<1>3. ASSUME NEW r \in KeyedTo(a), calls[r.call].session = s PROVE KeyFor(a)'
  <2>1. r \in AnswersTo(s) /\ Awaited(r) /\ s.agent = a
    BY <1>3 DEF KeyedTo, AnswersTo
  <2>2. CASE InStep(a)
    <3>1. fate'[NameOf[a]] = "lost"
      BY <2>1, <2>2, UntoldType DEF InStep, Typed
    <3> QED BY <3>1 DEF KeyFor, Told
  <2>3. CASE ~InStep(a)
    BY <1>1, <2>3 DEF KeysSound, KeyFor
  <2> QED BY <2>2, <2>3
<1> QED BY <1>2, <1>3

\* A saved key is the worker's; others see nothing of it.
LEMMA SavedKey ==
  ASSUME Typed, KeysSound, NEW f \in frames, f.read # NoKey, Save(f), NEW b \in Agents,
         b = calls[f.call].session.agent, NEW told \in BOOLEAN, Issue(f, told)
  PROVE  /\ KeyOf(b)' = NextKey(f) /\ NextKey(f) # NoKey
         /\ told \/ (Told(b)' => Told(b) /\ KeyOf(b)' = KeyOf(b))
         /\ Owner(b)' => Owner(b)
         /\ \A a \in Agents \ {b} : \/ ~Owner(a)'
                                   \/ /\ KeyOf(a)' = KeyOf(a) /\ (Owner(a)' => Owner(a))
                                      /\ Told(a)' => Told(a)
<1>1. Owner(b)
  BY Named DEF KeysSound, Owned
<1>2. WorkerOf(f) = NameOf[b] /\ WorkerOf(f) \in Names
  BY Bounds DEF WorkerOf
<1>3. KeyOf(b)' = NextKey(f) /\ NextKey(f) # NoKey
  BY <1>2, SaveType DEF KeyOf
<1>4. told \/ (Told(b)' => Told(b) /\ KeyOf(b)' = KeyOf(b))
  BY <1>2, <1>3, IssueType DEF Told, KeyOf
<1>5. ASSUME NEW a \in Agents \ {b}
      PROVE  \/ ~Owner(a)'
             \/ KeyOf(a)' = KeyOf(a) /\ (Owner(a)' => Owner(a)) /\ (Told(a)' => Told(a))
  <2>1. CASE NameOf[a] = NameOf[b]
    BY <1>1, <1>2, <2>1, SaveType DEF Owner
  <2>2. CASE NameOf[a] # NameOf[b]
    <3>1. worker'[NameOf[a]] = worker[NameOf[a]] /\ fate'[NameOf[a]] = fate[NameOf[a]]
      BY <1>2, <2>2, SaveType, IssueType, Bounds
    <3> QED BY <3>1 DEF KeyOf, Owner, Exists, Told
  <2> QED BY <2>1, <2>2
<1> QED BY <1>1, <1>3, <1>4, <1>5

\* A saved key is given to its agent, or the agent is not told of it.
LEMMA HandledKey ==
  ASSUME Typed, CallsSound, KeysSound, WorkersSound, [Next]_vars,
         NEW f \in frames, Handle(f), NEW a \in Agents
  PROVE  KeyFor(a)'
<1> USE Named
<1>1. PICK b \in Agents, c \in Ids : c = f.call /\ b = calls[c].session.agent
  OBVIOUS
<1>2. PICK key : key = NextKey(f)
  OBVIOUS
<1>3. PICK told \in BOOLEAN : (told <=> calls[c].pending /\ calls[c].waited) /\ Issue(f, told)
  BY <1>1, CallFields DEF Handle
<1>4. /\ KeyOf(b)' = key /\ key # NoKey
      /\ told \/ (Told(b)' => Told(b) /\ KeyOf(b)' = KeyOf(b))
      /\ Owner(b)' => Owner(b)
      /\ \A x \in Agents \ {b} : \/ ~Owner(x)'
                                \/ /\ KeyOf(x)' = KeyOf(x) /\ (Owner(x)' => Owner(x))
                                   /\ Told(x)' => Told(x)
  BY <1>1, <1>2, <1>3, SavedKey DEF Handle
<1>5. PICK new : new = [call |-> c, key |-> key]
  OBVIOUS
<1>6. /\ answers \subseteq answers' /\ answers' \subseteq answers \cup {new}
      /\ \A d \in Ids : calls'[d].waited = calls[d].waited /\ calls'[d].session = calls[d].session
  <2>1. CASE Relay(c, key)
    BY <1>5, <2>1, RelayedCall DEF Relay, Typed
  <2>2. CASE UNCHANGED <<calls, answers>>
    BY <2>2
  <2> QED BY <1>1, <1>2, <2>1, <2>2 DEF Handle, Publish
<1>7. agent' = agent /\ posts' = posts /\ (GrantedTo(a)' <=> GrantedTo(a))
  BY DEF Handle, GrantedTo
<1>8. ASSUME a # b \/ ~calls[c].waited \/ answers' = answers PROVE KeyedTo(a)' = KeyedTo(a)
  <2>1. \A r \in KeyedTo(a) : r \in answers' /\ calls'[r.call].waited
    BY <1>6 DEF KeyedTo, Awaited
  <2>2. new.call = c /\ calls'[c].session.agent = b /\ calls'[c].waited = calls[c].waited
    BY <1>1, <1>5, <1>6
  <2>3. \A r \in answers' : \/ r \in answers \/ r.key = NoKey
                            \/ ~calls'[r.call].waited \/ calls'[r.call].session.agent # a
    BY <1>6, <1>8, <2>2
  <2> QED BY <2>1, <2>3, KeyedSame
<1>9. CASE a # b
  <2>1. CASE ~Owner(a)'
    BY <2>1 DEF KeyFor
  <2>2. CASE KeyOf(a)' = KeyOf(a) /\ (Owner(a)' => Owner(a)) /\ (Told(a)' => Told(a))
    BY <1>7, <1>8, <1>9, <2>2, KeyStays DEF KeysSound
  <2> QED BY <1>4, <1>9, <2>1, <2>2
<1>10. CASE a = b /\ ~told
  <2>1. CASE ~Told(a)'
    BY <2>1 DEF KeyFor
  <2>2. CASE Told(a)'
    <3>1. Told(a) /\ KeyOf(a)' = KeyOf(a) /\ (Owner(a)' => Owner(a))
      BY <1>4, <1>10, <2>2
    <3>2. ~calls[c].waited \/ answers' = answers
      BY <1>1, <1>3, <1>10 DEF Handle, Publish
    <3> QED BY <1>7, <1>8, <3>1, <3>2, KeyStays DEF KeysSound
  <2> QED BY <2>1, <2>2
<1>11. CASE a = b /\ told
  <2>1. calls[c].pending /\ calls[c].waited
    BY <1>3, <1>11
  <2>2. Live(calls[c].session)
    BY <2>1 DEF CallsSound, Waits
  <2>3. new \in answers' /\ new.call = c /\ new.key = key
    BY <1>1, <1>2, <1>5, <2>1, <2>2 DEF Handle, Publish, Relay, Live
  <2>4. new \in KeyedTo(a)'
    BY <1>1, <1>4, <1>6, <1>11, <2>1, <2>3 DEF KeyedTo, Awaited
  <2>5. ASSUME NEW r \in KeyedTo(a)', r # new PROVE FALSE
    <3>1. r \in answers /\ r.call \in Ids
      BY <1>6, <2>5 DEF KeyedTo
    <3>2. calls[r.call].waited /\ calls[r.call].session.agent = a
      BY <1>6, <2>5, <3>1 DEF KeyedTo, Awaited
    <3>3. r.call = c
      BY <1>1, <1>11, <2>1, <3>1, <3>2 DEF KeysSound, OneWaits
    <3>4. calls[c].relayed # 0 /\ calls[c].relayed = 0
      BY <2>1, <3>1, <3>3 DEF KeysSound, Heard, CallsSound, Answered, Once
    <3> QED BY <3>4
  <2>6. \A r \in KeyedTo(a)' : r.key = KeyOf(a)'
    BY <1>4, <1>11, <2>3, <2>5
  <2> QED BY <2>4, <2>6 DEF KeyFor, InStep
<1> QED BY <1>9, <1>10, <1>11

LEMMA ReceivedKey ==
  ASSUME Typed, KeysSound, [Next]_vars, NEW r \in answers, Receive(r), NEW a \in Agents
  PROVE  KeyFor(a)'
<1> USE Named
<1>1. PICK b \in Agents, c \in Ids : c = r.call /\ b = calls[c].session.agent
  OBVIOUS
<1>2. /\ answers' = answers \ {r} /\ UNCHANGED <<worker, posts, fate>>
      /\ calls' = [calls EXCEPT ![c].waited = FALSE]
  BY <1>1 DEF Receive, history
<1>3. /\ KeyOf(a)' = KeyOf(a) /\ (Owner(a)' <=> Owner(a)) /\ (GrantedTo(a)' <=> GrantedTo(a))
      /\ (Told(a)' <=> Told(a))
  BY <1>2 DEF KeyOf, Owner, Exists, GrantedTo, Told
<1>4. /\ \A d \in Ids : calls'[d].session = calls[d].session
      /\ \A d \in Ids \ {c} : calls'[d] = calls[d]
      /\ calls'[c].waited = FALSE
  BY <1>2, WaitEnds DEF Typed
<1>5. CASE a # b \/ ~calls[c].waited
  <2>1. agent'[a].vol = agent[a].vol
    <3>1. CASE UNCHANGED agent
      BY <3>1
    <3>2. CASE a # b /\ r.key # NoKey /\ agent' = Adopt(b, r.key)
      BY <3>2, KeyAdopted DEF Adopt, Typed
    <3> QED BY <1>1, <1>5, <3>1, <3>2 DEF Receive
  <2>2. \A x \in KeyedTo(a) : x \in answers' /\ calls'[x.call].waited
    <3> SUFFICES ASSUME NEW x \in KeyedTo(a) PROVE x \in answers' /\ calls'[x.call].waited
      OBVIOUS
    <3>1. x \in answers /\ x.call \in Ids /\ calls[x.call].waited /\ calls[x.call].session.agent = a
      BY DEF KeyedTo, Awaited
    <3>2. x.call # c
      BY <1>1, <1>5, <3>1
    <3> QED BY <1>1, <1>2, <1>4, <3>1, <3>2
  <2>3. KeyedTo(a)' = KeyedTo(a)
    BY <1>2, <2>2, KeyedSame
  <2> QED BY <1>3, <2>1, <2>3, KeyStays DEF KeysSound
<1>6. CASE a = b /\ calls[c].waited
  <2>1. \A d \in Ids : calls[d].waited /\ calls[d].session.agent = a => d = c
    BY <1>1, <1>6 DEF KeysSound, OneWaits
  <2>2. KeyedTo(a)' = {}
    <3> SUFFICES ASSUME NEW x \in KeyedTo(a)' PROVE FALSE
      OBVIOUS
    <3>1. x \in answers /\ x.call \in Ids /\ calls'[x.call].waited /\ calls'[x.call].session.agent = a
      BY <1>2 DEF KeyedTo, Awaited
    <3>2. x.call # c
      BY <1>4, <3>1
    <3> QED BY <1>4, <2>1, <3>1, <3>2
  <2>3. CASE r.key # NoKey
    <3>1. r \in KeyedTo(a)
      BY <1>1, <1>6, <2>3 DEF KeyedTo, Awaited
    <3>2. agent'[a].vol = r.key
      <4>1. agent' = Adopt(a, r.key)
        BY <1>1, <1>6, <2>3 DEF Receive
      <4> QED BY <4>1, KeyAdopted DEF Adopt, Typed
    <3>3. InStep(a) => InStep(a)'
      BY <1>3, <2>2, <3>1, <3>2 DEF InStep
    <3> QED BY <1>3, <3>3 DEF KeysSound, KeyFor
  <2>4. CASE r.key = NoKey
    <3>1. KeyedTo(a) = {}
      <4> SUFFICES ASSUME NEW x \in KeyedTo(a) PROVE FALSE
        OBVIOUS
      <4>1. x \in answers /\ x.key # NoKey /\ x.call = c
        BY <2>1 DEF KeyedTo, Awaited
      <4> QED BY <1>1, <2>4, <4>1 DEF KeysSound, Single
    <3>2. UNCHANGED agent
      BY <2>4 DEF Receive
    <3>3. InStep(a) => InStep(a)'
      BY <1>3, <2>2, <3>1, <3>2 DEF InStep
    <3> QED BY <1>3, <3>3 DEF KeysSound, KeyFor
  <2> QED BY <2>3, <2>4
<1> QED BY <1>5, <1>6

LEMMA RedeemedKey ==
  ASSUME Typed, KeysSound, WorkersSound, [Next]_vars, NEW p \in posts, Redeem(p), NEW a \in Agents
  PROVE  KeyFor(a)'
<1> USE Named
<1>1. UNCHANGED <<agent, answers, calls>>
  BY DEF Redeem, gateway
<1>2. KeyedTo(a)' = KeyedTo(a)
  BY <1>1 DEF KeyedTo, Awaited
<1>3. CASE ~Granted(p)
  <2>1. posts' = posts \ {p} /\ ~p.granted /\ UNCHANGED <<worker, fate>>
    BY <1>3 DEF Redeem
  <2>2. GrantedTo(a) => GrantedTo(a)'
    BY <2>1 DEF GrantedTo
  <2> QED BY <1>1, <2>1, <2>2, QuietStep
<1>4. CASE Granted(p) /\ p.agent = a
  <2>1. CASE ~p.waited
    <3>1. fate' = [fate EXCEPT ![NameOf[a]] = "lost"]
      BY <1>4, <2>1 DEF Redeem
    <3>2. ~Told(a)'
      BY <3>1, KeyLost, Bounds DEF Told, Typed
    <3> QED BY <3>2 DEF KeyFor
  <2>2. CASE p.waited
    <3>1. PICK g : g = [p EXCEPT !.granted = TRUE]
      OBVIOUS
    <3>2. g.agent = a /\ g.granted
      BY <1>4, <3>1, PostChange DEF Typed
    <3>3. g \in posts'
      BY <1>4, <2>2, <3>1 DEF Redeem
    <3>4. GrantedTo(a)'
      BY <3>2, <3>3 DEF GrantedTo
    <3> QED BY <3>4 DEF KeyFor
  <2> QED BY <2>1, <2>2
<1>5. CASE Granted(p) /\ p.agent # a
  <2>1. CASE NameOf[a] = NameOf[p.agent]
    <3>1. ~Owner(a)'
      BY <1>5, <2>1, RedeemedRows DEF Owner
    <3> QED BY <3>1 DEF KeyFor
  <2>2. CASE NameOf[a] # NameOf[p.agent]
    <3>1. worker'[NameOf[a]] = worker[NameOf[a]]
      BY <1>5, <2>2, RedeemedRows, Bounds
    <3>5. fate'[NameOf[a]] = fate[NameOf[a]]
      BY <1>5, <2>2, Bounds DEF Redeem, Typed
    <3>2. KeyOf(a)' = KeyOf(a) /\ (Owner(a)' <=> Owner(a)) /\ (Told(a)' <=> Told(a))
      BY <3>1, <3>5 DEF KeyOf, Owner, Exists, Told
    <3>3. \A q \in posts : q # p => q \in posts'
      BY <1>5 DEF Redeem
    <3>4. GrantedTo(a) => GrantedTo(a)'
      BY <1>5, <3>3 DEF GrantedTo
    <3> QED BY <1>1, <1>2, <3>2, <3>4, KeyStays DEF KeysSound
  <2> QED BY <2>1, <2>2
<1> QED BY <1>3, <1>4, <1>5

LEMMA EnrolledKey ==
  ASSUME Typed, KeysSound, [Next]_vars, NEW p \in posts, Enrolled(p), NEW a \in Agents
  PROVE  KeyFor(a)'
<1> USE Named
<1>1. UNCHANGED <<worker, answers, fate, calls>> /\ posts' = posts \ {p} /\ p.granted
  BY DEF Enrolled, gateway, history
<1>2. KeyedTo(a)' = KeyedTo(a)
  BY <1>1 DEF KeyedTo, Awaited
<1>3. CASE p.agent = a
  <2>1. ~Holds(a) /\ KeyOf(a) = 0
    BY <1>1, <1>3 DEF KeysSound, Grants
  <2>2. KeyedTo(a) = {}
    BY <2>1 DEF KeysSound, Owned, KeyedTo
  <2>3. agent'[a].vol = 0
    BY <1>3, KeyAdopted, KeysType DEF Enrolled, Typed
  <2>4. KeyOf(a)' = 0
    BY <1>1, <2>1 DEF KeyOf
  <2> QED BY <1>2, <2>2, <2>3, <2>4 DEF KeyFor, InStep
<1>4. CASE p.agent # a
  <2>1. agent'[a].vol = agent[a].vol
    BY <1>4, KeyAdopted, KeysType DEF Enrolled, Typed
  <2>2. GrantedTo(a) => GrantedTo(a)'
    BY <1>1, <1>4 DEF GrantedTo
  <2> QED BY <1>1, <2>1, <2>2, QuietStep
<1> QED BY <1>3, <1>4

LEMMA KeyNext ==
  ASSUME Typed, CallsSound, WorkersSound, KeysSound, [Next]_vars, NEW a \in Agents
  PROVE  KeyFor(a)'
<1> USE Named
<1>1. ASSUME \/ \E b \in Agents : Boot(b) \/ Ask(b) \/ Connect(b) \/ Rotate(b)
             \/ \E c \in Ids : Forward(c) \/ Refuse(c) \/ Oversize(c) \/ Upstream(c)
             \/ \E f \in frames : Read(f)
             \/ \E t \in Tokens : Expire(t)
             \/ UNCHANGED vars
      PROVE  KeyFor(a)'
  <2>1. UNCHANGED <<worker, fate>> /\ posts \subseteq posts'
    BY <1>1 DEF Boot, Ask, Connect, Rotate, Forward, Refuse, Oversize, Upstream, Read, Expire, vars, history
  <2>2. /\ \A r \in answers' : r \in answers \/ r.key = NoKey
        /\ \A r \in answers : r \in answers'
    <3>1. ASSUME NEW c \in Ids, Upstream(c)
          PROVE  answers \subseteq answers' /\ \A r \in answers' : r \in answers \/ r.key = NoKey
      BY <3>1 DEF Upstream, Relay
    <3>2. ASSUME NEW c \in Ids, Refuse(c)
          PROVE  answers \subseteq answers' /\ \A r \in answers' : r \in answers \/ r.key = NoKey
      BY <3>2 DEF Refuse
    <3>3. ASSUME \/ \E b \in Agents : Boot(b) \/ Ask(b) \/ Connect(b) \/ Rotate(b)
                 \/ \E c \in Ids : Forward(c) \/ Oversize(c)
                 \/ \E f \in frames : Read(f)
                 \/ \E t \in Tokens : Expire(t)
                 \/ UNCHANGED vars
          PROVE  UNCHANGED answers
      BY <3>3 DEF Boot, Ask, Connect, Rotate, Forward, Oversize, Read, Expire, vars, gateway
    <3> QED BY <1>1, <3>1, <3>2, <3>3
  <2>3. agent'[a].vol = agent[a].vol
    <3>1. ASSUME NEW b \in Agents, Boot(b) PROVE agent'[a].vol = agent[a].vol
      BY <3>1, KeyChange DEF Boot, Typed, AgentRow
    <3>2. ASSUME NEW b \in Agents, Connect(b) PROVE agent'[a].vol = agent[a].vol
      BY <3>2, Opened DEF Connect, Typed
    <3>3. ASSUME \/ \E b \in Agents : Ask(b) \/ Rotate(b)
                 \/ \E c \in Ids : Forward(c) \/ Refuse(c) \/ Oversize(c) \/ Upstream(c)
                 \/ \E f \in frames : Read(f)
                 \/ \E t \in Tokens : Expire(t)
                 \/ UNCHANGED vars
          PROVE  UNCHANGED agent
      BY <3>3 DEF Ask, Rotate, Forward, Refuse, Oversize, Upstream, Read, Expire, vars
    <3> QED BY <1>1, <3>1, <3>2, <3>3
  <2>4. GrantedTo(a) => GrantedTo(a)'
    BY <2>1 DEF GrantedTo
  <2>5. \A d \in Ids : calls'[d].waited = calls[d].waited
    <3>1. ASSUME NEW c \in Ids, Forward(c) \/ Refuse(c) \/ Oversize(c) \/ Upstream(c)
          PROVE  \A d \in Ids : calls'[d].waited = calls[d].waited
      BY <3>1, Sent, RefusedCall, Dropped, RelayedCall
         DEF Forward, Refuse, Oversize, Upstream, Relay, Typed
    <3>2. ASSUME NEW b \in Agents, Rotate(b) PROVE \A d \in Ids : calls'[d].waited = calls[d].waited
      <4>1. PICK k : k = [session |-> Current(b), sent |-> FALSE, waited |-> TRUE,
                          pending |-> FALSE, relayed |-> 0]
        OBVIOUS
      <4>2. k \in Call
        BY <4>1 DEF Call
      <4> QED BY <3>2, <4>1, <4>2, Appended DEF Rotate, Typed
    <3>3. ASSUME \/ \E b \in Agents : Boot(b) \/ Ask(b) \/ Connect(b)
                 \/ \E f \in frames : Read(f)
                 \/ \E t \in Tokens : Expire(t)
                 \/ UNCHANGED vars
          PROVE  UNCHANGED calls
      BY <3>3 DEF Boot, Ask, Connect, Read, Expire, vars, gateway
    <3> QED BY <1>1, <3>1, <3>2, <3>3
  <2> QED BY <2>1, <2>2, <2>3, <2>4, <2>5, QuietStep
<1>2. ASSUME NEW b \in Agents, EnrollFails(b) PROVE KeyFor(a)'
  <2>1. UNCHANGED <<worker, agent, answers, calls>>
    BY <1>2 DEF EnrollFails, gateway
  <2>2. KeyedTo(a)' = KeyedTo(a) /\ KeyOf(a)' = KeyOf(a) /\ (Owner(a)' <=> Owner(a))
    BY <2>1 DEF KeyedTo, Awaited, KeyOf, Owner, Exists
  <2>3. CASE \E p \in Unread(b) : p.granted
    <3>1. fate' = [fate EXCEPT ![NameOf[b]] = "lost"]
      BY <1>2, <2>3 DEF EnrollFails
    <3>2. (Told(a)' => Told(a)) /\ ~Told(b)'
      BY <3>1, KeyLost, Bounds DEF Told, Typed
    <3>3. CASE a = b
      BY <3>2, <3>3 DEF KeyFor
    <3>4. CASE a # b
      <4>1. \A p \in posts : p.agent = a /\ p.granted => p \in posts'
        BY <1>2, <3>4 DEF EnrollFails, Unread
      <4>2. GrantedTo(a) => GrantedTo(a)'
        BY <4>1 DEF GrantedTo
      <4> QED BY <2>1, <2>2, <3>2, <4>2, KeyStays DEF KeysSound
    <3> QED BY <3>3, <3>4
  <2>4. CASE ~\E p \in Unread(b) : p.granted
    <3>1. \A p \in posts : p.agent = a /\ p.granted => p \in posts'
      BY <1>2, <2>4 DEF EnrollFails
    <3>2. GrantedTo(a) => GrantedTo(a)'
      BY <3>1 DEF GrantedTo
    <3>3. Told(a)' <=> Told(a)
      BY <1>2, <2>4 DEF EnrollFails, Told
    <3> QED BY <2>1, <2>2, <3>2, <3>3, KeyStays DEF KeysSound
  <2> QED BY <2>3, <2>4
<1>3. ASSUME NEW b \in Agents, NEW stays \in BOOLEAN, LinkLost(b, stays) PROVE KeyFor(a)'
  <2>1. agent'[a].vol = agent[a].vol
    BY <1>3, Closed DEF LinkLost, Typed
  <2>2. \A c \in Ids : calls'[c].waited <=> (calls[c].waited /\ calls[c].session # Current(b))
    BY <1>3, ForsakenCalls DEF LinkLost, Forsake, Typed
  <2>3. /\ answers' \subseteq answers
        /\ \A r \in answers : calls[r.call].session # Current(b) => r \in answers'
    BY <1>3 DEF LinkLost, Forsake, AnswersTo
  <2> QED BY <1>3, <2>1, <2>2, <2>3, WaitOver DEF LinkLost, Forsake
<1>4. ASSUME NEW s \in bridges, BridgeCloses(s) PROVE KeyFor(a)'
  <2>1. agent'[a].vol = agent[a].vol
    BY <1>4, Closed DEF BridgeCloses, Typed
  <2>2. CASE Connected(s.agent) /\ Current(s.agent) = s
    <3>1. \A c \in Ids : calls'[c].waited <=> (calls[c].waited /\ calls[c].session # s)
      <4>1. Forsaken(s) \in Seq(Call) /\ DOMAIN Forsaken(s) = Ids
        BY ForsakenCalls DEF Typed
      <4>2. calls' = Unpended(s, Forsaken(s))
        BY <1>4, <2>2 DEF BridgeCloses
      <4>3. \A c \in Ids : calls'[c].waited = Forsaken(s)[c].waited
        BY <4>1, <4>2, UnpendedCalls
      <4> QED BY <4>3, ForsakenCalls DEF Typed
    <3>2. /\ answers' \subseteq answers
          /\ \A r \in answers : calls[r.call].session # s => r \in answers'
      BY <1>4, <2>2 DEF BridgeCloses, AnswersTo
    <3>3. Untold(s) /\ UNCHANGED <<worker, posts>> /\ s \in Session
      BY <1>4, <2>2 DEF BridgeCloses, Typed
    <3> QED BY <2>1, <3>1, <3>2, <3>3, WaitOver
  <2>3. CASE ~(Connected(s.agent) /\ Current(s.agent) = s)
    <3>1. UNCHANGED <<answers, fate, worker, posts>> /\ calls' = Unpended(s, calls)
      BY <1>4, <2>3 DEF BridgeCloses
    <3>2. GrantedTo(a) => GrantedTo(a)'
      BY <3>1 DEF GrantedTo
    <3>3. \A c \in Ids : calls'[c].waited = calls[c].waited
      BY <3>1, UnpendedCalls DEF Typed, Ids
    <3> QED BY <2>1, <3>1, <3>2, <3>3, QuietStep
  <2> QED BY <2>2, <2>3
<1>5. ASSUME NEW f \in frames, NEW saved \in BOOLEAN, ConsumerDies(f, saved) PROVE KeyFor(a)'
  <2>1. PICK b \in Agents : b = calls[f.call].session.agent
    OBVIOUS
  <2>2. UNCHANGED <<agent, posts, answers, calls>>
    BY <1>5 DEF ConsumerDies
  <2>3. KeyedTo(a)' = KeyedTo(a) /\ (GrantedTo(a)' <=> GrantedTo(a))
    BY <2>2 DEF KeyedTo, Awaited, GrantedTo
  <2>4. CASE ~saved
    <3>1. KeyOf(a)' = KeyOf(a) /\ (Owner(a)' <=> Owner(a)) /\ (Told(a)' <=> Told(a))
      BY <1>5, <2>4 DEF ConsumerDies, KeyOf, Owner, Exists, Told, history
    <3> QED BY <2>2, <2>3, <3>1, KeyStays DEF KeysSound
  <2>5. CASE saved
    <3>1. f.read # NoKey /\ Save(f) /\ Issue(f, FALSE) /\ FALSE \in BOOLEAN
      BY <1>5, <2>5 DEF ConsumerDies
    <3>2. /\ Told(b)' => Told(b) /\ KeyOf(b)' = KeyOf(b)
          /\ Owner(b)' => Owner(b)
          /\ \A x \in Agents \ {b} : \/ ~Owner(x)'
                                    \/ /\ KeyOf(x)' = KeyOf(x) /\ (Owner(x)' => Owner(x))
                                       /\ Told(x)' => Told(x)
      BY <2>1, <3>1, SavedKey
    <3>3. CASE ~Owner(a)' \/ ~Told(a)'
      BY <3>3 DEF KeyFor
    <3>4. CASE KeyOf(a)' = KeyOf(a) /\ (Owner(a)' => Owner(a)) /\ (Told(a)' => Told(a))
      BY <2>2, <2>3, <3>4, KeyStays DEF KeysSound
    <3> QED BY <3>2, <3>3, <3>4
  <2> QED BY <2>4, <2>5
<1>6. ASSUME NEW n \in Switched, Switch(n) PROVE KeyFor(a)'
  <2>1. UNCHANGED <<agent, posts, answers, calls, fate>>
    BY <1>6 DEF Switch, gateway, history
  <2>2. KeyedTo(a)' = KeyedTo(a) /\ (GrantedTo(a)' <=> GrantedTo(a)) /\ (Told(a)' <=> Told(a))
    BY <2>1 DEF KeyedTo, Awaited, GrantedTo, Told
  <2>3. /\ worker'[NameOf[a]].gen = worker[NameOf[a]].gen
        /\ worker'[NameOf[a]].agent = worker[NameOf[a]].agent
    BY <1>6, SwitchedRow, Bounds DEF Switch, Typed
  <2>4. KeyOf(a)' = KeyOf(a) /\ (Owner(a)' <=> Owner(a))
    BY <2>3 DEF KeyOf, Owner, Exists
  <2> QED BY <2>1, <2>2, <2>4, KeyStays DEF KeysSound
<1>7. ASSUME NEW c \in Ids, CallTimeout(c) PROVE KeyFor(a)'
  <2>1. /\ calls[c].waited /\ UNCHANGED <<worker, posts, agent, answers>>
        /\ Untold(calls[c].session) /\ calls' = [calls EXCEPT ![c].waited = FALSE]
    BY <1>7 DEF CallTimeout
  <2>2. \A d \in Ids : calls'[d].waited <=> (calls[d].waited /\ calls[d].session # calls[c].session)
    <3>1. ASSUME NEW d \in Ids, d # c
          PROVE  calls'[d] = calls[d] /\ (calls[d].waited => calls[d].session # calls[c].session)
      BY <2>1, <3>1, WaitEnds DEF Typed, KeysSound, OneWaits
    <3>2. calls'[c].waited = FALSE
      BY <2>1, WaitEnds DEF Typed
    <3> QED BY <3>1, <3>2
  <2> QED BY <2>1, <2>2, WaitOver
<1> QED
  BY <1>1, <1>2, <1>3, <1>4, <1>5, <1>6, <1>7, HandledKey, ReceivedKey, RedeemedKey, EnrolledKey
     DEF Next, Enroll, Bridge, App

\* For any number of agents, consumers, rotations, crashes and reconnects, an agent's persisted key
\* is the one in force or that one is on its way to it, unless the reply that carried it was lost
\* or another consumer rotated once more for a call that was answered.
THEOREM KeysKept == Spec => []KeyKept
<1>1. Init => Typed /\ CallsSound /\ WorkersSound /\ KeysSound
  <2>1. Init => Typed /\ CallsSound
    BY TypedInit
  <2>2. Init => WorkersSound
    BY DEF Init, WorkersSound, Existing, Spent, OneEach, Exists, NoWorker
  <2>3. ASSUME Init PROVE KeysSound
    <3>1. Ids = {} /\ answers = {} /\ posts = {}
      BY <2>3 DEF Init, Ids
    <3>2. \A a \in Agents : ~Holds(a) /\ agent[a].key = NoKey /\ ~Connected(a) /\ ~GrantedTo(a)
      BY <2>3, <3>1 DEF Init, Holds, Connected, GrantedTo
    <3>3. \A a \in Agents : ~Owner(a)
      BY <2>3, Bounds DEF Init, Owner, Exists, NoWorker
    <3> QED BY <3>1, <3>2, <3>3 DEF KeysSound, Owned, Grants, OneWaits, Heard, Single, KeyFor
  <2> QED BY <2>1, <2>2, <2>3
<1>2. Typed /\ CallsSound /\ WorkersSound /\ KeysSound /\ [Next]_vars
        => (Typed /\ CallsSound /\ WorkersSound /\ KeysSound)'
  <2> SUFFICES ASSUME Typed, CallsSound, WorkersSound, KeysSound, [Next]_vars
               PROVE  (Typed /\ CallsSound /\ WorkersSound /\ KeysSound)'
    OBVIOUS
  <2>1. KeysSound'
    BY OwnedNext, GrantsNext, WaitsOnce, HeardNext, KeyNext DEF KeysSound
  <2> QED BY <2>1, TypedNext, CallsNext, WorkersNext
<1>3. KeysSound /\ Typed => KeyKept
  <2> SUFFICES ASSUME KeysSound, Typed, NEW a \in Agents, fate[NameOf[a]] \notin {"lost", "again"},
                      Owner(a), ~OnTheWay(a)
               PROVE  agent[a].vol = KeyOf(a)
    BY DEF KeyKept
  <2>1. Told(a) /\ ~GrantedTo(a)
    BY Bounds DEF OnTheWay, Typed, Fates, Told
  <2>2. InStep(a)
    BY <2>1 DEF KeysSound, KeyFor
  <2>3. KeyedTo(a) = {}
    BY <2>2 DEF OnTheWay, KeyedTo, InStep
  <2> QED BY <2>2, <2>3 DEF InStep
<1> QED BY <1>1, <1>2, <1>3, PTL DEF Spec

-----------------------------------------------------------------------------
(* With one consumer nobody rotates again for a call that was answered.             *)

\* A call has one frame to a consumer, once it is sent, and none is left of a call whose agent
\* was told of a key.
Solo == /\ \A f \in frames : calls[f.call].sent /\ f.call \notin served
        /\ \A c \in served : calls[c].sent
        /\ \A f, g \in frames : f.call = g.call /\ f.consumer = g.consumer => f = g
NeverAgain == \A n \in Names : fate[n] # "again"

\* Frames are only dropped, and a step that is no consumer's issues no key.
NoFrame == /\ frames' \subseteq frames /\ UNCHANGED served
           /\ \A n \in Names : fate'[n] \in {fate[n], "told", "lost"}
Drops(f) == /\ frames' = frames \ {f} /\ served' \subseteq served \cup {f.call}
            /\ \/ UNCHANGED fate
               \/ \E told \in BOOLEAN : Issue(f, told)

LEMMA FrameSteps ==
  ASSUME Typed, [Next]_vars
  PROVE  \/ NoFrame
         \/ (\E c \in Ids : Forward(c)) \/ (\E f \in frames : Read(f))
         \/ \E f \in frames : Drops(f)
<1> USE Named DEF Typed
<1>1. ASSUME NEW s \in Session, Untold(s), UNCHANGED <<frames, served>> PROVE NoFrame
  BY <1>1, Bounds DEF Untold, NoFrame
<1>2. ASSUME NEW a \in Agents, NEW stays \in BOOLEAN, LinkLost(a, stays) PROVE NoFrame
  BY <1>1, <1>2 DEF LinkLost, Forsake
<1>3. ASSUME NEW s \in bridges, BridgeCloses(s) PROVE NoFrame
  <2>1. UNCHANGED <<frames, served>> /\ (Untold(s) \/ UNCHANGED fate)
    BY <1>3 DEF BridgeCloses
  <2> QED BY <1>1, <2>1 DEF NoFrame
<1>4. ASSUME NEW c \in Ids, CallTimeout(c) PROVE NoFrame
  BY <1>1, <1>4 DEF CallTimeout
<1>5. ASSUME NEW a \in Agents, EnrollFails(a) PROVE NoFrame
  BY <1>5, Bounds DEF EnrollFails, gateway, NoFrame
<1>6. ASSUME NEW p \in posts, Redeem(p) PROVE NoFrame
  BY <1>6, Bounds DEF Redeem, gateway, NoFrame
<1>7. ASSUME NEW f \in frames, Handle(f) PROVE Drops(f)
  <2>1. PICK told \in BOOLEAN : Issue(f, told)
    BY <1>7, CallFields DEF Handle
  <2> QED BY <1>7, <2>1 DEF Handle, Drops, Issue
<1>8. ASSUME NEW f \in frames, NEW saved \in BOOLEAN, ConsumerDies(f, saved) PROVE Drops(f)
  <2>1. CASE saved
    <3>1. frames' = frames \ {f} /\ Issue(f, FALSE)
      BY <1>8, <2>1 DEF ConsumerDies
    <3> QED BY <3>1 DEF Drops, Issue
  <2>2. CASE ~saved
    BY <1>8, <2>2 DEF ConsumerDies, history, Drops
  <2> QED BY <2>1, <2>2
<1>9. ASSUME \/ \E a \in Agents : Boot(a) \/ Ask(a) \/ Connect(a) \/ Rotate(a)
             \/ \E p \in posts : Enrolled(p)
             \/ \E c \in Ids : Refuse(c) \/ Oversize(c) \/ Upstream(c)
             \/ \E r \in answers : Receive(r)
             \/ \E n \in Switched : Switch(n)
             \/ \E t \in Tokens : Expire(t)
             \/ UNCHANGED vars
      PROVE  NoFrame
  <2>1. UNCHANGED <<frames, fate, served>>
    BY <1>9 DEF Boot, Ask, Connect, Rotate, Enrolled, Refuse, Oversize, Upstream, Receive, Switch, Expire,
                vars, gateway, history
  <2> QED BY <2>1 DEF NoFrame
<1> QED
  BY <1>2, <1>3, <1>4, <1>5, <1>6, <1>7, <1>8, <1>9 DEF Next, Enroll, Bridge, App

LEMMA SoloNext ==
  ASSUME NEW k, Consumers = {k}, Typed, [Next]_vars, Solo, NeverAgain
  PROVE  Solo' /\ NeverAgain'
<1> USE Named
<1>1. \A c \in Ids : calls[c].sent => calls'[c].sent
  BY SessionsKept DEF CallsKept
<1>2. \A c \in served : c \in Ids
  BY DEF Typed
<1>3. CASE NoFrame
  <2>1. Solo'
    BY <1>1, <1>2, <1>3 DEF NoFrame, Solo
  <2> QED BY <1>3, <2>1 DEF NoFrame, NeverAgain
<1>4. ASSUME NEW c \in Ids, Forward(c) PROVE Solo' /\ NeverAgain'
  <2>1. PICK new : new = [call |-> c, consumer |-> k, read |-> NoKey]
    OBVIOUS
  <2>2. new.call = c /\ frames' = frames \cup {new} /\ UNCHANGED <<fate, served>> /\ ~calls[c].sent
    BY <1>4, <2>1 DEF Forward, history
  <2>3. calls'[c].sent
    BY <1>4, Sent DEF Forward, Typed
  <2>4. Solo'
    BY <1>1, <1>2, <2>2, <2>3 DEF Solo
  <2> QED BY <2>2, <2>4 DEF NeverAgain
<1>5. ASSUME NEW f \in frames, Read(f) PROVE Solo' /\ NeverAgain'
  <2>1. PICK new : new = [f EXCEPT !.read = worker[WorkerOf(f)].gen]
    OBVIOUS
  <2>2. new.call = f.call /\ new.consumer = f.consumer
    BY <2>1 DEF Typed, Frame
  <2>3. frames' = (frames \ {f}) \cup {new} /\ UNCHANGED <<calls, fate, served>>
    BY <1>5, <2>1 DEF Read, history
  <2>4. Solo'
    BY <2>2, <2>3 DEF Solo
  <2> QED BY <2>3, <2>4 DEF NeverAgain
<1>6. ASSUME NEW f \in frames, Drops(f) PROVE Solo' /\ NeverAgain'
  <2>1. frames' = frames \ {f} /\ served' \subseteq served \cup {f.call} /\ f.call \notin served
    BY <1>6 DEF Drops, Solo
  <2>2. \A g \in frames' : g \in frames /\ g.call # f.call
    BY <2>1 DEF Solo
  <2>3. Solo'
    BY <1>1, <1>2, <2>1, <2>2 DEF Solo
  <2>4. NeverAgain'
    <3>1. CASE UNCHANGED fate
      BY <3>1 DEF NeverAgain
    <3>2. ASSUME NEW told \in BOOLEAN, Issue(f, told) PROVE NeverAgain'
      BY <2>1, <3>2, Bounds DEF Issue, Typed, NeverAgain
    <3> QED BY <1>6, <3>1, <3>2 DEF Drops
  <2> QED BY <2>3, <2>4
<1> QED BY <1>3, <1>4, <1>5, <1>6, FrameSteps

\* Where one process answers the calls, a key is lost by a lost reply or not at all: the second
\* exception of KeyKept needs a second consumer (handle_worker_rotate, RPCBridgeConsumer.run).
THEOREM OneConsumer == ASSUME NEW k, Consumers = {k} PROVE Spec => []NeverAgain
<1>1. Init => Typed /\ Solo /\ NeverAgain
  <2>1. Init => Typed
    BY TypedInit
  <2>2. Init => Solo /\ NeverAgain
    BY DEF Init, Solo, NeverAgain
  <2> QED BY <2>1, <2>2
<1>2. Typed /\ Solo /\ NeverAgain /\ [Next]_vars => (Typed /\ Solo /\ NeverAgain)'
  BY TypedNext, SoloNext
<1> QED BY <1>1, <1>2, PTL DEF Spec
=============================================================================
