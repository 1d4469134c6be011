----------------------------- MODULE Placement -----------------------------
(***************************************************************************)
(* Where a submission is queued and who is told of it: submit_run with     *)
(* zone resolution and failover, a worker's presence, the job.available    *)
(* nudge and the agent's claim loop.                                       *)
(*                                                                         *)
(* A run is known by its submission and the devices it is for.  CLAIMED    *)
(* stands for RUNNING too and ended for every way a worker ends a run:     *)
(* Dispatch has those, and singletons; FanOut has the parents of fan-outs. *)
(***************************************************************************)
EXTENDS Integers, Sequences, FiniteSets

CONSTANTS
  Zones, Workers, Submissions, Devices,
  Unplaced,  \* no zone
  Rank,      \* the order of zones by priority, then name
  Enabled,   \* the enabled zones
  Policy,    \* failover_policy of a zone
  Targets,   \* its failover zones, in order
  Rules,     \* the ZoneMembershipRules of a zone
  Attributes, \* of a device: what the rules look at
  ZoneOf, Capacity,
  CanRun,    \* the submissions whose capabilities a worker has
  Definition, \* of a submission: zone policy, default zone, zone-local, devices
  Attempts,  \* retry_max + 1
  MaxSubmissions, \* bound: how many of them are submitted
  MaxFaults  \* bound: lost connections, publications and claims, and drains

NoRun == [sub |-> Unplaced, part |-> {}]

\* group: none or one.  ZoneMembershipRule.clean refuses a rule without criteria only when
\* it is edited: criteria are added after the rule.
Criteria == {"location", "role", "prefix", "group"}
IsRule(r) == DOMAIN r = Criteria \cup {"descendants"} /\ r.descendants \in BOOLEAN
\* Its location and the ones above it; the prefixes its primary address is in.
IsDevice(x) == DOMAIN x = Criteria \cup {"above"} /\ \A c \in {"location", "role"} : Cardinality(x[c]) <= 1

ASSUME PlacementAssumption ==
  /\ Rank \in [Zones -> Nat] /\ \A x, y \in Zones : Rank[x] = Rank[y] => x = y
  /\ Unplaced \notin Zones \cup Submissions /\ Enabled \subseteq Zones
  /\ IsFiniteSet(Submissions) /\ IsFiniteSet(Devices)
  /\ Policy \in [Zones -> {"none", "wait", "failover"}] /\ Targets \in [Zones -> Seq(Zones)]
  /\ DOMAIN Rules = Zones /\ \A z \in Zones : \A r \in Rules[z] : IsRule(r)
  /\ DOMAIN Attributes = Devices /\ \A d \in Devices : IsDevice(Attributes[d])
  /\ ZoneOf \in [Workers -> Zones] /\ Capacity \in [Workers -> Nat]
  /\ CanRun \in [Workers -> SUBSET Submissions]
  /\ Attempts \in Nat \ {0} /\ {MaxSubmissions, MaxFaults} \subseteq Nat
  /\ Definition \in [Submissions -> [policy: {"pinned", "any", "per_device", "fan_out"},
                       home: Zones \cup {Unplaced}, local: BOOLEAN, devices: SUBSET Devices]]

VARIABLES
  run,    \* the RemoteJobRun rows
  row,    \* a Worker row: draining, last_seen within worker_ttl_seconds
  agent,  \* its agent; wanted: the claim loop's event
  claim,  \* the agent's job.claim, and the transaction that serves it
  reaped, \* the runs the reaper is abandoning
  faults

vars == <<run, row, agent, claim, reaped, faults>>

-----------------------------------------------------------------------------
Ids == [sub: Submissions, part: SUBSET Devices]
RunRow == [state: {"PENDING", "CLAIMED", "ended", "ABANDONED", "FAILED_DISPATCH"},
           zone: Zones \cup {Unplaced}, worker: SUBSET Workers, attempt: 1..Attempts]
Idle == [phase |-> "idle", left |-> 0, got |-> {}, locks |-> {}, pick |-> NoRun, heard |-> TRUE]

Queued(z) == [state |-> "PENDING", zone |-> z, worker |-> {}, attempt |-> 1]
Refused == [state |-> "FAILED_DISPATCH", zone |-> Unplaced, worker |-> {}, attempt |-> 1]

Runs == DOMAIN run
Pending == {r \in Runs : run[r].state = "PENDING"}
Held(w) == {r \in Runs : run[r].state = "CLAIMED" /\ w \in run[r].worker}
Locked == reaped \cup UNION {claim[w].locks : w \in Workers}
AtLeast0(n) == IF n < 0 THEN 0 ELSE n
Lesser(m, n) == IF m < n THEN m ELSE n

\* Rows are locked by one transaction at a time, and a claim that is being granted is of a
\* row it locked: it is PENDING until the commit.
TypeOK ==
  /\ Runs \subseteq Ids /\ \A r \in Runs : run[r] \in RunRow
  /\ row \in [Workers -> [draining: BOOLEAN, fresh: BOOLEAN]]
  /\ agent \in [Workers -> [connected: BOOLEAN, wanted: BOOLEAN, draining: BOOLEAN,
                            runs: SUBSET Runs, missed: BOOLEAN]]
  /\ claim \in [Workers -> [phase: {"idle", "sent", "between", "scan", "draining"},
                            left: Nat, got: SUBSET Runs, locks: SUBSET Runs,
                            pick: Runs \cup {NoRun}, heard: BOOLEAN]]
  /\ reaped \subseteq Runs /\ faults \in 0..MaxFaults
  /\ \A w \in Workers :
       /\ claim[w].locks \subseteq Pending \ reaped
       /\ claim[w].pick \in claim[w].locks \cup {NoRun}
       /\ \A v \in Workers \ {w} : claim[v].locks \cap claim[w].locks = {}

Init ==
  /\ run = [r \in {} |-> Refused]
  /\ row = [w \in Workers |-> [draining |-> FALSE, fresh |-> FALSE]]
  /\ agent = [w \in Workers |-> [connected |-> FALSE, wanted |-> FALSE, draining |-> FALSE,
                                 runs |-> {}, missed |-> FALSE]]
  /\ claim = [w \in Workers |-> Idle]
  /\ reaped = {} /\ faults = 0

Fault == faults < MaxFaults /\ faults' = faults + 1

-----------------------------------------------------------------------------
(* Submission. *)

FreeCapacity(w) == AtLeast0(Capacity[w] - Cardinality(Held(w)))
Online(w) == row[w].fresh /\ ~row[w].draining
HasCapacity(z, s) ==
  \E w \in Workers : ZoneOf[w] = z /\ Online(w) /\ s \in CanRun[w] /\ FreeCapacity(w) > 0

First(zs) == CHOOSE z \in zs : \A y \in zs : Rank[z] <= Rank[y]

CheapestZone(s) ==
  LET able == {z \in Enabled : HasCapacity(z, s)}
      home == Definition[s].home
  IN IF able # {} THEN First(able) ELSE IF home # Unplaced /\ Policy[home] = "wait"
                                   THEN home ELSE Unplaced

FailoverZone(z, s) ==
  LET able == {i \in DOMAIN Targets[z] : Targets[z][i] \in Enabled /\ HasCapacity(Targets[z][i], s)}
  IN IF able = {} THEN z ELSE Targets[z][CHOOSE i \in able : \A j \in able : i <= j]

\* A definition that must run in its zone follows the failover policy all the same.
ApplyFailover_IgnoresLocal(z, s) ==
  IF HasCapacity(z, s) \/ Policy[z] = "wait" THEN z
  ELSE IF Policy[z] = "none" THEN Unplaced
  ELSE FailoverZone(z, s)

ApplyFailover(z, s) ==
  IF HasCapacity(z, s) \/ Policy[z] = "wait" THEN z
  ELSE IF Policy[z] = "none" \/ Definition[s].local THEN Unplaced
  ELSE FailoverZone(z, s)

PlaceOf(s) ==
  LET z == IF Definition[s].policy = "pinned" THEN Definition[s].home ELSE CheapestZone(s)
  IN IF z = Unplaced THEN z ELSE ApplyFailover(z, s)

\* Every criterion the rule has, and it has one.
MatchesDevice(r, x) ==
  LET has == [x EXCEPT !.location = IF r.descendants THEN @ \cup x.above ELSE @] IN
  /\ \E c \in Criteria : r[c] # {}
  /\ \A c \in Criteria : r[c] # {} => r[c] \cap has[c] # {}

\* matching_zones
Covering(d) == {z \in Enabled : \E r \in Rules[z] : MatchesDevice(r, Attributes[d])}
ResolveZone(d) == First(Covering(d))

Spread(s) == Definition[s].policy \in {"per_device", "fan_out"}
\* A device grouped with every zone that matches it.
Parts_AllMatches(s) ==
  LET ds == Definition[s].devices
  IN IF Definition[s].policy = "per_device" THEN {{d} : d \in ds}
     ELSE {{d \in ds : z \in Covering(d)} : z \in UNION {Covering(d) : d \in ds}}
\* The devices of each child.  Nothing but the devices' zone places it.
Parts(s) ==
  LET ds == Definition[s].devices
  IN IF Definition[s].policy = "per_device" THEN {{d} : d \in ds}
     ELSE {{d \in ds : ResolveZone(d) = z} : z \in {ResolveZone(d) : d \in ds}}
Covered(s) == Definition[s].devices # {} /\ \A d \in Definition[s].devices : Covering(d) # {}

NewRuns(s) ==
  IF Spread(s) /\ Covered(s)
    THEN [r \in {[sub |-> s, part |-> p] : p \in Parts(s)} |->
            Queued(ResolveZone(CHOOSE d \in r.part : TRUE))]
    ELSE [r \in {[sub |-> s, part |-> {}]} |->
            IF Spread(s) \/ PlaceOf(s) = Unplaced THEN Refused ELSE Queued(PlaceOf(s))]

\* job.available goes to whoever is subscribed.  A publication that fails is logged.
Nudged(zones, told) == [w \in Workers |->
  IF agent[w].connected /\ ZoneOf[w] \in zones
    THEN [agent[w] EXCEPT !.wanted = @ \/ told, !.missed = @ \/ ~told]
    ELSE agent[w]]

Submit(s, told) ==
  /\ \A r \in Runs : r.sub # s
  /\ Cardinality({r.sub : r \in Runs}) < MaxSubmissions
  /\ IF told THEN UNCHANGED faults ELSE Fault
  /\ LET new == NewRuns(s) IN
     /\ run' = [r \in Runs \cup DOMAIN new |-> IF r \in Runs THEN run[r] ELSE new[r]]
     /\ agent' = Nudged({new[r].zone : r \in DOMAIN new}, told)
  /\ UNCHANGED <<row, claim, reaped>>

-----------------------------------------------------------------------------
(* Presence. *)

Abandoned(r) == IF run[r].attempt < Attempts
  THEN [run[r] EXCEPT !.state = "PENDING", !.worker = {}, !.attempt = @ + 1]
  ELSE [run[r] EXCEPT !.state = "ABANDONED"]
Requeued(rs) == {r \in rs : run[r].attempt < Attempts}

\* Handshake, and worker.hello as its handler does it: what the agent does not know is
\* abandoned, row by row and at once; and the agent wants work.
Connect(w) ==
  /\ ~agent[w].connected
  /\ LET stale == (Held(w) \ agent[w].runs) \ reaped IN
     /\ run' = [r \in Runs |-> IF r \in stale THEN Abandoned(r) ELSE run[r]]
     /\ agent' = [Nudged({run[r].zone : r \in Requeued(stale)}, TRUE) EXCEPT
                    ![w].connected = TRUE, ![w].wanted = TRUE,
                    ![w].draining = @ \/ row[w].draining]
  /\ row' = [row EXCEPT ![w].fresh = TRUE]
  /\ UNCHANGED <<claim, reaped, faults>>

\* The agent's journal keeps its runs, also when the process is started anew.
Disconnect(w, restarted) ==
  /\ agent[w].connected /\ Fault
  /\ agent' = [agent EXCEPT ![w].connected = FALSE, ![w].wanted = FALSE,
                            ![w].draining = @ /\ ~restarted]
  /\ claim' = [claim EXCEPT ![w].heard = claim[w].phase = "idle"]
  /\ UNCHANGED <<run, row, reaped>>

\* No call that touches the row for worker_ttl_seconds: a connected agent makes one
\* only while it has runs to report on, or something to claim or to complete; a claim that
\* is granted nothing touches nothing.
GoesStale(w) ==
  /\ row[w].fresh
  /\ agent[w].connected => /\ agent[w].runs = {} /\ ~agent[w].wanted
                            /\ claim[w].phase = "idle"
  /\ row' = [row EXCEPT ![w].fresh = FALSE]
  /\ UNCHANGED <<run, agent, claim, reaped, faults>>

Drain(w) ==
  /\ ~row[w].draining /\ Fault
  /\ row' = [row EXCEPT ![w].draining = TRUE]
  /\ \E told \in {agent[w].connected, FALSE} :
       agent' = [agent EXCEPT ![w].draining = @ \/ told]
  /\ UNCHANGED <<run, claim, reaped>>

Undrain(w) ==  \* the row is edited; nobody tells the agent
  /\ row[w].draining
  /\ row' = [row EXCEPT ![w].draining = FALSE]
  /\ UNCHANGED <<run, agent, claim, reaped, faults>>

-----------------------------------------------------------------------------
(* The claim loop. *)

Room(w) == AtLeast0(Capacity[w] - Cardinality(agent[w].runs))

\* One claim at a time; what is wanted meanwhile is remembered.  (A claim that was given up
\* is through at the server before the next one: two at once are in Dispatch.)
SendClaim(w) ==
  /\ agent[w].connected /\ agent[w].wanted /\ claim[w].phase = "idle"
  /\ agent' = [agent EXCEPT ![w].wanted = FALSE, ![w].missed = FALSE]
  /\ claim' = IF agent[w].draining \/ Room(w) = 0 THEN claim
              ELSE [claim EXCEPT ![w].phase = "sent", ![w].left = Room(w), ![w].heard = TRUE]
  /\ UNCHANGED <<run, row, reaped, faults>>

\* handle_job_claim and the head of claim_runs.  A run whose offer was lost still counts.
Serve(w) ==
  /\ claim[w].phase = "sent"
  /\ claim' = [claim EXCEPT ![w].phase = IF row[w].draining THEN "draining" ELSE "between",
                            ![w].left = Lesser(@, FreeCapacity(w))]
  /\ agent' = [agent EXCEPT ![w].missed = @ \/ FreeCapacity(w) < claim[w].left]
  /\ UNCHANGED <<run, row, reaped, faults>>

InZone(w) == {r \in Runs : run[r].zone = ZoneOf[w] /\ r.sub \in CanRun[w]}
\* Without SKIP LOCKED, nor waiting.
Seen_AnyRow(w) == {r \in Pending : run[r].zone = ZoneOf[w]}

Seen(w) == {r \in Pending \ Locked : run[r].zone = ZoneOf[w]}
Suitable(w) == Seen(w) \cap InZone(w)
\* What another transaction has locked, or is about to queue, is not seen.
Unseen(w) == InZone(w) \cap (Requeued(reaped) \cup (Pending \cap Locked))

\* The query locks every row it returns, those passed over too.
Scan(w) ==
  /\ claim[w].phase = "between" /\ claim[w].left > 0
  /\ \E r \in IF Suitable(w) = {} THEN {NoRun} ELSE Suitable(w) :
       claim' = [claim EXCEPT ![w].phase = "scan", ![w].locks = Seen(w), ![w].pick = r]
  /\ agent' = [agent EXCEPT ![w].missed = @ \/ (Suitable(w) = {} /\ Unseen(w) # {})]
  /\ UNCHANGED <<run, row, reaped, faults>>

Grant(w) ==
  /\ claim[w].phase = "scan" /\ claim[w].pick # NoRun
  /\ run' = [run EXCEPT ![claim[w].pick].state = "CLAIMED", ![claim[w].pick].worker = {w}]
  /\ row' = [row EXCEPT ![w].fresh = TRUE]
  /\ claim' = [claim EXCEPT ![w].phase = "between", ![w].left = @ - 1, ![w].locks = {},
                            ![w].got = @ \cup {claim[w].pick}, ![w].pick = NoRun]
  /\ UNCHANGED <<agent, reaped, faults>>

GrantNone(w) ==
  /\ claim[w].phase = "scan" /\ claim[w].pick = NoRun
  /\ claim' = [claim EXCEPT ![w].phase = "between", ![w].left = 0, ![w].locks = {}]
  /\ UNCHANGED <<run, row, agent, reaped, faults>>

\* The event cleared when the call is back, and not before it is made.
Wanting_ClearedAfter(w) == claim[w].got # {}

\* Offers are accepted, and more may be queued.
Wanting(w) == agent[w].wanted \/ claim[w].got # {}
Receive(w) ==
  /\ claim[w].phase = "draining" \/ (claim[w].phase = "between" /\ claim[w].left = 0)
  /\ claim' = [claim EXCEPT ![w] = Idle]
  /\ agent' = IF ~claim[w].heard THEN agent
              ELSE [agent EXCEPT ![w].runs = @ \cup claim[w].got, ![w].wanted = Wanting(w),
                                 ![w].draining = @ \/ claim[w].phase = "draining"]
  /\ UNCHANGED <<run, row, reaped, faults>>

\* The frame is lost, the handler fails, or its answer comes too late: logged, and no more.
ClaimFails(w, through) ==
  /\ claim[w].phase # "idle" /\ claim[w].heard /\ agent[w].connected /\ Fault
  /\ claim' = [claim EXCEPT ![w] = IF through THEN [@ EXCEPT !.heard = FALSE] ELSE Idle]
  /\ agent' = [agent EXCEPT ![w].missed = TRUE]
  /\ UNCHANGED <<run, row, reaped>>

-----------------------------------------------------------------------------
(* The end of a claim. *)

Finish(w, r) ==  \* job.complete, or a rejection; then the slot is free
  /\ r \in agent[w].runs /\ agent[w].connected /\ r \notin reaped
  /\ agent' = [agent EXCEPT ![w].runs = @ \ {r}, ![w].wanted = TRUE]
  /\ IF r \in Held(w)
       THEN /\ run' = [run EXCEPT ![r].state = "ended"]
            /\ row' = [row EXCEPT ![w].fresh = TRUE]
       ELSE UNCHANGED <<run, row>>
  /\ UNCHANGED <<claim, reaped, faults>>

\* The lease of a run that no connected agent reports on.
Unreported(w, r) ==
  /\ r \in Held(w) \ reaped
  /\ ~(agent[w].connected /\ r \in agent[w].runs)
  /\ ~(claim[w].heard /\ r \in claim[w].got)

\* The reaper's transaction: its nudge goes out before the commit.
Reap(w, r) ==
  /\ Unreported(w, r)
  /\ reaped' = reaped \cup {r}
  /\ agent' = Nudged({run[q].zone : q \in Requeued({r})}, TRUE)
  /\ UNCHANGED <<run, row, claim, faults>>

ReapCommits(r) ==
  /\ r \in reaped
  /\ reaped' = reaped \ {r}
  /\ run' = [run EXCEPT ![r] = Abandoned(r)]
  /\ UNCHANGED <<row, agent, claim, faults>>

FailWaiting(r) ==
  /\ r \in Pending \ Locked /\ Policy[run[r].zone] \in {"wait", "failover"}
  /\ run' = [run EXCEPT ![r].state = "FAILED_DISPATCH"]
  /\ UNCHANGED <<row, agent, claim, reaped, faults>>

-----------------------------------------------------------------------------
Presence(w) == \/ Connect(w) \/ (\E restarted \in BOOLEAN : Disconnect(w, restarted))
               \/ GoesStale(w) \/ Drain(w) \/ Undrain(w)
Loop(w) == SendClaim(w) \/ Receive(w) \/ (\E r \in Runs : Finish(w, r))
Serving(w) == \/ Serve(w) \/ Scan(w) \/ Grant(w) \/ GrantNone(w)
              \/ (\E through \in BOOLEAN : ClaimFails(w, through))

Next ==
  \/ \E s \in Submissions, told \in BOOLEAN : Submit(s, told)
  \/ \E w \in Workers : Presence(w) \/ Loop(w) \/ Serving(w)
  \/ \E r \in Runs : ReapCommits(r) \/ FailWaiting(r) \/ (\E w \in Workers : Reap(w, r))

Spec == Init /\ [][Next]_vars

-----------------------------------------------------------------------------
(* Properties. *)

\* No run is left queued beside a worker that could take it: a connected agent with room,
\* whose loop is at rest, has nothing to take, unless it missed a wake-up: the
\* publication failed, the claim failed, it was cut short by a slot of a lost offer, or it
\* looked while others had the rows (_claim_loop, publish_work_available, _claim_one).
AtRest(w) == /\ agent[w].connected /\ ~agent[w].draining /\ Room(w) > 0
             /\ ~agent[w].wanted /\ claim[w].phase = "idle"
WorkConserving == \A w \in Workers :
  AtRest(w) /\ ~agent[w].missed => InZone(w) \cap (Pending \ Locked) = {}

\* A pinned run is worked on in its default zone, or in a failover target of it when the
\* definition may leave; and there only by a worker that has its capabilities
\* (_apply_failover, _claim_one; later hellos and retries keep the zone).
RunsWhereAllowed == \A r \in Runs : \A w \in run[r].worker :
  /\ r.sub \in CanRun[w]
  /\ Definition[r.sub].policy = "pinned" =>
       \/ ZoneOf[w] = Definition[r.sub].home
       \/ /\ ~Definition[r.sub].local
          /\ \E i \in DOMAIN Targets[Definition[r.sub].home] :
               ZoneOf[w] = Targets[Definition[r.sub].home][i]

\* Every target of a submission is in one child, worked on in the zone that wins it
\* (_submit_fanout, resolve_zone, _claim_one).
OneChildPerDevice == \A s \in Submissions : Spread(s) /\ Covered(s) =>
  LET children == {r \in Runs : r.sub = s} IN children # {} =>
    \A d \in Definition[s].devices :
      \E c \in children : /\ \A b \in children : d \in b.part => b = c
                          /\ d \in c.part
                          /\ \A w \in run[c].worker : ZoneOf[w] = ResolveZone(d)

\* A submission is refused for want of capacity only if there is none: no worker of the
\* zone is connected, free and able to take it (zone_has_online_capacity, Worker.status).
Ready(w, s) == /\ agent[w].connected /\ ~agent[w].draining /\ ~row[w].draining
               /\ s \in CanRun[w] /\ FreeCapacity(w) > 0 /\ Room(w) > 0
NoFalseRefusal == [][\A s \in Submissions :
  (Definition[s].policy = "pinned" /\ (\A r \in Runs : r.sub # s)
     /\ \E w \in Workers : ZoneOf[w] = Definition[s].home /\ Ready(w, s))
    => \A r \in DOMAIN run' : r.sub = s => run'[r].state # "FAILED_DISPATCH"]_vars
=============================================================================
