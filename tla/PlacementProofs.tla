-------------------------- MODULE PlacementProofs --------------------------
(***************************************************************************)
(* Proofs about Placement.  Sound says what values the state holds and     *)
(* that a row is locked by one transaction; each step is summed up in a    *)
(* lemma XDoes.  Placed says where runs and picks are, Resting what an     *)
(* agent that heard every wake-up has left in the queue when its claim     *)
(* finds nothing: nothing, whether locked, reaped or not.                  *)
(***************************************************************************)
EXTENDS Placement, TLAPS, FiniteSetTheorems, WellFoundedInduction

LEMMA Bounds ==
  /\ Rank \in [Zones -> Nat] /\ Unplaced \notin Zones /\ Unplaced \notin Submissions
  /\ Enabled \subseteq Zones /\ Targets \in [Zones -> Seq(Zones)]
  /\ ZoneOf \in [Workers -> Zones] /\ Capacity \in [Workers -> Nat]
  /\ Attempts \in Nat \ {0} /\ MaxFaults \in Nat
  /\ IsFiniteSet(Submissions) /\ IsFiniteSet(Devices)
BY PlacementAssumption DEF PlacementAssumption

LEMMA Definitions ==
  ASSUME NEW s \in Submissions
  PROVE  /\ Definition[s].home \in Zones \cup {Unplaced}
         /\ Definition[s].devices \subseteq Devices
         /\ Definition[s].local \in BOOLEAN
BY PlacementAssumption DEF PlacementAssumption

LEMMA LeastNat ==
  ASSUME NEW T, T \subseteq Nat, T # {}
  PROVE  \E x \in T : \A y \in T : x <= y
<1> DEFINE R == OpToRel(<, Nat)
<1>1. \E x \in T : \A y \in T : ~ (<<y, x>> \in R)
  BY NatLessThanWellFounded, WFMin
<1>2. \A x, y \in Nat : <<y, x>> \in R <=> y < x
  BY DEF OpToRel
<1> HIDE DEF R
<1>3. PICK x \in T : \A y \in T : ~ (<<y, x>> \in R)
  BY <1>1
<1>4. \A y \in T : ~ (y < x)
  BY <1>2, <1>3
<1> QED BY <1>3, <1>4

LEMMA FirstIn ==
  ASSUME NEW zs, zs \subseteq Zones, zs # {}
  PROVE  First(zs) \in zs
<1>0. Rank \in [Zones -> Nat]
  BY Bounds
<1> DEFINE T == {Rank[z] : z \in zs}
<1>1. T \subseteq Nat /\ T # {}
  BY <1>0
<1>2. PICK x \in T : \A y \in T : x <= y
  BY <1>1, LeastNat
<1>3. \E z \in zs : \A y \in zs : Rank[z] <= Rank[y]
  BY <1>2
<1> QED BY <1>3 DEF First

-----------------------------------------------------------------------------
(* Types. *)

RowRow == [draining: BOOLEAN, fresh: BOOLEAN]
AgentRow == [connected: BOOLEAN, wanted: BOOLEAN, draining: BOOLEAN, runs: SUBSET Runs,
             missed: BOOLEAN]
ClaimRow == [phase: {"idle", "sent", "between", "scan", "draining"}, left: Nat, got: SUBSET Runs,
             locks: SUBSET Runs, pick: Runs \cup {NoRun}, heard: BOOLEAN]

Typed ==
  /\ run \in [Runs -> RunRow] /\ Runs \subseteq Ids
  /\ row \in [Workers -> RowRow]
  /\ agent \in [Workers -> AgentRow]
  /\ claim \in [Workers -> ClaimRow]
  /\ reaped \subseteq Runs /\ faults \in 0..MaxFaults

\* A claim that is about to look, or to grant, may grant one more.
Counts == \A w \in Workers : claim[w].phase \in {"sent", "scan"} => claim[w].left > 0

Locks == \A w \in Workers :
  /\ claim[w].locks \subseteq Pending \ reaped
  /\ claim[w].pick \in claim[w].locks \cup {NoRun}
  /\ \A v \in Workers \ {w} : claim[v].locks \cap claim[w].locks = {}

Sound == Typed /\ Counts /\ Locks

LEMMA TypesHold == Sound => TypeOK
BY DEF Sound, Typed, Locks, TypeOK, AgentRow, ClaimRow, RowRow

LEMMA NoSuchRun == ASSUME Runs \subseteq Ids PROVE NoRun \notin Runs
<1>1. NoRun \notin Ids
  BY Bounds DEF NoRun, Ids
<1> QED BY <1>1

LEMMA FiniteRuns == ASSUME Runs \subseteq Ids, NEW S \in SUBSET Runs PROVE IsFiniteSet(S)
<1> DEFINE P == Submissions \X SUBSET Devices
           f == [x \in P |-> [sub |-> x[1], part |-> x[2]]]
<1>1. IsFiniteSet(P)
  BY Bounds, FS_SUBSET, FS_Product
<1>2. f \in Surjection(P, Ids)
  <2>1. f \in [P -> Ids]
    BY DEF Ids
  <2>2. \A i \in Ids : \E x \in P : f[x] = i
    <3> TAKE i \in Ids
    <3>1. <<i.sub, i.part>> \in P /\ f[<<i.sub, i.part>>] = i
      BY DEF Ids
    <3> QED BY <3>1
  <2> QED BY <2>1, <2>2 DEF Surjection
<1>3. IsFiniteSet(Ids)
  BY <1>1, <1>2, FS_Surjection
<1> QED BY <1>3, FS_Subset

LEMMA RoomType ==
  ASSUME Typed, NEW w \in Workers
  PROVE  Room(w) \in Nat /\ FreeCapacity(w) \in Nat
<1>1. agent[w].runs \subseteq Runs /\ Held(w) \subseteq Runs
  BY DEF Typed, AgentRow, Held
<1>2. Cardinality(agent[w].runs) \in Nat /\ Cardinality(Held(w)) \in Nat
  BY <1>1, FiniteRuns, FS_CardinalityType DEF Typed
<1>3. Capacity[w] \in Nat
  BY Bounds
<1> QED BY <1>2, <1>3 DEF Room, FreeCapacity, AtLeast0

-----------------------------------------------------------------------------
(* What each step does. *)

SameAgent(v) == agent'[v] = agent[v]
SameClaim(v) == claim'[v] = claim[v]

LEMMA SendClaimDoes ==
  ASSUME Typed, NEW w \in Workers, SendClaim(w)
  PROVE  /\ UNCHANGED <<run, row, reaped, faults>>
         /\ agent' \in [Workers -> AgentRow]
         /\ agent'[w].connected = agent[w].connected /\ agent'[w].draining = agent[w].draining
         /\ agent'[w].runs = agent[w].runs /\ ~agent'[w].wanted /\ ~agent'[w].missed
         /\ claim' \in [Workers -> ClaimRow]
         /\ claim[w].phase = "idle"
         /\ \/ (agent[w].draining \/ Room(w) = 0) /\ claim' = claim
            \/ /\ claim'[w].phase = "sent" /\ claim'[w].left > 0 /\ claim'[w].heard
               /\ claim'[w].locks = claim[w].locks /\ claim'[w].pick = claim[w].pick
               /\ claim'[w].got = claim[w].got
         /\ \A v \in Workers \ {w} : SameAgent(v) /\ SameClaim(v)
<1>1. Room(w) \in Nat
  BY RoomType
<1>2. PICK n \in Nat : n = Room(w)
  BY <1>1
<1>3. /\ agent' \in [Workers -> AgentRow]
      /\ agent'[w].connected = agent[w].connected /\ agent'[w].draining = agent[w].draining
      /\ agent'[w].runs = agent[w].runs /\ ~agent'[w].wanted /\ ~agent'[w].missed
      /\ \A v \in Workers \ {w} : SameAgent(v)
  BY DEF SendClaim, Typed, AgentRow, SameAgent
<1>4. CASE agent[w].draining \/ n = 0
  BY <1>2, <1>3, <1>4 DEF SendClaim, Typed, SameClaim
<1>5. CASE ~(agent[w].draining \/ n = 0)
  <2>1. claim' = [claim EXCEPT ![w].phase = "sent", ![w].left = n, ![w].heard = TRUE]
    BY <1>2, <1>5 DEF SendClaim
  <2>2. claim' \in [Workers -> ClaimRow]
    <3>1. PICK c : c = [claim[w] EXCEPT !.phase = "sent", !.left = n, !.heard = TRUE]
      OBVIOUS
    <3>2. c \in ClaimRow
      BY <3>1 DEF Typed, ClaimRow
    <3>3. claim' = [claim EXCEPT ![w] = c]
      BY <2>1, <3>1
    <3> QED BY <3>2, <3>3 DEF Typed
  <2>3. /\ claim'[w].phase = "sent" /\ claim'[w].left = n /\ claim'[w].heard
        /\ claim'[w].locks = claim[w].locks /\ claim'[w].pick = claim[w].pick
        /\ claim'[w].got = claim[w].got
        /\ \A v \in Workers \ {w} : SameClaim(v)
    BY <2>1 DEF Typed, ClaimRow, SameClaim
  <2>4. n > 0
    BY <1>5
  <2>5. UNCHANGED <<run, row, reaped, faults>> /\ claim[w].phase = "idle"
    BY DEF SendClaim
  <2> QED BY <1>3, <2>2, <2>3, <2>4, <2>5
<1> QED BY <1>4, <1>5

LEMMA ServeDoes ==
  ASSUME Typed, NEW w \in Workers, Serve(w)
  PROVE  /\ UNCHANGED <<run, row, reaped, faults>>
         /\ agent' \in [Workers -> AgentRow]
         /\ agent'[w].connected = agent[w].connected /\ agent'[w].draining = agent[w].draining
         /\ agent'[w].runs = agent[w].runs /\ agent'[w].wanted = agent[w].wanted
         /\ agent[w].missed => agent'[w].missed
         /\ claim' \in [Workers -> ClaimRow]
         /\ claim[w].phase = "sent" /\ claim'[w].phase \in {"draining", "between"}
         /\ claim'[w].locks = claim[w].locks /\ claim'[w].pick = claim[w].pick
         /\ claim'[w].got = claim[w].got /\ claim'[w].heard = claim[w].heard
         /\ claim'[w].left < claim[w].left => agent'[w].missed
         /\ \A v \in Workers \ {w} : SameAgent(v) /\ SameClaim(v)
<1>1. PICK n \in Nat : n = FreeCapacity(w)
  BY RoomType
<1>2. PICK m \in Nat : m = Lesser(claim[w].left, n)
  BY DEF Lesser, Typed, ClaimRow
<1>3. PICK ph \in {"draining", "between"} : ph = IF row[w].draining THEN "draining" ELSE "between"
  OBVIOUS
<1>4. claim' = [claim EXCEPT ![w].phase = ph, ![w].left = m]
  BY <1>1, <1>2, <1>3 DEF Serve
<1>5. claim' \in [Workers -> ClaimRow]
  <2>1. PICK c : c = [claim[w] EXCEPT !.phase = ph, !.left = m]
    OBVIOUS
  <2>2. c \in ClaimRow
    BY <2>1 DEF Typed, ClaimRow
  <2>3. claim' = [claim EXCEPT ![w] = c]
    BY <1>4, <2>1
  <2> QED BY <2>2, <2>3 DEF Typed
<1>6. /\ claim'[w].phase = ph /\ claim'[w].left = m
      /\ claim'[w].locks = claim[w].locks /\ claim'[w].pick = claim[w].pick
      /\ claim'[w].got = claim[w].got /\ claim'[w].heard = claim[w].heard
      /\ \A v \in Workers \ {w} : SameClaim(v)
  BY <1>4 DEF Typed, ClaimRow, SameClaim
<1>7. PICK b \in BOOLEAN : b = (agent[w].missed \/ n < claim[w].left)
  OBVIOUS
<1>8. agent' = [agent EXCEPT ![w].missed = b]
  BY <1>1, <1>7 DEF Serve
<1>9. /\ agent' \in [Workers -> AgentRow]
      /\ agent'[w].connected = agent[w].connected /\ agent'[w].draining = agent[w].draining
      /\ agent'[w].runs = agent[w].runs /\ agent'[w].wanted = agent[w].wanted
      /\ agent'[w].missed = b
      /\ \A v \in Workers \ {w} : SameAgent(v)
  BY <1>8 DEF Typed, AgentRow, SameAgent
<1>10. m < claim[w].left => n < claim[w].left
  BY <1>2 DEF Lesser, Typed, ClaimRow
<1>11. UNCHANGED <<run, row, reaped, faults>> /\ claim[w].phase = "sent"
  BY DEF Serve
<1>12. (m < claim[w].left => b) /\ (agent[w].missed => b)
  BY <1>7, <1>10
<1> QED BY <1>3, <1>5, <1>6, <1>9, <1>11, <1>12

LEMMA ScanDoes ==
  ASSUME Typed, NEW w \in Workers, Scan(w)
  PROVE  /\ UNCHANGED <<run, row, reaped, faults>>
         /\ agent' \in [Workers -> AgentRow]
         /\ agent'[w].connected = agent[w].connected /\ agent'[w].draining = agent[w].draining
         /\ agent'[w].runs = agent[w].runs /\ agent'[w].wanted = agent[w].wanted
         /\ agent[w].missed => agent'[w].missed
         /\ claim' \in [Workers -> ClaimRow]
         /\ claim[w].phase = "between" /\ claim[w].left > 0 /\ claim'[w].phase = "scan"
         /\ claim'[w].left = claim[w].left /\ claim'[w].locks = Seen(w)
         /\ claim'[w].pick \in Suitable(w) \cup {NoRun}
         /\ claim'[w].pick = NoRun => Suitable(w) = {}
         /\ Suitable(w) = {} /\ Unseen(w) # {} => agent'[w].missed
         /\ claim'[w].got = claim[w].got /\ claim'[w].heard = claim[w].heard
         /\ \A v \in Workers \ {w} : SameAgent(v) /\ SameClaim(v)
<1>1. PICK b \in BOOLEAN : b = (agent[w].missed \/ (Suitable(w) = {} /\ Unseen(w) # {}))
  OBVIOUS
<1>2. agent' = [agent EXCEPT ![w].missed = b]
  BY <1>1 DEF Scan
<1>3. /\ agent' \in [Workers -> AgentRow]
      /\ agent'[w].connected = agent[w].connected /\ agent'[w].draining = agent[w].draining
      /\ agent'[w].runs = agent[w].runs /\ agent'[w].wanted = agent[w].wanted
      /\ agent'[w].missed = b
      /\ \A v \in Workers \ {w} : SameAgent(v)
  BY <1>2 DEF Typed, AgentRow, SameAgent
<1>4. PICK L : L = Seen(w)
  OBVIOUS
<1>5. L \subseteq Runs /\ Suitable(w) \subseteq Runs
  BY <1>4 DEF Seen, Suitable, Pending
<1>6. PICK r \in IF Suitable(w) = {} THEN {NoRun} ELSE Suitable(w) :
        claim' = [claim EXCEPT ![w].phase = "scan", ![w].locks = L, ![w].pick = r]
  BY <1>4 DEF Scan
<1>7. r \in Suitable(w) \cup {NoRun} /\ (r = NoRun => Suitable(w) = {})
  BY <1>5, <1>6, NoSuchRun DEF Typed
<1>8. claim' \in [Workers -> ClaimRow]
  <2>1. PICK c : c = [claim[w] EXCEPT !.phase = "scan", !.locks = L, !.pick = r]
    OBVIOUS
  <2>2. c \in ClaimRow
    BY <1>5, <1>7, <2>1 DEF Typed, ClaimRow
  <2>3. claim' = [claim EXCEPT ![w] = c]
    BY <1>6, <2>1
  <2> QED BY <2>2, <2>3 DEF Typed
<1>9. /\ claim'[w].phase = "scan" /\ claim'[w].left = claim[w].left
      /\ claim'[w].locks = L /\ claim'[w].pick = r
      /\ claim'[w].got = claim[w].got /\ claim'[w].heard = claim[w].heard
      /\ \A v \in Workers \ {w} : SameClaim(v)
  BY <1>6 DEF Typed, ClaimRow, SameClaim
<1>10. /\ UNCHANGED <<run, row, reaped, faults>>
       /\ claim[w].phase = "between" /\ claim[w].left > 0
  BY DEF Scan
<1>11. (agent[w].missed => b) /\ (Suitable(w) = {} /\ Unseen(w) # {} => b)
  BY <1>1
<1> QED BY <1>3, <1>4, <1>7, <1>8, <1>9, <1>10, <1>11

LEMMA GrantNoneDoes ==
  ASSUME Typed, NEW w \in Workers, GrantNone(w)
  PROVE  /\ UNCHANGED <<run, row, agent, reaped, faults>>
         /\ claim' \in [Workers -> ClaimRow]
         /\ claim[w].phase = "scan" /\ claim[w].pick = NoRun
         /\ claim'[w].phase = "between" /\ claim'[w].left = 0 /\ claim'[w].locks = {}
         /\ claim'[w].pick = NoRun
         /\ claim'[w].got = claim[w].got /\ claim'[w].heard = claim[w].heard
         /\ \A v \in Workers \ {w} : SameClaim(v)
<1>1. claim' = [claim EXCEPT ![w].phase = "between", ![w].left = 0, ![w].locks = {}]
  BY DEF GrantNone
<1>2. claim' \in [Workers -> ClaimRow]
  <2>1. PICK c : c = [claim[w] EXCEPT !.phase = "between", !.left = 0, !.locks = {}]
    OBVIOUS
  <2>2. c \in ClaimRow
    BY <2>1 DEF Typed, ClaimRow
  <2>3. claim' = [claim EXCEPT ![w] = c]
    BY <1>1, <2>1
  <2> QED BY <2>2, <2>3 DEF Typed
<1>3. /\ claim'[w].phase = "between" /\ claim'[w].left = 0 /\ claim'[w].locks = {}
      /\ claim'[w].pick = claim[w].pick
      /\ claim'[w].got = claim[w].got /\ claim'[w].heard = claim[w].heard
      /\ \A v \in Workers \ {w} : SameClaim(v)
  BY <1>1 DEF Typed, ClaimRow, SameClaim
<1> QED BY <1>2, <1>3 DEF GrantNone

LEMMA ReceiveDoes ==
  ASSUME Typed, NEW w \in Workers, Receive(w)
  PROVE  /\ UNCHANGED <<run, row, reaped, faults>>
         /\ agent' \in [Workers -> AgentRow]
         /\ \/ claim[w].phase = "draining" \/ (claim[w].phase = "between" /\ claim[w].left = 0)
         /\ claim' \in [Workers -> ClaimRow] /\ claim'[w] = Idle
         /\ ~claim[w].heard => SameAgent(w)
         /\ claim[w].heard =>
              /\ agent'[w].connected = agent[w].connected /\ agent'[w].missed = agent[w].missed
              /\ agent'[w].runs = agent[w].runs \cup claim[w].got
              /\ agent'[w].wanted = (agent[w].wanted \/ claim[w].got # {})
              /\ agent'[w].draining = (agent[w].draining \/ claim[w].phase = "draining")
         /\ \A v \in Workers \ {w} : SameAgent(v) /\ SameClaim(v)
<1>1. Idle \in ClaimRow
  BY DEF Idle, ClaimRow
<1>2. /\ claim' = [claim EXCEPT ![w] = Idle] /\ UNCHANGED <<run, row, reaped, faults>>
      /\ claim[w].phase = "draining" \/ (claim[w].phase = "between" /\ claim[w].left = 0)
  BY DEF Receive
<1>3. /\ claim' \in [Workers -> ClaimRow] /\ claim'[w] = Idle
      /\ \A v \in Workers \ {w} : SameClaim(v)
  BY <1>1, <1>2 DEF Typed, SameClaim
<1>4. CASE ~claim[w].heard
  <2>1. agent' = agent
    BY <1>4 DEF Receive
  <2> QED BY <1>2, <1>3, <1>4, <2>1 DEF Typed, SameAgent
<1>5. CASE claim[w].heard
  <2>1. PICK R : R = agent[w].runs \cup claim[w].got
    OBVIOUS
  <2>2. PICK b \in BOOLEAN : b = (agent[w].wanted \/ claim[w].got # {})
    OBVIOUS
  <2>3. PICK d \in BOOLEAN : d = (agent[w].draining \/ claim[w].phase = "draining")
    OBVIOUS
  <2>4. agent' = [agent EXCEPT ![w].runs = R, ![w].wanted = b, ![w].draining = d]
    BY <1>5, <2>1, <2>2, <2>3 DEF Receive, Wanting
  <2>5. R \subseteq Runs
    BY <2>1 DEF Typed, ClaimRow, AgentRow
  <2>6. agent' \in [Workers -> AgentRow]
    <3>1. PICK g : g = [agent[w] EXCEPT !.runs = R, !.wanted = b, !.draining = d]
      OBVIOUS
    <3>2. g \in AgentRow
      BY <2>5, <3>1 DEF Typed, AgentRow
    <3>3. agent' = [agent EXCEPT ![w] = g]
      BY <2>4, <3>1
    <3> QED BY <3>2, <3>3 DEF Typed
  <2>7. /\ agent'[w].connected = agent[w].connected /\ agent'[w].missed = agent[w].missed
        /\ agent'[w].runs = R /\ agent'[w].wanted = b /\ agent'[w].draining = d
        /\ \A v \in Workers \ {w} : SameAgent(v)
    BY <2>4 DEF Typed, AgentRow, SameAgent
  <2> QED BY <1>2, <1>3, <1>5, <2>1, <2>2, <2>3, <2>6, <2>7
<1> QED BY <1>4, <1>5

LEMMA AbandonedIs ==
  ASSUME Typed, NEW r \in Runs
  PROVE  /\ Abandoned(r) \in RunRow /\ Abandoned(r).zone = run[r].zone
         /\ Abandoned(r).worker \subseteq run[r].worker
         /\ run[r].attempt < Attempts => Abandoned(r).state = "PENDING"
         /\ ~(run[r].attempt < Attempts) => Abandoned(r).state = "ABANDONED"
                                            /\ Abandoned(r).attempt = run[r].attempt
<1>1. PICK x \in RunRow : x = run[r]
  BY DEF Typed
<1>2. PICK n \in Nat : n = Attempts
  BY Bounds
<1>3. x.attempt \in 1..n
  BY <1>2 DEF RunRow
<1>4. CASE x.attempt < n
  <2>1. PICK m : m = x.attempt + 1
    OBVIOUS
  <2>2. m \in 1..Attempts
    BY <1>2, <1>3, <1>4, <2>1
  <2>3. Abandoned(r) = [x EXCEPT !.state = "PENDING", !.worker = {}, !.attempt = m]
    BY <1>1, <1>2, <1>4, <2>1 DEF Abandoned
  <2> QED BY <1>1, <1>2, <1>4, <2>2, <2>3 DEF RunRow
<1>5. CASE ~(x.attempt < n)
  <2>1. Abandoned(r) = [x EXCEPT !.state = "ABANDONED"]
    BY <1>1, <1>2, <1>5 DEF Abandoned
  <2> QED BY <1>1, <1>2, <1>5, <2>1 DEF RunRow
<1> QED BY <1>4, <1>5

LEMMA NudgedIs ==
  ASSUME Typed, NEW zones, NEW told \in BOOLEAN
  PROVE  /\ Nudged(zones, told) \in [Workers -> AgentRow]
         /\ \A v \in Workers :
              LET g == Nudged(zones, told)[v] IN
              /\ g.connected = agent[v].connected /\ g.draining = agent[v].draining
              /\ g.runs = agent[v].runs
              /\ agent[v].wanted => g.wanted
              /\ agent[v].missed => g.missed
              /\ agent[v].connected /\ ZoneOf[v] \in zones => g.wanted \/ g.missed
<1> DEFINE n(v) == [agent[v] EXCEPT !.wanted = @ \/ told, !.missed = @ \/ ~told]
<1>1. ASSUME NEW v \in Workers
      PROVE  /\ agent[v] \in AgentRow /\ n(v) \in AgentRow
             /\ n(v).connected = agent[v].connected /\ n(v).draining = agent[v].draining
             /\ n(v).runs = agent[v].runs
             /\ n(v).wanted = (agent[v].wanted \/ told)
             /\ n(v).missed = (agent[v].missed \/ ~told)
  BY <1>1 DEF Typed, AgentRow
<1>2. Nudged(zones, told) = [v \in Workers |-> IF agent[v].connected /\ ZoneOf[v] \in zones
                                               THEN n(v) ELSE agent[v]]
  BY DEF Nudged
<1> HIDE DEF n
<1>3. Nudged(zones, told) \in [Workers -> AgentRow]
  BY <1>1, <1>2
<1>4. ASSUME NEW v \in Workers
      PROVE  LET g == Nudged(zones, told)[v] IN
              /\ g.connected = agent[v].connected /\ g.draining = agent[v].draining
              /\ g.runs = agent[v].runs
              /\ agent[v].wanted => g.wanted
              /\ agent[v].missed => g.missed
              /\ agent[v].connected /\ ZoneOf[v] \in zones => g.wanted \/ g.missed
  BY <1>1, <1>2
<1> QED BY <1>3, <1>4

LEMMA RowUpdate ==
  ASSUME Typed, NEW r \in Runs, NEW x \in RunRow, run' = [run EXCEPT ![r] = x]
  PROVE  /\ Runs' = Runs /\ run' \in [Runs -> RunRow] /\ run'[r] = x
         /\ \A q \in Runs \ {r} : run'[q] = run[q]
BY DEF Typed, Runs

LEMMA GrantDoes ==
  ASSUME Typed, Locks, NEW w \in Workers, Grant(w)
  PROVE  /\ claim[w].phase = "scan" /\ claim[w].pick \in claim[w].locks
         /\ Runs' = Runs /\ run' \in [Runs -> RunRow]
         /\ run'[claim[w].pick].state = "CLAIMED" /\ run'[claim[w].pick].worker = {w}
         /\ run'[claim[w].pick].zone = run[claim[w].pick].zone
         /\ run'[claim[w].pick].attempt = run[claim[w].pick].attempt
         /\ \A q \in Runs \ {claim[w].pick} : run'[q] = run[q]
         /\ row' \in [Workers -> RowRow] /\ UNCHANGED <<agent, reaped, faults>>
         /\ claim[w].left > 0 => claim' \in [Workers -> ClaimRow]
         /\ claim'[w].phase = "between" /\ claim'[w].locks = {} /\ claim'[w].pick = NoRun
         /\ claim'[w].got # {} /\ claim'[w].heard = claim[w].heard
         /\ \A v \in Workers \ {w} : SameClaim(v)
<1>1. PICK r : r = claim[w].pick
  OBVIOUS
<1>2. r \in claim[w].locks /\ r \in Runs
  BY <1>1 DEF Grant, Locks, Typed, ClaimRow
<1>3. run' = [run EXCEPT ![r].state = "CLAIMED", ![r].worker = {w}]
  BY <1>1 DEF Grant
<1>4. PICK x : x = [run[r] EXCEPT !.state = "CLAIMED", !.worker = {w}]
  OBVIOUS
<1>5. /\ x \in RunRow /\ x.state = "CLAIMED" /\ x.worker = {w} /\ x.zone = run[r].zone
      /\ x.attempt = run[r].attempt
  BY <1>2, <1>4 DEF Typed, RunRow
<1>6. run' = [run EXCEPT ![r] = x]
  BY <1>2, <1>3, <1>4 DEF Typed
<1>7. /\ Runs' = Runs /\ run' \in [Runs -> RunRow] /\ run'[r] = x
      /\ \A q \in Runs \ {r} : run'[q] = run[q]
  BY <1>2, <1>5, <1>6, RowUpdate
<1>8. row' \in [Workers -> RowRow] /\ UNCHANGED <<agent, reaped, faults>> /\ claim[w].phase = "scan"
  BY DEF Grant, Typed, RowRow
<1>9. PICK G : G = claim[w].got \cup {r}
  OBVIOUS
<1>10. PICK n : n = claim[w].left - 1
  OBVIOUS
<1>11. claim' = [claim EXCEPT ![w].phase = "between", ![w].left = n, ![w].locks = {},
                            ![w].got = G, ![w].pick = NoRun]
  BY <1>1, <1>9, <1>10 DEF Grant
<1>12. ASSUME claim[w].left > 0
       PROVE  claim' \in [Workers -> ClaimRow]
  <2>1. PICK c : c = [claim[w] EXCEPT !.phase = "between", !.left = n, !.locks = {},
                                      !.got = G, !.pick = NoRun]
    OBVIOUS
  <2>2. n \in Nat /\ G \subseteq Runs
    BY <1>2, <1>9, <1>10, <1>12 DEF Typed, ClaimRow
  <2>3. c \in ClaimRow
    BY <2>1, <2>2 DEF Typed, ClaimRow
  <2>4. claim' = [claim EXCEPT ![w] = c]
    BY <1>11, <2>1
  <2> QED BY <2>3, <2>4 DEF Typed
<1>13. /\ claim'[w].phase = "between" /\ claim'[w].locks = {} /\ claim'[w].pick = NoRun
       /\ claim'[w].got = G /\ claim'[w].heard = claim[w].heard
       /\ \A v \in Workers \ {w} : SameClaim(v)
  BY <1>11 DEF Typed, ClaimRow, SameClaim
<1> QED BY <1>1, <1>2, <1>5, <1>7, <1>8, <1>9, <1>12, <1>13

LEMMA FaultIs == ASSUME Typed, Fault PROVE faults' \in 0..MaxFaults
BY Bounds DEF Typed, Fault

LEMMA ClaimFailsDoes ==
  ASSUME Typed, NEW w \in Workers, NEW through \in BOOLEAN, ClaimFails(w, through)
  PROVE  /\ UNCHANGED <<run, row, reaped>> /\ faults' \in 0..MaxFaults
         /\ agent' \in [Workers -> AgentRow] /\ agent'[w].missed
         /\ claim' \in [Workers -> ClaimRow]
         /\ \/ claim'[w] = Idle
            \/ /\ claim'[w].phase = claim[w].phase /\ claim'[w].left = claim[w].left
               /\ claim'[w].locks = claim[w].locks /\ claim'[w].pick = claim[w].pick
         /\ \A v \in Workers \ {w} : SameAgent(v) /\ SameClaim(v)
<1>0. UNCHANGED <<run, row, reaped>> /\ faults' \in 0..MaxFaults
  BY FaultIs DEF ClaimFails
<1>1. /\ UNCHANGED <<run, row, reaped>> /\ faults' \in 0..MaxFaults
      /\ agent' \in [Workers -> AgentRow] /\ agent'[w].missed
      /\ \A v \in Workers \ {w} : SameAgent(v)
  BY <1>0 DEF ClaimFails, Typed, AgentRow, SameAgent
<1>2. CASE through
  <2>1. PICK c : c = [claim[w] EXCEPT !.heard = FALSE]
    OBVIOUS
  <2>2. /\ c \in ClaimRow /\ c.phase = claim[w].phase /\ c.left = claim[w].left
        /\ c.locks = claim[w].locks /\ c.pick = claim[w].pick
    BY <2>1 DEF Typed, ClaimRow
  <2>3. claim' = [claim EXCEPT ![w] = c]
    BY <1>2, <2>1 DEF ClaimFails, Typed
  <2> QED BY <1>1, <2>2, <2>3 DEF Typed, SameClaim
<1>3. CASE ~through
  <2>1. claim' = [claim EXCEPT ![w] = Idle]
    BY <1>3 DEF ClaimFails
  <2>2. Idle \in ClaimRow
    BY DEF Idle, ClaimRow
  <2> QED BY <1>1, <2>1, <2>2 DEF Typed, SameClaim
<1> QED BY <1>2, <1>3

LEMMA DisconnectDoes ==
  ASSUME Typed, NEW w \in Workers, NEW restarted \in BOOLEAN, Disconnect(w, restarted)
  PROVE  /\ UNCHANGED <<run, row, reaped>> /\ faults' \in 0..MaxFaults
         /\ agent' \in [Workers -> AgentRow] /\ ~agent'[w].connected
         /\ claim' \in [Workers -> ClaimRow]
         /\ claim'[w].phase = claim[w].phase /\ claim'[w].left = claim[w].left
         /\ claim'[w].locks = claim[w].locks /\ claim'[w].pick = claim[w].pick
         /\ \A v \in Workers \ {w} : SameAgent(v) /\ SameClaim(v)
<1>1. UNCHANGED <<run, row, reaped>> /\ faults' \in 0..MaxFaults
  BY FaultIs DEF Disconnect
<1>2. PICK d \in BOOLEAN : d = (agent[w].draining /\ ~restarted)
  OBVIOUS
<1>3. agent' = [agent EXCEPT ![w].connected = FALSE, ![w].wanted = FALSE, ![w].draining = d]
  BY <1>2 DEF Disconnect
<1>4. PICK g : g = [agent[w] EXCEPT !.connected = FALSE, !.wanted = FALSE, !.draining = d]
  OBVIOUS
<1>5. g \in AgentRow /\ ~g.connected
  BY <1>4 DEF Typed, AgentRow
<1>6. agent' = [agent EXCEPT ![w] = g]
  BY <1>3, <1>4
<1>7. agent' \in [Workers -> AgentRow] /\ ~agent'[w].connected /\ \A v \in Workers \ {w} : SameAgent(v)
  BY <1>5, <1>6 DEF Typed, SameAgent
<1>8. PICK h \in BOOLEAN : h = (claim[w].phase = "idle")
  OBVIOUS
<1>9. claim' = [claim EXCEPT ![w].heard = h]
  BY <1>8 DEF Disconnect
<1>10. /\ claim' \in [Workers -> ClaimRow]
       /\ claim'[w].phase = claim[w].phase /\ claim'[w].left = claim[w].left
       /\ claim'[w].locks = claim[w].locks /\ claim'[w].pick = claim[w].pick
       /\ \A v \in Workers \ {w} : SameClaim(v)
  BY <1>9 DEF Typed, ClaimRow, SameClaim
<1> QED BY <1>1, <1>7, <1>10

LEMMA RowOnly ==
  ASSUME Typed, NEW w \in Workers, GoesStale(w) \/ Undrain(w)
  PROVE  row' \in [Workers -> RowRow] /\ UNCHANGED <<run, agent, claim, reaped, faults>>
BY DEF GoesStale, Undrain, Typed, RowRow

LEMMA DrainDoes ==
  ASSUME Typed, NEW w \in Workers, Drain(w)
  PROVE  /\ row' \in [Workers -> RowRow] /\ UNCHANGED <<run, claim, reaped>> /\ faults' \in 0..MaxFaults
         /\ agent' \in [Workers -> AgentRow]
         /\ agent'[w].connected = agent[w].connected /\ agent'[w].wanted = agent[w].wanted
         /\ agent'[w].missed = agent[w].missed /\ agent'[w].runs = agent[w].runs
         /\ agent[w].draining => agent'[w].draining
         /\ \A v \in Workers \ {w} : SameAgent(v)
<1>1. row' \in [Workers -> RowRow] /\ UNCHANGED <<run, claim, reaped>> /\ faults' \in 0..MaxFaults
  BY FaultIs DEF Drain, Typed, RowRow
<1>2. PICK told \in {agent[w].connected, FALSE} : agent' = [agent EXCEPT ![w].draining = @ \/ told]
  BY DEF Drain
<1>3. PICK d \in BOOLEAN : d = (agent[w].draining \/ told)
  OBVIOUS
<1>4. agent' = [agent EXCEPT ![w].draining = d]
  BY <1>2, <1>3
<1>5. /\ agent' \in [Workers -> AgentRow]
      /\ agent'[w].connected = agent[w].connected /\ agent'[w].wanted = agent[w].wanted
      /\ agent'[w].missed = agent[w].missed /\ agent'[w].runs = agent[w].runs
      /\ agent'[w].draining = d
      /\ \A v \in Workers \ {w} : SameAgent(v)
  BY <1>4 DEF Typed, AgentRow, SameAgent
<1>6. agent[w].draining => d
  BY <1>3
<1> QED BY <1>1, <1>5, <1>6

\* What a wake-up does to whoever it is sent to, and to nobody else.
Told(v, zone) == agent[v].connected /\ ZoneOf[v] = zone => agent'[v].wanted \/ agent'[v].missed
Wakes(v) ==
  /\ agent'[v].connected = agent[v].connected /\ agent'[v].draining = agent[v].draining
  /\ agent'[v].runs = agent[v].runs
  /\ agent[v].wanted => agent'[v].wanted
  /\ agent[v].missed => agent'[v].missed

LEMMA ConnectDoes ==
  ASSUME Typed, NEW w \in Workers, Connect(w)
  PROVE  /\ Runs' = Runs /\ run' \in [Runs -> RunRow]
         /\ \A r \in Runs : \/ run'[r] = run[r]
                            \/ /\ r \notin reaped /\ run[r].state = "CLAIMED" /\ run'[r] = Abandoned(r)
                               /\ run[r].attempt < Attempts => \A v \in Workers : Told(v, run[r].zone)
         /\ row' \in [Workers -> RowRow] /\ UNCHANGED <<claim, reaped, faults>>
         /\ agent' \in [Workers -> AgentRow]
         /\ agent'[w].wanted
         /\ \A v \in Workers \ {w} : Wakes(v)
<1> DEFINE stale == (Held(w) \ agent[w].runs) \ reaped
           zones == {run[r].zone : r \in Requeued(stale)}
<1>1. PICK S : S = stale
  OBVIOUS
<1>2. S \subseteq Runs /\ \A r \in S : r \notin reaped /\ run[r].state = "CLAIMED"
  BY <1>1 DEF Held
<1>3. run' = [r \in Runs |-> IF r \in S THEN Abandoned(r) ELSE run[r]]
  BY <1>1 DEF Connect
<1>4. Runs' = Runs /\ run' \in [Runs -> RunRow]
      /\ \A r \in Runs : run'[r] = IF r \in S THEN Abandoned(r) ELSE run[r]
  <2>1. ASSUME NEW r \in Runs PROVE Abandoned(r) \in RunRow /\ run[r] \in RunRow
    BY AbandonedIs DEF Typed
  <2>2. DOMAIN run' = Runs
    BY <1>3
  <2> QED BY <1>3, <2>1, <2>2 DEF Runs
<1>5. PICK Z : Z = {run[r].zone : r \in Requeued(S)}
  OBVIOUS
<1>6. PICK g : g = Nudged(Z, TRUE)
  OBVIOUS
<1>7. /\ g \in [Workers -> AgentRow]
      /\ \A v \in Workers :
           /\ g[v].connected = agent[v].connected /\ g[v].draining = agent[v].draining
           /\ g[v].runs = agent[v].runs
           /\ agent[v].wanted => g[v].wanted
           /\ agent[v].missed => g[v].missed
           /\ agent[v].connected /\ ZoneOf[v] \in Z => g[v].wanted \/ g[v].missed
  BY <1>6, NudgedIs
<1>8. PICK d \in BOOLEAN : d = (g[w].draining \/ row[w].draining)
  OBVIOUS
<1>9. agent' = [g EXCEPT ![w].connected = TRUE, ![w].wanted = TRUE, ![w].draining = d]
  BY <1>1, <1>5, <1>6, <1>8 DEF Connect
<1>10. PICK x : x = [g[w] EXCEPT !.connected = TRUE, !.wanted = TRUE, !.draining = d]
  OBVIOUS
<1>11. x \in AgentRow /\ x.wanted
  BY <1>7, <1>10 DEF AgentRow
<1>12. agent' = [g EXCEPT ![w] = x]
  BY <1>9, <1>10
<1>13. /\ agent' \in [Workers -> AgentRow] /\ agent'[w].wanted
       /\ \A v \in Workers \ {w} : agent'[v] = g[v]
  BY <1>7, <1>11, <1>12
<1>14. ASSUME NEW r \in S, run[r].attempt < Attempts, NEW v \in Workers
       PROVE  Told(v, run[r].zone)
  <2>1. run[r].zone \in Z
    BY <1>5, <1>14 DEF Requeued
  <2> QED BY <2>1, <1>7, <1>13 DEF Told
<1>15. \A v \in Workers \ {w} : Wakes(v)
  BY <1>7, <1>13 DEF Wakes
<1>16. row' \in [Workers -> RowRow] /\ UNCHANGED <<claim, reaped, faults>>
  BY DEF Connect, Typed, RowRow
<1> QED BY <1>2, <1>4, <1>13, <1>14, <1>15, <1>16

LEMMA FinishDoes ==
  ASSUME Typed, NEW w \in Workers, NEW r \in Runs, Finish(w, r)
  PROVE  /\ r \notin reaped /\ Runs' = Runs /\ run' \in [Runs -> RunRow]
         /\ \A q \in Runs \ {r} : run'[q] = run[q]
         /\ \/ run'[r] = run[r]
            \/ /\ run[r].state = "CLAIMED" /\ run'[r].state = "ended"
               /\ run'[r].zone = run[r].zone /\ run'[r].worker = run[r].worker
               /\ run'[r].attempt = run[r].attempt
         /\ row' \in [Workers -> RowRow] /\ UNCHANGED <<claim, reaped, faults>>
         /\ agent' \in [Workers -> AgentRow] /\ agent'[w].wanted
         /\ \A v \in Workers \ {w} : SameAgent(v)
<1>1. r \notin reaped /\ UNCHANGED <<claim, reaped, faults>>
  BY DEF Finish
<1>2. agent' \in [Workers -> AgentRow] /\ agent'[w].wanted /\ \A v \in Workers \ {w} : SameAgent(v)
  <2>1. PICK R : R = agent[w].runs \ {r}
    OBVIOUS
  <2>2. agent' = [agent EXCEPT ![w].runs = R, ![w].wanted = TRUE] /\ R \subseteq Runs
    BY <2>1 DEF Finish, Typed, AgentRow
  <2> QED BY <2>2 DEF Typed, AgentRow, SameAgent
<1>3. CASE r \in Held(w)
  <2>1. run[r].state = "CLAIMED"
    BY <1>3 DEF Held
  <2>2. PICK x : x = [run[r] EXCEPT !.state = "ended"]
    OBVIOUS
  <2>3. /\ x \in RunRow /\ x.state = "ended" /\ x.zone = run[r].zone
        /\ x.worker = run[r].worker /\ x.attempt = run[r].attempt
    BY <2>2 DEF Typed, RunRow
  <2>4. run' = [run EXCEPT ![r] = x]
    BY <1>3, <2>2 DEF Finish, Typed
  <2>5. row' \in [Workers -> RowRow]
    BY <1>3 DEF Finish, Typed, RowRow
  <2> QED BY <1>1, <1>2, <2>1, <2>3, <2>4, <2>5, RowUpdate
<1>4. CASE r \notin Held(w)
  BY <1>1, <1>2, <1>4 DEF Finish, Typed, Runs
<1> QED BY <1>3, <1>4

LEMMA ReapDoes ==
  ASSUME Typed, NEW w \in Workers, NEW r \in Runs, Reap(w, r)
  PROVE  /\ run[r].state = "CLAIMED" /\ reaped' = reaped \cup {r}
         /\ UNCHANGED <<run, row, claim, faults>>
         /\ agent' \in [Workers -> AgentRow]
         /\ \A v \in Workers : Wakes(v) /\ (run[r].attempt < Attempts => Told(v, run[r].zone))
<1>1. /\ run[r].state = "CLAIMED" /\ reaped' = reaped \cup {r}
      /\ UNCHANGED <<run, row, claim, faults>>
  BY DEF Reap, Unreported, Held
<1>2. PICK Z : Z = {run[q].zone : q \in Requeued({r})}
  OBVIOUS
<1>3. agent' = Nudged(Z, TRUE)
  BY <1>2 DEF Reap
<1>4. run[r].attempt < Attempts => run[r].zone \in Z
  BY <1>2 DEF Requeued
<1>5. /\ agent' \in [Workers -> AgentRow]
      /\ \A v \in Workers :
           /\ agent'[v].connected = agent[v].connected /\ agent'[v].draining = agent[v].draining
           /\ agent'[v].runs = agent[v].runs
           /\ agent[v].wanted => agent'[v].wanted
           /\ agent[v].missed => agent'[v].missed
           /\ agent[v].connected /\ ZoneOf[v] \in Z => agent'[v].wanted \/ agent'[v].missed
  BY <1>3, NudgedIs
<1> QED BY <1>1, <1>4, <1>5 DEF Wakes, Told

LEMMA ReapCommitsDoes ==
  ASSUME Typed, NEW r \in Runs, ReapCommits(r)
  PROVE  /\ r \in reaped /\ reaped' = reaped \ {r}
         /\ Runs' = Runs /\ run' \in [Runs -> RunRow] /\ run'[r] = Abandoned(r)
         /\ \A q \in Runs \ {r} : run'[q] = run[q]
         /\ UNCHANGED <<row, agent, claim, faults>>
<1>1. /\ r \in reaped /\ reaped' = reaped \ {r} /\ run' = [run EXCEPT ![r] = Abandoned(r)]
      /\ UNCHANGED <<row, agent, claim, faults>>
  BY DEF ReapCommits
<1> QED BY <1>1, AbandonedIs, RowUpdate

LEMMA FailWaitingDoes ==
  ASSUME Typed, NEW r \in Runs, FailWaiting(r)
  PROVE  /\ r \in Pending \ Locked
         /\ Runs' = Runs /\ run' \in [Runs -> RunRow] /\ run'[r].state = "FAILED_DISPATCH"
         /\ run'[r].zone = run[r].zone /\ run'[r].worker = run[r].worker
         /\ run'[r].attempt = run[r].attempt
         /\ \A q \in Runs \ {r} : run'[q] = run[q]
         /\ UNCHANGED <<row, agent, claim, reaped, faults>>
<1>1. PICK x : x = [run[r] EXCEPT !.state = "FAILED_DISPATCH"]
  OBVIOUS
<1>2. /\ x \in RunRow /\ x.state = "FAILED_DISPATCH" /\ x.zone = run[r].zone
      /\ x.worker = run[r].worker /\ x.attempt = run[r].attempt
  BY <1>1 DEF Typed, RunRow
<1>3. run' = [run EXCEPT ![r] = x]
  BY <1>1 DEF FailWaiting, Typed
<1> QED BY <1>2, <1>3, RowUpdate DEF FailWaiting

-----------------------------------------------------------------------------
(* Submission. *)

\* Where a pinned definition may go.
Homes(s) == LET home == Definition[s].home IN
  {home, Unplaced} \cup IF Definition[s].local THEN {} ELSE {Targets[home][i] : i \in DOMAIN Targets[home]}

LEMMA FailoverIn ==
  ASSUME NEW z \in Zones, NEW s
  PROVE  FailoverZone(z, s) \in Zones /\ FailoverZone(z, s) \in {z} \cup {Targets[z][i] : i \in DOMAIN Targets[z]}
<1> DEFINE able == {i \in DOMAIN Targets[z] : Targets[z][i] \in Enabled /\ HasCapacity(Targets[z][i], s)}
<1>1. PICK t \in Seq(Zones) : t = Targets[z]
  BY Bounds
<1>2. PICK A : A = able
  OBVIOUS
<1>3. A \subseteq DOMAIN t /\ DOMAIN t \subseteq Nat
  BY <1>1, <1>2
<1>4. CASE A = {}
  BY <1>2, <1>4 DEF FailoverZone
<1>5. CASE A # {}
  <2>1. (CHOOSE i \in A : \A j \in A : i <= j) \in A
    BY <1>3, <1>5, LeastNat
  <2>2. PICK i \in A : FailoverZone(z, s) = t[i]
    BY <1>1, <1>2, <1>5, <2>1 DEF FailoverZone
  <2>3. t[i] \in Zones
    BY <1>3, <2>2
  <2> QED BY <1>1, <1>3, <2>2, <2>3
<1> QED BY <1>4, <1>5

LEMMA PlaceIn ==
  ASSUME NEW s \in Submissions
  PROVE  /\ PlaceOf(s) \in Zones \cup {Unplaced}
         /\ Definition[s].policy = "pinned" => PlaceOf(s) \in Homes(s)
<1>1. ASSUME NEW z \in Zones
      PROVE  /\ ApplyFailover(z, s) \in Zones \cup {Unplaced}
             /\ z = Definition[s].home => ApplyFailover(z, s) \in Homes(s)
  <2>1. ApplyFailover(z, s) \in {z, Unplaced} \/ (~Definition[s].local /\ ApplyFailover(z, s) = FailoverZone(z, s))
    BY DEF ApplyFailover
  <2> QED BY <2>1, FailoverIn DEF Homes
<1>2. CheapestZone(s) \in Zones \cup {Unplaced}
  <2> DEFINE able == {z \in Enabled : HasCapacity(z, s)}
  <2>1. PICK A : A = able
    OBVIOUS
  <2>2. A \subseteq Zones
    BY <2>1, Bounds
  <2>3. A # {} => First(A) \in Zones
    BY <2>2, FirstIn
  <2>4. \/ CheapestZone(s) \in {Definition[s].home, Unplaced}
        \/ A # {} /\ CheapestZone(s) = First(A)
    BY <2>1 DEF CheapestZone
  <2> QED BY <2>3, <2>4, Definitions
<1>3. PICK z \in Zones \cup {Unplaced} :
        /\ PlaceOf(s) = IF z = Unplaced THEN z ELSE ApplyFailover(z, s)
        /\ Definition[s].policy = "pinned" => z = Definition[s].home
  BY <1>2, Definitions DEF PlaceOf
<1>4. CASE z = Unplaced
  BY <1>3, <1>4 DEF Homes
<1>5. CASE z # Unplaced
  BY <1>1, <1>3, <1>5
<1> QED BY <1>4, <1>5

LEMMA ResolveIn == ASSUME NEW d, Covering(d) # {} PROVE ResolveZone(d) \in Zones
<1>1. Covering(d) \subseteq Zones
  BY Bounds DEF Covering
<1> QED BY <1>1, FirstIn DEF ResolveZone

\* Every device is in one child, with those that resolve to its zone.
LEMMA PartsAre ==
  ASSUME NEW s \in Submissions, Spread(s)
  PROVE  /\ \A p \in Parts(s) : /\ p # {} /\ p \subseteq Definition[s].devices
                                /\ \A c, d \in p : ResolveZone(c) = ResolveZone(d)
         /\ \A d \in Definition[s].devices : \E p \in Parts(s) : d \in p
         /\ \A p, q \in Parts(s) : p \cap q # {} => p = q
<1>1. CASE Definition[s].policy = "per_device"
  <2>1. Parts(s) = {{d} : d \in Definition[s].devices}
    BY <1>1 DEF Parts
  <2> QED BY <2>1
<1>2. CASE Definition[s].policy # "per_device"
  <2>1. Parts(s) = {{d \in Definition[s].devices : ResolveZone(d) = z} :
                     z \in {ResolveZone(d) : d \in Definition[s].devices}}
    BY <1>2 DEF Parts
  <2>2. ASSUME NEW d \in Definition[s].devices
        PROVE  \E p \in Parts(s) : d \in p
    <3>1. {c \in Definition[s].devices : ResolveZone(c) = ResolveZone(d)} \in Parts(s)
      BY <2>1
    <3> QED BY <3>1
  <2> QED BY <2>1, <2>2
<1> QED BY <1>1, <1>2

Child(s, p) == [sub |-> s, part |-> p]

LEMMA NewRunsAre ==
  ASSUME NEW s \in Submissions
  PROVE  /\ NewRuns(s) \in [DOMAIN NewRuns(s) -> RunRow] /\ DOMAIN NewRuns(s) \subseteq Ids
         /\ \A r \in DOMAIN NewRuns(s) :
              /\ r.sub = s /\ NewRuns(s)[r].worker = {}
              /\ Definition[s].policy = "pinned" => NewRuns(s)[r].zone \in Homes(s)
         /\ Spread(s) /\ Covered(s) =>
              /\ DOMAIN NewRuns(s) = {Child(s, p) : p \in Parts(s)}
              /\ \A p \in Parts(s) : \A d \in p : NewRuns(s)[Child(s, p)].zone = ResolveZone(d)
<1>1. \A z \in Zones \cup {Unplaced} : Queued(z) \in RunRow /\ Queued(z).worker = {} /\ Queued(z).zone = z
  BY Bounds DEF Queued, RunRow
<1>2. Refused \in RunRow /\ Refused.worker = {} /\ Refused.zone = Unplaced
  BY Bounds DEF Refused, RunRow
<1>3. CASE Spread(s) /\ Covered(s)
  <2>1. PICK D : D = {Child(s, p) : p \in Parts(s)}
    OBVIOUS
  <2>2. NewRuns(s) = [r \in D |-> Queued(ResolveZone(CHOOSE d \in r.part : TRUE))]
    BY <1>3, <2>1 DEF NewRuns, Child
  <2>3. ASSUME NEW p \in Parts(s)
        PROVE  /\ Child(s, p) \in Ids /\ Child(s, p).sub = s /\ Child(s, p).part = p
               /\ \A d \in p : ResolveZone(CHOOSE c \in p : TRUE) = ResolveZone(d)
               /\ ResolveZone(CHOOSE c \in p : TRUE) \in Zones
    <3>1. p # {} /\ p \subseteq Definition[s].devices /\ \A c, d \in p : ResolveZone(c) = ResolveZone(d)
      BY <1>3, PartsAre
    <3>2. (CHOOSE c \in p : TRUE) \in p
      BY <3>1
    <3>3. \A d \in p : Covering(d) # {}
      BY <1>3, <3>1 DEF Covered
    <3>4. p \subseteq Devices
      BY <3>1, Definitions
    <3> QED BY <3>1, <3>2, <3>3, <3>4, ResolveIn DEF Child, Ids
  <2>4. ASSUME NEW r \in D
        PROVE  /\ r \in Ids /\ r.sub = s /\ NewRuns(s)[r] \in RunRow /\ NewRuns(s)[r].worker = {}
               /\ \A d \in r.part : NewRuns(s)[r].zone = ResolveZone(d)
    <3>1. PICK p \in Parts(s) : r = Child(s, p)
      BY <2>1
    <3>2. PICK z \in Zones : z = ResolveZone(CHOOSE c \in p : TRUE)
      BY <2>3
    <3>3. NewRuns(s)[r] = Queued(z)
      BY <2>2, <2>3, <3>1, <3>2
    <3> QED BY <1>1, <2>3, <3>1, <3>2, <3>3
  <2>5. DOMAIN NewRuns(s) = D /\ NewRuns(s) \in [D -> RunRow] /\ D \subseteq Ids
    BY <2>2, <2>4
  <2>6. Definition[s].policy # "pinned"
    BY <1>3 DEF Spread
  <2>7. \A p \in Parts(s) : \A d \in p : NewRuns(s)[Child(s, p)].zone = ResolveZone(d)
    BY <2>1, <2>3, <2>4
  <2> QED BY <2>1, <2>4, <2>5, <2>6, <2>7
<1>4. CASE ~(Spread(s) /\ Covered(s))
  <2>1. PICK x : x = IF Spread(s) \/ PlaceOf(s) = Unplaced THEN Refused ELSE Queued(PlaceOf(s))
    OBVIOUS
  <2>2. PICK r : r = Child(s, {})
    OBVIOUS
  <2>3. NewRuns(s) = [q \in {r} |-> x]
    BY <1>4, <2>1, <2>2 DEF NewRuns, Child
  <2>4. r \in Ids /\ r.sub = s
    BY <2>2 DEF Child, Ids
  <2>5. x \in RunRow /\ x.worker = {} /\ (Definition[s].policy = "pinned" => x.zone \in Homes(s))
    <3>1. Unplaced \in Homes(s)
      BY DEF Homes
    <3> QED BY <1>1, <1>2, <2>1, <3>1, PlaceIn
  <2>6. DOMAIN NewRuns(s) = {r} /\ NewRuns(s)[r] = x /\ NewRuns(s) \in [{r} -> RunRow]
    BY <2>3, <2>5
  <2> QED BY <1>4, <2>4, <2>5, <2>6
<1> QED BY <1>3, <1>4

LEMMA SubmitDoes ==
  ASSUME Typed, NEW s \in Submissions, NEW told \in BOOLEAN, Submit(s, told)
  PROVE  /\ \A r \in Runs : r.sub # s
         /\ Runs' = Runs \cup DOMAIN NewRuns(s) /\ Runs' \subseteq Ids
         /\ run' \in [Runs' -> RunRow]
         /\ \A r \in Runs : run'[r] = run[r]
         /\ \A r \in DOMAIN NewRuns(s) : r \notin Runs /\ run'[r] = NewRuns(s)[r]
         /\ UNCHANGED <<row, claim, reaped>> /\ faults' \in 0..MaxFaults
         /\ agent' \in [Workers -> AgentRow]
         /\ \A v \in Workers : Wakes(v) /\ \A r \in DOMAIN NewRuns(s) : Told(v, NewRuns(s)[r].zone)
<1>1. PICK N : N = NewRuns(s)
  OBVIOUS
<1>2. N \in [DOMAIN N -> RunRow] /\ DOMAIN N \subseteq Ids /\ \A r \in DOMAIN N : r.sub = s
  BY <1>1, NewRunsAre
<1>3. /\ \A r \in Runs : r.sub # s
      /\ run' = [r \in Runs \cup DOMAIN N |-> IF r \in Runs THEN run[r] ELSE N[r]]
      /\ UNCHANGED <<row, claim, reaped>>
  BY <1>1 DEF Submit
<1>4. faults' \in 0..MaxFaults
  BY FaultIs DEF Submit, Typed
<1>5. PICK Z : Z = {N[r].zone : r \in DOMAIN N}
  OBVIOUS
<1>6. agent' = Nudged(Z, told)
  BY <1>1, <1>5 DEF Submit
<1>7. /\ agent' \in [Workers -> AgentRow]
      /\ \A v \in Workers :
           /\ agent'[v].connected = agent[v].connected /\ agent'[v].draining = agent[v].draining
           /\ agent'[v].runs = agent[v].runs
           /\ agent[v].wanted => agent'[v].wanted
           /\ agent[v].missed => agent'[v].missed
           /\ agent[v].connected /\ ZoneOf[v] \in Z => agent'[v].wanted \/ agent'[v].missed
  BY <1>6, NudgedIs
<1>8. Runs' = Runs \cup DOMAIN N
  BY <1>3 DEF Runs
<1>9. run' \in [Runs' -> RunRow] /\ (\A r \in Runs : run'[r] = run[r])
      /\ \A r \in DOMAIN N : r \notin Runs /\ run'[r] = N[r]
  BY <1>2, <1>3, <1>8 DEF Typed
<1>10. \A v \in Workers : Wakes(v) /\ \A r \in DOMAIN N : Told(v, N[r].zone)
  BY <1>5, <1>7 DEF Wakes, Told
<1> QED BY <1>1, <1>2, <1>3, <1>4, <1>7, <1>8, <1>9, <1>10 DEF Typed

-----------------------------------------------------------------------------
(* Types and locks are kept. *)

LEMMA TypedNext ==
  ASSUME Typed, Runs \subseteq Runs', Runs' \subseteq Ids, run' \in [Runs' -> RunRow],
         row' \in [Workers -> RowRow], agent' \in [Workers -> AgentRow],
         claim' \in [Workers -> ClaimRow], reaped' \subseteq Runs', faults' \in 0..MaxFaults
  PROVE  Typed'
<1>1. AgentRow \subseteq AgentRow'
  BY DEF AgentRow
<1>2. ClaimRow \subseteq ClaimRow'
  BY DEF ClaimRow
<1>3. agent' \in [Workers -> AgentRow'] /\ claim' \in [Workers -> ClaimRow']
  BY <1>1, <1>2
<1>4. RowRow' = RowRow /\ RunRow' = RunRow /\ Ids' = Ids
  BY DEF RowRow, RunRow, Ids
<1> QED BY <1>3, <1>4 DEF Typed

LockStep(v) ==
  \/ claim'[v].locks = claim[v].locks /\ claim'[v].pick = claim[v].pick
  \/ claim'[v].locks = {} /\ claim'[v].pick = NoRun

LEMMA LocksNext ==
  ASSUME Typed, Locks, Runs \subseteq Runs', \A v \in Workers : LockStep(v),
         \A v \in Workers, r \in Runs :
           r \in claim'[v].locks => run'[r].state = "PENDING" /\ r \notin reaped'
  PROVE  Locks'
<1>1. ASSUME NEW w \in Workers
      PROVE  claim'[w].locks \subseteq claim[w].locks /\ claim[w].locks \subseteq Runs
  BY <1>1 DEF LockStep, Typed, ClaimRow
<1>2. ASSUME NEW w \in Workers
      PROVE  claim'[w].locks \subseteq Pending' \ reaped'
  BY <1>1, <1>2 DEF Pending
<1>3. ASSUME NEW w \in Workers
      PROVE  claim'[w].pick \in claim'[w].locks \cup {NoRun}
  BY <1>3 DEF LockStep, Locks
<1>4. ASSUME NEW w \in Workers, NEW v \in Workers \ {w}
      PROVE  claim'[v].locks \cap claim'[w].locks = {}
  BY <1>1, <1>4 DEF Locks
<1>5. NoRun' = NoRun
  BY DEF NoRun
<1> QED BY <1>2, <1>3, <1>4, <1>5 DEF Locks

\* What is locked stays locked, or not, when the claims do not change.
LEMMA LocksStay ==
  ASSUME Typed, Locks, Runs \subseteq Runs', \A v \in Workers : LockStep(v), reaped' \subseteq reaped,
         \A r \in Runs : run'[r] = run[r] \/ r \notin Pending
  PROVE  Locks'
<1>1. ASSUME NEW v \in Workers, NEW r \in Runs, r \in claim'[v].locks
      PROVE  run'[r].state = "PENDING" /\ r \notin reaped'
  <2>1. r \in claim[v].locks
    BY <1>1 DEF LockStep
  <2>2. r \in Pending /\ r \notin reaped
    BY <2>1 DEF Locks
  <2> QED BY <2>2 DEF Pending
<1> QED BY <1>1, LocksNext

LEMMA NoLocks == Idle \in ClaimRow /\ Idle.locks = {} /\ Idle.pick = NoRun /\ Idle.phase = "idle" /\ Idle.heard
BY DEF Idle, ClaimRow

LEMMA LoopKeepsSound ==
  ASSUME Sound, NEW w \in Workers, Loop(w)
  PROVE  Sound'
<1> USE DEF Sound
<1>1. CASE SendClaim(w)
  <2>1. Runs' = Runs
    BY <1>1, SendClaimDoes DEF Runs
  <2>2. Typed'
    BY <1>1, <2>1, SendClaimDoes, TypedNext DEF Typed
  <2>3. \A v \in Workers : LockStep(v)
    BY <1>1, SendClaimDoes DEF LockStep, SameClaim
  <2>4. Locks'
    BY <1>1, <2>1, <2>3, SendClaimDoes, LocksStay
  <2>5. Counts'
    BY <1>1, SendClaimDoes DEF Counts, SameClaim
  <2> QED BY <2>2, <2>4, <2>5
<1>2. CASE Receive(w)
  <2>1. Runs' = Runs
    BY <1>2, ReceiveDoes DEF Runs
  <2>2. Typed'
    BY <1>2, <2>1, ReceiveDoes, TypedNext DEF Typed
  <2>3. \A v \in Workers : LockStep(v)
    BY <1>2, ReceiveDoes, NoLocks DEF LockStep, SameClaim
  <2>4. Locks'
    BY <1>2, <2>1, <2>3, ReceiveDoes, LocksStay
  <2>5. Counts'
    BY <1>2, ReceiveDoes, NoLocks DEF Counts, SameClaim
  <2> QED BY <2>2, <2>4, <2>5
<1>3. ASSUME NEW r \in Runs, Finish(w, r)
      PROVE  Sound'
  <2>1. Runs' = Runs
    BY <1>3, FinishDoes
  <2>2. Typed'
    BY <1>3, <2>1, FinishDoes, TypedNext DEF Typed
  <2>3. claim' = claim /\ reaped' = reaped
    BY <1>3, FinishDoes
  <2>4. \A v \in Workers : LockStep(v)
    BY <2>3 DEF LockStep
  <2>5. \A q \in Runs : run'[q] = run[q] \/ q \notin Pending
    BY <1>3, FinishDoes DEF Pending
  <2>6. Locks'
    BY <2>1, <2>3, <2>4, <2>5, LocksStay
  <2>7. Counts'
    BY <2>3 DEF Counts
  <2> QED BY <2>2, <2>6, <2>7
<1> QED BY <1>1, <1>2, <1>3 DEF Loop

LEMMA ServingKeepsSound ==
  ASSUME Sound, NEW w \in Workers, Serving(w)
  PROVE  Sound'
<1> USE DEF Sound
<1>1. CASE Serve(w)
  <2>1. Runs' = Runs
    BY <1>1, ServeDoes DEF Runs
  <2>2. Typed'
    BY <1>1, <2>1, ServeDoes, TypedNext DEF Typed
  <2>3. \A v \in Workers : LockStep(v)
    BY <1>1, ServeDoes DEF LockStep, SameClaim
  <2>4. Locks'
    BY <1>1, <2>1, <2>3, ServeDoes, LocksStay
  <2>5. Counts'
    BY <1>1, ServeDoes DEF Counts, SameClaim
  <2> QED BY <2>2, <2>4, <2>5
<1>2. CASE Scan(w)
  <2>1. Runs' = Runs /\ run' = run /\ reaped' = reaped
    BY <1>2, ScanDoes DEF Runs
  <2>2. Typed'
    BY <1>2, <2>1, ScanDoes, TypedNext DEF Typed
  <2>3. Counts'
    BY <1>2, ScanDoes DEF Counts, SameClaim
  <2>4. Seen(w) \subseteq Pending \ reaped /\ \A v \in Workers : claim[v].locks \cap Seen(w) = {}
    BY DEF Seen, Locked
  <2>5. claim'[w].locks = Seen(w) /\ claim'[w].pick \in Seen(w) \cup {NoRun}
    BY <1>2, ScanDoes DEF Suitable
  <2>6. \A v \in Workers \ {w} : claim'[v] = claim[v]
    BY <1>2, ScanDoes DEF SameClaim
  <2>7. Pending' = Pending /\ NoRun' = NoRun
    BY <2>1 DEF Pending, Runs, NoRun
  <2>8. Locks'
    BY <2>1, <2>4, <2>5, <2>6, <2>7 DEF Locks
  <2> QED BY <2>2, <2>3, <2>8
<1>3. CASE Grant(w)
  <2>1. PICK r \in Runs : r = claim[w].pick /\ r \in claim[w].locks
    BY <1>3, GrantDoes DEF Typed, ClaimRow
  <2>2. claim[w].left > 0
    BY <1>3, GrantDoes DEF Counts
  <2>3. Runs' = Runs
    BY <1>3, GrantDoes
  <2>4. Typed'
    BY <1>3, <2>2, <2>3, GrantDoes, TypedNext DEF Typed
  <2>5. \A v \in Workers : LockStep(v)
    BY <1>3, GrantDoes DEF LockStep, SameClaim
  <2>6. ASSUME NEW v \in Workers, NEW q \in Runs, q \in claim'[v].locks
        PROVE  run'[q].state = "PENDING" /\ q \notin reaped'
    <3>1. v # w /\ claim'[v] = claim[v]
      BY <1>3, <2>6, GrantDoes DEF SameClaim
    <3>2. q # r /\ q \in Pending /\ q \notin reaped
      BY <2>1, <2>6, <3>1 DEF Locks
    <3>3. run'[q] = run[q] /\ reaped' = reaped
      BY <1>3, <2>1, <3>2, GrantDoes
    <3> QED BY <3>2, <3>3 DEF Pending
  <2>7. Locks'
    BY <2>3, <2>5, <2>6, LocksNext
  <2>8. Counts'
    BY <1>3, GrantDoes DEF Counts, SameClaim
  <2> QED BY <2>4, <2>7, <2>8
<1>4. CASE GrantNone(w)
  <2>1. Runs' = Runs
    BY <1>4, GrantNoneDoes DEF Runs
  <2>2. Typed'
    BY <1>4, <2>1, GrantNoneDoes, TypedNext DEF Typed
  <2>3. \A v \in Workers : LockStep(v)
    BY <1>4, GrantNoneDoes DEF LockStep, SameClaim
  <2>4. Locks'
    BY <1>4, <2>1, <2>3, GrantNoneDoes, LocksStay
  <2>5. Counts'
    BY <1>4, GrantNoneDoes DEF Counts, SameClaim
  <2> QED BY <2>2, <2>4, <2>5
<1>5. ASSUME NEW through \in BOOLEAN, ClaimFails(w, through)
      PROVE  Sound'
  <2>1. Runs' = Runs
    BY <1>5, ClaimFailsDoes DEF Runs
  <2>2. Typed'
    BY <1>5, <2>1, ClaimFailsDoes, TypedNext DEF Typed
  <2>3. \A v \in Workers : LockStep(v)
    BY <1>5, ClaimFailsDoes, NoLocks DEF LockStep, SameClaim
  <2>4. Locks'
    BY <1>5, <2>1, <2>3, ClaimFailsDoes, LocksStay
  <2>5. Counts'
    BY <1>5, ClaimFailsDoes, NoLocks DEF Counts, SameClaim
  <2> QED BY <2>2, <2>4, <2>5
<1> QED BY <1>1, <1>2, <1>3, <1>4, <1>5 DEF Serving

LEMMA PresenceKeepsSound ==
  ASSUME Sound, NEW w \in Workers, Presence(w)
  PROVE  Sound'
<1> USE DEF Sound
<1>1. CASE Connect(w)
  <2>1. Runs' = Runs
    BY <1>1, ConnectDoes
  <2>2. Typed'
    BY <1>1, <2>1, ConnectDoes, TypedNext DEF Typed
  <2>3. claim' = claim /\ reaped' = reaped
    BY <1>1, ConnectDoes
  <2>4. \A v \in Workers : LockStep(v)
    BY <2>3 DEF LockStep
  <2>5. \A q \in Runs : run'[q] = run[q] \/ q \notin Pending
    BY <1>1, ConnectDoes DEF Pending
  <2>6. Locks'
    BY <2>1, <2>3, <2>4, <2>5, LocksStay
  <2>7. Counts'
    BY <2>3 DEF Counts
  <2> QED BY <2>2, <2>6, <2>7
<1>2. ASSUME NEW restarted \in BOOLEAN, Disconnect(w, restarted)
      PROVE  Sound'
  <2>1. Runs' = Runs
    BY <1>2, DisconnectDoes DEF Runs
  <2>2. Typed'
    BY <1>2, <2>1, DisconnectDoes, TypedNext DEF Typed
  <2>3. \A v \in Workers : LockStep(v)
    BY <1>2, DisconnectDoes DEF LockStep, SameClaim
  <2>4. Locks'
    BY <1>2, <2>1, <2>3, DisconnectDoes, LocksStay
  <2>5. Counts'
    BY <1>2, DisconnectDoes DEF Counts, SameClaim
  <2> QED BY <2>2, <2>4, <2>5
<1>3. CASE GoesStale(w) \/ Undrain(w) \/ Drain(w)
  <2>1. /\ row' \in [Workers -> RowRow] /\ UNCHANGED <<run, claim, reaped>> /\ faults' \in 0..MaxFaults
        /\ agent' \in [Workers -> AgentRow]
    BY <1>3, RowOnly, DrainDoes DEF Typed
  <2>2. Runs' = Runs
    BY <2>1 DEF Runs
  <2>3. Typed'
    BY <2>1, <2>2, TypedNext DEF Typed
  <2>4. \A v \in Workers : LockStep(v)
    BY <2>1 DEF LockStep
  <2>5. Locks'
    BY <2>1, <2>2, <2>4, LocksStay
  <2>6. Counts'
    BY <2>1 DEF Counts
  <2> QED BY <2>3, <2>5, <2>6
<1> QED BY <1>1, <1>2, <1>3 DEF Presence

LEMMA SubmitKeepsSound ==
  ASSUME Sound, NEW s \in Submissions, NEW told \in BOOLEAN, Submit(s, told)
  PROVE  Sound'
<1> USE DEF Sound
<1>1. /\ Runs \subseteq Runs' /\ Runs' \subseteq Ids /\ run' \in [Runs' -> RunRow]
      /\ \A r \in Runs : run'[r] = run[r]
      /\ UNCHANGED <<row, claim, reaped>> /\ faults' \in 0..MaxFaults
      /\ agent' \in [Workers -> AgentRow]
  BY SubmitDoes
<1>2. Typed'
  BY <1>1, TypedNext DEF Typed
<1>3. \A v \in Workers : LockStep(v)
  BY <1>1 DEF LockStep
<1>4. Locks'
  BY <1>1, <1>3, LocksStay
<1>5. Counts'
  BY <1>1 DEF Counts
<1> QED BY <1>2, <1>4, <1>5

LEMMA ReaperKeepsSound ==
  ASSUME Sound, NEW r \in Runs, ReapCommits(r) \/ FailWaiting(r) \/ \E w \in Workers : Reap(w, r)
  PROVE  Sound'
<1> USE DEF Sound
<1>1. CASE ReapCommits(r)
  <2>1. Runs' = Runs
    BY <1>1, ReapCommitsDoes
  <2>2. Typed'
    BY <1>1, <2>1, ReapCommitsDoes, TypedNext DEF Typed
  <2>3. claim' = claim
    BY <1>1, ReapCommitsDoes
  <2>4. \A v \in Workers : LockStep(v)
    BY <2>3 DEF LockStep
  <2>5. ASSUME NEW v \in Workers, NEW q \in Runs, q \in claim'[v].locks
        PROVE  run'[q].state = "PENDING" /\ q \notin reaped'
    <3>1. q \in Pending /\ q \notin reaped
      BY <2>3, <2>5 DEF Locks
    <3>2. run'[q] = run[q]
      BY <1>1, <3>1, ReapCommitsDoes
    <3> QED BY <1>1, <3>1, <3>2, ReapCommitsDoes DEF Pending
  <2>6. Locks'
    BY <2>1, <2>4, <2>5, LocksNext
  <2>7. Counts'
    BY <2>3 DEF Counts
  <2> QED BY <2>2, <2>6, <2>7
<1>2. CASE FailWaiting(r)
  <2>1. Runs' = Runs
    BY <1>2, FailWaitingDoes
  <2>2. Typed'
    BY <1>2, <2>1, FailWaitingDoes, TypedNext DEF Typed
  <2>3. claim' = claim /\ reaped' = reaped
    BY <1>2, FailWaitingDoes
  <2>4. \A v \in Workers : LockStep(v)
    BY <2>3 DEF LockStep
  <2>5. ASSUME NEW v \in Workers, NEW q \in Runs, q \in claim'[v].locks
        PROVE  run'[q].state = "PENDING" /\ q \notin reaped'
    <3>1. q \in claim[v].locks /\ q \in Pending /\ q \notin reaped
      BY <2>3, <2>5 DEF Locks
    <3>2. q # r
      BY <1>2, <3>1, FailWaitingDoes DEF Locked
    <3>3. run'[q] = run[q]
      BY <1>2, <3>2, FailWaitingDoes
    <3> QED BY <2>3, <3>1, <3>3 DEF Pending
  <2>6. Locks'
    BY <2>1, <2>4, <2>5, LocksNext
  <2>7. Counts'
    BY <2>3 DEF Counts
  <2> QED BY <2>2, <2>6, <2>7
<1>3. ASSUME NEW w \in Workers, Reap(w, r)
      PROVE  Sound'
  <2>1. Runs' = Runs /\ run' = run
    BY <1>3, ReapDoes DEF Runs
  <2>2. Typed'
    BY <1>3, <2>1, ReapDoes, TypedNext DEF Typed
  <2>3. claim' = claim /\ reaped' = reaped \cup {r} /\ run[r].state = "CLAIMED"
    BY <1>3, ReapDoes
  <2>4. \A v \in Workers : LockStep(v)
    BY <2>3 DEF LockStep
  <2>5. ASSUME NEW v \in Workers, NEW q \in Runs, q \in claim'[v].locks
        PROVE  run'[q].state = "PENDING" /\ q \notin reaped'
    <3>1. q \in Pending /\ q \notin reaped
      BY <2>3, <2>5 DEF Locks
    <3>2. run[q].state = "PENDING"
      BY <3>1 DEF Pending
    <3>3. q # r
      BY <2>3, <3>2
    <3> QED BY <2>1, <2>3, <3>1, <3>2, <3>3
  <2>6. Locks'
    BY <2>1, <2>4, <2>5, LocksNext
  <2>7. Counts'
    BY <2>3 DEF Counts
  <2> QED BY <2>2, <2>6, <2>7
<1> QED BY <1>1, <1>2, <1>3

LEMMA SoundNext == Sound /\ [Next]_vars => Sound'
<1> SUFFICES ASSUME Sound, [Next]_vars PROVE Sound'
  OBVIOUS
<1>1. CASE Next
  <2>1. CASE \E s \in Submissions, told \in BOOLEAN : Submit(s, told)
    BY <2>1, SubmitKeepsSound
  <2>2. CASE \E w \in Workers : Presence(w) \/ Loop(w) \/ Serving(w)
    BY <2>2, PresenceKeepsSound, LoopKeepsSound, ServingKeepsSound
  <2>3. CASE \E r \in Runs : ReapCommits(r) \/ FailWaiting(r) \/ (\E w \in Workers : Reap(w, r))
    BY <2>3, ReaperKeepsSound
  <2> QED BY <1>1, <2>1, <2>2, <2>3 DEF Next
<1>2. CASE UNCHANGED vars
  <2>1. UNCHANGED <<run, row, agent, claim, reaped, faults>>
    BY <1>2 DEF vars
  <2>2. Typed'
    BY <2>1 DEF Sound, Typed, Runs, AgentRow, ClaimRow
  <2>3. Counts' /\ Locks'
    BY <2>1 DEF Sound, Counts, Locks, Pending, Runs
  <2> QED BY <2>2, <2>3 DEF Sound
<1> QED BY <1>1, <1>2

LEMMA SoundInit == Init => Sound
<1> SUFFICES ASSUME Init PROVE Sound
  OBVIOUS
<1>1. Runs = {} /\ run \in [Runs -> RunRow]
  BY DEF Init, Runs
<1>2. agent \in [Workers -> AgentRow] /\ row \in [Workers -> RowRow]
  BY DEF Init, AgentRow, RowRow
<1>3. claim \in [Workers -> ClaimRow] /\ \A w \in Workers : claim[w] = Idle
  BY NoLocks DEF Init
<1>4. reaped \subseteq Runs /\ faults \in 0..MaxFaults
  BY Bounds DEF Init
<1> QED BY <1>1, <1>2, <1>3, <1>4, NoLocks DEF Sound, Typed, Counts, Locks

\* The rows, agents and claims keep their types, and a row is locked by one transaction.
THEOREM TypeCorrect == Spec => []TypeOK
<1>1. Spec => []Sound
  BY SoundInit, SoundNext, PTL DEF Spec
<1>2. Sound => TypeOK
  BY TypesHold
<1> QED BY <1>1, <1>2, PTL

-----------------------------------------------------------------------------
(* Where runs are worked on. *)

Children(s) == {r \in Runs : r.sub = s}
Split(s) ==
  \/ Children(s) = {}
  \/ /\ Children(s) = {Child(s, p) : p \in Parts(s)}
     /\ \A p \in Parts(s) : \A d \in p : run[Child(s, p)].zone = ResolveZone(d)

Rightly(r) == /\ \A w \in run[r].worker : ZoneOf[w] = run[r].zone /\ r.sub \in CanRun[w]
              /\ Definition[r.sub].policy = "pinned" => run[r].zone \in Homes(r.sub)

Placed ==
  /\ \A r \in Runs : Rightly(r)
  /\ \A w \in Workers : claim[w].pick # NoRun => claim[w].pick \in InZone(w)
  /\ \A s \in Submissions : Spread(s) /\ Covered(s) => Split(s)

\* A run keeps its zone, and the worker it has is the one whose claim picked it.
RowMoves(r) ==
  /\ run'[r].zone = run[r].zone
  /\ \/ run'[r].worker \subseteq run[r].worker
     \/ \E w \in Workers : claim[w].pick = r /\ run'[r].worker = {w}
PickMoves(w) == claim'[w].pick \in {claim[w].pick, NoRun} \cup Suitable(w)

LEMMA RowsMove ==
  ASSUME Sound, Next
  PROVE  /\ \A r \in Runs : r \in Runs' /\ RowMoves(r)
         /\ Runs' = Runs \/ \E s \in Submissions, told \in BOOLEAN : Submit(s, told)
         /\ \A w \in Workers : PickMoves(w)
<1> USE DEF Sound
<1>1. ASSUME NEW s \in Submissions, NEW told \in BOOLEAN, Submit(s, told)
      PROVE  (\A r \in Runs : r \in Runs' /\ RowMoves(r)) /\ \A w \in Workers : PickMoves(w)
  BY <1>1, SubmitDoes DEF RowMoves, PickMoves
<1>2. ASSUME NEW w \in Workers, Presence(w)
      PROVE  /\ Runs' = Runs /\ \A r \in Runs : RowMoves(r)
             /\ \A v \in Workers : PickMoves(v)
  <2>1. CASE Connect(w)
    <3>1. \A r \in Runs : Abandoned(r).zone = run[r].zone /\ Abandoned(r).worker \subseteq run[r].worker
      BY AbandonedIs
    <3>2. Runs' = Runs /\ claim' = claim /\ \A r \in Runs : run'[r] = run[r] \/ run'[r] = Abandoned(r)
      BY <2>1, ConnectDoes
    <3> QED BY <3>1, <3>2 DEF RowMoves, PickMoves
  <2>2. ASSUME NEW restarted \in BOOLEAN, Disconnect(w, restarted)
        PROVE  /\ Runs' = Runs /\ \A r \in Runs : RowMoves(r)
               /\ \A v \in Workers : PickMoves(v)
    <3>1. run' = run /\ \A v \in Workers : claim'[v].pick = claim[v].pick
      BY <2>2, DisconnectDoes DEF SameClaim
    <3> QED BY <3>1 DEF RowMoves, PickMoves, Runs
  <2>3. CASE GoesStale(w) \/ Undrain(w) \/ Drain(w)
    <3>1. UNCHANGED <<run, claim>>
      BY <2>3, RowOnly, DrainDoes
    <3> QED BY <3>1 DEF RowMoves, PickMoves, Runs
  <2> QED BY <1>2, <2>1, <2>2, <2>3 DEF Presence
<1>3. ASSUME NEW w \in Workers, Loop(w)
      PROVE  /\ Runs' = Runs /\ \A r \in Runs : RowMoves(r)
             /\ \A v \in Workers : PickMoves(v)
  <2>1. CASE SendClaim(w)
    <3>1. run' = run /\ \A v \in Workers : claim'[v].pick = claim[v].pick
      BY <2>1, SendClaimDoes DEF SameClaim
    <3> QED BY <3>1 DEF RowMoves, PickMoves, Runs
  <2>2. CASE Receive(w)
    <3>1. run' = run /\ \A v \in Workers : claim'[v].pick \in {claim[v].pick, NoRun}
      BY <2>2, ReceiveDoes, NoLocks DEF SameClaim
    <3> QED BY <3>1 DEF RowMoves, PickMoves, Runs
  <2>3. ASSUME NEW r \in Runs, Finish(w, r)
        PROVE  /\ Runs' = Runs /\ \A q \in Runs : RowMoves(q)
               /\ \A v \in Workers : PickMoves(v)
    <3>1. claim' = claim /\ Runs' = Runs
          /\ \A q \in Runs : run'[q].zone = run[q].zone /\ run'[q].worker = run[q].worker
      BY <2>3, FinishDoes
    <3> QED BY <3>1 DEF RowMoves, PickMoves
  <2> QED BY <1>3, <2>1, <2>2, <2>3 DEF Loop
<1>4. ASSUME NEW w \in Workers, Serving(w)
      PROVE  /\ Runs' = Runs /\ \A r \in Runs : RowMoves(r)
             /\ \A v \in Workers : PickMoves(v)
  <2>1. CASE Serve(w)
    <3>1. run' = run /\ \A v \in Workers : claim'[v].pick = claim[v].pick
      BY <2>1, ServeDoes DEF SameClaim
    <3> QED BY <3>1 DEF RowMoves, PickMoves, Runs
  <2>2. CASE Scan(w)
    <3>1. run' = run /\ claim'[w].pick \in Suitable(w) \cup {NoRun}
          /\ \A v \in Workers \ {w} : claim'[v].pick = claim[v].pick
      BY <2>2, ScanDoes DEF SameClaim
    <3> QED BY <3>1 DEF RowMoves, PickMoves, Runs
  <2>3. CASE Grant(w)
    <3>1. Runs' = Runs /\ \A q \in Runs \ {claim[w].pick} : run'[q] = run[q]
      BY <2>3, GrantDoes
    <3>2. run'[claim[w].pick].worker = {w} /\ run'[claim[w].pick].zone = run[claim[w].pick].zone
      BY <2>3, GrantDoes
    <3>3. \A v \in Workers : claim'[v].pick \in {claim[v].pick, NoRun}
      BY <2>3, GrantDoes DEF SameClaim
    <3>4. \A q \in Runs : RowMoves(q)
      BY <3>1, <3>2 DEF RowMoves
    <3> QED BY <3>1, <3>3, <3>4 DEF PickMoves
  <2>4. CASE GrantNone(w)
    <3>1. run' = run /\ \A v \in Workers : claim'[v].pick \in {claim[v].pick, NoRun}
      BY <2>4, GrantNoneDoes DEF SameClaim
    <3> QED BY <3>1 DEF RowMoves, PickMoves, Runs
  <2>5. ASSUME NEW through \in BOOLEAN, ClaimFails(w, through)
        PROVE  /\ Runs' = Runs /\ \A r \in Runs : RowMoves(r)
               /\ \A v \in Workers : PickMoves(v)
    <3>1. run' = run /\ \A v \in Workers : claim'[v].pick \in {claim[v].pick, NoRun}
      BY <2>5, ClaimFailsDoes, NoLocks DEF SameClaim
    <3> QED BY <3>1 DEF RowMoves, PickMoves, Runs
  <2> QED BY <1>4, <2>1, <2>2, <2>3, <2>4, <2>5 DEF Serving
<1>5. ASSUME NEW r \in Runs, ReapCommits(r) \/ FailWaiting(r) \/ \E w \in Workers : Reap(w, r)
      PROVE  /\ Runs' = Runs /\ \A q \in Runs : RowMoves(q)
             /\ \A v \in Workers : PickMoves(v)
  <2>1. CASE ReapCommits(r)
    <3>1. Runs' = Runs /\ claim' = claim /\ \A q \in Runs : run'[q] = run[q] \/ run'[q] = Abandoned(q)
      BY <2>1, ReapCommitsDoes
    <3>2. \A q \in Runs : Abandoned(q).zone = run[q].zone /\ Abandoned(q).worker \subseteq run[q].worker
      BY AbandonedIs
    <3> QED BY <3>1, <3>2 DEF RowMoves, PickMoves
  <2>2. CASE FailWaiting(r)
    <3>1. Runs' = Runs /\ claim' = claim
          /\ \A q \in Runs : run'[q].zone = run[q].zone /\ run'[q].worker = run[q].worker
      BY <2>2, FailWaitingDoes
    <3> QED BY <3>1 DEF RowMoves, PickMoves
  <2>3. CASE \E w \in Workers : Reap(w, r)
    <3>1. run' = run /\ claim' = claim
      BY <2>3, ReapDoes
    <3> QED BY <3>1 DEF RowMoves, PickMoves, Runs
  <2> QED BY <1>5, <2>1, <2>2, <2>3
<1> QED BY <1>1, <1>2, <1>3, <1>4, <1>5 DEF Next

LEMMA Constants ==
  ASSUME NEW s, NEW d
  PROVE  /\ Parts(s)' = Parts(s) /\ ResolveZone(d)' = ResolveZone(d) /\ Homes(s)' = Homes(s)
         /\ Spread(s)' = Spread(s) /\ Covered(s)' = Covered(s) /\ NoRun' = NoRun
         /\ Child(s, d)' = Child(s, d)
<1>1. Covering(d)' = Covering(d)
  BY DEF Covering
<1>2. ResolveZone(d)' = ResolveZone(d)
  BY DEF ResolveZone, First, Covering
<1>3. Parts(s)' = Parts(s)
  BY DEF Parts, ResolveZone, First, Covering
<1>4. Homes(s)' = Homes(s) /\ NoRun' = NoRun /\ Child(s, d)' = Child(s, d)
  BY DEF Homes, NoRun, Child
<1>5. Spread(s)' = Spread(s) /\ Covered(s)' = Covered(s)
  BY DEF Spread, Covered, Covering
<1> QED BY <1>2, <1>3, <1>4, <1>5

LEMMA SplitNext ==
  ASSUME NEW s,
         \/ Children(s)' = {}
         \/ /\ Children(s)' = {Child(s, p) : p \in Parts(s)}
            /\ \A p \in Parts(s) : \A d \in p : run'[Child(s, p)].zone = ResolveZone(d)
  PROVE  Split(s)'
<1>1. PICK P : P = Parts(s)
  OBVIOUS
<1>2. Parts(s)' = P
  BY <1>1, Constants
<1>3. \/ Children(s)' = {}
      \/ /\ Children(s)' = {Child(s, p) : p \in P}
         /\ \A p \in P : \A d \in p : run'[Child(s, p)].zone = ResolveZone(d)
  BY <1>1
<1>4. \A d : ResolveZone(d)' = ResolveZone(d)
  BY Constants
<1>5. Split(s)' <=> \/ Children(s)' = {}
                    \/ /\ Children(s)' = {Child(s, p)' : p \in P}
                       /\ \A p \in P : \A d \in p : run'[Child(s, p)'].zone = ResolveZone(d)'
  BY <1>2 DEF Split
<1>6. \A p : Child(s, p)' = Child(s, p)
  BY Constants
<1> QED BY <1>3, <1>4, <1>5, <1>6

LEMMA PlacedNext == Sound /\ Placed /\ [Next]_vars => Placed'
<1> SUFFICES ASSUME Sound, Placed, [Next]_vars PROVE Placed'
  OBVIOUS
<1>1. CASE Next
  <2>1. /\ \A r \in Runs : r \in Runs' /\ RowMoves(r)
        /\ Runs' = Runs \/ \E s \in Submissions, told \in BOOLEAN : Submit(s, told)
        /\ \A w \in Workers : PickMoves(w)
    BY <1>1, RowsMove
  <2>2. ASSUME NEW r \in Runs
        PROVE  Rightly(r)'
    <3>1. Rightly(r)
      BY DEF Placed
    <3>2. run'[r].zone = run[r].zone
      BY <2>1 DEF RowMoves
    <3>3. ASSUME NEW w \in run'[r].worker
          PROVE  ZoneOf[w] = run'[r].zone /\ r.sub \in CanRun[w]
      <4>1. CASE w \in run[r].worker
        BY <3>1, <3>2, <4>1 DEF Rightly
      <4>2. CASE w \in Workers /\ claim[w].pick = r
        <5>1. r # NoRun
          BY NoSuchRun DEF Sound, Typed
        <5>2. r \in InZone(w)
          BY <4>2, <5>1 DEF Placed
        <5> QED BY <3>2, <5>2 DEF InZone
      <4> QED BY <2>1, <3>3, <4>1, <4>2 DEF RowMoves
    <3> QED BY <3>1, <3>2, <3>3 DEF Rightly, Homes
  <2>3. ASSUME NEW w \in Workers, claim'[w].pick # NoRun
        PROVE  claim'[w].pick \in InZone(w)'
    <3>1. claim'[w].pick \in InZone(w)
      BY <2>1, <2>3 DEF Placed, PickMoves, Suitable
    <3>2. \A r \in Runs : r \in Runs' /\ run'[r].zone = run[r].zone
      BY <2>1 DEF RowMoves
    <3> QED BY <3>1, <3>2 DEF InZone
  <2>4. \A s : (Spread(s) <=> Spread(s)') /\ (Covered(s) <=> Covered(s)') /\ NoRun' = NoRun
    BY DEF Spread, Covered, Covering, NoRun
  <2>5. CASE Runs' = Runs
    <3>1. \A r \in Runs' : Rightly(r)'
      BY <2>2, <2>5
    <3>2. ASSUME NEW s \in Submissions, Spread(s), Covered(s)
          PROVE  Split(s)'
      <4>1. Split(s) /\ Children(s)' = Children(s)
        BY <2>5, <3>2 DEF Placed, Children
      <4>2. Children(s) \subseteq Runs /\ \A r \in Runs : run'[r].zone = run[r].zone
        BY <2>1 DEF Children, RowMoves
      <4>3. \A p \in Parts(s) : Children(s) = {Child(s, q) : q \in Parts(s)} => Child(s, p) \in Runs
        BY <4>2
      <4> QED BY <4>1, <4>2, <4>3, SplitNext DEF Split
    <3> QED BY <2>3, <2>4, <3>1, <3>2 DEF Placed
  <2>6. ASSUME NEW t \in Submissions, NEW told \in BOOLEAN, Submit(t, told)
        PROVE  Placed'
    <3>1. PICK N : N = NewRuns(t)
      OBVIOUS
    <3>2. /\ \A r \in Runs : r.sub # t /\ run'[r] = run[r]
          /\ Runs' = Runs \cup DOMAIN N
          /\ \A r \in DOMAIN N : r \notin Runs /\ run'[r] = N[r]
      BY <2>6, <3>1, SubmitDoes DEF Sound
    <3>3. /\ \A r \in DOMAIN N : /\ r.sub = t /\ N[r].worker = {}
                                 /\ Definition[t].policy = "pinned" => N[r].zone \in Homes(t)
          /\ Spread(t) /\ Covered(t) =>
               /\ DOMAIN N = {Child(t, p) : p \in Parts(t)}
               /\ \A p \in Parts(t) : \A d \in p : N[Child(t, p)].zone = ResolveZone(d)
      BY <3>1, NewRunsAre
    <3>4. ASSUME NEW r \in DOMAIN N
          PROVE  Rightly(r)'
      <4>1. /\ run'[r] = N[r] /\ r.sub = t /\ N[r].worker = {}
            /\ Definition[t].policy = "pinned" => N[r].zone \in Homes(t)
        BY <3>2, <3>3
      <4> QED BY <4>1, Constants DEF Rightly, Homes
    <3>5. ASSUME NEW s \in Submissions, Spread(s), Covered(s)
          PROVE  Split(s)'
      <4>1. CASE s = t
        <5>1. Children(s)' = {Child(t, p) : p \in Parts(t)} /\ DOMAIN N = {Child(t, p) : p \in Parts(t)}
          <6>1. DOMAIN N = {Child(t, p) : p \in Parts(t)} /\ \A r \in DOMAIN N : r.sub = t
            BY <3>3, <3>5, <4>1
          <6>2. Children(s)' = {r \in Runs' : r.sub = s}
            BY DEF Children
          <6>3. {r \in Runs' : r.sub = s} = DOMAIN N
            BY <3>2, <4>1, <6>1
          <6> QED BY <6>1, <6>2, <6>3
        <5>2. \A p \in Parts(t) : \A d \in p : run'[Child(t, p)].zone = ResolveZone(d)
          BY <3>2, <3>3, <3>5, <4>1, <5>1
        <5> QED BY <4>1, <5>1, <5>2, SplitNext
      <4>2. CASE s # t
        <5>1. Split(s) /\ Children(s) \subseteq Runs
          BY <3>5 DEF Placed, Children
        <5>2. Children(s)' = {r \in Runs' : r.sub = s} /\ Children(s) = {r \in Runs : r.sub = s}
          BY DEF Children
        <5>3. Children(s)' = Children(s)
          BY <3>2, <3>3, <4>2, <5>2
        <5>4. \A p \in Parts(s) : Children(s) = {Child(s, q) : q \in Parts(s)} => Child(s, p) \in Runs
          BY <5>1
        <5> QED BY <3>2, <5>1, <5>3, <5>4, SplitNext DEF Split
      <4> QED BY <4>1, <4>2
    <3> QED BY <2>2, <2>3, <2>4, <3>2, <3>4, <3>5 DEF Placed
  <2> QED BY <2>1, <2>5, <2>6
<1>2. CASE UNCHANGED vars
  <2>1. run' = run /\ claim' = claim /\ Runs' = Runs
    BY <1>2 DEF vars, Runs
  <2>2. \A r \in Runs' : Rightly(r)'
    BY <2>1 DEF Placed, Rightly, Homes
  <2>3. \A w \in Workers : claim'[w].pick # NoRun => claim'[w].pick \in InZone(w)'
    BY <2>1 DEF Placed, InZone
  <2>4. ASSUME NEW s \in Submissions, Spread(s), Covered(s)
        PROVE  Split(s)'
    BY <2>1, <2>4, SplitNext DEF Placed, Split, Children
  <2> QED BY <2>2, <2>3, <2>4, Constants DEF Placed
<1> QED BY <1>1, <1>2

LEMMA PlacedInit == Init => Placed
<1> SUFFICES ASSUME Init PROVE Placed
  OBVIOUS
<1>1. Runs = {}
  BY DEF Init, Runs
<1>2. \A w \in Workers : claim[w].pick = NoRun
  BY NoLocks DEF Init
<1> QED BY <1>1, <1>2 DEF Placed, Split, Children

LEMMA PlacedAlways == Spec => [](Sound /\ Placed)
<1>1. Sound /\ Placed /\ [Next]_vars => Sound' /\ Placed'
  BY SoundNext, PlacedNext
<1>2. Init => Sound /\ Placed
  BY SoundInit, PlacedInit
<1> QED BY <1>1, <1>2, PTL DEF Spec

\* A pinned run is worked on at home or in a failover target of its zone, by a worker able
\* to, whatever was claimed, reaped, lost and queued again in between.
THEOREM WhereAllowed == Spec => []RunsWhereAllowed
<1>1. Sound /\ Placed => RunsWhereAllowed
  <2> SUFFICES ASSUME Sound, Placed, NEW r \in Runs, NEW w \in run[r].worker
               PROVE  /\ r.sub \in CanRun[w]
                      /\ Definition[r.sub].policy = "pinned" =>
                           \/ ZoneOf[w] = Definition[r.sub].home
                           \/ /\ ~Definition[r.sub].local
                              /\ \E i \in DOMAIN Targets[Definition[r.sub].home] :
                                   ZoneOf[w] = Targets[Definition[r.sub].home][i]
    BY DEF RunsWhereAllowed
  <2>1. ZoneOf[w] = run[r].zone /\ r.sub \in CanRun[w]
    BY DEF Placed, Rightly
  <2>2. ZoneOf[w] # Unplaced
    <3>1. w \in Workers
      BY DEF Sound, Typed, RunRow
    <3> QED BY <3>1, Bounds
  <2>3. Definition[r.sub].policy = "pinned" => ZoneOf[w] \in Homes(r.sub)
    BY <2>1 DEF Placed, Rightly
  <2> QED BY <2>1, <2>2, <2>3 DEF Homes
<1> QED BY <1>1, PlacedAlways, PTL

\* Every device of a fan-out is in one child, and worked on in the zone that wins it.
THEOREM OneChildEach == Spec => []OneChildPerDevice
<1>1. Sound /\ Placed => OneChildPerDevice
  <2> SUFFICES ASSUME Sound, Placed, NEW s \in Submissions, Spread(s), Covered(s), Children(s) # {},
                      NEW d \in Definition[s].devices
               PROVE  \E c \in Children(s) :
                        /\ \A b \in Children(s) : d \in b.part => b = c
                        /\ d \in c.part
                        /\ \A w \in run[c].worker : ZoneOf[w] = ResolveZone(d)
    BY DEF OneChildPerDevice, Children
  <2>1. /\ Children(s) = {Child(s, p) : p \in Parts(s)}
        /\ \A p \in Parts(s) : \A e \in p : run[Child(s, p)].zone = ResolveZone(e)
    BY DEF Placed, Split
  <2>2. PICK p \in Parts(s) : d \in p
    BY PartsAre
  <2>3. \A q \in Parts(s) : d \in q => q = p
    BY <2>2, PartsAre
  <2>4. Child(s, p) \in Children(s) /\ \A q \in Parts(s) : Child(s, q).part = q
    BY <2>1, <2>2 DEF Child
  <2>5. \A w \in run[Child(s, p)].worker : ZoneOf[w] = ResolveZone(d)
    <3>1. Rightly(Child(s, p))
      BY <2>4 DEF Children, Placed
    <3> QED BY <2>1, <2>2, <3>1 DEF Rightly
  <2>6. \A b \in Children(s) : d \in b.part => b = Child(s, p)
    BY <2>1, <2>3, <2>4
  <2> QED BY <2>2, <2>4, <2>5, <2>6
<1> QED BY <1>1, PlacedAlways, PTL

-----------------------------------------------------------------------------
(* No idle agent that heard its wake-ups leaves a run behind. *)

\* What there is for a worker to take, now or once the reaper has committed.
Awaits(r) == run[r].state = "PENDING" \/ (r \in reaped /\ run[r].attempt < Attempts)
Work(v) == {r \in Runs : run[r].zone = ZoneOf[v] /\ r.sub \in CanRun[v] /\ Awaits(r)}

\* Connected, and no wake-up has come that it has not acted on.
Hears(v) == agent[v].connected /\ ~agent[v].wanted /\ ~agent[v].missed

Rests(v) == Hears(v) =>
  /\ claim[v].phase = "idle" /\ ~agent[v].draining /\ Room(v) > 0 => Work(v) = {}
  /\ claim[v].phase = "scan" /\ claim[v].pick = NoRun /\ claim[v].got = {} => Work(v) = {}
  /\ claim[v].phase = "between" /\ claim[v].left = 0 /\ claim[v].got = {} => Work(v) = {}
  /\ claim[v].phase # "idle" => claim[v].heard

Resting == \A v \in Workers : Rests(v)

NoNews(v, r) == /\ run'[r].zone = run[r].zone
                /\ run[r].zone = ZoneOf[v] /\ Awaits(r)' => Awaits(r)

LEMMA LessWork ==
  ASSUME NEW v \in Workers, Runs' = Runs, \A r \in Runs : NoNews(v, r)
  PROVE  Work(v)' \subseteq Work(v)
<1> SUFFICES ASSUME NEW r \in Runs, run'[r].zone = ZoneOf[v], r.sub \in CanRun[v], Awaits(r)'
             PROVE  r \in Work(v)
  BY DEF Work
<1> QED BY DEF Work, NoNews

LEMMA SameWork ==
  ASSUME run' = run, reaped' = reaped, NEW v
  PROVE  Work(v)' = Work(v)
BY DEF Work, Awaits, Runs

\* Whatever puts a run where it can be taken wakes the agents of its zone.
LEMMA NoSurprise ==
  ASSUME Sound, Next, NEW v \in Workers, Hears(v)'
  PROVE  Work(v)' \subseteq Work(v)
<1> USE DEF Sound
<1>1. ASSUME NEW s \in Submissions, NEW told \in BOOLEAN, Submit(s, told)
      PROVE  Work(v)' \subseteq Work(v)
  <2>1. PICK N : N = NewRuns(s)
    OBVIOUS
  <2>2. /\ Runs' = Runs \cup DOMAIN N /\ reaped' = reaped
        /\ \A r \in Runs : run'[r] = run[r]
        /\ \A r \in DOMAIN N : run'[r] = N[r]
        /\ Wakes(v) /\ \A r \in DOMAIN N : Told(v, N[r].zone)
    BY <1>1, <2>1, SubmitDoes
  <2>3. \A r \in DOMAIN N : run'[r].zone # ZoneOf[v]
    BY <2>2 DEF Hears, Wakes, Told
  <2> SUFFICES ASSUME NEW r \in Runs', run'[r].zone = ZoneOf[v], r.sub \in CanRun[v], Awaits(r)'
               PROVE  r \in Work(v)
    BY DEF Work
  <2>4. r \in Runs /\ run'[r] = run[r]
    BY <2>2, <2>3
  <2> QED BY <2>2, <2>4 DEF Work, Awaits
<1>2. ASSUME NEW w \in Workers, Connect(w)
      PROVE  Work(v)' \subseteq Work(v)
  <2>1. v # w
    BY <1>2, ConnectDoes DEF Hears
  <2>2. Wakes(v) /\ Runs' = Runs /\ reaped' = reaped
    BY <1>2, <2>1, ConnectDoes
  <2>3. ASSUME NEW r \in Runs
        PROVE  NoNews(v, r)
    <3>1. CASE run'[r] = run[r]
      BY <2>2, <3>1 DEF NoNews, Awaits
    <3>2. CASE /\ r \notin reaped /\ run'[r] = Abandoned(r)
               /\ run[r].attempt < Attempts => Told(v, run[r].zone)
      <4>1. run'[r].zone = run[r].zone
        BY <3>2, AbandonedIs
      <4>2. CASE run[r].attempt < Attempts
        BY <2>2, <3>2, <4>1, <4>2 DEF NoNews, Hears, Wakes, Told
      <4>3. CASE ~(run[r].attempt < Attempts)
        BY <2>2, <3>2, <4>1, <4>3, AbandonedIs DEF NoNews, Awaits
      <4> QED BY <4>2, <4>3
    <3> QED BY <1>2, <3>1, <3>2, ConnectDoes
  <2> QED BY <2>2, <2>3, LessWork
<1>3. ASSUME NEW w \in Workers, NEW r \in Runs, Finish(w, r)
      PROVE  Work(v)' \subseteq Work(v)
  <2>1. \A q \in Runs : /\ run'[q].zone = run[q].zone /\ run'[q].attempt = run[q].attempt
                        /\ run'[q].state = "PENDING" => run[q].state = "PENDING"
    BY <1>3, FinishDoes
  <2>2. Runs' = Runs /\ reaped' = reaped
    BY <1>3, FinishDoes
  <2>3. \A q \in Runs : NoNews(v, q)
    BY <2>1, <2>2 DEF NoNews, Awaits
  <2> QED BY <2>2, <2>3, LessWork
<1>4. ASSUME NEW w \in Workers, Grant(w)
      PROVE  Work(v)' \subseteq Work(v)
  <2>1. \A q \in Runs : /\ run'[q].zone = run[q].zone /\ run'[q].attempt = run[q].attempt
                        /\ run'[q].state = "PENDING" => run[q].state = "PENDING"
    BY <1>4, GrantDoes
  <2>2. Runs' = Runs /\ reaped' = reaped
    BY <1>4, GrantDoes
  <2>3. \A q \in Runs : NoNews(v, q)
    BY <2>1, <2>2 DEF NoNews, Awaits
  <2> QED BY <2>2, <2>3, LessWork
<1>5. ASSUME NEW r \in Runs, ReapCommits(r)
      PROVE  Work(v)' \subseteq Work(v)
  <2>1. /\ Runs' = Runs /\ reaped' = reaped \ {r} /\ r \in reaped /\ run'[r] = Abandoned(r)
        /\ \A q \in Runs \ {r} : run'[q] = run[q]
    BY <1>5, ReapCommitsDoes
  <2>2. \A q \in Runs \ {r} : NoNews(v, q)
    BY <2>1 DEF NoNews, Awaits
  <2>3. NoNews(v, r)
    <3>1. run'[r].zone = run[r].zone /\ (~(run[r].attempt < Attempts) => run'[r].state = "ABANDONED")
      BY <2>1, AbandonedIs
    <3> QED BY <2>1, <3>1 DEF NoNews, Awaits
  <2> QED BY <2>1, <2>2, <2>3, LessWork
<1>6. ASSUME NEW r \in Runs, FailWaiting(r)
      PROVE  Work(v)' \subseteq Work(v)
  <2>1. \A q \in Runs : /\ run'[q].zone = run[q].zone /\ run'[q].attempt = run[q].attempt
                        /\ run'[q].state = "PENDING" => run[q].state = "PENDING"
    BY <1>6, FailWaitingDoes
  <2>2. Runs' = Runs /\ reaped' = reaped
    BY <1>6, FailWaitingDoes
  <2>3. \A q \in Runs : NoNews(v, q)
    BY <2>1, <2>2 DEF NoNews, Awaits
  <2> QED BY <2>2, <2>3, LessWork
<1>7. ASSUME NEW w \in Workers, NEW r \in Runs, Reap(w, r)
      PROVE  Work(v)' \subseteq Work(v)
  <2>1. /\ run' = run /\ Runs' = Runs /\ reaped' = reaped \cup {r}
        /\ Wakes(v) /\ (run[r].attempt < Attempts => Told(v, run[r].zone))
    BY <1>7, ReapDoes DEF Runs
  <2>2. \A q \in Runs \ {r} : NoNews(v, q)
    BY <2>1 DEF NoNews, Awaits
  <2>3. NoNews(v, r)
    <3>1. CASE run[r].attempt < Attempts
      BY <2>1, <3>1 DEF NoNews, Hears, Wakes, Told
    <3>2. CASE ~(run[r].attempt < Attempts)
      BY <2>1, <3>2 DEF NoNews, Awaits
    <3> QED BY <3>1, <3>2
  <2> QED BY <2>1, <2>2, <2>3, LessWork
<1>8. ASSUME run' = run, reaped' = reaped
      PROVE  Work(v)' \subseteq Work(v)
  BY <1>8, SameWork
<1>9. ASSUME NEW w \in Workers, Presence(w)
      PROVE  Connect(w) \/ UNCHANGED <<run, reaped>>
  <2>1. (\E restarted \in BOOLEAN : Disconnect(w, restarted)) => UNCHANGED <<run, reaped>>
    BY DisconnectDoes
  <2>2. GoesStale(w) \/ Undrain(w) \/ Drain(w) => UNCHANGED <<run, reaped>>
    BY RowOnly, DrainDoes
  <2> QED BY <1>9, <2>1, <2>2 DEF Presence
<1>10. ASSUME NEW w \in Workers, Loop(w)
       PROVE  (\E r \in Runs : Finish(w, r)) \/ UNCHANGED <<run, reaped>>
  BY <1>10, SendClaimDoes, ReceiveDoes DEF Loop
<1>11. ASSUME NEW w \in Workers, Serving(w)
       PROVE  Grant(w) \/ UNCHANGED <<run, reaped>>
  BY <1>11, ServeDoes, ScanDoes, GrantNoneDoes, ClaimFailsDoes DEF Serving
<1> QED BY <1>1, <1>2, <1>3, <1>4, <1>5, <1>6, <1>7, <1>8, <1>9, <1>10, <1>11 DEF Next

\* An agent that a step of others, or of the server, can only wake.
Undisturbed(v) ==
  /\ agent'[v].connected = agent[v].connected /\ agent'[v].runs = agent[v].runs
  /\ agent[v].draining => agent'[v].draining
  /\ agent[v].wanted => agent'[v].wanted
  /\ agent[v].missed => agent'[v].missed
  /\ claim'[v] = claim[v]

LEMMA RestsOn ==
  ASSUME Sound, Next, NEW v \in Workers, Rests(v), Undisturbed(v)
  PROVE  Rests(v)'
<1> SUFFICES ASSUME Hears(v)'
             PROVE  /\ claim'[v].phase = "idle" /\ ~agent'[v].draining /\ Room(v)' > 0 => Work(v)' = {}
                    /\ claim'[v].phase = "scan" /\ claim'[v].pick = NoRun /\ claim'[v].got = {}
                         => Work(v)' = {}
                    /\ claim'[v].phase = "between" /\ claim'[v].left = 0 /\ claim'[v].got = {}
                         => Work(v)' = {}
                    /\ claim'[v].phase # "idle" => claim'[v].heard
  BY DEF Rests, NoRun
<1>1. Hears(v)
  BY DEF Hears, Undisturbed
<1>2. Work(v)' \subseteq Work(v)
  BY NoSurprise
<1>3. Room(v)' = Room(v)
  BY DEF Room, Undisturbed
<1> QED BY <1>1, <1>2, <1>3 DEF Rests, Undisturbed

LEMMA RestsAnew == ASSUME NEW v, ~Hears(v)' PROVE Rests(v)'
BY DEF Rests

LEMMA SendClaimRests ==
  ASSUME Sound, NEW w \in Workers, SendClaim(w)
  PROVE  Rests(w)'
<1> USE DEF Sound
<1>1. CASE (agent[w].draining \/ Room(w) = 0) /\ claim' = claim
  <2>1. claim'[w].phase = "idle" /\ agent'[w].draining = agent[w].draining /\ agent'[w].runs = agent[w].runs
    BY <1>1, SendClaimDoes
  <2>2. Room(w)' = Room(w)
    BY <2>1 DEF Room
  <2>3. ~(Room(w) = 0 /\ Room(w) > 0)
    OBVIOUS
  <2> QED BY <1>1, <2>1, <2>2, <2>3 DEF Rests
<1>2. CASE claim'[w].phase = "sent" /\ claim'[w].heard
  BY <1>2 DEF Rests
<1> QED BY <1>1, <1>2, SendClaimDoes

LEMMA ReceiveRests ==
  ASSUME Sound, Next, NEW w \in Workers, Rests(w), Receive(w)
  PROVE  Rests(w)'
<1> USE DEF Sound
<1> SUFFICES ASSUME Hears(w)', ~agent'[w].draining
             PROVE  Work(w)' = {}
  BY ReceiveDoes, NoLocks DEF Rests
<1>1. CASE ~claim[w].heard
  <2>1. Hears(w) /\ claim[w].phase # "idle"
    BY <1>1, ReceiveDoes DEF Hears, SameAgent
  <2> QED BY <1>1, <2>1 DEF Rests
<1>2. CASE claim[w].heard
  <2>1. Hears(w) /\ claim[w].got = {} /\ claim[w].phase = "between" /\ claim[w].left = 0
    BY <1>2, ReceiveDoes DEF Hears
  <2> QED BY <2>1, NoSurprise DEF Rests
<1> QED BY <1>1, <1>2

LEMMA ServeRests ==
  ASSUME Sound, NEW w \in Workers, Rests(w), Serve(w)
  PROVE  Rests(w)'
<1> USE DEF Sound
<1> SUFFICES ASSUME Hears(w)'
             PROVE  claim'[w].phase \in {"draining", "between"} /\ claim'[w].heard
                    /\ ~(claim'[w].phase = "between" /\ claim'[w].left = 0)
  BY DEF Rests
<1>1. Hears(w) /\ claim[w].phase = "sent"
  BY ServeDoes DEF Hears
<1>2. claim[w].left > 0 /\ ~(claim'[w].left < claim[w].left)
  BY <1>1, ServeDoes DEF Counts, Hears
<1>3. claim'[w].left # 0
  BY <1>2 DEF Typed, ClaimRow
<1> QED BY <1>1, <1>3, ServeDoes DEF Rests

LEMMA ScanRests ==
  ASSUME Sound, Next, NEW w \in Workers, Rests(w), Scan(w)
  PROVE  Rests(w)'
<1> USE DEF Sound
<1> SUFFICES ASSUME Hears(w)'
             PROVE  /\ claim'[w].phase = "scan" /\ claim'[w].heard
                    /\ claim'[w].pick = NoRun => Work(w)' = {}
  BY DEF Rests, NoRun
<1>1. Hears(w) /\ claim[w].phase = "between" /\ claim'[w].phase = "scan"
  BY ScanDoes DEF Hears
<1>2. claim'[w].heard
  BY <1>1, ScanDoes DEF Rests
<1>3. ASSUME claim'[w].pick = NoRun
      PROVE  Work(w) = {}
  <2>1. Suitable(w) = {} /\ Unseen(w) = {}
    BY <1>3, ScanDoes DEF Hears
  <2>2. ASSUME NEW r \in Work(w)
        PROVE  FALSE
    <3>1. r \in InZone(w) /\ r \in Runs /\ run[r].zone = ZoneOf[w]
      BY <2>2 DEF Work, InZone
    <3>2. CASE r \in Pending \ Locked
      BY <2>1, <3>1, <3>2 DEF Suitable, Seen
    <3>3. CASE r \in Pending \cap Locked
      BY <2>1, <3>1, <3>3 DEF Unseen
    <3>4. CASE r \in reaped /\ run[r].attempt < Attempts
      BY <2>1, <3>1, <3>4 DEF Unseen, Requeued
    <3> QED BY <2>2, <3>1, <3>2, <3>3, <3>4 DEF Work, Awaits, Pending
  <2> QED BY <2>2
<1> QED BY <1>1, <1>2, <1>3, NoSurprise

LEMMA GrantRests ==
  ASSUME Sound, Next, NEW w \in Workers, Rests(w), Grant(w) \/ GrantNone(w)
  PROVE  Rests(w)'
<1> USE DEF Sound
<1>1. CASE Grant(w)
  <2>1. agent' = agent /\ claim'[w].phase = "between" /\ claim'[w].got # {}
        /\ claim'[w].heard = claim[w].heard /\ claim[w].phase = "scan"
    BY <1>1, GrantDoes
  <2> QED BY <2>1 DEF Rests, Hears
<1>2. CASE GrantNone(w)
  <2>1. /\ agent' = agent /\ claim'[w].phase = "between" /\ claim'[w].got = claim[w].got
        /\ claim'[w].heard = claim[w].heard /\ claim[w].phase = "scan" /\ claim[w].pick = NoRun
    BY <1>2, GrantNoneDoes
  <2>2. Hears(w)' => Hears(w) /\ Work(w)' \subseteq Work(w)
    BY <2>1, NoSurprise DEF Hears
  <2> QED BY <2>1, <2>2 DEF Rests
<1> QED BY <1>1, <1>2

LEMMA RestingNext == Sound /\ Resting /\ [Next]_vars => Resting'
<1> SUFFICES ASSUME Sound, Resting, [Next]_vars, NEW v \in Workers PROVE Rests(v)'
  BY DEF Resting
<1> USE DEF Sound
<1>0. Rests(v)
  BY DEF Resting
<1>1. CASE Next
  <2>1. ASSUME NEW s \in Submissions, NEW told \in BOOLEAN, Submit(s, told)
        PROVE  Undisturbed(v)
    BY <2>1, SubmitDoes DEF Undisturbed, Wakes
  <2>2. ASSUME NEW w \in Workers, Presence(w)
        PROVE  ~Hears(v)' \/ Undisturbed(v)
    <3>1. CASE Connect(w)
      BY <3>1, ConnectDoes DEF Undisturbed, Wakes, Hears
    <3>2. ASSUME NEW restarted \in BOOLEAN, Disconnect(w, restarted)
          PROVE  ~Hears(v)' \/ Undisturbed(v)
      BY <3>2, DisconnectDoes DEF Undisturbed, Hears, SameAgent, SameClaim
    <3>3. CASE GoesStale(w) \/ Undrain(w)
      BY <3>3, RowOnly DEF Undisturbed
    <3>4. CASE Drain(w)
      BY <3>4, DrainDoes DEF Undisturbed, SameAgent
    <3> QED BY <2>2, <3>1, <3>2, <3>3, <3>4 DEF Presence
  <2>3. ASSUME NEW w \in Workers, Loop(w)
        PROVE  Rests(v)' \/ Undisturbed(v)
    <3>1. CASE SendClaim(w)
      BY <3>1, SendClaimDoes, SendClaimRests DEF Undisturbed, SameAgent, SameClaim
    <3>2. CASE Receive(w)
      BY <1>0, <1>1, <3>2, ReceiveDoes, ReceiveRests DEF Undisturbed, SameAgent, SameClaim
    <3>3. ASSUME NEW r \in Runs, Finish(w, r)
          PROVE  Rests(v)' \/ Undisturbed(v)
      <4>1. CASE v = w
        BY <3>3, <4>1, FinishDoes, RestsAnew DEF Hears
      <4>2. CASE v # w
        BY <3>3, <4>2, FinishDoes DEF Undisturbed, SameAgent
      <4> QED BY <4>1, <4>2
    <3> QED BY <2>3, <3>1, <3>2, <3>3 DEF Loop
  <2>4. ASSUME NEW w \in Workers, Serving(w)
        PROVE  Rests(v)' \/ Undisturbed(v)
    <3>1. CASE Serve(w)
      BY <1>0, <3>1, ServeDoes, ServeRests DEF Undisturbed, SameAgent, SameClaim
    <3>2. CASE Scan(w)
      BY <1>0, <1>1, <3>2, ScanDoes, ScanRests DEF Undisturbed, SameAgent, SameClaim
    <3>3. CASE Grant(w)
      BY <1>0, <1>1, <3>3, GrantDoes, GrantRests DEF Undisturbed, SameClaim
    <3>4. CASE GrantNone(w)
      BY <1>0, <1>1, <3>4, GrantNoneDoes, GrantRests DEF Undisturbed, SameClaim
    <3>5. ASSUME NEW through \in BOOLEAN, ClaimFails(w, through)
          PROVE  Rests(v)' \/ Undisturbed(v)
      <4>1. CASE v = w
        BY <3>5, <4>1, ClaimFailsDoes, RestsAnew DEF Hears
      <4>2. CASE v # w
        BY <3>5, <4>2, ClaimFailsDoes DEF Undisturbed, SameAgent, SameClaim
      <4> QED BY <4>1, <4>2
    <3> QED BY <2>4, <3>1, <3>2, <3>3, <3>4, <3>5 DEF Serving
  <2>5. ASSUME NEW r \in Runs, ReapCommits(r) \/ FailWaiting(r) \/ \E w \in Workers : Reap(w, r)
        PROVE  Undisturbed(v)
    <3>1. CASE ReapCommits(r) \/ FailWaiting(r)
      BY <3>1, ReapCommitsDoes, FailWaitingDoes DEF Undisturbed
    <3>2. CASE \E w \in Workers : Reap(w, r)
      BY <3>2, ReapDoes DEF Undisturbed, Wakes
    <3> QED BY <2>5, <3>1, <3>2
  <2>6. Undisturbed(v) => Rests(v)'
    BY <1>0, <1>1, RestsOn
  <2> QED BY <1>1, <2>1, <2>2, <2>3, <2>4, <2>5, <2>6, RestsAnew DEF Next
<1>2. CASE UNCHANGED vars
  <2>1. run' = run /\ agent' = agent /\ claim' = claim /\ reaped' = reaped
    BY <1>2 DEF vars
  <2>2. Work(v)' = Work(v)
    BY <2>1, SameWork
  <2> QED BY <1>0, <2>1, <2>2 DEF Rests, Hears, Room, NoRun
<1> QED BY <1>1, <1>2

LEMMA RestingInit == Init => Resting
BY DEF Init, Resting, Rests, Hears

\* A connected agent with room whose loop is at rest, and that missed no wake-up, has
\* nothing in the queue that it could take.
THEOREM NothingLeftQueued == Spec => []WorkConserving
<1>1. Sound /\ Resting => WorkConserving
  <2> SUFFICES ASSUME Resting, NEW w \in Workers, AtRest(w), ~agent[w].missed,
                      NEW r \in InZone(w) \cap (Pending \ Locked)
               PROVE  FALSE
    BY DEF WorkConserving
  <2>1. Hears(w) /\ claim[w].phase = "idle" /\ ~agent[w].draining /\ Room(w) > 0
    BY DEF AtRest, Hears
  <2>2. Work(w) = {}
    BY <2>1 DEF Resting, Rests
  <2>3. r \in Work(w)
    BY DEF Work, Awaits, InZone, Pending
  <2> QED BY <2>2, <2>3
<1>2. Sound /\ Resting /\ [Next]_vars => Sound' /\ Resting'
  BY SoundNext, RestingNext
<1>3. Init => Sound /\ Resting
  BY SoundInit, RestingInit
<1> QED BY <1>1, <1>2, <1>3, PTL DEF Spec

=============================================================================
