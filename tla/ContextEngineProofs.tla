------------------------- MODULE ContextEngineProofs -------------------------
(***************************************************************************)
(* Proofs about ContextEngine, for any agents, rules, requests, deadlines   *)
(* and bounds: every copy of the vault keeps its shape; an approval is      *)
(* granted less than a maintenance interval after its deadline; and unless  *)
(* a crash, a failed or overlapping save or a change during the last save   *)
(* lost something, neither a decision, a release nor a withdrawal is        *)
(* forgotten, in memory or over restarts.                                   *)
(*                                                                         *)
(* None of the four properties is inductive.  That grants come in time      *)
(* rests on the timer: no pending request of the vault in memory outlives   *)
(* the next maintenance by a whole interval (Bounded), and a save may bring *)
(* back any vault it has begun to write, so these are late-free as well.    *)
(* That nothing is forgotten rests on ids: what is decided, returned or     *)
(* withdrawn has an id no later request or rule gets, a queue holds an id   *)
(* once, and the last save holds exactly the vault that was in memory.      *)
(*                                                                         *)
(* Of the demo: every scenario shows what it claims, on the vault of every  *)
(* visitor who changed neither posture nor rules.  A scenario is followed   *)
(* step by step through what the answers depend on (Reached), and the calls *)
(* of the visitors keep their unchanged vaults as they were made (DemoInv). *)
(***************************************************************************)
EXTENDS DemoSessions, TLAPS

\* How far the service and its saves have got.
ServiceInv ==
  /\ stage = "off" <=> mem = NoVault
  /\ stage = "off" => writing.kinds = {}
  /\ stage = "starting" => writing.kinds = {"start"}
  /\ "start" \in writing.kinds => stage = "starting"
  /\ stage = "stopping" => writing.kinds # {}
  /\ writing.kinds = {} => writing.snaps = {} /\ ~writing.mixed

-----------------------------------------------------------------------------
(* Grants come in time *)

LateFree(v) == \A e \in v.queue : e.status = "approved" => e.resolved < e.expires + Interval

\* Every pending request is expired at the latest at the bound.
Bound == CASE stage = "on" -> due [] stage = "starting" -> now + Interval [] OTHER -> now

Bounded(v, b) == \A e \in v.queue : e.status = "pending" => b < e.expires + Interval

TimerInv ==
  /\ stage = "on" => due # 0 /\ now <= due /\ due <= now + Interval
  /\ mem # NoVault => LateFree(mem) /\ Bounded(mem, Bound)
  /\ disk \in Vault => LateFree(disk)
  /\ \A v \in writing.snaps : LateFree(v)

-----------------------------------------------------------------------------
(* Nothing is forgotten *)

Numbered(v, n) ==
  /\ \A e \in v.queue : e.id < n
  /\ \A r \in v.rules \cup v.scheduled : r.id < n

Unique(v) == \A x, y \in v.queue : x.id = y.id => x = y

AsDecided(v, resolved) == \A d \in resolved : \A e \in v.queue : e.id = d.id => e.status = d.status

OnLog(v, returned, t) ==
  \A r \in returned :
    \/ t > r.at + Retention
    \/ \E x \in v.audit :
         x.id = r.id /\ x.decision = "approved" /\ x.at = r.at /\ r.fields \subseteq x.fields

NotWithdrawn(v, gone) == \A r \in v.rules \cup v.scheduled : r.id \notin gone

Kept(v, n, returned, resolved, gone, t) ==
  /\ Numbered(v, n) /\ Unique(v)
  /\ AsDecided(v, resolved) /\ OnLog(v, returned, t) /\ NotWithdrawn(v, gone)
  /\ \A d \in resolved : d.id < n
  /\ \A id \in gone : id < n

\* The last save writes the vault as it is when the process ends.
MemoryInv ==
  /\ stage = "off" => disk # Torn
  /\ stage = "stopping" => writing.kinds = {"stop"} /\ writing.snaps = {mem} /\ ~writing.mixed
  /\ Kept(Current, nextId, released, decided, withdrawn, now)

EngineInv == ServiceInv /\ (~neglected => TimerInv) /\ (~lossy => MemoryInv)

IInv == TypeOK /\ EngineInv

-----------------------------------------------------------------------------
(* Vaults the calls build *)

\* The parts of a vault.
LEMMA VaultParts ==
  ASSUME NEW v \in Vault
  PROVE  /\ v.rules \subseteq Rule /\ v.scheduled \subseteq Scheduled
         /\ v.queue \subseteq Entry /\ v.audit \subseteq Audit
  BY DEF Vault

\* A vault with another queue.
LEMMA WithQueue ==
  ASSUME NEW v \in Vault, NEW q \in SUBSET Entry, NEW w, w = [v EXCEPT !.queue = q]
  PROVE  /\ w \in Vault /\ w.queue = q /\ w.audit = v.audit
         /\ w.rules = v.rules /\ w.scheduled = v.scheduled
  BY DEF Vault
\* A vault with another log.
LEMMA WithAudit ==
  ASSUME NEW v \in Vault, NEW l \in SUBSET Audit, NEW w, w = [v EXCEPT !.audit = l]
  PROVE  /\ w \in Vault /\ w.queue = v.queue /\ w.audit = l
         /\ w.rules = v.rules /\ w.scheduled = v.scheduled
  BY DEF Vault
\* A vault with other standard rules.
LEMMA WithRules ==
  ASSUME NEW v \in Vault, NEW r \in SUBSET Rule, NEW w, w = [v EXCEPT !.rules = r]
  PROVE  /\ w \in Vault /\ w.queue = v.queue /\ w.audit = v.audit
         /\ w.rules = r /\ w.scheduled = v.scheduled
  BY DEF Vault
\* A vault with other scheduled rules.
LEMMA WithScheduled ==
  ASSUME NEW v \in Vault, NEW r \in SUBSET Scheduled, NEW w, w = [v EXCEPT !.scheduled = r]
  PROVE  /\ w \in Vault /\ w.queue = v.queue /\ w.audit = v.audit
         /\ w.rules = v.rules /\ w.scheduled = r
  BY DEF Vault

\* The constants that bound times.
LEMMA Numbers ==
  /\ ApprovalTTL \in Nat \ {0} /\ Interval \in Nat \ {0}
  /\ RuleTTL \in Nat /\ Retention \in Nat /\ MaxId \in Nat /\ MaxTime \in Nat
  BY EngineAssumption

\* The vault a service starts with.
LEMMA EmptyVaultIsVault ==
  /\ EmptyVault \in Vault
  /\ EmptyVault.queue = {} /\ EmptyVault.rules = {} /\ EmptyVault.scheduled = {}
  BY DEF EmptyVault, Vault

\* Logging a request leaves everything but the log as it was.
LEMMA LoggedIsVault ==
  ASSUME NEW v \in Vault, now \in Nat, NEW id \in Ids, NEW agent \in Agents,
         NEW fields \in SUBSET Fields, NEW d \in {"approved", "denied", "pending"},
         NEW w, w = Logged(v, id, agent, fields, d)
  PROVE  /\ w \in Vault /\ w.queue = v.queue /\ w.rules = v.rules /\ w.scheduled = v.scheduled
         /\ w.audit = v.audit \cup
              {[id |-> id, agent |-> agent, fields |-> fields, decision |-> d, at |-> now]}
<1> DEFINE ev == [id |-> id, agent |-> agent, fields |-> fields, decision |-> d, at |-> now]
<1>1. ev \in Audit
  BY DEF Audit
<1>2. v.audit \cup {ev} \in SUBSET Audit
  BY <1>1, VaultParts
<1>3. w = [v EXCEPT !.audit = v.audit \cup {ev}]
  BY DEF Logged
<1>4. \A l \in SUBSET Audit : w = [v EXCEPT !.audit = l] =>
        /\ w \in Vault /\ w.queue = v.queue /\ w.audit = l
        /\ w.rules = v.rules /\ w.scheduled = v.scheduled
  BY WithAudit
<1> QED
  BY <1>2, <1>3, <1>4

\* What is approved was requested.
LEMMA ApprovedIsRequested ==
  ASSUME NEW v, NEW req PROVE Approved(v, req) \subseteq req.fields
<1>1. \A rules : Covered(rules, req) \subseteq req.fields
  BY DEF Covered
<1> QED
  BY <1>1 DEF Approved

-----------------------------------------------------------------------------
(* A call that changes the vault in memory *)

\* The time an open request has left is bounded by the timer.
LEMMA BoundIsNear ==
  ASSUME TypeOK, TimerInv PROVE Bound \in Nat /\ now <= Bound /\ Bound <= now + Interval
  BY Numbers DEF TypeOK, TimerInv, Bound

\* A vault in memory is one.
LEMMA MemoryIsVault ==
  ASSUME TypeOK, mem # NoVault
  PROVE  /\ mem \in Vault /\ mem.queue \subseteq Entry /\ mem.rules \subseteq Rule
         /\ mem.scheduled \subseteq Scheduled /\ mem.audit \subseteq Audit
         /\ now \in Nat /\ nextId \in Nat /\ Current = mem
  BY VaultParts, EngineAssumption DEF TypeOK, Current

\* What a call must show of the vault it leaves in memory.
LEMMA SetsKeeps ==
  ASSUME IInv, NEW v, v \in Vault, Sets(v), mem # NoVault,
         UNCHANGED <<stage, due, disk, writing, now, failures, starts, neglected>>,
         nextId' \in 1 .. MaxId + 1,
         released' \subseteq [id : Ids, fields : SUBSET Fields, at : Nat],
         decided' \subseteq [id : Ids, status : {"approved", "denied"}],
         withdrawn' \subseteq Ids,
         ~neglected => LateFree(v) /\ Bounded(v, Bound),
         ~lossy => Kept(v, nextId', released', decided', withdrawn', now)
  PROVE  IInv'
<1>0. mem' = v /\ lossy' = (lossy \/ stage = "stopping") /\ v # NoVault
  BY EngineAssumption DEF Sets
<1>1. TypeOK'
  BY <1>0 DEF IInv, TypeOK
<1>2. ServiceInv'
  BY <1>0 DEF IInv, EngineInv, ServiceInv
<1>3. ASSUME ~neglected PROVE TimerInv'
  <2>1. Bound' = Bound
    BY DEF Bound
  <2> QED
    BY <1>0, <1>3, <2>1 DEF IInv, EngineInv, TimerInv
<1>4. ASSUME ~lossy' PROVE MemoryInv'
  <2>1. Current' = v
    BY <1>0 DEF Current
  <2> QED
    BY <1>0, <1>2, <1>4, <2>1 DEF IInv, EngineInv, MemoryInv, ServiceInv
<1> QED
  BY <1>0, <1>1, <1>2, <1>3, <1>4 DEF IInv, EngineInv

-----------------------------------------------------------------------------
(* Requests *)

\* What a request to the engine carries.
LEMMA RequestParts ==
  ASSUME NEW req \in Requests
  PROVE  req \in Request /\ req.agent \in Agents /\ req.fields \in SUBSET Fields
  BY EngineAssumption DEF Request

\* The vault in memory, as the calls find it.
LEMMA MemoryFacts ==
  ASSUME IInv, mem # NoVault
  PROVE  /\ ~neglected => LateFree(mem) /\ Bounded(mem, Bound)
         /\ ~lossy => Kept(mem, nextId, released, decided, withdrawn, now)
  BY MemoryIsVault DEF IInv, EngineInv, TimerInv, MemoryInv

\* A new entry of the log and a new release of it.
LEMMA RequestLogged ==
  ASSUME IInv, mem # NoVault, NEW v \in Vault, NEW req \in Requests, nextId \in Ids,
         NEW d \in {"approved", "denied", "pending"}, NEW fields \in SUBSET req.fields,
         v.queue = mem.queue \/
           (\E e \in Entry :
              /\ v.queue = mem.queue \cup {e}
              /\ e.id = nextId /\ e.status = "pending" /\ e.expires = now + ApprovalTTL),
         v.rules = mem.rules, v.scheduled = mem.scheduled,
         v.audit = mem.audit \cup
           {[id |-> nextId, agent |-> req.agent, fields |-> req.fields, decision |-> d, at |-> now]},
         Sets(v), nextId' = nextId + 1,
         UNCHANGED <<stage, due, disk, writing, now, failures, starts, decided, withdrawn, neglected>>,
         \/ released' = released
         \/ d = "approved" /\ released' = released \cup {[id |-> nextId, fields |-> fields, at |-> now]}
  PROVE  IInv'
<1> DEFINE ev == [id |-> nextId, agent |-> req.agent, fields |-> req.fields,
                  decision |-> d, at |-> now]
           out == [id |-> nextId, fields |-> fields, at |-> now]
<1>1. /\ mem.queue \subseteq Entry /\ mem.rules \subseteq Rule /\ mem.scheduled \subseteq Scheduled
      /\ now \in Nat /\ nextId \in Nat /\ nextId + 1 \in 1 .. MaxId + 1 /\ MaxId \in Nat
      /\ released \subseteq [id : Ids, fields : SUBSET Fields, at : Nat]
      /\ decided \subseteq [id : Ids, status : {"approved", "denied"}] /\ withdrawn \subseteq Ids
  BY MemoryIsVault, Numbers DEF IInv, TypeOK, Ids
<1>2. out \in [id : Ids, fields : SUBSET Fields, at : Nat]
  BY <1>1, RequestParts
<1>3. released' \subseteq [id : Ids, fields : SUBSET Fields, at : Nat]
  BY <1>1, <1>2
<1>4. ASSUME NEW e \in v.queue
      PROVE  \/ e \in mem.queue
             \/ e.id = nextId /\ e.status = "pending" /\ e.expires = now + ApprovalTTL
  BY <1>4
<1>5. ASSUME ~neglected PROVE LateFree(v) /\ Bounded(v, Bound)
  <2>1. LateFree(mem) /\ Bounded(mem, Bound)
    BY <1>5, MemoryFacts
  <2>2. Bound < now + ApprovalTTL + Interval
    BY <1>1, <1>5, BoundIsNear, Numbers DEF IInv, EngineInv
  <2> QED
    BY <1>4, <2>1, <2>2 DEF LateFree, Bounded
<1>6. ASSUME ~lossy PROVE Kept(v, nextId + 1, released', decided, withdrawn, now)
  <2>1. Kept(mem, nextId, released, decided, withdrawn, now)
    BY <1>6, MemoryFacts
  <2>2. Numbered(v, nextId + 1)
    <3>1. \A e \in mem.queue : e.id \in Nat
      BY <1>1 DEF Entry, Ids
    <3>2. \A r \in mem.rules \cup mem.scheduled : r.id \in Nat
      BY <1>1 DEF Rule, Scheduled, Ids
    <3> QED
      BY <1>1, <1>4, <2>1, <3>1, <3>2 DEF Kept, Numbered
  <2>3. Unique(v)
    <3>1. \A e \in mem.queue : e.id # nextId
      BY <1>1, <2>1 DEF Kept, Numbered, Entry, Ids
    <3> QED
      BY <2>1, <3>1 DEF Kept, Unique
  <2>4. AsDecided(v, decided)
    <3>1. \A d2 \in decided : d2.id # nextId
      BY <1>1, <2>1 DEF Kept, Ids
    <3> QED
      BY <1>4, <2>1, <3>1 DEF Kept, AsDecided
  <2>5. OnLog(v, released', now)
    <3>1. ASSUME NEW r \in released
          PROVE  \/ now > r.at + Retention
                 \/ \E x \in v.audit : /\ x.id = r.id /\ x.decision = "approved"
                                       /\ x.at = r.at /\ r.fields \subseteq x.fields
      BY <2>1, <3>1 DEF Kept, OnLog
    <3>2. ev \in v.audit /\ ev.id = out.id /\ ev.at = out.at /\ out.fields \subseteq ev.fields
          /\ ev.decision = d
      OBVIOUS
    <3>3. released' = released \/ (d = "approved" /\ released' = released \cup {out})
      OBVIOUS
    <3> HIDE DEF ev, out
    <3> QED
      BY <3>1, <3>2, <3>3 DEF OnLog
  <2>6. NotWithdrawn(v, withdrawn)
    BY <2>1 DEF Kept, NotWithdrawn
  <2>7. (\A x \in decided : x.id < nextId + 1) /\ \A id \in withdrawn : id < nextId + 1
    BY <1>1, <2>1 DEF Kept, Ids
  <2> QED
    BY <2>2, <2>3, <2>4, <2>5, <2>6, <2>7 DEF Kept
<1> QED
  BY <1>1, <1>3, <1>5, <1>6, SetsKeeps

\* RequestDenied, RequestReleased and RequestQueued keep the invariant.
LEMMA RequestKeeps ==
  ASSUME IInv, NEW req \in Requests,
         RequestDenied(req) \/ RequestReleased(req) \/ RequestQueued(req)
  PROVE  IInv'
<1>0. /\ mem # NoVault /\ mem \in Vault /\ now \in Nat /\ nextId \in Ids /\ nextId' = nextId + 1
      /\ mem.queue \subseteq Entry
      /\ UNCHANGED <<stage, due, disk, writing, now, failures, starts, decided, withdrawn, neglected>>
  <2>1. mem # NoVault /\ nextId <= MaxId
    BY DEF RequestDenied, RequestReleased, RequestQueued
  <2> QED
    BY <2>1, MemoryIsVault, Numbers
       DEF IInv, TypeOK, Ids, RequestDenied, RequestReleased, RequestQueued, history
<1>1. CASE RequestDenied(req)
  <2> DEFINE v == Logged(mem, nextId, req.agent, req.fields, "denied")
  <2>1. Sets(v) /\ released' = released
    BY <1>1 DEF RequestDenied, history
  <2>2. /\ v \in Vault /\ v.queue = mem.queue /\ v.rules = mem.rules /\ v.scheduled = mem.scheduled
        /\ v.audit = mem.audit \cup {[id |-> nextId, agent |-> req.agent, fields |-> req.fields,
                                      decision |-> "denied", at |-> now]}
    BY <1>0, RequestParts, LoggedIsVault
  <2>3. req.fields \in SUBSET req.fields
    OBVIOUS
  <2> HIDE DEF v
  <2> QED
    BY <1>0, <2>1, <2>2, <2>3, RequestLogged
<1>2. CASE RequestReleased(req)
  <2> DEFINE v == Logged(mem, nextId, req.agent, req.fields, "approved")
  <2>1. /\ Sets(v)
        /\ released' = released \cup {[id |-> nextId, fields |-> req.fields, at |-> now]}
    BY <1>2 DEF RequestReleased
  <2>2. /\ v \in Vault /\ v.queue = mem.queue /\ v.rules = mem.rules /\ v.scheduled = mem.scheduled
        /\ v.audit = mem.audit \cup {[id |-> nextId, agent |-> req.agent, fields |-> req.fields,
                                      decision |-> "approved", at |-> now]}
    BY <1>0, RequestParts, LoggedIsVault
  <2>3. req.fields \in SUBSET req.fields
    OBVIOUS
  <2> HIDE DEF v
  <2> QED
    BY <1>0, <2>1, <2>2, <2>3, RequestLogged
<1>3. CASE RequestQueued(req)
  <2> DEFINE approved == Approved(mem, req)
             e == [id |-> nextId, request |-> req, status |-> "pending",
                   expires |-> now + ApprovalTTL, resolved |-> 0]
             w == [mem EXCEPT !.queue = mem.queue \cup {e}]
             d == IF approved = {} THEN "pending" ELSE "approved"
             v == Logged(w, nextId, req.agent, req.fields, d)
  <2>1. /\ Sets(v)
        /\ released' = released \/
             (d = "approved" /\ released' = released \cup {[id |-> nextId, fields |-> approved, at |-> now]})
    BY <1>3 DEF RequestQueued
  <2>2. e \in Entry /\ e.id = nextId /\ e.status = "pending" /\ e.expires = now + ApprovalTTL
    BY <1>0, RequestParts, Numbers DEF Entry
  <2>3. d \in {"approved", "denied", "pending"} /\ approved \in SUBSET req.fields
    BY ApprovedIsRequested
  <2> HIDE DEF approved, e, d
  <2>4. mem.queue \cup {e} \in SUBSET Entry
    BY <1>0, <2>2
  <2>5. /\ w \in Vault /\ w.queue = mem.queue \cup {e} /\ w.audit = mem.audit
        /\ w.rules = mem.rules /\ w.scheduled = mem.scheduled
    BY <1>0, <2>4, WithQueue
  <2> HIDE DEF w
  <2>6. /\ v \in Vault /\ v.queue = mem.queue \cup {e} /\ v.rules = mem.rules
        /\ v.scheduled = mem.scheduled
        /\ v.audit = mem.audit \cup {[id |-> nextId, agent |-> req.agent, fields |-> req.fields,
                                      decision |-> d, at |-> now]}
    BY <1>0, <2>3, <2>5, RequestParts, LoggedIsVault
  <2> HIDE DEF v
  <2> QED
    BY <1>0, <2>1, <2>2, <2>3, <2>6, RequestLogged
<1> QED
  BY <1>1, <1>2, <1>3

-----------------------------------------------------------------------------
(* The other calls *)

\* A call that touches neither the log nor, but for its status, an entry.
LEMMA QueueKept ==
  ASSUME IInv, mem # NoVault, NEW v \in Vault, v.queue = mem.queue, v.audit = mem.audit
  PROVE  /\ ~neglected => LateFree(v) /\ Bounded(v, Bound)
         /\ ~lossy => /\ Unique(v) /\ AsDecided(v, decided) /\ OnLog(v, released, now)
                      /\ \A d \in decided : d.id < nextId
                      /\ \A e \in v.queue : e.id < nextId
                      /\ \A id \in withdrawn : id < nextId
  BY MemoryFacts DEF LateFree, Bounded, Kept, Numbered, Unique, AsDecided, OnLog

\* A new id is above all that were handed out.
LEMMA NextIdIsNew ==
  ASSUME TypeOK, mem # NoVault, nextId <= MaxId
  PROVE  /\ nextId \in Ids /\ nextId \in Nat /\ nextId < nextId + 1 /\ nextId + 1 \in 1 .. MaxId + 1
         /\ \A id \in Ids : id < nextId => id < nextId + 1
  BY Numbers DEF TypeOK, Ids

\* approvals.resolve and the HTTP route, with or without a standing rule.
LEMMA ResolvesKeeps ==
  ASSUME IInv, mem # NoVault, NEW e \in mem.queue, NEW status \in {"approved", "denied"},
         NEW standing \in BOOLEAN, Resolves(e, status, standing)
  PROVE  IInv'
<1> DEFINE new == [e EXCEPT !.status = status, !.resolved = now]
           open == e.status = "pending"
           q == IF open THEN (mem.queue \ {e}) \cup {new} ELSE mem.queue
           u == [mem EXCEPT !.queue = q]
           rule == [id |-> nextId, agent |-> e.request.agent, purpose |-> NoOne,
                    persona |-> e.request.persona, fields |-> e.request.fields]
           rules == IF standing THEN mem.rules \cup {rule} ELSE mem.rules
           v == [u EXCEPT !.rules = rules]
<1>0. /\ mem \in Vault /\ mem.queue \subseteq Entry /\ mem.rules \subseteq Rule
      /\ mem.scheduled \subseteq Scheduled /\ now \in Nat /\ nextId \in Nat /\ e \in Entry
  BY MemoryIsVault DEF IInv
<1>1. new \in Entry /\ new.id = e.id /\ new.status = status /\ new.resolved = now
      /\ new.expires = e.expires
  BY <1>0 DEF Entry
<1>2. rule.id = nextId /\ (standing => rule \in Rule /\ nextId <= MaxId)
  <2>1. /\ e.request.agent \in Agents /\ e.request.persona \in Personas
        /\ e.request.fields \subseteq Fields
    BY <1>0 DEF Entry, Request
  <2>2. standing => nextId \in Ids /\ nextId <= MaxId
    BY <1>0, NextIdIsNew DEF Resolves, IInv
  <2> QED
    BY <2>1, <2>2 DEF Rule
<1> HIDE DEF new, rule
<1>3. q \in SUBSET Entry /\ rules \in SUBSET Rule
  BY <1>0, <1>1, <1>2
<1> HIDE DEF q, rules
<1>4. /\ u \in Vault /\ u.queue = q /\ u.audit = mem.audit /\ u.rules = mem.rules
      /\ u.scheduled = mem.scheduled
  BY <1>0, <1>3, WithQueue
<1> HIDE DEF u
<1>5. /\ v \in Vault /\ v.queue = q /\ v.audit = mem.audit /\ v.rules = rules
      /\ v.scheduled = mem.scheduled
  BY <1>3, <1>4, WithRules
<1>6. Sets(v)
  <2>1. u = resolveApproval(mem, e, status)
    <3>1. CASE open
      BY <3>1 DEF u, q, new, resolveApproval, Resolved
    <3>2. CASE ~open
      <4>1. [mem EXCEPT !.queue = mem.queue] = mem
        BY <1>0 DEF Vault
      <4> QED
        BY <3>2, <4>1 DEF u, q, resolveApproval
    <3> QED
      BY <3>1, <3>2
  <2>2. CASE standing
    BY <2>1, <2>2, <1>4 DEF Resolves, addRule, rules, rule
  <2>3. CASE ~standing
    <3>1. [u EXCEPT !.rules = u.rules] = u
      BY <1>4 DEF Vault
    <3> QED
      BY <2>1, <2>3, <3>1, <1>4 DEF Resolves, rules
  <2> QED
    BY <2>2, <2>3
<1> HIDE DEF v
<1>7. /\ UNCHANGED <<stage, due, disk, writing, now, failures, starts, neglected, released, withdrawn>>
      /\ decided' = IF open THEN decided \cup {[id |-> e.id, status |-> status]} ELSE decided
      /\ nextId' = IF standing THEN nextId + 1 ELSE nextId
  BY DEF Resolves
<1>8. /\ nextId' \in 1 .. MaxId + 1 /\ nextId' \in Nat /\ nextId <= nextId'
      /\ \A id \in Ids : id < nextId => id < nextId'
  BY <1>0, <1>2, <1>7, NextIdIsNew DEF IInv, TypeOK
<1>9. /\ released' \subseteq [id : Ids, fields : SUBSET Fields, at : Nat]
      /\ decided' \subseteq [id : Ids, status : {"approved", "denied"}] /\ withdrawn' \subseteq Ids
  BY <1>0, <1>7 DEF IInv, TypeOK, Entry
<1>10. ASSUME NEW x \in v.queue
       PROVE  \/ x \in mem.queue /\ ~(open /\ x = e)
              \/ open /\ x = new
  BY <1>5, <1>10 DEF q
<1>11. ASSUME ~neglected PROVE LateFree(v) /\ Bounded(v, Bound)
  <2>1. LateFree(mem) /\ Bounded(mem, Bound)
    BY <1>11, MemoryFacts
  <2>2. open => now < e.expires + Interval
    <3>1. Bound \in Nat /\ now <= Bound /\ e.expires + Interval \in Nat
      BY <1>0, <1>11, BoundIsNear, Numbers DEF IInv, EngineInv, Entry
    <3>2. open => Bound < e.expires + Interval
      BY <2>1 DEF Bounded
    <3> QED
      BY <1>0, <3>1, <3>2
  <2> QED
    BY <1>1, <1>10, <2>1, <2>2 DEF LateFree, Bounded
<1>12. ASSUME ~lossy PROVE Kept(v, nextId', released', decided', withdrawn', now)
  <2>1. Kept(mem, nextId, released, decided, withdrawn, now)
    BY <1>12, MemoryFacts
  <2>2. Numbered(v, nextId')
    <3>1. \A x \in v.queue : x.id \in Ids /\ x.id < nextId
      BY <1>0, <1>1, <1>10, <2>1 DEF Kept, Numbered, Entry
    <3>2. \A r \in mem.rules \cup mem.scheduled : r.id \in Ids /\ r.id < nextId
      BY <1>0, <2>1 DEF Kept, Numbered, Rule, Scheduled
    <3>3. \A r \in v.rules : r \in mem.rules \/ (standing /\ r = rule)
      BY <1>5 DEF rules
    <3>4. standing => nextId < nextId'
      BY <1>0, <1>7
    <3> QED
      BY <1>2, <1>5, <1>8, <3>1, <3>2, <3>3, <3>4 DEF Numbered
  <2>3. Unique(v)
    BY <1>1, <1>10, <2>1 DEF Kept, Unique
  <2>4. AsDecided(v, decided')
    <3>1. ASSUME NEW d \in decided', NEW x \in v.queue, x.id = d.id PROVE x.status = d.status
      <4>1. CASE d \in decided
        <5>1. open => d.id # e.id
          <6>1. d.status # "pending"
            BY <4>1 DEF IInv, TypeOK
          <6> QED
            BY <2>1, <4>1, <6>1 DEF Kept, AsDecided
        <5> QED
          BY <1>1, <1>10, <2>1, <3>1, <4>1, <5>1 DEF Kept, AsDecided
      <4>2. CASE open /\ d = [id |-> e.id, status |-> status]
        <5>1. x \in mem.queue => x = e
          BY <2>1, <3>1, <4>2 DEF Kept, Unique
        <5> QED
          BY <1>1, <1>10, <4>2, <5>1
      <4> QED
        BY <1>7, <3>1, <4>1, <4>2
    <3> QED
      BY <3>1 DEF AsDecided
  <2>5. OnLog(v, released', now)
    BY <1>5, <1>7, <2>1 DEF Kept, OnLog
  <2>6. NotWithdrawn(v, withdrawn')
    <3>1. nextId \notin withdrawn
      BY <1>0, <2>1 DEF Kept
    <3> QED
      BY <1>2, <1>5, <1>7, <2>1, <3>1 DEF Kept, NotWithdrawn, rules
  <2>7. (\A d \in decided' : d.id < nextId') /\ \A id \in withdrawn' : id < nextId'
    <3>1. e.id \in Ids /\ e.id < nextId
      BY <1>0, <2>1 DEF Kept, Numbered, Entry
    <3> QED
      BY <1>7, <1>8, <1>9, <2>1, <3>1 DEF Kept
  <2> QED
    BY <2>2, <2>3, <2>4, <2>5, <2>6, <2>7 DEF Kept
<1> QED
  BY <1>5, <1>6, <1>7, <1>8, <1>9, <1>11, <1>12, SetsKeeps

\* rules.add, rules.remove and vault.posture keep the invariant: the queue
\* and the log stay, and the rules only get a new id or lose one.
LEMMA RuleChangeKeeps ==
  ASSUME IInv, mem # NoVault, NEW v \in Vault, v.queue = mem.queue, v.audit = mem.audit, Sets(v),
         UNCHANGED <<stage, due, disk, writing, now, failures, starts, released, decided, neglected>>,
         nextId' \in {nextId, nextId + 1}, nextId' \in 1 .. MaxId + 1,
         NEW gone \in SUBSET Ids, withdrawn' = withdrawn \cup gone,
         ~lossy => \A id \in gone : id < nextId,
         \A r \in v.rules \cup v.scheduled :
            \/ r \in mem.rules \cup mem.scheduled /\ r.id \notin gone
            \/ r.id = nextId /\ nextId' = nextId + 1 /\ gone = {}
  PROVE  IInv'
<1>0. /\ nextId \in Nat /\ nextId' \in Nat /\ mem.rules \subseteq Rule /\ mem.scheduled \subseteq Scheduled
      /\ \A id \in Ids : id < nextId => id < nextId'
      /\ \A e \in v.queue : e.id \in Ids
      /\ \A d \in decided : d.id \in Ids
      /\ withdrawn \subseteq Ids
  <2>1. nextId \in Nat /\ nextId' \in Nat /\ mem.queue \subseteq Entry
    BY MemoryIsVault DEF IInv
  <2> QED
    BY <2>1, MemoryIsVault DEF IInv, TypeOK, Entry, Ids
<1>1. /\ released' \subseteq [id : Ids, fields : SUBSET Fields, at : Nat]
      /\ decided' \subseteq [id : Ids, status : {"approved", "denied"}] /\ withdrawn' \subseteq Ids
  BY DEF IInv, TypeOK
<1>2. ASSUME ~lossy PROVE Kept(v, nextId', released', decided', withdrawn', now)
  <2>1. Kept(mem, nextId, released, decided, withdrawn, now)
    BY <1>2, MemoryFacts
  <2>2. /\ Unique(v) /\ AsDecided(v, decided) /\ OnLog(v, released, now)
        /\ \A d \in decided : d.id < nextId
        /\ \A e \in v.queue : e.id < nextId
    BY <1>2, QueueKept
  <2>3. \A r \in mem.rules \cup mem.scheduled : r.id \in Ids /\ r.id < nextId /\ r.id \notin withdrawn
    BY <1>0, <2>1 DEF Kept, Numbered, NotWithdrawn, Rule, Scheduled
  <2>4. nextId \notin withdrawn /\ (nextId' = nextId + 1 => nextId < nextId')
    BY <1>0, <2>1 DEF Kept
  <2>5. Numbered(v, nextId') /\ NotWithdrawn(v, withdrawn')
    BY <1>0, <2>2, <2>3, <2>4 DEF Numbered, NotWithdrawn
  <2>6. (\A d \in decided : d.id < nextId') /\ \A id \in withdrawn' : id < nextId'
    BY <1>0, <1>2, <2>1, <2>2 DEF Kept
  <2> QED
    BY <2>2, <2>5, <2>6 DEF Kept
<1> QED
  BY <1>1, <1>2, QueueKept, SetsKeeps

\* An offer makes a rule of its kind.
LEMMA AddsRuleKeeps ==
  ASSUME IInv, NEW o \in RuleOffers, AddsRule(o) PROVE IInv'
<1> DEFINE r == [id |-> nextId, agent |-> o.agent, purpose |-> o.purpose,
                 persona |-> o.persona, fields |-> o.fields]
           s == IF o.kind = "heartbeat" THEN createHeartbeatRule(nextId, o, RuleTTL) ELSE createCronRule(nextId, o)
           w == [mem EXCEPT !.rules = mem.rules \cup {r}]
           x == [mem EXCEPT !.scheduled = mem.scheduled \cup {s}]
           none == {}
<1>0. /\ mem # NoVault /\ mem \in Vault /\ now \in Nat /\ nextId \in Ids /\ o \in Offer
      /\ mem.rules \subseteq Rule /\ mem.scheduled \subseteq Scheduled
      /\ nextId + 1 \in 1 .. MaxId + 1
  BY MemoryIsVault, NextIdIsNew, EngineAssumption DEF AddsRule, IInv
<1>1. Sets(IF o.kind = "standard" THEN w ELSE x)
  <2>1. o.kind \in {"standard", "cron", "heartbeat"}
    BY <1>0 DEF Offer
  <2>2. addRule(mem, r) = w /\ addScheduledRule(mem, s) = x
    BY DEF addRule, addScheduledRule
  <2> HIDE DEF r, w, x
  <2>3. CASE o.kind = "standard"
    BY <2>2, <2>3 DEF AddsRule, r
  <2>4. CASE o.kind = "heartbeat"
    BY <2>2, <2>4 DEF AddsRule
  <2>5. CASE o.kind = "cron"
    BY <2>2, <2>5 DEF AddsRule
  <2> QED
    BY <2>1, <2>3, <2>4, <2>5
<1>2. /\ UNCHANGED <<stage, due, disk, writing, now, failures, starts, released, decided, neglected>>
      /\ withdrawn' = withdrawn \cup none /\ nextId' = nextId + 1
      /\ none \in SUBSET Ids /\ none = {}
  BY DEF AddsRule, history
<1> HIDE DEF none
<1>3. r \in Rule /\ r.id = nextId
  BY <1>0 DEF Rule, Offer
<1>4. s.id = nextId /\ (o.kind # "standard" => s \in Scheduled)
  <2>1. now + RuleTTL \in Nat /\ (o.kind # "standard" => o.kind \in {"cron", "heartbeat"})
    BY <1>0, Numbers DEF Offer
  <2>2. CASE o.kind = "heartbeat"
    BY <1>0, <2>1, <2>2 DEF Scheduled, Offer, createHeartbeatRule
  <2>3. CASE o.kind # "heartbeat"
    BY <1>0, <2>1, <2>3 DEF Scheduled, Offer, createCronRule
  <2> QED
    BY <2>2, <2>3
<1> HIDE DEF r, s
<1>5. CASE o.kind = "standard"
  <2>1. /\ w \in Vault /\ w.queue = mem.queue /\ w.audit = mem.audit
        /\ w.rules = mem.rules \cup {r} /\ w.scheduled = mem.scheduled
    <3>1. mem.rules \cup {r} \in SUBSET Rule
      BY <1>0, <1>3
    <3> QED
      BY <1>0, <3>1, WithRules
  <2>2. Sets(w)
    BY <1>1, <1>5
  <2> HIDE DEF w
  <2>3. \A y \in w.rules \cup w.scheduled : y \in mem.rules \cup mem.scheduled \/ y.id = nextId
    BY <1>3, <2>1
  <2> QED
    BY <1>0, <1>2, <2>1, <2>2, <2>3, RuleChangeKeeps
<1>6. CASE o.kind # "standard"
  <2>1. /\ x \in Vault /\ x.queue = mem.queue /\ x.audit = mem.audit
        /\ x.rules = mem.rules /\ x.scheduled = mem.scheduled \cup {s}
    <3>1. mem.scheduled \cup {s} \in SUBSET Scheduled
      BY <1>0, <1>4, <1>6
    <3> QED
      BY <1>0, <3>1, WithScheduled
  <2>2. Sets(x)
    BY <1>1, <1>6
  <2> HIDE DEF x
  <2>3. \A y \in x.rules \cup x.scheduled : y \in mem.rules \cup mem.scheduled \/ y.id = nextId
    BY <1>4, <2>1
  <2> QED
    BY <1>0, <1>2, <2>1, <2>2, <2>3, RuleChangeKeeps
<1> QED
  BY <1>5, <1>6

\* Removing a rule takes every rule of its id away.
LEMMA RemovesRuleKeeps ==
  ASSUME IInv, NEW id \in Ids, RemovesRule(id) PROVE IInv'
<1> DEFINE w == [mem EXCEPT !.rules = {r \in mem.rules : r.id # id}]
           v == Without(mem, id)
<1>0. /\ mem # NoVault /\ mem \in Vault /\ nextId \in Nat
      /\ mem.rules \subseteq Rule /\ mem.scheduled \subseteq Scheduled
      /\ Sets(v) /\ withdrawn' = withdrawn \cup {id} /\ nextId' = nextId /\ nextId \in 1 .. MaxId + 1
      /\ UNCHANGED <<stage, due, disk, writing, now, failures, starts, released, decided, neglected>>
  BY MemoryIsVault DEF RemovesRule, IInv, TypeOK
<1>1. /\ v \in Vault /\ v.queue = mem.queue /\ v.audit = mem.audit
      /\ v.rules = {r \in mem.rules : r.id # id} /\ v.scheduled = {r \in mem.scheduled : r.id # id}
  BY <1>0 DEF Without, Vault
<1> HIDE DEF v
<1>2. ~lossy => id < nextId
  BY <1>0, MemoryFacts DEF RemovesRule, Kept, Numbered
<1>3. {id} \in SUBSET Ids
  OBVIOUS
<1> QED
  BY <1>0, <1>1, <1>2, <1>3, RuleChangeKeeps

\* The posture is no part of the invariant.
LEMMA SetsPostureKeeps ==
  ASSUME IInv, NEW p \in Postures, SetsPosture(p) PROVE IInv'
<1> DEFINE v == [mem EXCEPT !.posture = p]
           none == {}
<1>0. /\ mem # NoVault /\ mem \in Vault /\ nextId \in Nat /\ p \in {"open", "guarded", "locked"}
      /\ Sets(v) /\ withdrawn' = withdrawn \cup none /\ none \in SUBSET Ids /\ none = {}
      /\ nextId' = nextId /\ nextId \in 1 .. MaxId + 1
      /\ UNCHANGED <<stage, due, disk, writing, now, failures, starts, released, decided, neglected>>
  BY MemoryIsVault, EngineAssumption DEF SetsPosture, IInv, TypeOK, history
<1>1. /\ v \in Vault /\ v.queue = mem.queue /\ v.audit = mem.audit
      /\ v.rules = mem.rules /\ v.scheduled = mem.scheduled
  BY <1>0 DEF Vault
<1> HIDE DEF v, none
<1> QED
  BY <1>0, <1>1, RuleChangeKeeps

\* Every call keeps the invariant.
LEMMA CallsKeep == IInv /\ Calls => IInv'
<1> SUFFICES ASSUME IInv, Calls PROVE IInv'
  OBVIOUS
<1>1. ASSUME NEW req \in Requests, RequestDenied(req) \/ RequestReleased(req) \/ RequestQueued(req)
      PROVE  IInv'
  BY <1>1, RequestKeeps
<1>2. ASSUME mem # NoVault, NEW e \in mem.queue, NEW status \in {"approved", "denied"},
             NEW standing \in BOOLEAN, Resolves(e, status, standing)
      PROVE  IInv'
  BY <1>2, ResolvesKeeps
<1>3. ASSUME mem # NoVault, NEW e \in mem.queue, ApprovesByHttp(e) PROVE IInv'
  BY <1>3, ResolvesKeeps DEF ApprovesByHttp
<1> QED
  BY <1>1, <1>2, <1>3, AddsRuleKeeps, RemovesRuleKeeps, SetsPostureKeeps DEF Calls

-----------------------------------------------------------------------------
(* Maintenance *)

\* An entry that maintenance expires.
Expiring(e, t) == [e EXCEPT !.status = "expired", !.resolved = t]

\* Maintenance turns pending requests whose deadline has come into expired
\* ones and drops scheduled rules.
LEMMA MaintainedIsVault ==
  ASSUME NEW v \in Vault, now \in Nat, NEW w, w = Maintained(v)
  PROVE  /\ w \in Vault /\ w.audit = v.audit /\ w.rules = v.rules /\ w.scheduled \subseteq v.scheduled
         /\ \A e \in w.queue :
              \/ e \in v.queue /\ ~Expired(e)
              \/ \E x \in v.queue : Expired(x) /\ e = Expiring(x, now)
<1> DEFINE q == {IF Expired(e) THEN Expiring(e, now) ELSE e : e \in v.queue}
           s == {r \in v.scheduled : now <= r.expires}
<1>1. ASSUME NEW e \in v.queue PROVE Expiring(e, now) \in Entry
  BY VaultParts DEF Entry, Expiring
<1>2. q \in SUBSET Entry /\ s \in SUBSET Scheduled /\ s \subseteq v.scheduled
  BY <1>1, VaultParts
<1>3. \A e \in q :
        \/ e \in v.queue /\ ~Expired(e)
        \/ \E x \in v.queue : Expired(x) /\ e = Expiring(x, now)
  OBVIOUS
<1>4. w = [v EXCEPT !.queue = q, !.scheduled = s]
  BY DEF Maintained, Expiring
<1> HIDE DEF q, s
<1>5. /\ w \in Vault /\ w.audit = v.audit /\ w.rules = v.rules /\ w.scheduled = s /\ w.queue = q
  BY <1>2, <1>4 DEF Vault
<1> QED
  BY <1>2, <1>3, <1>5

\* What maintenance leaves has nothing pending whose time is up.
LEMMA MaintainedIsTimely ==
  ASSUME NEW v \in Vault, now \in Nat, NEW w, w = Maintained(v)
  PROVE  /\ LateFree(v) => LateFree(w)
         /\ \A e \in w.queue : e.status = "pending" => now < e.expires /\ e \in v.queue
<1>1. ASSUME NEW x \in v.queue
      PROVE  Expiring(x, now).status = "expired"
  BY VaultParts DEF Entry, Expiring
<1>2. ASSUME NEW e \in w.queue, e.status = "pending" PROVE now < e.expires /\ e \in v.queue
  <2>1. e \in v.queue /\ ~Expired(e)
    BY <1>1, <1>2, MaintainedIsVault
  <2>2. e.expires \in Nat
    BY <2>1, VaultParts DEF Entry
  <2> QED
    BY <1>2, <2>1, <2>2 DEF Expired
<1>3. LateFree(v) => LateFree(w)
  BY <1>1, MaintainedIsVault DEF LateFree
<1> QED
  BY <1>2, <1>3

\* Maintenance keeps every claim made of the vault before it.
LEMMA MaintainedIsKept ==
  ASSUME NEW v \in Vault, now \in Nat, NEW w, w = Maintained(v),
         NEW n \in Nat, NEW returned, NEW gone,
         NEW resolved \in SUBSET [id : Ids, status : {"approved", "denied"}],
         Kept(v, n, returned, resolved, gone, now)
  PROVE  Kept(w, n, returned, resolved, gone, now)
<1>0. /\ w.audit = v.audit /\ w.rules = v.rules /\ w.scheduled \subseteq v.scheduled
      /\ \A e \in w.queue :
           \/ e \in v.queue /\ ~Expired(e)
           \/ \E x \in v.queue : Expired(x) /\ e = Expiring(x, now)
  BY MaintainedIsVault
<1>1. ASSUME NEW x \in v.queue
      PROVE  Expiring(x, now).id = x.id
  BY VaultParts DEF Entry, Expiring
<1>2. ASSUME NEW e \in w.queue
      PROVE  \E x \in v.queue :
               x.id = e.id /\ ((e = x /\ ~Expired(x)) \/ (Expired(x) /\ e = Expiring(x, now)))
  <2>1. CASE e \in v.queue /\ ~Expired(e)
    BY <2>1
  <2>2. ASSUME NEW x \in v.queue, Expired(x), e = Expiring(x, now)
        PROVE  x.id = e.id
    BY <1>1, <2>2
  <2> QED
    BY <1>0, <1>2, <2>1, <2>2
<1>3. Numbered(w, n)
  BY <1>0, <1>2 DEF Kept, Numbered
<1>4. Unique(w)
  <2>1. ASSUME NEW e \in w.queue, NEW f \in w.queue, e.id = f.id PROVE e = f
    <3>1. PICK x \in v.queue :
            x.id = e.id /\ ((e = x /\ ~Expired(x)) \/ (Expired(x) /\ e = Expiring(x, now)))
      BY <1>2
    <3>2. PICK y \in v.queue :
            y.id = f.id /\ ((f = y /\ ~Expired(y)) \/ (Expired(y) /\ f = Expiring(y, now)))
      BY <1>2
    <3>3. x = y
      BY <2>1, <3>1, <3>2 DEF Kept, Unique
    <3> QED
      BY <3>1, <3>2, <3>3
  <2> QED
    BY <2>1 DEF Unique
<1>5. AsDecided(w, resolved)
  <2>1. ASSUME NEW d \in resolved, NEW e \in w.queue, e.id = d.id PROVE e.status = d.status
    <3>1. PICK x \in v.queue :
            x.id = e.id /\ (e = x \/ (Expired(x) /\ e = Expiring(x, now)))
      BY <1>2
    <3>2. x.status = d.status /\ d.status # "pending"
      BY <2>1, <3>1 DEF Kept, AsDecided
    <3> QED
      BY <3>1, <3>2 DEF Expired
  <2> QED
    BY <2>1 DEF AsDecided
<1>6. OnLog(w, returned, now) /\ NotWithdrawn(w, gone)
  BY <1>0 DEF Kept, OnLog, NotWithdrawn
<1> QED
  BY <1>3, <1>4, <1>5, <1>6 DEF Kept

\* A vault that loses part of its queue keeps every claim.
LEMMA FewerEntriesKept ==
  ASSUME NEW v, NEW w, w.queue \subseteq v.queue, w.audit = v.audit, w.rules = v.rules,
         w.scheduled = v.scheduled, NEW n, NEW returned, NEW resolved, NEW gone, NEW t,
         Kept(v, n, returned, resolved, gone, t)
  PROVE  Kept(w, n, returned, resolved, gone, t)
  BY DEF Kept, Numbered, Unique, AsDecided, OnLog, NotWithdrawn

\* So does one that forgets the log entries that are too old.
LEMMA PrunedAuditKept ==
  ASSUME NEW v \in Vault, now \in Nat, NEW w, w = PrunedAudit(v)
  PROVE  /\ w \in Vault /\ w.queue = v.queue
         /\ \A n, resolved, gone : \A returned \in SUBSET [id : Ids, fields : SUBSET Fields, at : Nat] :
              Kept(v, n, returned, resolved, gone, now) => Kept(w, n, returned, resolved, gone, now)
<1> DEFINE l == {a \in v.audit : now <= a.at + Retention}
<1>1. l \in SUBSET Audit /\ w = [v EXCEPT !.audit = l]
  BY VaultParts DEF PrunedAudit
<1>2. /\ w \in Vault /\ w.queue = v.queue /\ w.audit = l
      /\ w.rules = v.rules /\ w.scheduled = v.scheduled
  <2> HIDE DEF l
  <2> QED
    BY <1>1, WithAudit
<1>3. ASSUME NEW n, NEW resolved, NEW gone,
             NEW returned \in SUBSET [id : Ids, fields : SUBSET Fields, at : Nat],
             Kept(v, n, returned, resolved, gone, now)
      PROVE  Kept(w, n, returned, resolved, gone, now)
  <2>1. OnLog(w, returned, now)
    <3>1. ASSUME NEW r \in returned, ~(now > r.at + Retention)
          PROVE  \E x \in w.audit : /\ x.id = r.id /\ x.decision = "approved"
                                    /\ x.at = r.at /\ r.fields \subseteq x.fields
      <4>1. PICK x \in v.audit : /\ x.id = r.id /\ x.decision = "approved"
                                 /\ x.at = r.at /\ r.fields \subseteq x.fields
        BY <1>3, <3>1 DEF Kept, OnLog
      <4>2. now <= x.at + Retention
        <5>1. r.at \in Nat
          BY <3>1
        <5> QED
          BY <3>1, <4>1, <5>1, Numbers
      <4> QED
        BY <1>2, <4>1, <4>2
    <3> QED
      BY <3>1 DEF OnLog
  <2> QED
    BY <1>2, <1>3, <2>1 DEF Kept, Numbered, Unique, AsDecided, NotWithdrawn
<1> QED
  BY <1>2, <1>3

\* Of the resolved requests only the newest stay.
LEMMA PrunedApprovalsIsVault ==
  ASSUME NEW v \in Vault, NEW w, w = PrunedApprovals(v)
  PROVE  /\ w \in Vault /\ w.queue \subseteq v.queue /\ w.audit = v.audit
         /\ w.rules = v.rules /\ w.scheduled = v.scheduled
<1> DEFINE resolved == {e \in v.queue : e.status # "pending"}
           newer(e) == {x \in resolved : x.id > e.id}
           q == v.queue \ {e \in resolved : Cardinality(newer(e)) >= Keep}
<1>1. w = [v EXCEPT !.queue = q]
  BY DEF PrunedApprovals
<1>2. q \in SUBSET Entry /\ q \subseteq v.queue
  BY VaultParts
<1> HIDE DEF q
<1> QED
  BY <1>1, <1>2, WithQueue

\* The interval and the gateway's own maintenance.
LEMMA MaintenanceKeeps == IInv /\ (Maintains \/ GatewayStarts) => IInv'
<1> SUFFICES ASSUME IInv, Maintains \/ GatewayStarts PROVE IInv'
  OBVIOUS
<1> DEFINE v == Maintained(mem)
<1>1. mem # NoVault
  BY DEF Maintains, GatewayStarts, IInv, EngineInv, ServiceInv
<1>2. /\ mem \in Vault /\ now \in Nat /\ nextId \in Nat /\ nextId \in 1 .. MaxId + 1
      /\ v \in Vault /\ Sets(v)
      /\ UNCHANGED <<stage, now, nextId, failures, starts, released, decided, withdrawn, neglected>>
      /\ decided \in SUBSET [id : Ids, status : {"approved", "denied"}]
  BY <1>1, MemoryIsVault, MaintainedIsVault DEF IInv, TypeOK, Maintains, GatewayStarts, history
<1>3. ~neglected => LateFree(v)
  BY <1>1, <1>2, MemoryFacts, MaintainedIsTimely
<1>4. ~lossy => Kept(v, nextId, released, decided, withdrawn, now)
  BY <1>1, <1>2, MemoryFacts, MaintainedIsKept
<1>5. \A e \in v.queue : e.status = "pending" => now < e.expires /\ e \in mem.queue
  BY <1>2, MaintainedIsTimely
<1> HIDE DEF v
<1>6. CASE GatewayStarts
  <2>1. ~neglected => Bounded(v, Bound)
    BY <1>1, <1>5, MemoryFacts DEF Bounded
  <2>2. UNCHANGED <<due, disk, writing>>
    BY <1>6 DEF GatewayStarts
  <2>3. /\ nextId' \in 1 .. MaxId + 1
        /\ released' \subseteq [id : Ids, fields : SUBSET Fields, at : Nat]
        /\ decided' \subseteq [id : Ids, status : {"approved", "denied"}] /\ withdrawn' \subseteq Ids
    BY <1>2 DEF IInv, TypeOK
  <2> QED
    BY <1>1, <1>2, <1>3, <1>4, <2>1, <2>2, <2>3, SetsKeeps
<1>7. CASE Maintains
  <2>1. /\ stage = "on" /\ due # 0 /\ now = due /\ due' = now + Interval
        /\ mem' = v /\ lossy' = lossy /\ stage' = "on" /\ v # NoVault
    BY <1>2, <1>7, EngineAssumption DEF Maintains, Sets, IInv, TypeOK
  <2>2. \/ UNCHANGED <<disk, writing>>
        \/ /\ writing' = [kinds |-> writing.kinds \cup {"interval"}, snaps |-> writing.snaps \cup {v},
                          mixed |-> writing.mixed \/ writing.kinds # {}]
           /\ disk' = Torn
    BY <1>7, <2>1 DEF Maintains, Begins
  <2>3. writing.kinds \subseteq {"start", "interval", "stop"} /\ writing.snaps \subseteq Vault
    BY DEF IInv, TypeOK
  <2>4. TypeOK'
    <3>1. writing \in [kinds : SUBSET {"start", "interval", "stop"}, snaps : SUBSET Vault, mixed : BOOLEAN]
      BY DEF IInv, TypeOK
    <3>2. writing' \in [kinds : SUBSET {"start", "interval", "stop"}, snaps : SUBSET Vault, mixed : BOOLEAN]
      <4>1. CASE writing' = writing
        BY <3>1, <4>1
      <4>2. CASE writing' = [kinds |-> writing.kinds \cup {"interval"}, snaps |-> writing.snaps \cup {v},
                             mixed |-> writing.mixed \/ writing.kinds # {}]
        BY <1>2, <2>3, <4>2
      <4> QED
        BY <2>2, <4>1, <4>2
    <3>3. disk' \in Vault \cup {NoVault, Torn}
      BY <2>2 DEF IInv, TypeOK
    <3>4. due' \in Nat
      BY <1>2, <2>1, Numbers
    <3> QED
      BY <1>2, <2>1, <3>2, <3>3, <3>4 DEF IInv, TypeOK
  <2>5. ServiceInv'
    BY <2>1, <2>2 DEF IInv, EngineInv, ServiceInv
  <2>6. ASSUME ~neglected' PROVE TimerInv'
    <3>1. Bound' = now + Interval /\ due' # 0 /\ now <= due'
      BY <1>2, <2>1, Numbers DEF Bound
    <3>2. Bounded(v, now + Interval)
      BY <1>2, <1>5, Numbers, VaultParts DEF Bounded, Entry
    <3>3. Torn \notin Vault /\ LateFree(v) /\ TimerInv /\ now' = now
      BY <1>2, <1>3, <2>6, EngineAssumption DEF IInv, EngineInv
    <3> QED
      BY <2>1, <2>2, <3>1, <3>2, <3>3 DEF TimerInv
  <2>7. ASSUME ~lossy' PROVE MemoryInv'
    <3>1. Current' = v
      BY <2>1 DEF Current
    <3> QED
      BY <1>2, <1>4, <2>1, <2>7, <3>1 DEF MemoryInv
  <2> QED
    BY <2>4, <2>5, <2>6, <2>7 DEF IInv, EngineInv
<1> QED
  BY <1>6, <1>7

-----------------------------------------------------------------------------
(* The life of the service *)

\* The service starts on what is on disk, once it has been maintained.
LEMMA StartsKeeps == IInv /\ Starts => IInv'
<1> SUFFICES ASSUME IInv, Starts PROVE IInv'
  OBVIOUS
<1> DEFINE m == Maintained(Loaded)
           p == PrunedAudit(m)
           v == PrunedApprovals(p)
<1>0. /\ stage = "off" /\ disk # Torn /\ mem = NoVault /\ writing.kinds = {} /\ now \in Nat
      /\ writing.snaps = {} /\ ~writing.mixed /\ nextId \in Nat
      /\ Loaded \in Vault /\ Loaded = Current
      /\ UNCHANGED <<now, nextId, failures, released, decided, withdrawn, lossy, neglected>>
      /\ starts' = starts + 1 /\ starts < MaxStarts
  BY EmptyVaultIsVault
     DEF Starts, IInv, EngineInv, ServiceInv, TypeOK, Loaded, Current, history
<1>1. m \in Vault /\ (LateFree(Loaded) => LateFree(m))
      /\ \A e \in m.queue : e.status = "pending" => now < e.expires
  BY <1>0, MaintainedIsVault, MaintainedIsTimely
<1>2. ASSUME ~lossy PROVE Kept(m, nextId, released, decided, withdrawn, now)
  <2>1. decided \in SUBSET [id : Ids, status : {"approved", "denied"}]
    BY DEF IInv, TypeOK
  <2> QED
    BY <1>0, <1>2, <2>1, MaintainedIsKept DEF IInv, EngineInv, MemoryInv
<1> HIDE DEF m
<1>3. p \in Vault /\ p.queue = m.queue
  BY <1>0, <1>1, PrunedAuditKept
<1>4. ASSUME ~lossy PROVE Kept(p, nextId, released, decided, withdrawn, now)
  <2>1. released \in SUBSET [id : Ids, fields : SUBSET Fields, at : Nat]
    BY DEF IInv, TypeOK
  <2> QED
    BY <1>0, <1>1, <1>2, <1>4, <2>1, PrunedAuditKept
<1>a. /\ mem' = PrunedApprovals(p)
      /\ \/ stage' = "starting" /\ Begins("start", mem') /\ due' = 0
         \/ stage' = "on" /\ due' = now + Interval /\ UNCHANGED <<disk, writing>>
  BY DEF Starts, m
<1> HIDE DEF p
<1>5. v \in Vault /\ v.queue \subseteq m.queue /\ v # NoVault
  BY <1>3, PrunedApprovalsIsVault, EngineAssumption
<1>6. ASSUME ~lossy PROVE Kept(v, nextId, released, decided, withdrawn, now)
  BY <1>3, <1>4, <1>6, PrunedApprovalsIsVault, FewerEntriesKept
<1>7. \/ /\ stage' = "starting" /\ due' = 0 /\ disk' = Torn
         /\ writing' = [kinds |-> {"start"}, snaps |-> {v}, mixed |-> FALSE]
      \/ stage' = "on" /\ due' = now + Interval /\ UNCHANGED <<disk, writing>>
  BY <1>0, <1>a DEF Begins
<1>8. mem' = v
  BY <1>a
<1> HIDE DEF v
<1>9. TypeOK'
  <2>1. writing' \in [kinds : SUBSET {"start", "interval", "stop"}, snaps : SUBSET Vault, mixed : BOOLEAN]
    <3>1. CASE writing' = writing
      BY <3>1 DEF IInv, TypeOK
    <3>2. CASE writing' = [kinds |-> {"start"}, snaps |-> {v}, mixed |-> FALSE]
      BY <1>5, <3>2
    <3> QED
      BY <1>7, <3>1, <3>2
  <2>2. disk' \in Vault \cup {NoVault, Torn}
    BY <1>7 DEF IInv, TypeOK
  <2>3. due' \in Nat
    BY <1>0, <1>7, Numbers
  <2>4. starts' \in 0 .. MaxStarts
    BY <1>0, EngineAssumption DEF IInv, TypeOK
  <2> QED
    BY <1>0, <1>5, <1>7, <1>8, <2>1, <2>2, <2>3, <2>4 DEF IInv, TypeOK
<1>10. ServiceInv'
  BY <1>0, <1>5, <1>7, <1>8 DEF ServiceInv
<1>11. ASSUME ~neglected' PROVE TimerInv'
  <2>1. LateFree(Loaded)
    BY <1>0, <1>11, EmptyVaultIsVault DEF IInv, EngineInv, TimerInv, Loaded, LateFree, TypeOK
  <2>2. LateFree(v)
    BY <1>1, <1>5, <2>1 DEF LateFree
  <2>3. Bounded(v, now + Interval)
    BY <1>0, <1>1, <1>5, Numbers, VaultParts DEF Bounded, Entry
  <2>4. Bound' = now + Interval
    BY <1>0, <1>7 DEF Bound
  <2>5. stage' = "on" => due' # 0 /\ now <= due'
    BY <1>0, <1>7, Numbers
  <2>6. Torn \notin Vault /\ TimerInv
    BY <1>0, <1>11, EngineAssumption DEF IInv, EngineInv
  <2> QED
    BY <1>0, <1>7, <1>8, <2>2, <2>3, <2>4, <2>5, <2>6 DEF TimerInv
<1>12. ASSUME ~lossy' PROVE MemoryInv'
  <2>1. Current' = v
    BY <1>5, <1>8 DEF Current
  <2> QED
    BY <1>0, <1>6, <1>7, <1>12, <2>1 DEF MemoryInv
<1> QED
  BY <1>9, <1>10, <1>11, <1>12 DEF IInv, EngineInv

\* The last save takes the vault in memory.
LEMMA StopsKeeps == IInv /\ Stops => IInv'
<1> SUFFICES ASSUME IInv, Stops PROVE IInv'
  OBVIOUS
<1>1. /\ stage = "on" /\ stage' = "stopping" /\ due' = 0 /\ disk' = Torn
      /\ writing' = [kinds |-> writing.kinds \cup {"stop"}, snaps |-> writing.snaps \cup {mem},
                     mixed |-> writing.mixed \/ writing.kinds # {}]
      /\ lossy' = (lossy \/ writing.kinds # {})
      /\ UNCHANGED <<mem, now, nextId, failures, starts, released, decided, withdrawn, neglected>>
  BY DEF Stops, Begins, history
<1>2. mem # NoVault /\ mem \in Vault /\ now \in Nat /\ Torn \notin Vault
  BY <1>1, MemoryIsVault, EngineAssumption DEF IInv, EngineInv, ServiceInv
<1>3. TypeOK'
  <2>1. writing' \in [kinds : SUBSET {"start", "interval", "stop"}, snaps : SUBSET Vault, mixed : BOOLEAN]
    BY <1>1, <1>2 DEF IInv, TypeOK
  <2> QED
    BY <1>1, <2>1 DEF IInv, TypeOK
<1>4. ServiceInv'
  BY <1>1, <1>2 DEF IInv, EngineInv, ServiceInv
<1>5. ASSUME ~neglected' PROVE TimerInv'
  <2>1. TimerInv /\ Bound = due /\ now <= due /\ due \in Nat
    BY <1>1, <1>5 DEF IInv, EngineInv, TimerInv, TypeOK, Bound
  <2>2. Bound' = now
    BY <1>1 DEF Bound
  <2>3. Bounded(mem, now)
    BY <1>2, <2>1, Numbers, VaultParts DEF TimerInv, Bounded, Entry
  <2> QED
    BY <1>1, <1>2, <2>1, <2>2, <2>3 DEF TimerInv
<1>6. ASSUME ~lossy' PROVE MemoryInv'
  <2>1. Current' = Current
    BY <1>1, <1>2 DEF Current
  <2> QED
    BY <1>1, <1>6, <2>1 DEF IInv, EngineInv, MemoryInv, ServiceInv
<1> QED
  BY <1>3, <1>4, <1>5, <1>6 DEF IInv, EngineInv

\* A crash leaves what is on disk.
LEMMA CrashesKeeps == IInv /\ Crashes => IInv'
<1> SUFFICES ASSUME IInv, Crashes PROVE IInv'
  OBVIOUS
<1>1. /\ mem' = NoVault /\ stage' = "off" /\ writing' = NoWrite /\ lossy' = TRUE
      /\ failures < MaxFailures /\ failures' = failures + 1
      /\ UNCHANGED <<due, disk, now, nextId, starts, released, decided, withdrawn, neglected>>
  BY DEF Crashes, Fails, history
<1>2. TypeOK'
  <2>1. failures' \in 0 .. MaxFailures
    BY <1>1, EngineAssumption DEF IInv, TypeOK
  <2> QED
    BY <1>1, <2>1 DEF IInv, TypeOK, NoWrite
<1>3. ServiceInv'
  BY <1>1 DEF ServiceInv, NoWrite
<1>4. ASSUME ~neglected' PROVE TimerInv'
  BY <1>1, <1>4 DEF IInv, EngineInv, TimerInv, NoWrite
<1> QED
  BY <1>1, <1>2, <1>3, <1>4 DEF IInv, EngineInv

\* The end of a save, whether it landed or failed.
LEMMA SaveEnds ==
  ASSUME IInv, NEW kind \in writing.kinds, NEW results, NEW ok \in BOOLEAN, Ends(kind, results), After(kind, ok),
         results \subseteq writing.snaps \cup {Torn},
         UNCHANGED <<now, nextId, starts, released, decided, withdrawn>>,
         failures' \in 0 .. MaxFailures, lossy' \in BOOLEAN,
         ~lossy' => ~lossy /\ ok,
         ~lossy' /\ ~writing.mixed => results = writing.snaps
  PROVE  IInv'
<1> DEFINE kinds == writing.kinds \ {kind}
           ends == kinds = {} /\ stage = "stopping"
<1>0. /\ stage # "off" /\ mem # NoVault /\ mem \in Vault /\ now \in Nat /\ writing.snaps \subseteq Vault
      /\ kind \in {"start", "interval", "stop"} /\ writing.kinds \subseteq {"start", "interval", "stop"}
      /\ Torn \notin Vault /\ NoVault \notin Vault /\ Torn # NoVault
  <2>1. stage # "off" /\ mem # NoVault
    BY DEF IInv, EngineInv, ServiceInv
  <2> QED
    BY <2>1, MemoryIsVault, EngineAssumption DEF IInv, TypeOK
<1>1. \/ kinds = {} /\ writing' = NoWrite /\ disk' \in results
      \/ kinds # {} /\ writing' = [writing EXCEPT !.kinds = kinds] /\ disk' = disk
  BY DEF Ends
<1>2. writing'.kinds = kinds /\ (kinds # {} => writing'.snaps = writing.snaps /\ writing'.mixed = writing.mixed)
      /\ (kinds = {} => writing'.snaps = {} /\ writing'.mixed = FALSE)
  BY <1>1 DEF NoWrite, IInv, TypeOK
<1>3. CASE ends
  <2>1. stage' = "off" /\ mem' = NoVault /\ UNCHANGED <<due, neglected>> /\ writing' = NoWrite
    BY <1>1, <1>2, <1>3 DEF After
  <2>2. TypeOK'
    BY <1>0, <1>1, <1>3, <2>1 DEF IInv, TypeOK, NoWrite
  <2>3. ServiceInv'
    BY <2>1 DEF ServiceInv, NoWrite
  <2>4. ASSUME ~neglected' PROVE TimerInv'
    BY <1>0, <1>1, <1>3, <2>1, <2>4 DEF IInv, EngineInv, TimerInv, NoWrite
  <2>5. ASSUME ~lossy' PROVE MemoryInv'
    <3>1. writing.snaps = {mem} /\ ~writing.mixed /\ Kept(mem, nextId, released, decided, withdrawn, now)
      BY <1>0, <1>3, <2>5, MemoryFacts DEF IInv, EngineInv, MemoryInv
    <3>2. disk' = mem
      BY <1>1, <1>3, <2>5, <3>1
    <3>3. Current' = mem
      BY <1>0, <2>1, <3>2 DEF Current
    <3> QED
      BY <1>0, <2>1, <3>1, <3>2, <3>3 DEF MemoryInv
  <2> QED
    BY <2>2, <2>3, <2>4, <2>5 DEF IInv, EngineInv
<1>4. CASE ~ends
  <2>1. /\ stage' = IF kind = "start" THEN "on" ELSE stage
        /\ due' = IF kind = "start" /\ ok THEN now + Interval ELSE due
        /\ neglected' = (neglected \/ (kind = "start" /\ ~ok))
        /\ mem' = mem
    BY <1>2, <1>4 DEF After
  <2>2. TypeOK'
    <3>1. writing' \in [kinds : SUBSET {"start", "interval", "stop"}, snaps : SUBSET Vault, mixed : BOOLEAN]
      <4>1. CASE writing' = NoWrite
        BY <4>1 DEF NoWrite
      <4>2. CASE writing' = [writing EXCEPT !.kinds = kinds]
        BY <1>0, <4>2 DEF IInv, TypeOK
      <4> QED
        BY <1>1, <4>1, <4>2
    <3>2. disk' \in Vault \cup {NoVault, Torn}
      BY <1>0, <1>1 DEF IInv, TypeOK
    <3>3. due' \in Nat
      <4>1. due \in Nat /\ now + Interval \in Nat
        BY <1>0, Numbers DEF IInv, TypeOK
      <4> QED
        BY <2>1, <4>1
    <3>4. stage' \in {"off", "starting", "on", "stopping"} /\ neglected' \in BOOLEAN
      BY <2>1 DEF IInv, TypeOK
    <3> QED
      BY <2>1, <3>1, <3>2, <3>3, <3>4 DEF IInv, TypeOK
  <2>3. ServiceInv'
    BY <1>0, <1>2, <1>4, <2>1 DEF IInv, EngineInv, ServiceInv
  <2>4. ASSUME ~neglected' PROVE TimerInv'
    <3>1. TimerInv /\ ~neglected /\ (kind = "start" => ok)
      BY <2>1, <2>4 DEF IInv, EngineInv
    <3>2. /\ disk' \in Vault => LateFree(disk')
          /\ \A v \in writing'.snaps : LateFree(v)
      BY <1>0, <1>1, <1>2, <3>1 DEF TimerInv
    <3>3. kind = "start" => stage = "starting"
      BY DEF IInv, EngineInv, ServiceInv
    <3>4. Bound' = Bound
      BY <2>1, <3>1, <3>3 DEF Bound
    <3>5. stage' = "on" => due' # 0 /\ now <= due' /\ due' <= now + Interval
      <4>1. CASE kind = "start"
        <5>1. due' = now + Interval
          BY <2>1, <3>1, <4>1
        <5> QED
          BY <1>0, <5>1, Numbers
      <4>2. CASE kind # "start"
        <5>1. due' = due /\ stage' = stage
          BY <2>1, <4>2
        <5> QED
          BY <3>1, <5>1 DEF TimerInv
      <4> QED
        BY <4>1, <4>2
    <3> QED
      BY <2>1, <3>1, <3>2, <3>4, <3>5 DEF TimerInv
  <2>5. ASSUME ~lossy' PROVE MemoryInv'
    <3>1. MemoryInv
      BY <2>5 DEF IInv, EngineInv
    <3>2. stage # "stopping" /\ stage' # "stopping" /\ stage' # "off"
      BY <1>0, <1>4, <2>1, <3>1 DEF MemoryInv, IInv, EngineInv, ServiceInv
    <3>3. Current' = Current
      BY <1>0, <2>1 DEF Current
    <3> QED
      BY <3>1, <3>2, <3>3 DEF MemoryInv
  <2> QED
    BY <2>2, <2>3, <2>4, <2>5 DEF IInv, EngineInv
<1> QED
  BY <1>3, <1>4

\* A save that lands leaves one of the vaults it wrote, or a mixture.
LEMMA WriteLandsKeeps ==
  ASSUME IInv, NEW kind \in writing.kinds, WriteLands(kind) PROVE IInv'
<1> DEFINE results == IF writing.mixed THEN writing.snaps \cup {Torn} ELSE writing.snaps
<1>1. /\ Ends(kind, results) /\ After(kind, TRUE)
      /\ UNCHANGED <<now, nextId, failures, starts, released, decided, withdrawn, lossy>>
  BY DEF WriteLands, history
<1>2. results \subseteq writing.snaps \cup {Torn} /\ (~writing.mixed => results = writing.snaps)
  OBVIOUS
<1>3. failures' \in 0 .. MaxFailures /\ lossy' \in BOOLEAN
  BY <1>1 DEF IInv, TypeOK
<1> HIDE DEF results
<1> QED
  BY <1>1, <1>2, <1>3, SaveEnds

\* A save that fails loses what it was to write.
LEMMA WriteFailsKeeps ==
  ASSUME IInv, NEW kind \in writing.kinds, WriteFails(kind) PROVE IInv'
<1>1. /\ Ends(kind, {Torn}) /\ After(kind, FALSE) /\ lossy' = TRUE
      /\ UNCHANGED <<now, nextId, starts, released, decided, withdrawn>>
      /\ failures < MaxFailures /\ failures' = failures + 1
  BY DEF WriteFails, Fails, history
<1>2. failures' \in 0 .. MaxFailures
  BY <1>1, EngineAssumption DEF IInv, TypeOK
<1> QED
  BY <1>1, <1>2, SaveEnds

\* Time passes between saves, and not past the timer.
LEMMA TickKeeps == IInv /\ Tick => IInv'
<1> SUFFICES ASSUME IInv, Tick PROVE IInv'
  OBVIOUS
<1>1. /\ now < MaxTime /\ now' = now + 1 /\ writing.kinds = {}
      /\ stage = "on" /\ due # 0 => now < due
      /\ UNCHANGED <<mem, stage, due, disk, writing, nextId, failures, starts, released, decided,
                     withdrawn, lossy, neglected>>
  BY DEF Tick, history
<1>2. now \in Nat /\ due \in Nat /\ stage \in {"on", "off"}
      /\ released \subseteq [id : Ids, fields : SUBSET Fields, at : Nat]
  BY <1>1 DEF IInv, EngineInv, ServiceInv, TypeOK
<1>3. TypeOK'
  BY <1>1, <1>2, Numbers DEF IInv, TypeOK
<1>4. ServiceInv'
  BY <1>1 DEF IInv, EngineInv, ServiceInv
<1>5. ASSUME ~neglected' PROVE TimerInv'
  <2>1. CASE stage = "on"
    <3>1. Bound' = Bound
      BY <1>1, <2>1 DEF Bound
    <3>2. TimerInv
      BY <1>1, <1>5 DEF IInv, EngineInv
    <3>3. due' # 0 /\ now' <= due' /\ due' <= now' + Interval
      BY <1>1, <1>2, <2>1, <3>2, Numbers DEF TimerInv
    <3> QED
      BY <1>1, <3>1, <3>2, <3>3 DEF TimerInv
  <2>2. CASE stage = "off"
    BY <1>1, <1>5, <2>2 DEF IInv, EngineInv, TimerInv, ServiceInv
  <2> QED
    BY <1>2, <2>1, <2>2
<1>6. ASSUME ~lossy' PROVE MemoryInv'
  <2>1. Current' = Current
    BY <1>1 DEF Current
  <2>2. MemoryInv
    BY <1>1, <1>6 DEF IInv, EngineInv
  <2>3. OnLog(Current, released, now + 1)
    <3>1. \A r \in released : now > r.at + Retention => now + 1 > r.at + Retention
      BY <1>2, Numbers
    <3> QED
      BY <2>2, <3>1 DEF MemoryInv, Kept, OnLog
  <2> QED
    BY <1>1, <2>1, <2>2, <2>3 DEF MemoryInv, Kept
<1> QED
  BY <1>3, <1>4, <1>5, <1>6 DEF IInv, EngineInv

-----------------------------------------------------------------------------
(* The theorems *)

\* The service is off and nothing is stored.
LEMMA InitIsSound == Init => IInv
<1> SUFFICES ASSUME Init PROVE IInv
  OBVIOUS
<1>1. Current = EmptyVault /\ EmptyVault \in Vault
  BY EmptyVaultIsVault DEF Init, Current
<1>2. TypeOK
  <2>1. /\ MaxId \in Nat /\ MaxTime \in Nat /\ MaxFailures \in Nat /\ MaxStarts \in Nat
    BY EngineAssumption
  <2>2. now \in 0 .. MaxTime /\ nextId \in 1 .. MaxId + 1 /\ failures \in 0 .. MaxFailures
        /\ starts \in 0 .. MaxStarts /\ due \in Nat
    BY <2>1 DEF Init
  <2>3. writing \in [kinds : SUBSET {"start", "interval", "stop"}, snaps : SUBSET Vault, mixed : BOOLEAN]
    BY DEF Init, NoWrite
  <2>4. /\ released \subseteq [id : Ids, fields : SUBSET Fields, at : Nat]
        /\ decided \subseteq [id : Ids, status : {"approved", "denied"}] /\ withdrawn \subseteq Ids
    BY DEF Init
  <2> QED
    BY <2>2, <2>3, <2>4 DEF Init, TypeOK
<1>3. ServiceInv
  BY DEF Init, ServiceInv, NoWrite
<1>4. TimerInv
  BY EngineAssumption DEF Init, TimerInv, NoWrite
<1>5. MemoryInv
  BY <1>1, EngineAssumption
     DEF Init, MemoryInv, Kept, Numbered, Unique, AsDecided, OnLog, NotWithdrawn, EmptyVault
<1> QED
  BY <1>2, <1>3, <1>4, <1>5 DEF IInv, EngineInv

\* Nothing changes.
LEMMA StutterKeeps == IInv /\ UNCHANGED vars => IInv'
  BY DEF IInv, EngineInv, TypeOK, ServiceInv, TimerInv, MemoryInv, Current, Bound, vars

\* Every step keeps the invariant.
LEMMA NextKeeps == IInv /\ [Next]_vars => IInv'
<1> SUFFICES ASSUME IInv, [Next]_vars PROVE IInv'
  OBVIOUS
<1>1. CASE Calls
  BY <1>1, CallsKeep
<1>2. CASE Service
  <2>1. ASSUME NEW kind \in writing.kinds, WriteLands(kind) PROVE IInv'
    BY <2>1, WriteLandsKeeps
  <2>2. ASSUME NEW kind \in writing.kinds, WriteFails(kind) PROVE IInv'
    BY <2>2, WriteFailsKeeps
  <2> QED
    BY <1>2, <2>1, <2>2, StartsKeeps, MaintenanceKeeps, StopsKeeps, CrashesKeeps DEF Service
<1>3. CASE Tick
  BY <1>3, TickKeeps
<1>4. CASE UNCHANGED vars
  BY <1>4, StutterKeeps
<1> QED
  BY <1>1, <1>2, <1>3, <1>4 DEF Next

\* The invariant holds throughout: the service and its saves are in step, the
\* timer comes before any deadline is a whole interval past, and ids tell what
\* was decided, released and withdrawn apart.
THEOREM EngineIsSound == Spec => []IInv
  BY InitIsSound, NextKeeps, PTL DEF Spec

\* Every vault in memory, on disk and being written keeps its shape.
THEOREM EngineTyping == Spec => []TypeOK
<1>1. IInv => TypeOK
  BY DEF IInv
<1> QED
  BY <1>1, EngineIsSound, PTL

\* No approval is granted a whole maintenance interval after its deadline, as
\* long as every start has set the timer (service.ts, resolveApproval).
THEOREM GrantsAreInTime == Spec => []GrantedInTime
<1>1. IInv => GrantedInTime
  <2> SUFFICES ASSUME IInv, ~neglected PROVE LateFree(Current)
    BY DEF GrantedInTime, LateFree
  <2>1. LateFree(EmptyVault)
    BY DEF LateFree, EmptyVault
  <2> QED
    BY <2>1 DEF IInv, EngineInv, TimerInv, TypeOK, Current
<1> QED
  BY <1>1, EngineIsSound, PTL

\* What was resolved stays resolved that way unless something was lost.
THEOREM SettledStays == Spec => []SettledStaysSettled
<1>1. IInv => SettledStaysSettled
  BY DEF IInv, EngineInv, MemoryInv, Kept, AsDecided, SettledStaysSettled
<1> QED
  BY <1>1, EngineIsSound, PTL

\* What was released is on the log for the retention period unless something
\* was lost (requestContext, pruneAuditLog).
THEOREM ReleasesAreLogged == Spec => []ReleasesAreAudited
<1>1. IInv => ReleasesAreAudited
  BY DEF IInv, EngineInv, MemoryInv, Kept, OnLog, ReleasesAreAudited
<1> QED
  BY <1>1, EngineIsSound, PTL

\* A rule that was removed is not in force again unless something was lost
\* (rules.remove, saveVault, stop).
THEOREM WithdrawnStays == Spec => []WithdrawnStaysWithdrawn
<1>1. IInv => WithdrawnStaysWithdrawn
  BY DEF IInv, EngineInv, MemoryInv, Kept, NotWithdrawn, WithdrawnStaysWithdrawn
<1> QED
  BY <1>1, EngineIsSound, PTL

-----------------------------------------------------------------------------
(* The demo: what a scenario shows *)

VaultFields == {"posture", "rules", "scheduled", "queue", "audit"}
StateFields == {"vault", "next", "approval", "beat", "shown"}

\* What the answers of a vault depend on.
Policy(p, R, S) == [posture |-> p, rules |-> R, scheduled |-> S]

Stands(v, p, R, S) == DOMAIN v = VaultFields /\ v.posture = p /\ v.rules = R /\ v.scheduled = S

\* The answer of a vault with such a policy.
Answer(w, req) ==
  LET approved == IF w.posture = "locked" THEN {} ELSE Approved(w, req)
  IN  [decision |-> IF w.posture = "locked" THEN "denied" ELSE IF approved = {} THEN "pending" ELSE "approved",
       approved |-> approved]

\* A request is answered by posture and rules, and changes neither.
LEMMA AnswersFollowPolicy ==
  ASSUME NEW v, NEW p, NEW R, NEW S, Stands(v, p, R, S), NEW req, NEW id
  PROVE  /\ requestContext(v, req, id).answer = Answer(Policy(p, R, S), req)
         /\ Stands(requestContext(v, req, id).vault, p, R, S)
<1>1. evaluateRules(v, req) = evaluateRules(Policy(p, R, S), req)
  BY DEF evaluateRules, Stands, Policy
<1>2. evaluateScheduledRules(v, req) = evaluateScheduledRules(Policy(p, R, S), req)
  BY DEF evaluateScheduledRules, Stands, Policy
<1>3. v.posture = Policy(p, R, S).posture
  BY DEF Stands, Policy
<1>4. Approved(v, req) = Approved(Policy(p, R, S), req)
  BY <1>1, <1>2, <1>3 DEF Approved
<1>5. requestContext(v, req, id).answer = Answer(Policy(p, R, S), req)
  BY <1>3, <1>4 DEF requestContext, Answer
<1> DEFINE approved == IF v.posture = "locked" THEN {} ELSE Approved(v, req)
           entry == [id |-> id, request |-> req, status |-> "pending",
                     expires |-> now + ApprovalTTL, resolved |-> 0]
           queued == v.posture # "locked" /\ approved # req.fields
           decision == IF v.posture = "locked" THEN "denied" ELSE IF approved = {} THEN "pending" ELSE "approved"
           u == [v EXCEPT !.queue = IF queued THEN @ \cup {entry} ELSE @]
<1>6. requestContext(v, req, id).vault = Logged(u, id, req.agent, req.fields, decision)
  BY DEF requestContext
<1> HIDE DEF entry, queued, decision
<1>7. Stands(u, p, R, S)
  BY DEF Stands, VaultFields
<1> HIDE DEF u
<1>8. Stands(Logged(u, id, req.agent, req.fields, decision), p, R, S)
  BY <1>7 DEF Stands, Logged, VaultFields
<1> QED
  BY <1>5, <1>6, <1>8

\* A field some rule for the request names, and the fields named.
Named(R, S, req, x) ==
  \/ \E r \in R : matchesStandardRule(r, req) /\ x \in r.fields
  \/ \E r \in S : MatchesScheduled(r, req) /\ x \in r.fields
AllNamed(R, S, req) == { x \in req.fields : Named(R, S, req, x) }

\* Unless the vault is open, what is approved is what the rules for the request
\* name (evaluateRules, evaluateScheduledRules, requestContext).
LEMMA CoveredFields ==
  ASSUME NEW p, NEW R, NEW S, p # "open", NEW req
  PROVE  Approved(Policy(p, R, S), req) = AllNamed(R, S, req)
<1>1. /\ evaluateRules(Policy(p, R, S), req) = {r \in R : matchesStandardRule(r, req)}
      /\ evaluateScheduledRules(Policy(p, R, S), req) = {r \in S : MatchesScheduled(r, req)}
      /\ Policy(p, R, S).posture # "open"
  BY DEF evaluateRules, evaluateScheduledRules, Policy
<1>2. Approved(Policy(p, R, S), req) =
        Covered({r \in R : matchesStandardRule(r, req)} \cup {r \in S : MatchesScheduled(r, req)}, req)
  BY <1>1 DEF Approved
<1> QED
  BY <1>2 DEF Covered, AllNamed, Named

\* Where a scenario ends.
EndOf(scenario, base) == Reduce(Performed, base, scenario)

HasSteps(scenario, n) == Len(scenario) = n

\* The states its steps lead through.
Follows(g, scenario, n) == \A i \in 1 .. n : g[i] = Performed(g[i - 1], scenario[i])

\* A scenario ends where its steps, one after the other, lead (reduce in
\* runDemoScenario; no scenario has more than seven steps).
LEMMA StepsUnroll ==
  ASSUME NEW scenario, NEW base, NEW n \in 1 .. 7, HasSteps(scenario, n)
  PROVE  \E g : g[0] = base /\ Follows(g, scenario, n) /\ EndOf(scenario, base) = g[n]
<1> DEFINE h1 == Performed(base, scenario[1])
           h2 == Performed(h1, scenario[2])
           h3 == Performed(h2, scenario[3])
           h4 == Performed(h3, scenario[4])
           h5 == Performed(h4, scenario[5])
           h6 == Performed(h5, scenario[6])
           h7 == Performed(h6, scenario[7])
           h == [i \in 0 .. n |->
                   IF i = 0 THEN base ELSE IF i = 1 THEN h1 ELSE IF i = 2 THEN h2 ELSE IF i = 3 THEN h3
                   ELSE IF i = 4 THEN h4 ELSE IF i = 5 THEN h5 ELSE IF i = 6 THEN h6 ELSE h7]
           Is(g) == g = [i \in 0 .. n |-> IF i = 0 THEN base ELSE Performed(g[i - 1], scenario[i])]
<1>1. \A i \in 0 .. n : h[i] = IF i = 0 THEN base ELSE Performed(h[i - 1], scenario[i])
  <2> SUFFICES ASSUME NEW i \in 0 .. n, i # 0 PROVE h[i] = Performed(h[i - 1], scenario[i])
    OBVIOUS
  <2>1. /\ i \in {1, 2, 3, 4, 5, 6, 7} /\ i - 1 \in 0 .. n /\ i \in 0 .. n
    OBVIOUS
  <2>2. CASE i = 1
    BY <2>1, <2>2
  <2>3. CASE i = 2
    BY <2>1, <2>3
  <2>4. CASE i = 3
    BY <2>1, <2>4
  <2>5. CASE i = 4
    BY <2>1, <2>5
  <2>6. CASE i = 5
    BY <2>1, <2>6
  <2>7. CASE i = 6
    BY <2>1, <2>7
  <2>8. CASE i = 7
    BY <2>1, <2>8
  <2> QED
    BY <2>1, <2>2, <2>3, <2>4, <2>5, <2>6, <2>7, <2>8
<1>2. Is(h)
  <2>1. DOMAIN h = 0 .. n /\ h = [i \in DOMAIN h |-> h[i]]
    OBVIOUS
  <2> HIDE DEF h
  <2> QED
    BY <1>1, <2>1
<1> HIDE DEF h
<1> DEFINE g == CHOOSE x : Is(x)
<1>3. Is(g)
  BY <1>2
<1>4. EndOf(scenario, base) = g[n]
  BY DEF EndOf, Reduce, HasSteps
<1> HIDE DEF g
<1>5. g[0] = base /\ Follows(g, scenario, n)
  BY <1>3 DEF Follows
<1> QED
  BY <1>4, <1>5

\* A scenario has come this far: such a vault, whatever has been shown as
\* claimed, and the id of the rule for a heartbeat.
Reached(s, p, R, S, beat) ==
  /\ DOMAIN s = StateFields /\ Stands(s.vault, p, R, S) /\ s.beat = beat
  /\ \A x \in s.shown : x.answer = x.claim

\* A step that asks shows as claimed what the vault answers as claimed
\* (runDemoScenario, a step's highlight).
LEMMA StepAsks ==
  ASSUME NEW s, NEW p, NEW R, NEW S, NEW beat, Reached(s, p, R, S, beat), NEW req, NEW decision, NEW approved,
         Answer(Policy(p, R, S), req) = [decision |-> decision, approved |-> approved]
  PROVE  Reached(Performed(s, Asks(req, decision, approved)), p, R, S, beat)
<1> DEFINE step == Asks(req, decision, approved)
           asked == requestContext(s.vault, step.req, s.next)
           n == [s EXCEPT !.next = @ + 1]
           m == [n EXCEPT !.vault = asked.vault, !.approval = IF asked.queued THEN s.next ELSE 0,
                          !.shown = @ \cup {[answer |-> asked.answer, claim |-> step.claim]}]
<1>1. step.does = "ask" /\ step.req = req /\ step.claim = [decision |-> decision, approved |-> approved]
  BY DEF Asks
<1>2. Performed(s, step) = m
  <2> HIDE DEF step
  <2> QED BY <1>1 DEF Performed
<1>3. asked.answer = step.claim /\ Stands(asked.vault, p, R, S)
  BY <1>1, AnswersFollowPolicy DEF Reached
<1> HIDE DEF step, asked
<1>4. /\ DOMAIN m = StateFields /\ m.vault = asked.vault /\ m.beat = beat
      /\ m.shown = s.shown \cup {[answer |-> asked.answer, claim |-> step.claim]}
  BY DEF Reached, StateFields
<1> HIDE DEF m
<1> QED
  BY <1>2, <1>3, <1>4 DEF Reached, step

\* A step that switches shows nothing and leaves the rules (setPosture).
LEMMA StepSwitches ==
  ASSUME NEW s, NEW p, NEW R, NEW S, NEW beat, Reached(s, p, R, S, beat), NEW q
  PROVE  Reached(Performed(s, Switches(q)), q, R, S, beat)
<1> DEFINE m == [s EXCEPT !.vault.posture = q]
<1>1. Performed(s, Switches(q)) = m
  BY DEF Performed, Switches
<1>2. DOMAIN m = StateFields /\ m.beat = beat /\ m.shown = s.shown /\ m.vault = [s.vault EXCEPT !.posture = q]
  BY DEF Reached, StateFields
<1> HIDE DEF m
<1> QED
  BY <1>1, <1>2 DEF Reached, Stands, VaultFields

\* A rule for any purpose.
Granting(id, agent, persona, fields) ==
  [id |-> id, agent |-> agent, purpose |-> NoOne, persona |-> persona, fields |-> fields]

\* Adding a rule changes the standard rules only (addRule).
LEMMA RulesStand ==
  ASSUME NEW v, NEW p, NEW R, NEW S, Stands(v, p, R, S), NEW id, NEW agent, NEW persona, NEW fields
  PROVE  Stands(WithRule(v, id, agent, NoOne, persona, fields), p, R \cup {Granting(id, agent, persona, fields)}, S)
BY DEF WithRule, addRule, Granting, Stands, VaultFields

\* A step that adds a rule (addRule) shows nothing.
LEMMA StepAdds ==
  ASSUME NEW s, NEW p, NEW R, NEW S, NEW beat, Reached(s, p, R, S, beat), NEW agent, NEW persona, NEW fields
  PROVE  Reached(Performed(s, Adds(agent, persona, fields)), p,
                 R \cup {Granting(s.next, agent, persona, fields)}, S, beat)
<1> DEFINE w == WithRule(s.vault, s.next, agent, NoOne, persona, fields)
           n == [s EXCEPT !.next = @ + 1]
           m == [n EXCEPT !.vault = w]
<1>1. Performed(s, Adds(agent, persona, fields)) = m
  BY DEF Performed, Adds
<1>2. Stands(w, p, R \cup {Granting(s.next, agent, persona, fields)}, S)
  BY RulesStand DEF Reached
<1> HIDE DEF w
<1>3. DOMAIN m = StateFields /\ m.beat = beat /\ m.shown = s.shown /\ m.vault = w
  BY DEF Reached, StateFields
<1> HIDE DEF m
<1> QED
  BY <1>1, <1>2, <1>3 DEF Reached

\* Resolving an approval touches neither posture nor rules (resolveApproval).
LEMMA GrantedStands ==
  ASSUME NEW v, NEW p, NEW R, NEW S, Stands(v, p, R, S), NEW e, NEW status
  PROVE  Stands(resolveApproval(v, e, status), p, R, S)
BY DEF resolveApproval, Resolved, Stands, VaultFields

\* A grant resolves the last request, if it was left, and adds a standing rule.
LEMMA StepGrants ==
  ASSUME NEW s, NEW p, NEW R, NEW S, NEW beat, Reached(s, p, R, S, beat), NEW persona, NEW fields
  PROVE  Reached(Performed(s, Grants(persona, fields)), p, R \cup {Granting(s.next, NoOne, persona, fields)}, S, beat)
<1> DEFINE u == Granted(s.vault, s.approval)
           w == WithRule(u, s.next, NoOne, NoOne, persona, fields)
           n == [s EXCEPT !.next = @ + 1]
           m == [n EXCEPT !.vault = w]
<1>1. Performed(s, Grants(persona, fields)) = m
  BY DEF Performed, Grants
<1>2. Stands(u, p, R, S)
  BY GrantedStands DEF Granted, Reached
<1> HIDE DEF u
<1>3. Stands(w, p, R \cup {Granting(s.next, NoOne, persona, fields)}, S)
  BY <1>2, RulesStand
<1> HIDE DEF w
<1>4. DOMAIN m = StateFields /\ m.beat = beat /\ m.shown = s.shown /\ m.vault = w
  BY DEF Reached, StateFields
<1> HIDE DEF m
<1> QED
  BY <1>1, <1>3, <1>4 DEF Reached

\* A step that schedules adds a rule for a heartbeat and remembers it
\* (createHeartbeatRule, addScheduledRule).
LEMMA StepSchedules ==
  ASSUME NEW s, NEW p, NEW R, NEW S, NEW beat, Reached(s, p, R, S, beat), NEW agent, NEW source, NEW fields, NEW ttl
  PROVE  LET step == Schedules(agent, source, fields, ttl) IN
         Reached(Performed(s, step), p, R, S \cup {createHeartbeatRule(s.next, step, ttl)}, s.next)
<1> DEFINE step == Schedules(agent, source, fields, ttl)
           w == addScheduledRule(s.vault, createHeartbeatRule(s.next, step, ttl))
           n == [s EXCEPT !.next = @ + 1]
           m == [n EXCEPT !.beat = s.next, !.vault = w]
<1>1. step.does = "schedule" /\ step.ttl = ttl
  BY DEF Schedules
<1> HIDE DEF step
<1>2. Performed(s, step) = m
  BY <1>1 DEF Performed
<1>3. Stands(w, p, R, S \cup {createHeartbeatRule(s.next, step, ttl)})
  BY DEF Reached, addScheduledRule, Stands, VaultFields
<1> HIDE DEF w
<1>4. DOMAIN m = StateFields /\ m.beat = s.next /\ m.shown = s.shown /\ m.vault = w
  BY DEF Reached, StateFields
<1> HIDE DEF m
<1> QED
  BY <1>2, <1>3, <1>4 DEF Reached, step

\* A scheduled rule that is outlived is gone.
LEMMA StepOutlives ==
  ASSUME NEW s, NEW p, NEW R, NEW S, NEW beat, Reached(s, p, R, S, beat), \A r \in S : r.id = beat
  PROVE  Reached(Performed(s, Outlives), p, R, {}, beat)
<1> DEFINE w == [s.vault EXCEPT !.scheduled = {r \in @ : r.id # s.beat /\ now <= r.expires}]
           m == [s EXCEPT !.vault.scheduled = {r \in @ : r.id # s.beat /\ now <= r.expires}]
<1>1. Performed(s, Outlives) = m
  BY DEF Performed, Outlives
<1>2. Stands(w, p, R, {})
  BY DEF Reached, Stands, VaultFields
<1>3. DOMAIN m = StateFields /\ m.beat = beat /\ m.shown = s.shown /\ m.vault = w
  BY DEF Reached, StateFields
<1> HIDE DEF m, w
<1> QED
  BY <1>1, <1>2, <1>3 DEF Reached

-----------------------------------------------------------------------------
(* The demo: what it claims *)

\* A rule for any purpose matches by persona and agent (matchesStandardRule).
LEMMA GrantingMatches ==
  ASSUME NEW id, NEW agent, NEW persona, NEW fields, NEW req
  PROVE  /\ matchesStandardRule(Granting(id, agent, persona, fields), req)
              <=> persona = req.persona /\ agent \in {NoOne, req.agent}
         /\ Granting(id, agent, persona, fields).fields = fields
BY DEF matchesStandardRule, ForRequest, Granting

\* A guarded vault gives what the rules name of a request.
LEMMA GuardedAnswers ==
  ASSUME NEW R, NEW S, NEW req
  PROVE  Answer(Policy("guarded", R, S), req) =
           [decision |-> IF AllNamed(R, S, req) = {} THEN "pending" ELSE "approved",
            approved |-> AllNamed(R, S, req)]
<1>1. Approved(Policy("guarded", R, S), req) = AllNamed(R, S, req)
  BY CoveredFields
<1> QED
  BY <1>1 DEF Answer, Policy

\* It gives all of the request if all is named, and lets it wait if nothing is.
LEMMA GuardedGives ==
  ASSUME NEW R, NEW S, NEW req, req.fields # {}, \A x \in req.fields : Named(R, S, req, x)
  PROVE  Answer(Policy("guarded", R, S), req) = [decision |-> "approved", approved |-> req.fields]
<1>1. AllNamed(R, S, req) = req.fields
  BY DEF AllNamed
<1> QED
  BY <1>1, GuardedAnswers

LEMMA GuardedWaits ==
  ASSUME NEW R, NEW S, NEW req, \A x \in req.fields : ~Named(R, S, req, x)
  PROVE  Answer(Policy("guarded", R, S), req) = [decision |-> "pending", approved |-> {}]
<1>1. AllNamed(R, S, req) = {}
  BY DEF AllNamed
<1> QED
  BY <1>1, GuardedAnswers

\* In an open vault one matching rule gives all of the request (requestContext).
LEMMA OpenAnswers ==
  ASSUME NEW R, NEW S, NEW req, req.fields # {}, NEW r \in R, matchesStandardRule(r, req)
  PROVE  Answer(Policy("open", R, S), req) = [decision |-> "approved", approved |-> req.fields]
<1>1. Approved(Policy("open", R, S), req) = req.fields
  BY DEF Approved, Policy, evaluateRules
<1> QED
  BY <1>1 DEF Answer, Policy

\* A locked vault denies whatever the rules say (requestContext).
LEMMA LockedAnswers ==
  ASSUME NEW R, NEW S, NEW req
  PROVE  Answer(Policy("locked", R, S), req) = [decision |-> "denied", approved |-> {}]
BY DEF Answer, Policy

\* What rules name in full is approved, and the step claims so.
LEMMA AllShown ==
  ASSUME NEW s, NEW R, NEW S, NEW beat, Reached(s, "guarded", R, S, beat), NEW req,
         req.fields # {}, \A x \in req.fields : Named(R, S, req, x)
  PROVE  Reached(Performed(s, Sees(req)), "guarded", R, S, beat)
<1>1. Answer(Policy("guarded", R, S), req) = [decision |-> "approved", approved |-> req.fields]
  BY GuardedGives
<1> QED
  BY <1>1, StepAsks DEF Sees

\* What no rule names waits, and the step claims so.
LEMMA NothingShown ==
  ASSUME NEW s, NEW R, NEW S, NEW beat, Reached(s, "guarded", R, S, beat), NEW req,
         \A x \in req.fields : ~Named(R, S, req, x)
  PROVE  Reached(Performed(s, Waits(req)), "guarded", R, S, beat)
<1>1. Answer(Policy("guarded", R, S), req) = [decision |-> "pending", approved |-> {}]
  BY GuardedWaits
<1> QED
  BY <1>1, StepAsks DEF Waits

\* The part that rules name is approved, and the step claims that part.
LEMMA PartShown ==
  ASSUME NEW s, NEW R, NEW S, NEW beat, Reached(s, "guarded", R, S, beat), NEW req,
         NEW X, X = AllNamed(R, S, req), X # {}
  PROVE  Reached(Performed(s, Asks(req, "approved", X)), "guarded", R, S, beat)
<1>1. Answer(Policy("guarded", R, S), req) = [decision |-> "approved", approved |-> X]
  BY GuardedAnswers
<1> QED
  BY <1>1, StepAsks

\* In an open vault one matching rule shows all.
LEMMA OpenShown ==
  ASSUME NEW s, NEW R, NEW S, NEW beat, Reached(s, "open", R, S, beat), NEW req,
         req.fields # {}, NEW r \in R, matchesStandardRule(r, req)
  PROVE  Reached(Performed(s, Sees(req)), "open", R, S, beat)
<1>1. Answer(Policy("open", R, S), req) = [decision |-> "approved", approved |-> req.fields]
  BY OpenAnswers
<1> QED
  BY <1>1, StepAsks DEF Sees

\* What a rule for any purpose names.
LEMMA GrantNames ==
  ASSUME NEW R, NEW S, NEW req, NEW id, NEW agent, NEW persona, NEW fields,
         Granting(id, agent, persona, fields) \in R, persona = req.persona, agent \in {NoOne, req.agent},
         NEW x \in fields
  PROVE  Named(R, S, req, x)
<1> DEFINE r == Granting(id, agent, persona, fields)
<1>1. matchesStandardRule(r, req) /\ r.fields = fields
  BY GrantingMatches
<1> HIDE DEF r
<1> QED
  BY <1>1 DEF Named, r

\* The starter rules.
ForWork == Granting(MaxId + 1, NoOne, "work", Tools)
ForName == Granting(MaxId + 2, "personal-assistant", "personal", {"name"})
Starters == {ForWork, ForName}

\* They name the tools in a request for the work persona (createDemoVault).
LEMMA StartersName ==
  ASSUME NEW R, NEW S, Starters \subseteq R, NEW req, req.persona = "work", NEW x \in Tools
  PROVE  Named(R, S, req, x)
<1>1. ForWork \in R /\ NoOne \in {NoOne, req.agent}
  BY DEF Starters
<1> HIDE DEF Tools
<1> QED
  BY <1>1, GrantNames DEF ForWork

\* They name nothing else.
LEMMA StartersNameOnly ==
  ASSUME NEW req, NEW x, Named(Starters, {}, req, x)
  PROVE  \/ req.persona = "work" /\ x \in Tools
         \/ req.persona = "personal" /\ x = "name"
<1>1. PICK r \in Starters : matchesStandardRule(r, req) /\ x \in r.fields
  BY DEF Named
<1>2. CASE r = ForWork
  <2> HIDE DEF Tools
  <2> QED
    BY <1>1, <1>2, GrantingMatches DEF ForWork
<1>3. CASE r = ForName
  <2>1. matchesStandardRule(r, req) => req.persona = "personal"
    BY <1>3, GrantingMatches DEF ForName
  <2>2. r.fields = {"name"}
    BY <1>3 DEF ForName, Granting
  <2> QED
    BY <1>1, <2>1, <2>2
<1> QED
  BY <1>1, <1>2, <1>3 DEF Starters

\* A vault no rule or posture of which was changed.
AsMade(v) == Stands(v, "guarded", Starters, {})

\* A visitor's vault begins so.
LEMMA MadeAsMade == AsMade(createDemoVault)
<1>1. Stands(EmptyVault, "guarded", {}, {})
  BY DEF Stands, EmptyVault, VaultFields
<1> DEFINE first == WithRule(EmptyVault, MaxId + 1, NoOne, NoOne, "work", Tools)
<1>2. Stands(first, "guarded", {} \cup {ForWork}, {})
  BY <1>1, RulesStand DEF ForWork
<1>3. createDemoVault = WithRule(first, MaxId + 2, "personal-assistant", NoOne, "personal", {"name"})
  BY DEF createDemoVault, Tools
<1> HIDE DEF first
<1>4. Stands(createDemoVault, "guarded", ({} \cup {ForWork}) \cup {ForName}, {})
  BY <1>2, <1>3, RulesStand DEF ForName
<1>5. ({} \cup {ForWork}) \cup {ForName} = Starters
  BY DEF Starters
<1> QED
  BY <1>4, <1>5 DEF AsMade

\* Where a scenario begins.
Begin(v) == [vault |-> v, next |-> MaxId + 3, approval |-> 0, beat |-> 0, shown |-> {}]

\* The states a scenario goes through.
LEMMA Runs ==
  ASSUME NEW v, AsMade(v), NEW sc, NEW n \in 1 .. 7, HasSteps(sc, n)
  PROVE  \E g : /\ Reached(g[0], "guarded", Starters, {}, 0)
                /\ \A i \in 1 .. n : g[i] = Performed(g[i - 1], sc[i])
                /\ Shown(sc, v) = g[n]
<1>1. Reached(Begin(v), "guarded", Starters, {}, 0)
  BY DEF AsMade, Begin, Reached, StateFields
<1>2. Shown(sc, v) = EndOf(sc, Begin(v))
  BY DEF Begin, Shown, EndOf
<1>3. PICK g : g[0] = Begin(v) /\ Follows(g, sc, n) /\ EndOf(sc, Begin(v)) = g[n]
  BY StepsUnroll
<1> QED
  BY <1>1, <1>2, <1>3 DEF Follows

\* What has been shown when a scenario ends was as claimed.
ShowsAsClaimed(scenario, v) == \A x \in Shown(scenario, v).shown : x.answer = x.claim

\* runBasicApproval: the tools at once, the rest once it has been granted.
LEMMA BasicShows ==
  ASSUME NEW v, AsMade(v)
  PROVE  ShowsAsClaimed(runBasicApproval, v)
<1> DEFINE first == Wants("coder", "work", Tools)
           review == Wants("coder", "work", {"review_preferences"})
           G == "guarded"
           sc == runBasicApproval
<1>1. /\ Len(sc) = 4 /\ sc[1] = Sees(first) /\ sc[2] = Waits(review)
      /\ sc[3] = Grants("work", {"review_preferences"}) /\ sc[4] = Sees(review)
  BY DEF runBasicApproval
<1>2. /\ first.fields = Tools /\ first.persona = "work" /\ Tools # {}
      /\ review.fields = {"review_preferences"} /\ review.persona = "work" /\ "review_preferences" \notin Tools
  BY DEF Wants, Tools
<1> HIDE DEF sc, first, review
<1>3. PICK g : /\ Reached(g[0], G, Starters, {}, 0)
               /\ \A i \in 1 .. 4 : g[i] = Performed(g[i - 1], sc[i])
               /\ Shown(sc, v) = g[4]
  BY <1>1, Runs DEF HasSteps
<1>4. /\ g[1] = Performed(g[0], sc[1]) /\ g[2] = Performed(g[1], sc[2])
      /\ g[3] = Performed(g[2], sc[3]) /\ g[4] = Performed(g[3], sc[4])
  BY <1>3
<1>5. Reached(g[1], G, Starters, {}, 0)
  BY <1>1, <1>2, <1>3, <1>4, StartersName, AllShown
<1>6. Reached(g[2], G, Starters, {}, 0)
  BY <1>1, <1>2, <1>4, <1>5, StartersNameOnly, NothingShown
<1> DEFINE r == Granting(g[2].next, NoOne, "work", {"review_preferences"})
           R == Starters \cup {r}
<1>7. Reached(g[3], G, R, {}, 0)
  BY <1>1, <1>4, <1>6, StepGrants
<1>8. \A x \in review.fields : Named(R, {}, review, x)
  BY <1>2, GrantNames
<1> HIDE DEF R
<1>9. Reached(g[4], G, R, {}, 0)
  BY <1>1, <1>2, <1>4, <1>7, <1>8, AllShown
<1> QED
  BY <1>3, <1>9 DEF Reached, ShowsAsClaimed, sc

\* runPostureShowcase: a part when guarded, all when open, nothing when locked.
LEMMA PostureShows ==
  ASSUME NEW v, AsMade(v)
  PROVE  ShowsAsClaimed(runPostureShowcase, v)
<1> DEFINE setup == Wants("demo-agent", "work", Tools \cup {"timezone"})
           G == "guarded"
           sc == runPostureShowcase
<1>1. /\ Len(sc) = 6 /\ sc[1] = Asks(setup, "approved", Tools) /\ sc[2] = Switches("open")
      /\ sc[3] = Sees(setup) /\ sc[4] = Switches("locked") /\ sc[5] = Asks(setup, "denied", {})
      /\ sc[6] = Switches("guarded")
  BY DEF runPostureShowcase
<1>2. /\ setup.fields = Tools \cup {"timezone"} /\ setup.persona = "work" /\ Tools # {}
      /\ setup.agent = "demo-agent"
  BY DEF Wants, Tools
<1> HIDE DEF sc, setup
<1>3. PICK g : /\ Reached(g[0], G, Starters, {}, 0)
               /\ \A i \in 1 .. 6 : g[i] = Performed(g[i - 1], sc[i])
               /\ Shown(sc, v) = g[6]
  BY <1>1, Runs DEF HasSteps
<1>4. /\ g[1] = Performed(g[0], sc[1]) /\ g[2] = Performed(g[1], sc[2])
      /\ g[3] = Performed(g[2], sc[3]) /\ g[4] = Performed(g[3], sc[4])
      /\ g[5] = Performed(g[4], sc[5]) /\ g[6] = Performed(g[5], sc[6])
  BY <1>3
<1>5. Reached(g[1], G, Starters, {}, 0)
  <2>1. \A x \in setup.fields : Named(Starters, {}, setup, x) <=> x \in Tools
    BY <1>2, StartersName, StartersNameOnly
  <2>2. Tools = AllNamed(Starters, {}, setup)
    BY <1>2, <2>1 DEF AllNamed
  <2> QED
    BY <1>1, <1>2, <1>3, <1>4, <2>2, PartShown
<1>6. Reached(g[2], "open", Starters, {}, 0)
  BY <1>1, <1>4, <1>5, StepSwitches
<1>7. Reached(g[3], "open", Starters, {}, 0)
  <2>1. NoOne \in {NoOne, setup.agent} /\ ForWork \in Starters
    BY DEF Starters
  <2>2. matchesStandardRule(ForWork, setup)
    BY <1>2, <2>1, GrantingMatches DEF ForWork
  <2>3. setup.fields # {}
    BY <1>2
  <2> QED
    BY <1>1, <1>4, <1>6, <2>1, <2>2, <2>3, OpenShown
<1>8. Reached(g[4], "locked", Starters, {}, 0)
  BY <1>1, <1>4, <1>7, StepSwitches
<1>9. Reached(g[5], "locked", Starters, {}, 0)
  BY <1>1, <1>4, <1>8, LockedAnswers, StepAsks
<1>10. Reached(g[6], G, Starters, {}, 0)
  BY <1>1, <1>4, <1>9, StepSwitches
<1> QED
  BY <1>3, <1>10 DEF Reached, ShowsAsClaimed, sc

\* runMultiAgent: each agent sees its own persona's fields, and no other's.
LEMMA MultiAgentShows ==
  ASSUME NEW v, AsMade(v)
  PROVE  ShowsAsClaimed(runMultiAgent, v)
<1> DEFINE sizes == {"clothing_size", "shoe_size", "preferred_brands"}
           name  == Wants("personal-assistant", "personal", {"name"})
           shop  == Wants("shopping-bot", "shopping", sizes)
           mail  == Wants("shopping-bot", "personal", {"email", "birthday"})
           pay   == Wants("personal-assistant", "shopping", {"payment_method"})
           G == "guarded"
           sc == runMultiAgent
<1>1. /\ Len(sc) = 5 /\ sc[1] = Sees(name) /\ sc[2] = Adds("shopping-bot", "shopping", sizes)
      /\ sc[3] = Sees(shop) /\ sc[4] = Waits(mail) /\ sc[5] = Waits(pay)
  BY DEF runMultiAgent
<1>2. /\ name.fields = {"name"} /\ name.persona = "personal" /\ name.agent = "personal-assistant"
      /\ shop.fields = sizes /\ shop.persona = "shopping" /\ shop.agent = "shopping-bot"
      /\ mail.fields = {"email", "birthday"} /\ mail.persona = "personal"
      /\ pay.fields = {"payment_method"} /\ pay.persona = "shopping"
      /\ sizes # {} /\ "payment_method" \notin sizes
  BY DEF Wants
<1> HIDE DEF sc, name, shop, mail, pay, sizes
<1>3. PICK g : /\ Reached(g[0], G, Starters, {}, 0)
               /\ \A i \in 1 .. 5 : g[i] = Performed(g[i - 1], sc[i])
               /\ Shown(sc, v) = g[5]
  BY <1>1, Runs DEF HasSteps
<1>4. /\ g[1] = Performed(g[0], sc[1]) /\ g[2] = Performed(g[1], sc[2])
      /\ g[3] = Performed(g[2], sc[3]) /\ g[4] = Performed(g[3], sc[4])
      /\ g[5] = Performed(g[4], sc[5])
  BY <1>3
<1>5. Reached(g[1], G, Starters, {}, 0)
  <2>1. ForName \in Starters /\ name.agent \in {NoOne, name.agent}
    BY DEF Starters
  <2>2. \A x \in name.fields : Named(Starters, {}, name, x)
    BY <1>2, <2>1, GrantNames DEF ForName
  <2>3. name.fields # {}
    BY <1>2
  <2> QED
    BY <1>1, <1>3, <1>4, <2>2, <2>3, AllShown
<1> DEFINE r == Granting(g[1].next, "shopping-bot", "shopping", sizes)
           R == Starters \cup {r}
<1>6. Reached(g[2], G, R, {}, 0)
  BY <1>1, <1>4, <1>5, StepAdds
<1>7. \A x \in shop.fields : Named(R, {}, shop, x)
  <2>1. shop.agent \in {NoOne, shop.agent}
    OBVIOUS
  <2> QED
    BY <1>2, <2>1, GrantNames
<1>8. \A req, x : Named(R, {}, req, x) =>
        Named(Starters, {}, req, x) \/ (req.persona = "shopping" /\ x \in sizes)
  <2>1. r.fields = sizes
    BY DEF Granting
  <2>2. ASSUME NEW req, matchesStandardRule(r, req) PROVE req.persona = "shopping"
    BY <2>2, GrantingMatches
  <2>3. ASSUME NEW req, NEW x, Named(R, {}, req, x), ~Named(Starters, {}, req, x)
        PROVE  req.persona = "shopping" /\ x \in sizes
    <3> HIDE DEF r
    <3>1. PICK q \in R : matchesStandardRule(q, req) /\ x \in q.fields
      BY <2>3 DEF Named
    <3>2. q = r
      BY <2>3, <3>1 DEF Named
    <3> QED
      BY <2>1, <2>2, <3>1, <3>2
  <2> HIDE DEF R
  <2> QED
    BY <2>3
<1> HIDE DEF R
<1>9. Reached(g[3], G, R, {}, 0)
  BY <1>1, <1>2, <1>4, <1>6, <1>7, AllShown
<1>10. Reached(g[4], G, R, {}, 0)
  <2>1. \A x \in mail.fields : ~Named(R, {}, mail, x)
    BY <1>2, <1>8, StartersNameOnly
  <2> QED
    BY <1>1, <1>4, <1>9, <2>1, NothingShown
<1>11. Reached(g[5], G, R, {}, 0)
  <2>1. \A x \in pay.fields : ~Named(R, {}, pay, x)
    BY <1>2, <1>8, StartersNameOnly
  <2> QED
    BY <1>1, <1>4, <1>10, <2>1, NothingShown
<1> QED
  BY <1>3, <1>11 DEF Reached, ShowsAsClaimed, sc

\* runScheduledRules: the rule for the heartbeat is in force until it is outlived,
\* and then a standard rule still gives the tools.
LEMMA ScheduledShows ==
  ASSUME NEW v, AsMade(v), now \in Nat
  PROVE  ShowsAsClaimed(runScheduledRules, v)
<1> DEFINE wanted == {"tools", "role"}
           status == Beats("monitor-bot", "hb-status", wanted)
           plan == Schedules("monitor-bot", "hb-status", wanted, 2)
           G == "guarded"
           sc == runScheduledRules
<1>1. /\ Len(sc) = 4 /\ sc[1] = plan /\ sc[2] = Sees(status)
      /\ sc[3] = Outlives /\ sc[4] = Asks(status, "approved", {"tools"})
  BY DEF runScheduledRules
<1>2. /\ status.fields = wanted /\ status.persona = "work" /\ status.agent = "monitor-bot"
      /\ status.type = "heartbeat" /\ status.source = "hb-status"
  BY DEF Beats, Wants
<1>3. /\ plan.agent = "monitor-bot" /\ plan.source = "hb-status" /\ plan.persona = "work" /\ plan.fields = wanted
      /\ wanted # {} /\ wanted \cap Tools = {"tools"} /\ {"tools"} # {}
  BY DEF Schedules, Tools
<1>4. PICK g : /\ Reached(g[0], G, Starters, {}, 0)
               /\ \A i \in 1 .. 4 : g[i] = Performed(g[i - 1], sc[i])
               /\ Shown(sc, v) = g[4]
  <2> HIDE DEF sc
  <2> QED
    BY <1>1, Runs DEF HasSteps
<1> DEFINE beat == g[0].next
           r == createHeartbeatRule(beat, plan, 2)
<1>5. r.id = beat /\ r.fields = wanted /\ MatchesScheduled(r, status)
  <2>1. /\ r.id = beat /\ r.kind = "heartbeat" /\ r.agent = plan.agent /\ r.source = plan.source
        /\ r.persona = plan.persona /\ r.fields = plan.fields /\ r.window = NoWindow /\ r.expires = now + 2
    BY DEF createHeartbeatRule
  <2> HIDE DEF r, plan, status, wanted
  <2>2. isScheduledRuleActive(r)
    BY <2>1 DEF isScheduledRuleActive
  <2> QED
    BY <1>2, <1>3, <2>1, <2>2 DEF MatchesScheduled, ForRequest
<1>6. /\ g[1] = Performed(g[0], sc[1]) /\ g[2] = Performed(g[1], sc[2])
      /\ g[3] = Performed(g[2], sc[3]) /\ g[4] = Performed(g[3], sc[4])
  <2> HIDE DEF sc
  <2> QED
    BY <1>4
<1>7. Reached(g[1], G, Starters, {} \cup {r}, beat)
  <2>1. Reached(Performed(g[0], plan), G, Starters, {} \cup {r}, beat)
    BY <1>4, StepSchedules
  <2> HIDE DEF sc, plan, r
  <2> QED
    BY <1>1, <1>6, <2>1
<1> DEFINE S == {} \cup {r}
<1> HIDE DEF sc, plan, r, status, wanted
<1>8. Reached(g[2], G, Starters, S, beat)
  <2>1. \A x \in status.fields : Named(Starters, S, status, x)
    BY <1>2, <1>5 DEF Named
  <2> HIDE DEF S
  <2> QED
    BY <1>1, <1>2, <1>3, <1>6, <1>7, <2>1, AllShown DEF S
<1>9. Reached(g[3], G, Starters, {}, beat)
  <2>1. \A x \in S : x.id = beat
    BY <1>5
  <2> HIDE DEF S
  <2> QED
    BY <1>1, <1>6, <1>8, <2>1, StepOutlives
<1>10. Reached(g[4], G, Starters, {}, beat)
  <2>1. \A x \in status.fields : Named(Starters, {}, status, x) <=> x \in Tools
    BY <1>2, StartersName, StartersNameOnly
  <2> DEFINE X == {"tools"}
  <2>2. X = AllNamed(Starters, {}, status) /\ X # {} /\ sc[4] = Asks(status, "approved", X)
    BY <1>1, <1>2, <1>3, <2>1 DEF AllNamed
  <2> HIDE DEF X
  <2> QED
    BY <1>6, <1>9, <2>2, PartShown
<1> QED
  BY <1>4, <1>10 DEF Reached, ShowsAsClaimed, sc

\* runFullLifecycle: waiting, granted, open, guarded again.
LEMMA LifecycleShows ==
  ASSUME NEW v, AsMade(v)
  PROVE  ShowsAsClaimed(runFullLifecycle, v)
<1> DEFINE later == {"timezone", "role"}
           tools == Wants("coder", "work", {"tools"})
           more  == Wants("coder", "work", later)
           all   == Wants("coder", "work", Tools \cup later \cup {"review_preferences"})
           G == "guarded"
           sc == runFullLifecycle
<1>1. /\ Len(sc) = 7 /\ sc[1] = Sees(tools) /\ sc[2] = Waits(more) /\ sc[3] = Grants("work", later)
      /\ sc[4] = Switches("open") /\ sc[5] = Sees(all) /\ sc[6] = Switches("guarded")
      /\ sc[7] = Schedules("coder", "hb-coding", {"tools", "role"}, 1)
  BY DEF runFullLifecycle
<1>2. /\ tools.fields = {"tools"} /\ tools.persona = "work" /\ "tools" \in Tools
      /\ more.fields = later /\ more.persona = "work" /\ later \cap Tools = {}
      /\ all.fields = Tools \cup later \cup {"review_preferences"} /\ all.persona = "work"
  BY DEF Wants, Tools
<1> HIDE DEF sc, tools, more, all, later
<1>3. PICK g : /\ Reached(g[0], G, Starters, {}, 0)
               /\ \A i \in 1 .. 7 : g[i] = Performed(g[i - 1], sc[i])
               /\ Shown(sc, v) = g[7]
  BY <1>1, Runs DEF HasSteps
<1>4. /\ g[1] = Performed(g[0], sc[1]) /\ g[2] = Performed(g[1], sc[2])
      /\ g[3] = Performed(g[2], sc[3]) /\ g[4] = Performed(g[3], sc[4])
      /\ g[5] = Performed(g[4], sc[5]) /\ g[6] = Performed(g[5], sc[6])
      /\ g[7] = Performed(g[6], sc[7])
  BY <1>3
<1>5. Reached(g[1], G, Starters, {}, 0)
  <2>1. tools.fields # {} /\ \A x \in tools.fields : Named(Starters, {}, tools, x)
    BY <1>2, StartersName
  <2> QED
    BY <1>1, <1>3, <1>4, <2>1, AllShown
<1>6. Reached(g[2], G, Starters, {}, 0)
  <2>1. \A x \in more.fields : ~Named(Starters, {}, more, x)
    BY <1>2, StartersNameOnly
  <2> QED
    BY <1>1, <1>4, <1>5, <2>1, NothingShown
<1> DEFINE R == Starters \cup {Granting(g[2].next, NoOne, "work", later)}
<1>7. Reached(g[3], G, R, {}, 0) /\ ForWork \in R
  BY <1>1, <1>4, <1>6, StepGrants DEF Starters
<1> HIDE DEF R
<1>8. Reached(g[4], "open", R, {}, 0)
  BY <1>1, <1>4, <1>7, StepSwitches
<1>9. Reached(g[5], "open", R, {}, 0)
  <2>1. NoOne \in {NoOne, all.agent} /\ all.fields # {}
    BY <1>2
  <2>2. matchesStandardRule(ForWork, all)
    BY <1>2, <2>1, GrantingMatches DEF ForWork
  <2> QED
    BY <1>1, <1>4, <1>7, <1>8, <2>1, <2>2, OpenShown
<1>10. Reached(g[6], G, R, {}, 0)
  BY <1>1, <1>4, <1>9, StepSwitches
<1>11. \E S, beat : Reached(g[7], G, R, S, beat)
  <2> DEFINE step == Schedules("coder", "hb-coding", {"tools", "role"}, 1)
  <2>1. Reached(Performed(g[6], step), G, R, {} \cup {createHeartbeatRule(g[6].next, step, 1)}, g[6].next)
    BY <1>10, StepSchedules
  <2> HIDE DEF step
  <2> QED
    BY <1>1, <1>4, <2>1 DEF step
<1> QED
  BY <1>3, <1>11 DEF Reached, ShowsAsClaimed, sc

\* On a vault no visitor has changed, every scenario shows what it claims.
LEMMA AllShow ==
  ASSUME now \in Nat, NEW v, AsMade(v), NEW scenario \in scenarios
  PROVE  ShowsAsClaimed(scenario, v)
BY BasicShows, PostureShows, MultiAgentShows, ScheduledShows, LifecycleShows DEF scenarios

-----------------------------------------------------------------------------
(* The demo: sessions *)

SessionSound(s) == DOMAIN s = {"vault", "createdAt", "changed"} /\ (~s.changed => AsMade(s.vault))

DemoInv == now \in Nat /\ \A id \in DOMAIN sessions : SessionSound(sessions[id])

\* A session that is kept or made anew is sound (getOrCreateSession).
LEMMA SessionsSound ==
  ASSUME DemoInv, NEW id
  PROVE  SessionSound(SessionOf(id))
<1>1. SessionSound(NewSession)
  BY MadeAsMade DEF NewSession, SessionSound
<1> QED
  BY <1>1 DEF DemoInv, Live, SessionOf

\* A session whose vault is replaced.
LEMMA VaultReplaced ==
  ASSUME NEW s, SessionSound(s), NEW v, ~s.changed => AsMade(v)
  PROVE  SessionSound([s EXCEPT !.vault = v])
BY DEF SessionSound

\* A call that leaves a sound session leaves all of them so: the others are as
\* they were or were made anew (getOrCreateSession).
LEMMA PostsKeep ==
  ASSUME DemoInv, NEW id, NEW s, SessionSound(s), Posts(id, s)
  PROVE  DemoInv'
<1>1. PICK all \in getOrCreateSession(id) : sessions' = [all EXCEPT ![id] = s]
  BY DEF Posts
<1>2. PICK k : all = [o \in k \cup {id} |-> SessionOf(o)]
  BY <1>1 DEF getOrCreateSession
<1>3. \A o \in DOMAIN sessions' : sessions'[o] = s \/ sessions'[o] = SessionOf(o)
  BY <1>1, <1>2
<1>4. \A o \in DOMAIN sessions' : SessionSound(sessions'[o])
  BY <1>3, SessionsSound
<1>5. now' = now
  BY DEF Posts
<1> QED
  BY <1>4, <1>5 DEF DemoInv, SessionSound, AsMade, Stands, VaultFields, Starters, ForWork, ForName, Granting, Tools

\* One call of a visitor.
LEMMA VisitorsKeep == DemoInv /\ (\E id \in Visitors : DemoCalls(id)) => DemoInv'
<1> SUFFICES ASSUME DemoInv, NEW id \in Visitors, DemoCalls(id)
             PROVE  DemoInv'
  OBVIOUS
<1> DEFINE s == SessionOf(id)
<1>1. SessionSound(s)
  BY SessionsSound
<1> HIDE DEF s
<1>2. CASE CreatesVault(id)
  <2> DEFINE u == [s EXCEPT !.vault = createDemoVault, !.changed = FALSE]
  <2>1. SessionSound(u)
    <3> HIDE DEF s
    <3> QED BY <1>1, MadeAsMade DEF SessionSound
  <2>2. Posts(id, u)
    BY <1>2 DEF CreatesVault, s
  <2> HIDE DEF u
  <2> QED
    BY <2>1, <2>2, PostsKeep
<1>3. CASE Looks(id)
  BY <1>1, <1>3, PostsKeep DEF Looks, s
<1>4. ASSUME NEW scenario \in scenarios, RunsScenario(id, scenario) PROVE DemoInv'
  <2> DEFINE u == [s EXCEPT !.vault = s.vault]
  <2>1. SessionSound(u)
    BY <1>1, VaultReplaced DEF SessionSound
  <2>2. Posts(id, u)
    BY <1>4 DEF RunsScenario, runDemoScenario, s
  <2> HIDE DEF u
  <2> QED
    BY <2>1, <2>2, PostsKeep
<1>5. ASSUME NEW req \in DemoRequests, ExecutesRequest(id, req) PROVE DemoInv'
  <2> DEFINE w == requestContext(s.vault, req, nextId).vault
             u == [s EXCEPT !.vault = w]
  <2>1. ~s.changed => AsMade(w)
    BY <1>1, AnswersFollowPolicy DEF SessionSound, AsMade
  <2>2. Posts(id, u)
    BY <1>5 DEF ExecutesRequest, s
  <2> HIDE DEF w
  <2>3. SessionSound(u)
    BY <1>1, <2>1, VaultReplaced
  <2> HIDE DEF u
  <2> QED
    BY <2>2, <2>3, PostsKeep
<1>6. ASSUME NEW p \in Postures, ExecutesPosture(id, p) PROVE DemoInv'
  <2> DEFINE u == [s EXCEPT !.vault.posture = p, !.changed = TRUE]
  <2>1. SessionSound(u)
    BY <1>1 DEF SessionSound
  <2>2. Posts(id, u)
    BY <1>6 DEF ExecutesPosture, s
  <2> HIDE DEF u
  <2> QED
    BY <2>1, <2>2, PostsKeep
<1>7. ASSUME NEW o \in DemoRules, ExecutesAddRule(id, o) PROVE DemoInv'
  <2> DEFINE w == WithRule(s.vault, nextId, o.agent, o.purpose, o.persona, o.fields)
             u == [s EXCEPT !.vault = w, !.changed = TRUE]
  <2>1. Posts(id, u)
    BY <1>7 DEF ExecutesAddRule, s
  <2> HIDE DEF w
  <2>2. SessionSound(u)
    BY <1>1 DEF SessionSound
  <2> HIDE DEF u
  <2> QED
    BY <2>1, <2>2, PostsKeep
<1>8. ASSUME NEW rule, ExecutesRemoveRule(id, rule) PROVE DemoInv'
  <2> DEFINE w == [s EXCEPT !.vault.rules = {r \in @ : r.id # rule}, !.changed = TRUE]
             u == IF rule \notin {r.id : r \in s.vault.rules} THEN s ELSE w
  <2>1. SessionSound(w)
    BY <1>1 DEF SessionSound
  <2>2. Posts(id, u)
    BY <1>8 DEF ExecutesRemoveRule, s
  <2> HIDE DEF w
  <2>3. SessionSound(u)
    BY <1>1, <2>1
  <2> HIDE DEF u
  <2> QED
    BY <2>2, <2>3, PostsKeep
<1>9. ASSUME NEW e, NEW status, NEW standing \in BOOLEAN, ExecutesResolve(id, e, status, standing) PROVE DemoInv'
  <2> DEFINE v == resolveApproval(s.vault, e, status)
             x == WithRule(v, nextId, NoOne, NoOne, e.request.persona, e.request.fields)
             ruled == [s EXCEPT !.vault = x, !.changed = TRUE]
             kept == [s EXCEPT !.vault = v]
  <2>1. Settled(s, e, status, standing) \in {s, kept, ruled}
    BY DEF Settled
  <2>2. ~s.changed => AsMade(v)
    BY <1>1, GrantedStands DEF SessionSound, AsMade
  <2> HIDE DEF v
  <2>3. SessionSound(kept)
    BY <1>1, <2>2, VaultReplaced
  <2> HIDE DEF x
  <2>4. SessionSound(ruled)
    BY <1>1 DEF SessionSound
  <2> HIDE DEF kept, ruled
  <2>5. SessionSound(Settled(s, e, status, standing))
    BY <1>1, <2>1, <2>3, <2>4
  <2>6. Posts(id, Settled(s, e, status, standing))
    BY <1>9 DEF ExecutesResolve, s
  <2> QED
    BY <2>5, <2>6, PostsKeep
<1> QED
  BY <1>2, <1>3, <1>4, <1>5, <1>6, <1>7, <1>8, <1>9 DEF DemoCalls

\* Whoever comes and goes, and whatever is asked, resolved or run, a vault whose
\* visitor has changed neither posture nor rules has the starter rules and no
\* other (demo.ts, execute_action, run_scenario, cleanExpiredSessions).
LEMMA DemoStaysSound == DemoSpec => []DemoInv
<1>1. Init /\ DemoInit => DemoInv
  BY DEF Init, DemoInit, DemoInv
<1>2. DemoInv /\ [DemoNext]_<<vars, sessions>> => DemoInv'
  <2> SUFFICES ASSUME DemoInv, [DemoNext]_<<vars, sessions>> PROVE DemoInv'
    OBVIOUS
  <2>1. CASE \E id \in Visitors : DemoCalls(id)
    BY <2>1, VisitorsKeep
  <2>2. CASE Tick /\ UNCHANGED sessions
    BY <2>2 DEF Tick, DemoInv, SessionSound
  <2>3. CASE UNCHANGED <<vars, sessions>>
    BY <2>3 DEF vars, DemoInv, SessionSound
  <2> QED
    BY <2>1, <2>2, <2>3 DEF DemoNext
<1> QED
  BY <1>1, <1>2, PTL DEF DemoSpec

\* Until its visitor changes the posture or the rules of his vault, each request
\* of each of the five scenarios is answered as the highlight shown beside it
\* claims (demo.ts, runDemoScenario).
THEOREM ScenariosAreTrue == DemoSpec => []ScenariosShowWhatTheyClaim
<1>1. DemoInv => ScenariosShowWhatTheyClaim
  <2> SUFFICES ASSUME DemoInv, NEW id \in DOMAIN sessions, ~sessions[id].changed, NEW scenario \in scenarios
               PROVE  \A step \in runDemoScenario(scenario, sessions[id].vault).shown : step.answer = step.claim
    BY DEF ScenariosShowWhatTheyClaim
  <2>1. now \in Nat /\ AsMade(sessions[id].vault)
    BY DEF DemoInv, SessionSound
  <2>2. ShowsAsClaimed(scenario, sessions[id].vault)
    BY <2>1, AllShow
  <2> QED
    BY <2>2 DEF ShowsAsClaimed, runDemoScenario
<1> QED
  BY <1>1, DemoStaysSound, PTL

==============================================================================
