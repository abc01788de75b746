------------------------ MODULE UpgradeListenerProofs ------------------------
(***************************************************************************)
(* Proofs about UpgradeListener, for any names, tables, goroutines and     *)
(* failures: types, that no write is forgotten, and that the listener is   *)
(* what ViewUpgrade says.                                                  *)
(***************************************************************************)
EXTENDS UpgradeListener, TLAPS

-----------------------------------------------------------------------------
(* The inductive invariant.                                                *)

\* Without an active branch there are neither overlays nor delta tables.
SchemasHaveBranch ==
    /\ overlay \subseteq Existing
    /\ written \subseteq Existing

ListenerInv ==
    /\ TypeOK
    /\ SchemasHaveBranch
    /\ NothingForgotten

-----------------------------------------------------------------------------
(* Facts about queue and goroutines.                                       *)

\* The goroutine j has still to upgrade v.
Upgrades(j, v) == j # Nothing /\ j.view = v /\ j.step # "mark"

(* What a goroutine is.                                                    *)
LEMMA JobShape ==
    ASSUME NEW j \in Jobs
    PROVE  j.view \in Views /\ j.view[1] \in Names /\ j.step \in Steps /\ j # Nothing
BY ListenerAssumption DEF Jobs, Views

(* A notification that is sent is queued.                                  *)
LEMMA SentIsQueued ==
    ASSUME queue \in Seq(Payloads), NEW p \in Payloads, queue' = Append(queue, p)
    PROVE  queue' \in Seq(Payloads) /\ Queued' = Queued \cup ({p} \ {Malformed})
<1>1. queue' \in Seq(Payloads) /\ Len(queue') = Len(queue) + 1 /\ Len(queue) \in Nat
  OBVIOUS
<1>2. /\ \A i \in 1..Len(queue) : queue'[i] = queue[i]
      /\ queue'[Len(queue) + 1] = p
  OBVIOUS
<1>3. 1..Len(queue') = 1..Len(queue) \cup {Len(queue) + 1}
  BY <1>1
<1>4. {queue'[i] : i \in 1..Len(queue')} = {queue[i] : i \in 1..Len(queue)} \cup {p}
  BY <1>2, <1>3
<1> QED
  BY <1>1, <1>4 DEF Queued

(* The head of the queue is the only one that is received.                 *)
LEMMA HeadIsReceived ==
    ASSUME queue \in Seq(Payloads), queue # <<>>, queue' = Tail(queue)
    PROVE  /\ queue' \in Seq(Payloads)
           /\ Head(queue) \in Payloads
           /\ Queued' \subseteq Queued
           /\ Queued \subseteq Queued' \cup {Head(queue)}
           /\ Head(queue) # Malformed => Head(queue) \in Queued
<1>1. /\ queue' \in Seq(Payloads) /\ Len(queue) \in Nat \ {0} /\ Len(queue') = Len(queue) - 1
      /\ Head(queue) = queue[1] /\ Head(queue) \in Payloads
  OBVIOUS
<1>2. \A i \in 1..Len(queue') : i + 1 \in 1..Len(queue) /\ queue'[i] = queue[i + 1]
  BY <1>1
<1>3. \A i \in 1..Len(queue) : i # 1 => i - 1 \in 1..Len(queue') /\ queue'[i - 1] = queue[i]
  BY <1>1
<1> QED
  BY <1>1, <1>2, <1>3 DEF Queued

(* A step of one goroutine changes only what that goroutine upgrades.      *)
LEMMA OneJobMoves ==
    ASSUME job \in [Slots -> Jobs \cup {Nothing}], NEW s \in Slots, NEW j \in Jobs \cup {Nothing},
           job' = [job EXCEPT ![s] = j]
    PROVE  /\ job' \in [Slots -> Jobs \cup {Nothing}]
           /\ \A v \in Views : v \in BeingDone => v \in BeingDone' \/ Upgrades(job[s], v)
           /\ \A v \in Views : v \in BeingDone' => v \in BeingDone \/ Upgrades(j, v)
           /\ \A v \in Views : Upgrades(j, v) => v \in BeingDone'
           /\ \A v \in Views : Upgrades(job[s], v) => v \in BeingDone
<1>1. /\ job' \in [Slots -> Jobs \cup {Nothing}] /\ job'[s] = j
      /\ \A r \in Slots : r # s => job'[r] = job[r]
  OBVIOUS
<1> QED
  BY <1>1 DEF BeingDone, Upgrades

(* Nothing in flight is lost if queue and goroutines stay.                 *)
LEMMA SameFlight ==
    ASSUME UNCHANGED <<queue, job>>
    PROVE  Queued' = Queued /\ BeingDone' = BeingDone /\ InFlight' = InFlight
BY DEF Queued, BeingDone, InFlight

-----------------------------------------------------------------------------
(* The invariant is kept, action by action.                                *)

(* What the views of a branch have to do with its name.                    *)
LEMMA ViewsOfName ==
    /\ \A n \in Names : ViewsOf(n) \subseteq Views
    /\ \A v \in Views, n \in Names : v \in ViewsOf(n) <=> v[1] = n
    /\ \A v \in Views : v[1] \in Names
BY DEF ViewsOf, Views

(* A branch that is created finds nothing in its schema.                   *)
LEMMA CreateKeepsInv ==
    ASSUME ListenerInv, NEW n \in Names, CreateBranch(n)
    PROVE  ListenerInv'
<1>1. /\ branch' = [branch EXCEPT ![n] = "active"] /\ branch[n] = "none"
      /\ created' \in 0..MaxCreated
      /\ UNCHANGED <<overlay, dirty, written, link, queue, job, faults, missed>>
  BY ListenerAssumption DEF CreateBranch, ListenerInv, TypeOK
<1>2. InFlight' = InFlight
  BY <1>1, SameFlight
<1>3. Existing \subseteq Existing'
  BY <1>1, ViewsOfName DEF ListenerInv, TypeOK, Existing
<1>4. TypeOK'
  BY <1>1 DEF ListenerInv, TypeOK
<1>5. SchemasHaveBranch' /\ NothingForgotten'
  BY <1>1, <1>2, <1>3 DEF ListenerInv, SchemasHaveBranch, NothingForgotten
<1> QED
  BY <1>4, <1>5 DEF ListenerInv

(* Views, delta tables and what is known of them go together.              *)
LEMMA RemoveKeepsInv ==
    ASSUME ListenerInv, NEW n \in Names, RemoveSchema(n),
           NEW b \in {"none", "merged"}, branch' = [branch EXCEPT ![n] = b],
           dirty' \subseteq Views
    PROVE  ListenerInv'
<1>1. /\ overlay' = overlay \ ViewsOf(n) /\ written' = written \ ViewsOf(n)
      /\ missed' = missed \ ViewsOf(n)
      /\ UNCHANGED <<created, link, queue, job, faults>>
  BY DEF RemoveSchema
<1>2. InFlight' = InFlight
  BY <1>1, SameFlight
<1>3. Existing' = Existing \ ViewsOf(n)
  BY ViewsOfName DEF ListenerInv, TypeOK, Existing
<1>4. TypeOK'
  BY <1>1 DEF ListenerInv, TypeOK
<1>5. SchemasHaveBranch' /\ NothingForgotten'
  BY <1>1, <1>2, <1>3 DEF ListenerInv, SchemasHaveBranch, NothingForgotten
<1> QED
  BY <1>4, <1>5 DEF ListenerInv

(* Merge and drop both remove the schema.                                  *)
LEMMA GoneKeepsInv ==
    ASSUME ListenerInv, NEW n \in Names, MergeBranch(n) \/ DropBranch(n)
    PROVE  ListenerInv'
<1>1. RemoveSchema(n) /\ dirty' \subseteq Views
  BY DEF MergeBranch, DropBranch, ListenerInv, TypeOK
<1>2. \E b \in {"none", "merged"} : branch' = [branch EXCEPT ![n] = b]
  BY DEF MergeBranch, DropBranch
<1> QED
  BY <1>1, <1>2, RemoveKeepsInv

(* A write is heard or known to be missed.                                 *)
LEMMA WriteKeepsInv ==
    ASSUME ListenerInv, NEW v \in Views, Write(v)
    PROVE  ListenerInv'
<1>1. /\ branch[v[1]] = "active" /\ written' = written \cup {v}
      /\ UNCHANGED <<branch, created, overlay, dirty, link, job, faults>>
  BY DEF Write
<1>2. v # Malformed /\ v \in Payloads /\ v \in Existing
  BY <1>1, ListenerAssumption DEF Payloads, Existing
<1>3. Existing' = Existing /\ BeingDone' = BeingDone
  BY <1>1 DEF Existing, BeingDone
<1>4. CASE queue' = Append(queue, v) /\ UNCHANGED missed
  <2>1. queue' \in Seq(Payloads) /\ Queued' = Queued \cup {v}
    BY <1>2, <1>4, SentIsQueued DEF ListenerInv, TypeOK
  <2>2. TypeOK'
    BY <1>1, <1>4, <2>1 DEF ListenerInv, TypeOK
  <2>3. SchemasHaveBranch' /\ NothingForgotten'
    BY <1>1, <1>2, <1>3, <1>4, <2>1
       DEF ListenerInv, SchemasHaveBranch, NothingForgotten, InFlight
  <2> QED
    BY <2>2, <2>3 DEF ListenerInv
<1>5. CASE UNCHANGED queue /\ missed' = missed \cup {v}
  <2>1. InFlight' = InFlight
    BY <1>1, <1>5, SameFlight
  <2>2. TypeOK'
    BY <1>1, <1>5 DEF ListenerInv, TypeOK
  <2>3. SchemasHaveBranch' /\ NothingForgotten'
    BY <1>1, <1>2, <1>3, <1>5, <2>1 DEF ListenerInv, SchemasHaveBranch, NothingForgotten
  <2> QED
    BY <2>2, <2>3 DEF ListenerInv
<1> QED
  BY <1>4, <1>5 DEF Write

(* A malformed payload is no request.                                      *)
LEMMA NoiseKeepsInv ==
    ASSUME ListenerInv, Noise
    PROVE  ListenerInv'
<1>1. /\ queue' = Append(queue, Malformed) /\ faults' = faults - 1 /\ faults > 0
      /\ UNCHANGED <<branch, created, overlay, dirty, written, link, job, missed>>
  BY DEF Noise, Fault, branchVars
<1>2. queue' \in Seq(Payloads) /\ Queued' = Queued
  BY <1>1, SentIsQueued DEF ListenerInv, TypeOK, Payloads
<1>3. BeingDone' = BeingDone /\ Existing' = Existing
  BY <1>1 DEF BeingDone, Existing
<1>4. TypeOK'
  BY <1>1, <1>2, ListenerAssumption DEF ListenerInv, TypeOK
<1>5. SchemasHaveBranch' /\ NothingForgotten'
  BY <1>1, <1>2, <1>3 DEF ListenerInv, SchemasHaveBranch, NothingForgotten, InFlight
<1> QED
  BY <1>4, <1>5 DEF ListenerInv

(* What a connection or the process loses is known to be missed.           *)
LEMMA ConnectionKeepsInv ==
    ASSUME ListenerInv, Boot \/ Die \/ Connect \/ Listen \/ LinkLost
    PROVE  ListenerInv'
<1>1. UNCHANGED branchVars /\ Existing' = Existing
  BY DEF Boot, Die, Connect, Listen, LinkLost, Existing, branchVars
<1>2. CASE Boot \/ Connect \/ Listen
  <2>1. link' \in Links /\ UNCHANGED <<queue, job, faults, missed>>
    BY <1>2 DEF Boot, Connect, Listen, Links
  <2>2. InFlight' = InFlight
    BY <2>1, SameFlight
  <2> QED
    BY <1>1, <2>1, <2>2
       DEF ListenerInv, TypeOK, SchemasHaveBranch, NothingForgotten, branchVars
<1>3. CASE Die
  <2>1. /\ link' = "down" /\ queue' = <<>> /\ job' = [s \in Slots |-> Nothing]
        /\ missed' = missed \cup InFlight /\ UNCHANGED faults
    BY <1>3 DEF Die
  <2>2. InFlight \subseteq Views
    BY DEF ListenerInv, TypeOK, InFlight, Queued, BeingDone, Payloads
  <2>3. TypeOK'
    BY <1>1, <2>1, <2>2 DEF ListenerInv, TypeOK, Links, branchVars
  <2>4. SchemasHaveBranch' /\ NothingForgotten'
    BY <1>1, <2>1 DEF ListenerInv, SchemasHaveBranch, NothingForgotten, branchVars
  <2> QED
    BY <2>3, <2>4 DEF ListenerInv
<1>4. CASE LinkLost
  <2>1. /\ link' = "connecting" /\ queue' = <<>> /\ missed' = missed \cup Queued
        /\ UNCHANGED job /\ faults > 0 /\ faults' = faults - 1
    BY <1>4 DEF LinkLost, Fault
  <2>2. Queued \subseteq Views /\ BeingDone' = BeingDone
    BY <2>1 DEF ListenerInv, TypeOK, Queued, BeingDone, Payloads
  <2>3. TypeOK'
    BY <1>1, <2>1, <2>2, ListenerAssumption DEF ListenerInv, TypeOK, Links, branchVars
  <2>4. SchemasHaveBranch' /\ NothingForgotten'
    BY <1>1, <2>1, <2>2
       DEF ListenerInv, SchemasHaveBranch, NothingForgotten, InFlight, branchVars
  <2> QED
    BY <2>3, <2>4 DEF ListenerInv
<1> QED
  BY <1>2, <1>3, <1>4

(* A notification that is received is upgraded by its goroutine.           *)
LEMMA ReceiveKeepsFlight ==
    ASSUME TypeOK, Receive
    PROVE  /\ queue' \in Seq(Payloads)
           /\ job' \in [Slots -> Jobs \cup {Nothing}]
           /\ InFlight' = InFlight
<1>1. /\ queue' \in Seq(Payloads) /\ Head(queue) \in Payloads
      /\ Queued' \subseteq Queued
      /\ Queued \subseteq Queued' \cup {Head(queue)}
      /\ Head(queue) # Malformed => Head(queue) \in Queued
  BY HeadIsReceived DEF TypeOK, Receive
<1>2. CASE Head(queue) = Malformed /\ UNCHANGED job
  <2>1. Queued' = Queued
    BY <1>1, <1>2 DEF Queued
  <2>2. BeingDone' = BeingDone
    BY <1>2 DEF BeingDone
  <2> QED
    BY <1>1, <1>2, <2>1, <2>2 DEF TypeOK, InFlight
<1>3. CASE /\ Head(queue) # Malformed
           /\ \E s \in Slots :
                /\ job[s] = Nothing
                /\ job' = [job EXCEPT ![s] = [view |-> Head(queue), step |-> "inspect"]]
  <2>1. PICK s \in Slots :
            /\ job[s] = Nothing
            /\ job' = [job EXCEPT ![s] = [view |-> Head(queue), step |-> "inspect"]]
    BY <1>3
  <2> DEFINE v == Head(queue)
             j == [view |-> Head(queue), step |-> "inspect"]
  <2>2. v \in Views /\ j \in Jobs
    BY <1>1, <1>3 DEF Payloads, Jobs, Steps
  <2>3. Upgrades(j, v) /\ \A w : Upgrades(j, w) => w = v
    BY <2>2, JobShape DEF Upgrades
  <2>4. \A w : ~Upgrades(job[s], w)
    BY <2>1 DEF Upgrades
  <2>5. /\ job' \in [Slots -> Jobs \cup {Nothing}]
        /\ \A w \in Views : w \in BeingDone => w \in BeingDone' \/ Upgrades(job[s], w)
        /\ \A w \in Views : w \in BeingDone' => w \in BeingDone \/ Upgrades(j, w)
        /\ \A w \in Views : Upgrades(j, w) => w \in BeingDone'
    <3> HIDE DEF j
    <3> QED
      BY <2>1, <2>2, OneJobMoves DEF TypeOK, j
  <2>6. BeingDone \subseteq Views /\ BeingDone' \subseteq Views
    BY DEF BeingDone
  <2>7. BeingDone' = BeingDone \cup {v}
    BY <2>2, <2>3, <2>4, <2>5, <2>6
  <2>8. Queued \subseteq Queued' \cup {v} /\ v \in Queued
    BY <1>1, <1>3
  <2> QED
    BY <1>1, <2>5, <2>7, <2>8 DEF InFlight
<1> QED
  BY <1>2, <1>3 DEF Receive

(* A notification that becomes a goroutine, or is malformed, is not lost.  *)
LEMMA ReceiveKeepsInv ==
    ASSUME ListenerInv, Receive
    PROVE  ListenerInv'
<1>1. /\ queue' \in Seq(Payloads) /\ job' \in [Slots -> Jobs \cup {Nothing}]
      /\ InFlight' = InFlight
  BY ReceiveKeepsFlight DEF ListenerInv
<1>2. UNCHANGED <<branch, created, overlay, dirty, written, link, faults, missed>>
  BY DEF Receive, branchVars
<1>3. TypeOK'
  BY <1>1, <1>2 DEF ListenerInv, TypeOK
<1>4. SchemasHaveBranch' /\ NothingForgotten'
  BY <1>1, <1>2 DEF ListenerInv, SchemasHaveBranch, NothingForgotten, Existing
<1> QED
  BY <1>3, <1>4 DEF ListenerInv

(* A goroutine keeps its view in flight, or lets go of it.                 *)
LEMMA GoroutineFlight ==
    ASSUME TypeOK, NEW s \in Slots, job[s] # Nothing, UNCHANGED queue,
           Exit(s) \/ \E step \in Steps : Goto(s, step)
    PROVE  /\ job[s] \in Jobs
           /\ job' \in [Slots -> Jobs \cup {Nothing}]
           /\ InFlight' \subseteq InFlight \cup {job[s].view}
           /\ InFlight \subseteq InFlight' \cup {job[s].view}
           /\ job[s].step # "mark" => InFlight' \subseteq InFlight
           /\ Exit(s) => InFlight' \subseteq InFlight
           /\ Exit(s) /\ job[s].step = "mark" => InFlight' = InFlight
           /\ Goto(s, "upgrade") => job[s].view \in InFlight'
           /\ job[s].step # "mark" => job[s].view \in InFlight
<1>1. job \in [Slots -> Jobs \cup {Nothing}] /\ job[s] \in Jobs
  BY DEF TypeOK
<1>2. Queued' = Queued
  BY DEF Queued
<1> DEFINE v == job[s].view
<1>3. /\ v \in Views /\ job[s].step \in Steps
      /\ \A w : Upgrades(job[s], w) <=> w = v /\ job[s].step # "mark"
  BY <1>1, JobShape DEF Upgrades
<1>4. CASE Exit(s)
  <2>1. job' = [job EXCEPT ![s] = Nothing] /\ Nothing \in Jobs \cup {Nothing}
    BY <1>4 DEF Exit
  <2>2. \A w : ~Upgrades(Nothing, w)
    BY DEF Upgrades
  <2>3. /\ job' \in [Slots -> Jobs \cup {Nothing}]
        /\ \A w \in Views : w \in BeingDone => w \in BeingDone' \/ Upgrades(job[s], w)
        /\ \A w \in Views : w \in BeingDone' => w \in BeingDone \/ Upgrades(Nothing, w)
        /\ \A w \in Views : Upgrades(job[s], w) => w \in BeingDone
    BY <1>1, <2>1, OneJobMoves
  <2>4. BeingDone \subseteq Views /\ BeingDone' \subseteq Views
    BY DEF BeingDone
  <2>5. /\ BeingDone' \subseteq BeingDone
        /\ BeingDone \subseteq BeingDone' \cup {v}
        /\ job[s].step = "mark" => BeingDone' = BeingDone
        /\ job[s].step # "mark" => v \in BeingDone
    BY <1>3, <2>2, <2>3, <2>4
  <2>6. Goto(s, "upgrade") => FALSE
    <3>1. job'[s] = Nothing
      BY <1>1, <2>1
    <3>2. Goto(s, "upgrade") => job'[s] = [job[s] EXCEPT !.step = "upgrade"]
      BY <1>1 DEF Goto
    <3>3. [job[s] EXCEPT !.step = "upgrade"] \in Jobs
      BY <1>1 DEF Jobs, Steps
    <3> QED
      BY <3>1, <3>2, <3>3, ListenerAssumption
  <2> QED
    BY <1>1, <1>2, <2>3, <2>5, <2>6 DEF InFlight
<1>5. CASE \E step \in Steps : Goto(s, step)
  <2>1. PICK step \in Steps : Goto(s, step)
    BY <1>5
  <2> DEFINE j == [job[s] EXCEPT !.step = step]
  <2>2. j \in Jobs /\ j.view = v /\ j.step = step
    BY <1>1 DEF Jobs
  <2>3. job' = [job EXCEPT ![s] = j]
    BY <1>1, <2>1 DEF Goto
  <2>4. \A w : Upgrades(j, w) <=> w = v /\ step # "mark"
    BY <2>2, JobShape DEF Upgrades
  <2>5. /\ job' \in [Slots -> Jobs \cup {Nothing}] /\ job'[s] = j
        /\ \A w \in Views : w \in BeingDone => w \in BeingDone' \/ Upgrades(job[s], w)
        /\ \A w \in Views : w \in BeingDone' => w \in BeingDone \/ Upgrades(j, w)
        /\ \A w \in Views : Upgrades(j, w) => w \in BeingDone'
        /\ \A w \in Views : Upgrades(job[s], w) => w \in BeingDone
    <3> HIDE DEF j
    <3> QED
      BY <1>1, <2>2, <2>3, OneJobMoves
  <2>6. BeingDone \subseteq Views /\ BeingDone' \subseteq Views
    BY DEF BeingDone
  <2>7. /\ BeingDone' \subseteq BeingDone \cup {v}
        /\ BeingDone \subseteq BeingDone' \cup {v}
        /\ job[s].step # "mark" => v \in BeingDone
        /\ step # "mark" => v \in BeingDone'
    BY <1>3, <2>4, <2>5, <2>6
  <2>8. ~Exit(s)
    BY <1>1, <2>2, <2>5, ListenerAssumption DEF Exit
  <2>9. Goto(s, "upgrade") => step = "upgrade"
    <3>1. Goto(s, "upgrade") => job'[s] = [job[s] EXCEPT !.step = "upgrade"]
      BY <1>1 DEF Goto
    <3>2. [job[s] EXCEPT !.step = "upgrade"].step = "upgrade"
      BY <1>1 DEF Jobs
    <3> QED
      BY <2>2, <2>5, <3>1, <3>2
  <2> QED
    BY <1>1, <1>2, <2>5, <2>7, <2>8, <2>9 DEF InFlight
<1> QED
  BY <1>4, <1>5

(* A goroutine that leaves a view to itself leaves one without a branch,   *)
(* an overlay, or one that is known to be missed.                          *)
LEMMA GoroutineKeepsInv ==
    ASSUME ListenerInv, NEW s \in Slots, GoroutineStep(s) \/ GiveUp(s)
    PROVE  ListenerInv'
<1> DEFINE v == job[s].view
<1>1. /\ job[s] # Nothing
      /\ UNCHANGED <<branch, created, written, link, queue>>
      /\ Exit(s) \/ \E step \in Steps : Goto(s, step)
  BY DEF GoroutineStep, Inspect, UpgradeView, Mark, GiveUp, At, Steps, branchVars
<1>2. /\ job[s] \in Jobs
      /\ job' \in [Slots -> Jobs \cup {Nothing}]
      /\ InFlight \subseteq InFlight' \cup {v}
      /\ Exit(s) /\ job[s].step = "mark" => InFlight' = InFlight
      /\ Goto(s, "upgrade") => v \in InFlight'
  BY <1>1, GoroutineFlight DEF ListenerInv
<1>3. v \in Views /\ v[1] \in Names
  BY <1>2, JobShape
<1>4. Existing' = Existing /\ queue' \in Seq(Payloads)
  BY <1>1 DEF Existing, ListenerInv, TypeOK
<1>5. v \in Existing <=> branch[v[1]] = "active"
  BY <1>3 DEF Existing
<1>6. CASE Inspect(s)
  <2>1. UNCHANGED <<overlay, dirty, faults, missed>>
    BY <1>6 DEF Inspect, branchVars
  <2>2. Goto(s, "upgrade") \/ branch[v[1]] = "none"
    BY <1>6 DEF Inspect
  <2>3. TypeOK'
    BY <1>1, <1>2, <2>1 DEF ListenerInv, TypeOK
  <2>4. SchemasHaveBranch' /\ NothingForgotten'
    BY <1>1, <1>2, <1>4, <1>5, <2>1, <2>2
       DEF ListenerInv, SchemasHaveBranch, NothingForgotten
  <2> QED
    BY <2>3, <2>4 DEF ListenerInv
<1>7. CASE UpgradeView(s)
  <2>1. UNCHANGED <<dirty, faults, missed>>
    BY <1>7 DEF UpgradeView
  <2>2. \/ branch[v[1]] = "active" /\ overlay' = overlay \cup {v}
        \/ branch[v[1]] # "active" /\ overlay' = overlay
    BY <1>7 DEF UpgradeView
  <2>3. TypeOK'
    BY <1>1, <1>2, <1>3, <2>1, <2>2 DEF ListenerInv, TypeOK
  <2>4. SchemasHaveBranch'
    BY <1>1, <1>4, <1>5, <2>2 DEF ListenerInv, SchemasHaveBranch
  <2>5. NothingForgotten'
    BY <1>1, <1>2, <1>5, <2>1, <2>2 DEF ListenerInv, SchemasHaveBranch, NothingForgotten
  <2> QED
    BY <2>3, <2>4, <2>5 DEF ListenerInv
<1>8. CASE Mark(s)
  <2>1. UNCHANGED <<overlay, faults, missed>> /\ Exit(s) /\ job[s].step = "mark"
    BY <1>8 DEF Mark, At
  <2>2. dirty' \subseteq Views
    BY <1>3, <1>8 DEF Mark, ListenerInv, TypeOK
  <2>3. TypeOK'
    BY <1>1, <1>2, <2>1, <2>2 DEF ListenerInv, TypeOK
  <2>4. SchemasHaveBranch' /\ NothingForgotten'
    BY <1>1, <1>2, <1>4, <2>1 DEF ListenerInv, SchemasHaveBranch, NothingForgotten
  <2> QED
    BY <2>3, <2>4 DEF ListenerInv
<1>9. CASE GiveUp(s)
  <2>1. UNCHANGED <<overlay, dirty>> /\ Exit(s) /\ faults > 0 /\ faults' = faults - 1
    BY <1>9 DEF GiveUp, Fault, branchVars
  <2>2. \/ job[s].step = "mark" /\ missed' = missed
        \/ missed' = missed \cup {v}
    BY <1>9 DEF GiveUp, At
  <2>3. TypeOK'
    BY <1>1, <1>2, <1>3, <2>1, <2>2, ListenerAssumption DEF ListenerInv, TypeOK
  <2>4. SchemasHaveBranch' /\ NothingForgotten'
    BY <1>1, <1>2, <1>4, <2>1, <2>2 DEF ListenerInv, SchemasHaveBranch, NothingForgotten
  <2> QED
    BY <2>3, <2>4 DEF ListenerInv
<1> QED
  BY <1>6, <1>7, <1>8, <1>9 DEF GoroutineStep

-----------------------------------------------------------------------------
(* The invariant holds in every state.                                     *)

(* At the start nothing is written.                                        *)
LEMMA InitHasInv ==
    ASSUME Init
    PROVE  ListenerInv
<1>1. TypeOK
  BY ListenerAssumption DEF Init, TypeOK, Links
<1>2. SchemasHaveBranch /\ NothingForgotten
  BY DEF Init, SchemasHaveBranch, NothingForgotten
<1> QED
  BY <1>1, <1>2 DEF ListenerInv

(* Every step keeps the invariant.                                         *)
LEMMA NextKeepsInv ==
    ASSUME ListenerInv, [Next]_listenerVars
    PROVE  ListenerInv'
<1>1. CASE UNCHANGED listenerVars
  <2>1. UNCHANGED <<branch, created, overlay, dirty, written, link, queue, job, faults, missed>>
    BY <1>1 DEF listenerVars, branchVars
  <2>2. InFlight' = InFlight
    BY <2>1, SameFlight
  <2> QED
    BY <2>1, <2>2
       DEF ListenerInv, TypeOK, SchemasHaveBranch, NothingForgotten, Existing
<1>2. CASE BranchStep
  BY <1>2, CreateKeepsInv, GoneKeepsInv, WriteKeepsInv, NoiseKeepsInv DEF BranchStep
<1>3. CASE Boot \/ Die \/ Connect \/ Listen \/ LinkLost
  BY <1>3, ConnectionKeepsInv
<1>4. CASE Receive
  BY <1>4, ReceiveKeepsInv
<1>5. CASE \E s \in Slots : GoroutineStep(s) \/ GiveUp(s)
  BY <1>5, GoroutineKeepsInv
<1> QED
  BY <1>1, <1>2, <1>3, <1>4, <1>5 DEF Next, ListenerNext

(* The invariant of the listener.                                          *)
LEMMA InvAlways == Spec => []ListenerInv
<1>1. Init => ListenerInv
  BY InitHasInv
<1>2. ListenerInv /\ [Next]_listenerVars => ListenerInv'
  BY NextKeepsInv
<1> QED
  BY <1>1, <1>2, PTL DEF Spec

(* The listener is well typed.                                             *)
THEOREM ListenerTypeCorrect == Spec => []TypeOK
<1>1. ListenerInv => TypeOK
  BY DEF ListenerInv
<1> QED
  BY <1>1, InvAlways, PTL

(* Whatever is lost, fails or comes too late, a written view is an overlay,*)
(* has a request under way, or has lost one to a failure or to the absence *)
(* of a listener: goroutines do not get in each other's way, nor in that   *)
(* of a branch created again (proxy.go, listenForUpgrades).                *)
THEOREM NoWriteForgotten == Spec => []NothingForgotten
<1>1. ListenerInv => NothingForgotten
  BY DEF ListenerInv
<1> QED
  BY <1>1, InvAlways, PTL

-----------------------------------------------------------------------------
(* The listener implements ViewUpgrade.                                    *)

\* What the refinement mapping takes for the requests under way.
Asked == (InFlight \cap Existing) \ overlay

(* New requests, of whatever origin, are an Ask.                           *)
LEMMA MoreIsAsked ==
    ASSUME overlay' = overlay, Asked \subseteq Asked'
    PROVE  Service!Next
<1>1. Asked' \subseteq Views /\ Asked' \cap overlay = {}
  BY DEF Asked, Existing
<1>2. Service!Ask(Asked')
  BY <1>1 DEF Service!Ask, Asked
<1> QED
  BY <1>1, <1>2 DEF Service!Next

(* Fewer requests are a Forget.                                            *)
LEMMA LessIsForgotten ==
    ASSUME overlay' = overlay, Asked' \subseteq Asked
    PROVE  Service!Next
<1> DEFINE vs == Asked \ Asked'
<1>1. vs \in SUBSET Views
  BY DEF Asked, Existing
<1>2. Service!Forget(vs)
  BY DEF Service!Forget, Asked
<1> QED
  BY <1>1, <1>2 DEF Service!Next

(* The schema of a branch takes overlays and requests with it.             *)
LEMMA GoneIsRemoved ==
    ASSUME ListenerInv, NEW n \in Names, MergeBranch(n) \/ DropBranch(n)
    PROVE  Service!Next
<1>1. /\ overlay' = overlay \ ViewsOf(n)
      /\ UNCHANGED <<queue, job>>
  BY DEF MergeBranch, DropBranch, RemoveSchema
<1>2. InFlight' = InFlight
  BY <1>1, SameFlight
<1>3. \E b \in {"none", "merged"} : branch' = [branch EXCEPT ![n] = b]
  BY DEF MergeBranch, DropBranch
<1>4. Existing' = Existing \ ViewsOf(n)
  BY <1>3, ViewsOfName DEF ListenerInv, TypeOK, Existing
<1>5. Asked' = Asked \ ViewsOf(n)
  BY <1>1, <1>2, <1>4 DEF Asked
<1>6. Service!Remove(ViewsOf(n))
  BY <1>1, <1>5 DEF Service!Remove, Asked
<1> QED
  BY <1>6, ViewsOfName DEF Service!Next

(* A goroutine upgrades a view that is asked for, or only lets go of it.   *)
LEMMA GoroutineImplements ==
    ASSUME ListenerInv, NEW s \in Slots, GoroutineStep(s) \/ GiveUp(s)
    PROVE  Service!Next
<1> DEFINE v == job[s].view
<1>1. /\ job[s] # Nothing
      /\ UNCHANGED <<branch, queue>>
      /\ Exit(s) \/ \E step \in Steps : Goto(s, step)
  BY DEF GoroutineStep, Inspect, UpgradeView, Mark, GiveUp, At, Steps, branchVars
<1>2. /\ job[s] \in Jobs
      /\ InFlight \subseteq InFlight' \cup {v}
      /\ job[s].step # "mark" => InFlight' \subseteq InFlight
      /\ Exit(s) => InFlight' \subseteq InFlight
      /\ job[s].step # "mark" => v \in InFlight
  BY <1>1, GoroutineFlight DEF ListenerInv
<1>3. v \in Views /\ Existing' = Existing /\ (v \in Existing <=> branch[v[1]] = "active")
  BY <1>1, <1>2, JobShape DEF Existing
<1>4. CASE Inspect(s) \/ Mark(s) \/ GiveUp(s)
  <2>1. overlay' = overlay
    BY <1>4 DEF Inspect, Mark, GiveUp, branchVars
  <2>2. job[s].step # "mark" \/ Exit(s)
    BY <1>4 DEF Inspect, Mark, GiveUp, At
  <2>3. Asked' \subseteq Asked
    BY <1>2, <1>3, <2>1, <2>2 DEF Asked
  <2> QED
    BY <2>1, <2>3, LessIsForgotten
<1>5. CASE UpgradeView(s)
  <2>1. job[s].step # "mark"
    BY <1>5 DEF UpgradeView, At
  <2>2. \/ branch[v[1]] = "active" /\ overlay' = overlay \cup {v}
        \/ overlay' = overlay
    BY <1>5 DEF UpgradeView
  <2>3. CASE overlay' = overlay
    <3>1. Asked' \subseteq Asked
      BY <1>2, <1>3, <2>1, <2>3 DEF Asked
    <3> QED
      BY <2>3, <3>1, LessIsForgotten
  <2>4. CASE overlay' # overlay
    <3>1. overlay' = overlay \cup {v} /\ v \in Asked
      BY <1>2, <1>3, <2>1, <2>2, <2>4 DEF Asked
    <3>2. Asked' = Asked \ {v}
      BY <1>2, <1>3, <2>1, <3>1 DEF Asked
    <3>3. Service!Upgrade(v)
      BY <3>1, <3>2 DEF Service!Upgrade, Asked
    <3> QED
      BY <1>3, <3>3 DEF Service!Next
  <2> QED
    BY <2>3, <2>4
<1> QED
  BY <1>4, <1>5 DEF GoroutineStep

(* Every step is a step of ViewUpgrade, or leaves its variables alone.     *)
LEMMA StepImplements ==
    ASSUME ListenerInv, [Next]_listenerVars
    PROVE  [Service!Next]_(Service!upgradeVars)
<1>1. CASE UNCHANGED listenerVars
  <2>1. UNCHANGED <<branch, overlay, queue, job>>
    BY <1>1 DEF listenerVars, branchVars
  <2>2. Asked' \subseteq Asked
    BY <2>1, SameFlight DEF Asked, Existing
  <2> QED
    BY <2>1, <2>2, LessIsForgotten
<1>2. ASSUME NEW n \in Names, CreateBranch(n) PROVE Service!Next
  <2>1. /\ branch' = [branch EXCEPT ![n] = "active"]
        /\ UNCHANGED <<overlay, queue, job>>
    BY <1>2 DEF CreateBranch
  <2>2. Existing \subseteq Existing'
    BY <2>1, ViewsOfName DEF ListenerInv, TypeOK, Existing
  <2>3. Asked \subseteq Asked'
    BY <2>1, <2>2, SameFlight DEF Asked
  <2> QED
    BY <2>1, <2>3, MoreIsAsked
<1>3. ASSUME NEW v \in Views, Write(v) PROVE Service!Next
  <2>1. UNCHANGED <<branch, overlay, job>>
    BY <1>3 DEF Write
  <2>2. Queued \subseteq Queued'
    <3>1. CASE UNCHANGED queue
      BY <3>1 DEF Queued
    <3>2. CASE queue' = Append(queue, v)
      BY <3>2, SentIsQueued DEF ListenerInv, TypeOK, Payloads
    <3> QED
      BY <1>3, <3>1, <3>2 DEF Write
  <2>3. Asked \subseteq Asked'
    BY <2>1, <2>2 DEF Asked, InFlight, BeingDone, Existing
  <2> QED
    BY <2>1, <2>3, MoreIsAsked
<1>4. CASE Noise
  <2>1. UNCHANGED <<branch, overlay, job>> /\ queue' = Append(queue, Malformed)
    BY <1>4 DEF Noise, branchVars
  <2>2. Queued' = Queued
    BY <2>1, SentIsQueued DEF ListenerInv, TypeOK, Payloads
  <2>3. Asked' \subseteq Asked
    BY <2>1, <2>2 DEF Asked, InFlight, BeingDone, Existing
  <2> QED
    BY <2>1, <2>3, LessIsForgotten
<1>5. CASE Boot \/ Die \/ Connect \/ Listen \/ LinkLost
  <2>1. UNCHANGED <<branch, overlay>>
    BY <1>5 DEF Boot, Die, Connect, Listen, LinkLost, branchVars
  <2>2. \/ UNCHANGED <<queue, job>>
        \/ queue' = <<>> /\ (UNCHANGED job \/ job' = [s \in Slots |-> Nothing])
    BY <1>5 DEF Boot, Die, Connect, Listen, LinkLost
  <2>3. Queued' \subseteq Queued /\ BeingDone' \subseteq BeingDone
    BY <2>2 DEF Queued, BeingDone
  <2>4. Asked' \subseteq Asked
    BY <2>1, <2>3 DEF Asked, InFlight, Existing
  <2> QED
    BY <2>1, <2>4, LessIsForgotten
<1>6. CASE Receive
  <2>1. UNCHANGED <<branch, overlay>>
    BY <1>6 DEF Receive, branchVars
  <2>2. Asked' \subseteq Asked
    BY <1>6, <2>1, ReceiveKeepsFlight DEF ListenerInv, Asked, Existing
  <2> QED
    BY <2>1, <2>2, LessIsForgotten
<1> QED
  BY <1>1, <1>2, <1>3, <1>4, <1>5, <1>6, GoneIsRemoved, GoroutineImplements
     DEF Next, ListenerNext, BranchStep

(* The process with its connections, goroutines and failures does to the   *)
(* views what ViewUpgrade says, and nothing else: no view is upgraded      *)
(* without a request since its branch exists, none goes back.              *)
THEOREM ListenerImplementsViewUpgrade == Spec => ImplementsViewUpgrade
<1>1. Init => Service!Init
  <2> SUFFICES ASSUME Init PROVE Service!Init
    OBVIOUS
  <2>1. Existing = {}
    BY ViewsOfName DEF Init, Existing
  <2> QED
    BY <2>1 DEF Init, Service!Init
<1>2. ListenerInv /\ [Next]_listenerVars => [Service!Next]_(Service!upgradeVars)
  BY StepImplements
<1> QED
  BY <1>1, <1>2, InvAlways, PTL DEF Spec, ImplementsViewUpgrade, Service!Spec
=============================================================================
