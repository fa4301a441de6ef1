--------------------------- MODULE AgentTurnProofs ---------------------------
(***************************************************************************)
(* Proofs about AgentTurn for any set of workers.  Coherent relates the    *)
(* scheduling record to the places of the threads and is preserved by      *)
(* every C helper that moves the turn; Waits says that a free turn has     *)
(* something to wait for.  Together they are inductive.                    *)
(***************************************************************************)
EXTENDS AgentTurn, TLAPS

\* The state of an agent, its place in the queue and its thread agree.
Placed(c, t, a) ==
    /\ Queued(c.ready, a) <=> c.state[a] = "ready"
    /\ c.running = a <=> c.state[a] = "running"
    /\ t[a] \in Holding => c.running = a
    /\ c.running = a => t[a] \in Holding \/ c.wake[a]
    /\ c.state[a] = "none" <=> t[a] = "none"
    /\ c.state[a] = "starting" <=> t[a] = "boot"
    /\ c.state[a] = "finished" <=> t[a] = "gone"

Coherent(c, t) ==
    /\ c \in ClusterType
    /\ t \in [Agents -> Places]
    /\ Distinct(c.ready)
    /\ \A a \in Agents : Placed(c, t, a)
    /\ c.state[Main] \notin {"none", "starting", "finished"}

Waits(c) ==
    (c.process = "live" /\ c.running = NoAgent) =>
        /\ c.ready = <<>>
        /\ \E a \in Agents : \/ c.state[a] = "starting"
                             \/ c.state[a] = "blocked" /\ c.hasDeadline[a]

TurnInv == Coherent(cl, at) /\ Waits(cl)

-----------------------------------------------------------------------------

\* Taking the head of a queue without duplicates (cluster_dispatch) removes
\* exactly that agent.
LEMMA QueueHead ==
    ASSUME NEW S, NEW q \in Seq(S), q # <<>>, Distinct(q)
    PROVE  /\ Head(q) \in S
           /\ Tail(q) \in Seq(S)
           /\ Queued(q, Head(q))
           /\ Distinct(Tail(q))
           /\ \A x : Queued(Tail(q), x) <=> (x # Head(q) /\ Queued(q, x))
<1>1. Len(q) \in Nat /\ Len(q) > 0 /\ DOMAIN q = 1..Len(q)
  OBVIOUS
<1>2. Head(q) = q[1] /\ Head(q) \in S /\ Queued(q, Head(q))
  BY <1>1 DEF Queued
<1>3. /\ Tail(q) \in Seq(S)
      /\ DOMAIN Tail(q) = 1..(Len(q) - 1)
      /\ \A i \in 1..(Len(q) - 1) : Tail(q)[i] = q[i + 1]
  BY <1>1
<1>4. Distinct(Tail(q))
  BY <1>1, <1>3 DEF Distinct
<1>5. ASSUME NEW x
      PROVE  Queued(Tail(q), x) <=> (x # Head(q) /\ Queued(q, x))
  <2>1. ASSUME NEW i \in DOMAIN Tail(q), Tail(q)[i] = x
        PROVE  x # Head(q) /\ \E k \in DOMAIN q : q[k] = x
    BY <1>1, <1>2, <1>3, <2>1 DEF Distinct
  <2>2. ASSUME x # Head(q), NEW i \in DOMAIN q, q[i] = x
        PROVE  \E k \in DOMAIN Tail(q) : Tail(q)[k] = x
    <3>1. i - 1 \in 1..(Len(q) - 1) /\ Tail(q)[i - 1] = q[i]
      BY <1>1, <1>2, <1>3, <2>2
    <3> QED BY <3>1, <2>2, <1>3
  <2> QED BY <2>1, <2>2 DEF Queued
<1> QED BY <1>1, <1>2, <1>3, <1>4, <1>5

\* ready_push on an agent that is not queued adds exactly that agent.
LEMMA QueuePush ==
    ASSUME NEW S, NEW q \in Seq(S), NEW a \in S, Distinct(q), ~Queued(q, a)
    PROVE  /\ Append(q, a) \in Seq(S)
           /\ Append(q, a) # <<>>
           /\ Distinct(Append(q, a))
           /\ \A x : Queued(Append(q, a), x) <=> (x = a \/ Queued(q, x))
<1>1. Len(q) \in Nat /\ DOMAIN q = 1..Len(q)
  OBVIOUS
<1>2. /\ Append(q, a) \in Seq(S)
      /\ DOMAIN Append(q, a) = 1..(Len(q) + 1)
      /\ Append(q, a)[Len(q) + 1] = a
      /\ \A i \in 1..Len(q) : Append(q, a)[i] = q[i]
  BY <1>1
<1>3. Append(q, a) # <<>>
  BY <1>1, <1>2
<1>4. Distinct(Append(q, a))
  BY <1>1, <1>2 DEF Distinct, Queued
<1>5. \A x : Queued(Append(q, a), x) <=> (x = a \/ Queued(q, x))
  BY <1>1, <1>2 DEF Queued
<1> QED BY <1>2, <1>3, <1>4, <1>5

\* Several agents pushed one after another are added in their order.
LEMMA QueueJoin ==
    ASSUME NEW S, NEW p \in Seq(S), NEW q \in Seq(S), Distinct(p), Distinct(q),
           \A x \in S : ~(Queued(p, x) /\ Queued(q, x))
    PROVE  /\ p \o q \in Seq(S)
           /\ Distinct(p \o q)
           /\ \A x : Queued(p \o q, x) <=> (Queued(p, x) \/ Queued(q, x))
<1>1. /\ Len(p) \in Nat /\ DOMAIN p = 1..Len(p)
      /\ Len(q) \in Nat /\ DOMAIN q = 1..Len(q)
  OBVIOUS
<1>2. /\ p \o q \in Seq(S)
      /\ DOMAIN (p \o q) = 1..(Len(p) + Len(q))
      /\ \A i \in 1..Len(p) : (p \o q)[i] = p[i]
      /\ \A i \in (Len(p) + 1)..(Len(p) + Len(q)) : (p \o q)[i] = q[i - Len(p)]
  BY <1>1
<1>3. \A i \in 1..Len(p), j \in 1..Len(q) : p[i] # q[j]
  BY <1>1 DEF Queued
<1>4. ASSUME NEW i \in DOMAIN (p \o q), NEW j \in DOMAIN (p \o q),
             (p \o q)[i] = (p \o q)[j]
      PROVE  i = j
  <2>1. CASE i <= Len(p) /\ j <= Len(p)
    BY <2>1, <1>1, <1>2, <1>4 DEF Distinct
  <2>2. CASE i > Len(p) /\ j > Len(p)
    <3>1. i - Len(p) \in 1..Len(q) /\ j - Len(p) \in 1..Len(q)
      BY <2>2, <1>1, <1>2
    <3>2. q[i - Len(p)] = q[j - Len(p)]
      BY <2>2, <1>1, <1>2, <1>4
    <3> QED BY <3>1, <3>2, <1>1, <1>2 DEF Distinct
  <2>3. CASE i <= Len(p) /\ j > Len(p)
    <3>1. i \in 1..Len(p) /\ j - Len(p) \in 1..Len(q)
      BY <2>3, <1>1, <1>2
    <3> QED BY <3>1, <2>3, <1>1, <1>2, <1>3, <1>4
  <2>4. CASE i > Len(p) /\ j <= Len(p)
    <3>1. j \in 1..Len(p) /\ i - Len(p) \in 1..Len(q)
      BY <2>4, <1>1, <1>2
    <3> QED BY <3>1, <2>4, <1>1, <1>2, <1>3, <1>4
  <2> QED BY <2>1, <2>2, <2>3, <2>4, <1>1, <1>2
<1>5. ASSUME NEW x
      PROVE  Queued(p \o q, x) <=> (Queued(p, x) \/ Queued(q, x))
  <2>1. ASSUME NEW i \in DOMAIN (p \o q), (p \o q)[i] = x
        PROVE  Queued(p, x) \/ Queued(q, x)
    <3>1. CASE i <= Len(p)
      BY <3>1, <2>1, <1>1, <1>2 DEF Queued
    <3>2. CASE i > Len(p)
      <4>1. i - Len(p) \in 1..Len(q) /\ q[i - Len(p)] = x
        BY <3>2, <2>1, <1>1, <1>2
      <4> QED BY <4>1, <1>1 DEF Queued
    <3> QED BY <3>1, <3>2, <1>1, <1>2
  <2>2. ASSUME NEW i \in DOMAIN p, p[i] = x
        PROVE  Queued(p \o q, x)
    <3>1. i \in DOMAIN (p \o q) /\ (p \o q)[i] = x
      BY <2>2, <1>1, <1>2
    <3> QED BY <3>1 DEF Queued
  <2>3. ASSUME NEW i \in DOMAIN q, q[i] = x
        PROVE  Queued(p \o q, x)
    <3>1. i + Len(p) \in DOMAIN (p \o q) /\ (p \o q)[i + Len(p)] = x
      BY <2>3, <1>1, <1>2
    <3> QED BY <3>1 DEF Queued
  <2> QED BY <2>1, <2>2, <2>3 DEF Queued
<1> QED BY <1>2, <1>4, <1>5 DEF Distinct

-----------------------------------------------------------------------------
(* What the helpers do, field by field.                                     *)

\* cluster_dispatch with the turn free and an agent ready.
LEMMA DispatchFields ==
    ASSUME NEW c \in ClusterType, c.running = NoAgent, c.ready # <<>>,
           Head(c.ready) \in Agents, Tail(c.ready) \in Seq(Agents)
    PROVE  /\ cluster_dispatch(c) \in ClusterType
           /\ cluster_dispatch(c).state = [c.state EXCEPT ![Head(c.ready)] = "running"]
           /\ cluster_dispatch(c).running = Head(c.ready)
           /\ cluster_dispatch(c).ready = Tail(c.ready)
           /\ cluster_dispatch(c).hasDeadline = c.hasDeadline
           /\ cluster_dispatch(c).wakesOnWork = c.wakesOnWork
           /\ cluster_dispatch(c).wake = [c.wake EXCEPT ![Head(c.ready)] = TRUE]
           /\ cluster_dispatch(c).process = c.process
BY DEF cluster_dispatch, agent_signal, ClusterType, AgentStates

\* Handing a free turn to the head of the queue keeps the record and the
\* threads coherent, and afterwards a free turn means an empty queue.
LEMMA DispatchCoherent ==
    ASSUME NEW c, NEW t, Coherent(c, t)
    PROVE  /\ Coherent(cluster_dispatch(c), t)
           /\ cluster_dispatch(c).process = c.process
           /\ cluster_dispatch(c).running = NoAgent =>
                    cluster_dispatch(c) = c /\ c.ready = <<>>
           /\ c.running = NoAgent /\ c.ready # <<>> =>
                    cluster_dispatch(c).running # NoAgent
<1>1. CASE c.running # NoAgent \/ c.ready = <<>>
  BY <1>1 DEF cluster_dispatch
<1>2. CASE c.running = NoAgent /\ c.ready # <<>>
  <2> DEFINE h == Head(c.ready)
             d == cluster_dispatch(c)
  <2>1. c \in ClusterType /\ t \in [Agents -> Places] /\ c.ready \in Seq(Agents)
        /\ c.state \in [Agents -> AgentStates] /\ c.wake \in [Agents -> BOOLEAN]
    BY DEF Coherent, ClusterType
  <2>2. /\ h \in Agents /\ Tail(c.ready) \in Seq(Agents)
        /\ Queued(c.ready, h)
        /\ Distinct(Tail(c.ready))
        /\ \A x : Queued(Tail(c.ready), x) <=> (x # h /\ Queued(c.ready, x))
    <3>1. Distinct(c.ready)
      BY DEF Coherent
    <3> QED BY <1>2, <2>1, <3>1, QueueHead
  <2>3. /\ d \in ClusterType
        /\ d.state = [c.state EXCEPT ![h] = "running"]
        /\ d.running = h
        /\ d.ready = Tail(c.ready)
        /\ d.wake = [c.wake EXCEPT ![h] = TRUE]
        /\ d.process = c.process
    BY <1>2, <2>1, <2>2, DispatchFields
  <2>4. c.state[h] = "ready"
    BY <2>2 DEF Coherent, Placed
  <2> HIDE DEF h, d
  <2>5. h # NoAgent /\ \A a \in Agents : a # NoAgent
    BY <2>2, TurnAssumption DEF Agents
  <2>6. ASSUME NEW a \in Agents
        PROVE  Placed(d, t, a)
    <3>1. CASE a = h
      BY <3>1, <1>2, <2>1, <2>2, <2>3, <2>4, <2>5 DEF Coherent, Placed
    <3>2. CASE a # h
      BY <3>2, <1>2, <2>1, <2>2, <2>3, <2>4, <2>5 DEF Coherent, Placed
    <3> QED BY <3>1, <3>2
  <2>7. d.state[Main] \notin {"none", "starting", "finished"}
    BY <2>1, <2>2, <2>3 DEF Coherent, Agents
  <2>8. Distinct(d.ready)
    BY <2>2, <2>3
  <2>9. Coherent(d, t)
    BY <2>1, <2>3, <2>6, <2>7, <2>8 DEF Coherent
  <2> QED BY <2>9, <2>3, <2>5 DEF d
<1> QED BY <1>1, <1>2

\* A coherent record is typed, field by field, and agents are not NULL.
LEMMA CoherentTypes ==
    ASSUME NEW c, NEW t, Coherent(c, t)
    PROVE  /\ c \in ClusterType
           /\ t \in [Agents -> Places]
           /\ c.state \in [Agents -> AgentStates]
           /\ c.ready \in Seq(Agents)
           /\ c.hasDeadline \in [Agents -> BOOLEAN]
           /\ c.wakesOnWork \in [Agents -> BOOLEAN]
           /\ c.wake \in [Agents -> BOOLEAN]
           /\ Distinct(c.ready)
           /\ Main \in Agents
           /\ \A a \in Agents : a # NoAgent /\ Placed(c, t, a)
BY TurnAssumption DEF Coherent, ClusterType, Agents

\* A blocked agent becomes ready, and somebody holds the turn afterwards.
LEMMA MakeReadyCoherent ==
    ASSUME NEW c, NEW t, Coherent(c, t), NEW a \in Agents
    PROVE  /\ Coherent(agent_make_ready(c, a), t)
           /\ agent_make_ready(c, a).process = c.process
           /\ c.state[a] # "blocked" => agent_make_ready(c, a) = c
           /\ c.state[a] = "blocked" => agent_make_ready(c, a).running # NoAgent
<1>1. CASE c.state[a] # "blocked"
  BY <1>1 DEF agent_make_ready
<1>2. CASE c.state[a] = "blocked"
  <2> DEFINE m == ready_push([c EXCEPT !.state[a] = "ready",
                                       !.hasDeadline[a] = FALSE,
                                       !.wakesOnWork[a] = FALSE], a)
  <2>1. /\ c \in ClusterType
        /\ t \in [Agents -> Places]
        /\ c.state \in [Agents -> AgentStates]
        /\ c.ready \in Seq(Agents)
        /\ Distinct(c.ready)
        /\ \A b \in Agents : b # NoAgent /\ Placed(c, t, b)
    BY CoherentTypes
  <2>2. ~Queued(c.ready, a)
    BY <1>2, <2>1 DEF Placed
  <2>3. /\ Append(c.ready, a) \in Seq(Agents)
        /\ Append(c.ready, a) # <<>>
        /\ Distinct(Append(c.ready, a))
        /\ \A x : Queued(Append(c.ready, a), x) <=> (x = a \/ Queued(c.ready, x))
    BY <2>1, <2>2, QueuePush
  <2>4. /\ m \in ClusterType
        /\ m.state = [c.state EXCEPT ![a] = "ready"]
        /\ m.ready = Append(c.ready, a)
        /\ m.running = c.running
        /\ m.wake = c.wake
        /\ m.process = c.process
    BY <2>1, <2>3 DEF ready_push, ClusterType, AgentStates
  <2> HIDE DEF m
  <2>5. \A b \in Agents : Placed(m, t, b)
    BY <1>2, <2>1, <2>3, <2>4 DEF Placed
  <2>6. m.state[Main] \notin {"none", "starting", "finished"}
    BY <2>1, <2>4 DEF Coherent, Agents
  <2>7. Coherent(m, t)
    BY <2>1, <2>3, <2>4, <2>5, <2>6 DEF Coherent
  <2>8. agent_make_ready(c, a) = cluster_dispatch(m)
    BY <1>2 DEF agent_make_ready, m
  <2> QED BY <1>2, <2>3, <2>4, <2>7, <2>8, DispatchCoherent
<1> QED BY <1>1, <1>2

\* The progress check leaves a free turn only if there is something to wait for.
LEMMA CheckProgressCoherent ==
    ASSUME NEW c, NEW t, Coherent(c, t), c.running = NoAgent => c.ready = <<>>
    PROVE  /\ Coherent(cluster_check_progress(c), t)
           /\ Waits(cluster_check_progress(c))
<1> DEFINE k == cluster_check_progress(c)
<1>1. /\ c \in ClusterType
      /\ t \in [Agents -> Places]
      /\ Main \in Agents
      /\ \A a \in Agents : a # NoAgent /\ Placed(c, t, a)
  BY CoherentTypes
<1>2. CASE c.running # NoAgent \/ c.ready # <<>>
  <2>1. k = c /\ c.running # NoAgent
    BY <1>2 DEF cluster_check_progress
  <2> QED BY <2>1 DEF Waits
<1>3. CASE c.running = NoAgent /\ cluster_other_progresses(c, NoAgent)
  <2>1. k = c /\ c.ready = <<>>
    BY <1>3 DEF cluster_check_progress
  <2>2. PICK a \in Agents : \/ c.state[a] \in {"starting", "ready", "running"}
                            \/ c.state[a] = "blocked" /\ c.hasDeadline[a]
    BY <1>3 DEF cluster_other_progresses
  <2>3. ~Queued(c.ready, a)
    BY <2>1 DEF Queued
  <2>4. c.state[a] # "ready" /\ c.state[a] # "running"
    BY <1>1, <1>3, <2>3 DEF Placed
  <2> QED BY <2>1, <2>2, <2>4 DEF Waits
<1>4. CASE c.running = NoAgent /\ ~cluster_other_progresses(c, NoAgent)
  <2>1. c.state[Main] # "finished" /\ c.ready = <<>>
    BY <1>4 DEF Coherent
  <2>2. CASE c.state[Main] = "blocked" /\ c.wakesOnWork[Main]
    <3>1. k = agent_make_ready(c, Main)
      BY <1>4, <2>1, <2>2 DEF cluster_check_progress
    <3> QED BY <1>1, <2>2, <3>1, MakeReadyCoherent DEF Waits
  <2>3. CASE ~(c.state[Main] = "blocked" /\ c.wakesOnWork[Main])
    <3>1. k = [c EXCEPT !.process = "stall"]
      BY <1>4, <2>1, <2>3 DEF cluster_check_progress
    <3>2. /\ k \in ClusterType /\ k.process = "stall"
          /\ k.state = c.state /\ k.ready = c.ready /\ k.running = c.running
          /\ k.wake = c.wake
      BY <1>1, <3>1 DEF ClusterType
    <3> HIDE DEF k
    <3>3. Waits(k)
      BY <3>2 DEF Waits
    <3>4. Coherent(k, t)
      BY <3>2 DEF Coherent, Placed
    <3> QED BY <3>3, <3>4 DEF k
  <2> QED BY <2>2, <2>3
<1> QED BY <1>2, <1>3, <1>4

\* A thread that has just gone to sleep may find that it holds the turn.
LEMMA ParkCoherent ==
    ASSUME NEW c, NEW t \in [Agents -> Places], NEW a \in Agents,
           Coherent(c, [t EXCEPT ![a] = "asleep"])
    PROVE  Coherent(c, [t EXCEPT ![a] = await(c, a)])
<1> DEFINE s == [t EXCEPT ![a] = "asleep"]
           u == [t EXCEPT ![a] = await(c, a)]
<1>1. CASE c.running # a
  <2>1. u = s
    BY <1>1 DEF await
  <2> QED BY <2>1
<1>2. CASE c.running = a
  <2>1. u = [t EXCEPT ![a] = "awake"]
    BY <1>2 DEF await
  <2>2. u \in [Agents -> Places] /\ \A b \in Agents : Placed(c, s, b)
    BY <2>1, CoherentTypes DEF Places, Holding
  <2>3. \A b \in Agents : Placed(c, u, b)
    BY <1>2, <2>1, <2>2 DEF Placed, Holding
  <2> QED BY <2>2, <2>3 DEF Coherent
<1> QED BY <1>1, <1>2

\* Giving up the turn in agent_block, from a record c in which a holds it.
LEMMA BlockCoherent ==
    ASSUME NEW c, NEW t, Coherent(c, t), NEW a \in Agents, t[a] \in Holding,
           NEW deadline \in BOOLEAN, NEW work \in BOOLEAN
    PROVE  LET b == agent_block(c, a, deadline, work)
           IN  Coherent(b, [t EXCEPT ![a] = await(b, a)]) /\ Waits(b)
<1> DEFINE f == [c EXCEPT !.state[a] = "blocked",
                          !.hasDeadline[a] = deadline,
                          !.wakesOnWork[a] = work,
                          !.running = NoAgent]
           s == [t EXCEPT ![a] = "asleep"]
           d == cluster_dispatch(f)
           b == agent_block(c, a, deadline, work)
<1>1. /\ c \in ClusterType
      /\ t \in [Agents -> Places]
      /\ c.state \in [Agents -> AgentStates]
      /\ c.hasDeadline \in [Agents -> BOOLEAN]
      /\ \A x \in Agents : x # NoAgent /\ Placed(c, t, x)
  BY CoherentTypes
<1>2. c.running = a /\ c.state[a] = "running"
  BY <1>1 DEF Placed
<1>3. /\ f \in ClusterType
      /\ f.state = [c.state EXCEPT ![a] = "blocked"]
      /\ f.hasDeadline = [c.hasDeadline EXCEPT ![a] = deadline]
      /\ f.running = NoAgent
      /\ f.ready = c.ready
      /\ f.wake = c.wake
      /\ f.process = c.process
  BY <1>1 DEF ClusterType, AgentStates
<1> HIDE DEF f
<1>4. s \in [Agents -> Places]
  BY <1>1 DEF Places
<1>5. \A x \in Agents : Placed(f, s, x)
  BY <1>1, <1>2, <1>3 DEF Placed, Holding
<1>6. Coherent(f, s)
  <2>1. f.state[Main] \notin {"none", "starting", "finished"}
    BY <1>1, <1>3 DEF Coherent, Agents
  <2>2. Distinct(f.ready)
    BY <1>3 DEF Coherent
  <2> QED BY <1>3, <1>4, <1>5, <2>1, <2>2 DEF Coherent
<1>7. /\ Coherent(d, s)
      /\ d.running = NoAgent => d = f /\ d.ready = <<>>
  BY <1>6, DispatchCoherent
<1>8. CASE deadline
  <2>1. b = d
    BY <1>8 DEF agent_block, f
  <2>2. Waits(d)
    BY <1>1, <1>3, <1>7, <1>8 DEF Waits
  <2> QED BY <1>1, <1>7, <2>1, <2>2, ParkCoherent
<1>9. CASE ~deadline
  <2>1. b = cluster_check_progress(d)
    BY <1>9 DEF agent_block, f
  <2>2. Coherent(b, s) /\ Waits(b)
    BY <1>7, <2>1, CheckProgressCoherent
  <2> QED BY <1>1, <2>2, ParkCoherent
<1> QED BY <1>8, <1>9

\* Yielding with another agent ready hands the turn on.
LEMMA RequeueCoherent ==
    ASSUME NEW c, NEW t, Coherent(c, t), NEW a \in Agents, t[a] \in Holding
    PROVE  LET b == agent_requeue(c, a)
           IN  Coherent(b, [t EXCEPT ![a] = await(b, a)]) /\ Waits(b)
<1> DEFINE f == [ready_push(c, a) EXCEPT !.state[a] = "ready", !.running = NoAgent]
           s == [t EXCEPT ![a] = "asleep"]
           b == agent_requeue(c, a)
<1>1. /\ c \in ClusterType
      /\ t \in [Agents -> Places]
      /\ c.state \in [Agents -> AgentStates]
      /\ c.ready \in Seq(Agents)
      /\ Distinct(c.ready)
      /\ \A x \in Agents : x # NoAgent /\ Placed(c, t, x)
  BY CoherentTypes
<1>2. c.running = a /\ c.state[a] = "running" /\ ~Queued(c.ready, a)
  BY <1>1 DEF Placed
<1>3. /\ Append(c.ready, a) \in Seq(Agents)
      /\ Append(c.ready, a) # <<>>
      /\ Distinct(Append(c.ready, a))
      /\ \A x : Queued(Append(c.ready, a), x) <=> (x = a \/ Queued(c.ready, x))
  BY <1>1, <1>2, QueuePush
<1>4. /\ f \in ClusterType
      /\ f.state = [c.state EXCEPT ![a] = "ready"]
      /\ f.running = NoAgent
      /\ f.ready = Append(c.ready, a)
      /\ f.wake = c.wake
  BY <1>1, <1>3 DEF ready_push, ClusterType, AgentStates
<1> HIDE DEF f
<1>5. s \in [Agents -> Places]
  BY <1>1 DEF Places
<1>6. \A x \in Agents : Placed(f, s, x)
  BY <1>1, <1>2, <1>3, <1>4 DEF Placed, Holding
<1>7. Coherent(f, s)
  <2>1. f.state[Main] \notin {"none", "starting", "finished"}
    BY <1>1, <1>4 DEF Coherent, Agents
  <2> QED BY <1>3, <1>4, <1>5, <1>6, <2>1 DEF Coherent
<1>8. b = cluster_dispatch(f)
  BY DEF agent_requeue, f
<1>9. Coherent(b, s) /\ b.running # NoAgent
  BY <1>3, <1>4, <1>7, <1>8, DispatchCoherent
<1> QED BY <1>1, <1>9, ParkCoherent DEF Waits

\* A finished agent passes the turn on for good.
LEMMA FinishCoherent ==
    ASSUME NEW c, NEW t, Coherent(c, t), NEW a \in Agents, t[a] \in Holding, a # Main
    PROVE  /\ Coherent(agent_finish(c, a), [t EXCEPT ![a] = "gone"])
           /\ Waits(agent_finish(c, a))
<1> DEFINE f == [c EXCEPT !.state[a] = "finished", !.running = NoAgent]
           s == [t EXCEPT ![a] = "gone"]
<1>1. /\ c \in ClusterType
      /\ t \in [Agents -> Places]
      /\ c.state \in [Agents -> AgentStates]
      /\ \A x \in Agents : x # NoAgent /\ Placed(c, t, x)
  BY CoherentTypes
<1>2. c.running = a /\ c.state[a] = "running"
  BY <1>1 DEF Placed
<1>3. /\ f \in ClusterType
      /\ f.state = [c.state EXCEPT ![a] = "finished"]
      /\ f.running = NoAgent
      /\ f.ready = c.ready
      /\ f.wake = c.wake
  BY <1>1 DEF ClusterType, AgentStates
<1> HIDE DEF f
<1>4. s \in [Agents -> Places]
  BY <1>1 DEF Places
<1>5. \A x \in Agents : Placed(f, s, x)
  BY <1>1, <1>2, <1>3 DEF Placed, Holding
<1>6. Coherent(f, s)
  <2>1. f.state[Main] \notin {"none", "starting", "finished"}
    BY <1>1, <1>3 DEF Coherent, Agents
  <2>2. Distinct(f.ready)
    BY <1>3 DEF Coherent
  <2> QED BY <1>3, <1>4, <1>5, <2>1, <2>2 DEF Coherent
<1>7. agent_finish(c, a) = cluster_check_progress(cluster_dispatch(f))
  BY DEF agent_finish, f
<1> QED BY <1>6, <1>7, DispatchCoherent, CheckProgressCoherent

\* The holder of the turn makes several blocked agents ready.
LEMMA MakeAllReadyCoherent ==
    ASSUME NEW c, NEW t, Coherent(c, t),
           NEW q \in WakeOrders({b \in Agents : c.state[b] = "blocked"})
    PROVE  Coherent(make_all_ready(c, q), t)
<1> DEFINE B == {b \in Agents : c.state[b] = "blocked"}
           m == make_all_ready(c, q)
<1>1. /\ c \in ClusterType
      /\ t \in [Agents -> Places]
      /\ c.state \in [Agents -> AgentStates]
      /\ c.ready \in Seq(Agents)
      /\ c.hasDeadline \in [Agents -> BOOLEAN]
      /\ c.wakesOnWork \in [Agents -> BOOLEAN]
      /\ Distinct(c.ready)
      /\ Main \in Agents
      /\ \A x \in Agents : x # NoAgent /\ Placed(c, t, x)
  BY CoherentTypes
<1>2. PICK n \in 0..Cardinality(B) : q \in [1..n -> B]
  BY DEF WakeOrders
<1>3. q \in Seq(Agents) /\ DOMAIN q = 1..n
  <2>1. n \in Nat
    BY <1>2
  <2> QED BY <1>2, <2>1
<1>4. Distinct(q)
  BY DEF WakeOrders
<1>5. \A x \in Agents : Queued(q, x) => c.state[x] = "blocked"
  BY <1>2, <1>3 DEF Queued
<1>6. \A x \in Agents : ~(Queued(c.ready, x) /\ Queued(q, x))
  BY <1>1, <1>5 DEF Placed
<1>7. /\ c.ready \o q \in Seq(Agents)
      /\ Distinct(c.ready \o q)
      /\ \A x : Queued(c.ready \o q, x) <=> (Queued(c.ready, x) \/ Queued(q, x))
  BY <1>1, <1>3, <1>4, <1>6, QueueJoin
<1>8. /\ m \in ClusterType
      /\ m.state = [x \in Agents |-> IF Queued(q, x) THEN "ready" ELSE c.state[x]]
      /\ m.ready = c.ready \o q
      /\ m.running = c.running
      /\ m.wake = c.wake
  BY <1>1, <1>7 DEF make_all_ready, ClusterType, AgentStates
<1> HIDE DEF m
<1>9. \A x \in Agents : Placed(m, t, x)
  BY <1>1, <1>5, <1>7, <1>8 DEF Placed
<1>10. m.state[Main] \notin {"none", "starting", "finished"}
  BY <1>1, <1>8 DEF Coherent
<1>11. Coherent(m, t)
  BY <1>1, <1>7, <1>8, <1>9, <1>10 DEF Coherent
<1> QED BY <1>11 DEF m

-----------------------------------------------------------------------------
(* Each action preserves the invariant.                                     *)

\* A wake taken in agent_await_turn keeps the invariant.
LEMMA WakesInv == ASSUME TurnInv, NEW a \in Agents, Wakes(a) PROVE TurnInv'
<1> DEFINE f == [cl EXCEPT !.wake[a] = FALSE]
           s == [at EXCEPT ![a] = "asleep"]
<1>1. /\ cl \in ClusterType
      /\ at \in [Agents -> Places]
      /\ cl.wake \in [Agents -> BOOLEAN]
      /\ \A x \in Agents : x # NoAgent /\ Placed(cl, at, x)
  BY CoherentTypes DEF TurnInv
<1>2. /\ f \in ClusterType
      /\ f.wake = [cl.wake EXCEPT ![a] = FALSE]
      /\ f.state = cl.state /\ f.running = cl.running /\ f.ready = cl.ready
      /\ f.hasDeadline = cl.hasDeadline /\ f.process = cl.process
  BY <1>1 DEF ClusterType
<1> HIDE DEF f
<1>3. cl' = f /\ at' = [at EXCEPT ![a] = await(f, a)] /\ at[a] = "asleep"
  BY DEF Wakes, Park, Go, Live, f
<1>4. at' \in [Agents -> Places]
  BY <1>1, <1>3 DEF await, Places, Holding
<1>5. \A x \in Agents : Placed(cl', at', x)
  <2>1. SUFFICES ASSUME NEW x \in Agents PROVE Placed(f, at', x)
    BY <1>3
  <2>2. CASE x # a
    BY <2>2, <1>1, <1>2, <1>3 DEF Placed
  <2>3. CASE x = a /\ cl.running = a
    <3>1. at'[a] = "awake"
      BY <1>1, <1>2, <1>3, <2>3 DEF await
    <3> QED BY <2>3, <3>1, <1>1, <1>2, <1>3 DEF Placed, Holding
  <2>4. CASE x = a /\ cl.running # a
    <3>1. at'[a] = "asleep"
      BY <1>1, <1>2, <1>3, <2>4 DEF await
    <3> QED BY <2>4, <3>1, <1>1, <1>2, <1>3 DEF Placed, Holding
  <2> QED BY <2>2, <2>3, <2>4
<1>6. Coherent(cl', at')
  BY <1>2, <1>3, <1>4, <1>5 DEF Coherent, TurnInv
<1>7. Waits(cl')
  BY <1>2, <1>3 DEF Waits, TurnInv
<1> QED BY <1>6, <1>7 DEF TurnInv

\* A deadline that passes in agent_await_turn keeps the invariant.
LEMMA ExpiresInv == ASSUME TurnInv, NEW a \in Agents, Expires(a) PROVE TurnInv'
<1> DEFINE m == agent_make_ready(cl, a)
<1>1. /\ cl' = m
      /\ at' = [at EXCEPT ![a] = await(m, a)]
      /\ at[a] = "asleep" /\ cl.state[a] = "blocked"
  BY DEF Expires, Park, Go, Live
<1>2. at \in [Agents -> Places]
  BY CoherentTypes DEF TurnInv
<1>3. [at EXCEPT ![a] = "asleep"] = at
  BY <1>1, <1>2
<1>4. Coherent(m, at) /\ m.running # NoAgent
  BY <1>1, MakeReadyCoherent DEF TurnInv
<1> QED BY <1>1, <1>2, <1>3, <1>4, ParkCoherent DEF TurnInv, Waits

\* The first critical section of agent_thread keeps the invariant.
LEMMA BootsInv == ASSUME TurnInv, NEW a \in Agents, Boots(a) PROVE TurnInv'
<1> DEFINE p == ready_push([cl EXCEPT !.state[a] = "ready"], a)
           s == [at EXCEPT ![a] = "asleep"]
           m == agent_make_ready(p, Main)
           d == cluster_dispatch(m)
<1>1. /\ cl \in ClusterType
      /\ at \in [Agents -> Places]
      /\ cl.state \in [Agents -> AgentStates]
      /\ cl.ready \in Seq(Agents)
      /\ Distinct(cl.ready)
      /\ Main \in Agents
      /\ \A x \in Agents : x # NoAgent /\ Placed(cl, at, x)
  BY CoherentTypes DEF TurnInv
<1>2. at[a] = "boot" /\ cl' = d /\ at' = [at EXCEPT ![a] = await(d, a)]
  BY DEF Boots, Park, Go, Live
<1>3. cl.state[a] = "starting" /\ ~Queued(cl.ready, a) /\ cl.running # a
  BY <1>1, <1>2 DEF Placed
<1>4. /\ Append(cl.ready, a) \in Seq(Agents)
      /\ Append(cl.ready, a) # <<>>
      /\ Distinct(Append(cl.ready, a))
      /\ \A x : Queued(Append(cl.ready, a), x) <=> (x = a \/ Queued(cl.ready, x))
  BY <1>1, <1>3, QueuePush
<1>5. /\ p \in ClusterType
      /\ p.state = [cl.state EXCEPT ![a] = "ready"]
      /\ p.ready = Append(cl.ready, a)
      /\ p.running = cl.running
      /\ p.wake = cl.wake
  BY <1>1, <1>4 DEF ready_push, ClusterType, AgentStates
<1> HIDE DEF p
<1>6. s \in [Agents -> Places]
  BY <1>1 DEF Places
<1>7. \A x \in Agents : Placed(p, s, x)
  BY <1>1, <1>2, <1>3, <1>4, <1>5 DEF Placed, Holding
<1>8. Coherent(p, s)
  <2>1. p.state[Main] \notin {"none", "starting", "finished"}
    BY <1>1, <1>5 DEF Coherent, TurnInv
  <2> QED BY <1>4, <1>5, <1>6, <1>7, <2>1 DEF Coherent
<1>9. /\ Coherent(m, s)
      /\ p.state[Main] # "blocked" => m = p
      /\ p.state[Main] = "blocked" => m.running # NoAgent
  BY <1>1, <1>8, MakeReadyCoherent
<1>10. Coherent(d, s) /\ d.running # NoAgent
  BY <1>4, <1>5, <1>9, DispatchCoherent
<1> QED BY <1>1, <1>2, <1>10, ParkCoherent DEF TurnInv, Waits

\* The holder's local steps leave the record and the threads coherent.
LEMMA MoveCoherent ==
    ASSUME NEW c, NEW t, Coherent(c, t), NEW a \in Agents, t[a] \in Holding,
           NEW p \in Holding
    PROVE  Coherent(c, [t EXCEPT ![a] = p])
<1> DEFINE u == [t EXCEPT ![a] = p]
<1>1. t \in [Agents -> Places] /\ \A x \in Agents : Placed(c, t, x)
  BY CoherentTypes
<1>2. u \in [Agents -> Places]
  BY <1>1 DEF Places
<1>3. \A x \in Agents : Placed(c, u, x)
  BY <1>1 DEF Placed, Holding
<1> QED BY <1>2, <1>3 DEF Coherent

\* Steps of the holder inside its own turn keep the invariant.
LEMMA RunsInv == ASSUME TurnInv, NEW a \in Agents, Runs(a) PROVE TurnInv'
<1>1. PICK p \in Holding : at' = [at EXCEPT ![a] = p]
  BY DEF Runs, Go
<1>2. Coherent(cl, at') /\ Waits(cl)
  BY <1>1, MoveCoherent DEF TurnInv, Runs, Hold
<1>3. CASE cl' = cl
  BY <1>2, <1>3 DEF TurnInv
<1>4. ASSUME NEW b \in Agents, cl' = agent_make_ready(cl, b)
      PROVE  TurnInv'
  <2>1. Coherent(cl', at')
    BY <1>2, <1>4, MakeReadyCoherent
  <2>2. Waits(cl')
    <3>1. CASE cl.state[b] = "blocked"
      BY <3>1, <1>2, <1>4, MakeReadyCoherent DEF Waits
    <3>2. CASE cl.state[b] # "blocked"
      BY <3>2, <1>2, <1>4, MakeReadyCoherent
    <3> QED BY <3>1, <3>2
  <2> QED BY <2>1, <2>2 DEF TurnInv
<1> QED BY <1>3, <1>4 DEF Runs

\* The holder that makes others ready and blocks (agent_block after a call that
\* notified) keeps the invariant.
LEMMA BlocksInv == ASSUME TurnInv, NEW a \in Agents, Blocks(a) PROVE TurnInv'
<1>1. PICK q \in WakeOrders({b \in Agents : cl.state[b] = "blocked"}),
           deadline \in BOOLEAN, work \in BOOLEAN :
             Park(a, agent_block(make_all_ready(cl, q), a, deadline, work))
  BY DEF Blocks
<1>2. Coherent(make_all_ready(cl, q), at) /\ at[a] \in Holding
  BY MakeAllReadyCoherent DEF TurnInv, Blocks, Hold
<1> QED BY <1>1, <1>2, BlockCoherent DEF TurnInv, Park, Go

\* A yield keeps the invariant.
LEMMA YieldsInv == ASSUME TurnInv, NEW a \in Agents, Yields(a) PROVE TurnInv'
BY RequeueCoherent DEF TurnInv, Yields, Hold, Park, Go

\* Freeing the finished agents' records and creating the thread of w, while
\* the main agent holds the turn, keeps record and threads coherent.
LEMMA SpawnCoherent ==
    ASSUME TurnInv, NEW w \in Workers, cl.state[w] \in {"none", "finished"}
    PROVE  Coherent([cl EXCEPT !.state = [Reap(@) EXCEPT ![w] = "starting"],
                               !.wake[w] = FALSE],
                    [Reap(at) EXCEPT ![w] = "boot"])
<1> DEFINE c == [cl EXCEPT !.state = [Reap(@) EXCEPT ![w] = "starting"],
                           !.wake[w] = FALSE]
           t == [Reap(at) EXCEPT ![w] = "boot"]
<1>1. /\ cl \in ClusterType
      /\ at \in [Agents -> Places]
      /\ cl.state \in [Agents -> AgentStates]
      /\ cl.wake \in [Agents -> BOOLEAN]
      /\ Main \in Agents /\ w \in Agents /\ w # Main
      /\ \A x \in Agents : x # NoAgent /\ Placed(cl, at, x)
  BY CoherentTypes, TurnAssumption DEF TurnInv, Agents
<1>2. \A x \in Agents : x \in Finished <=> x # Main /\ cl.state[x] = "finished"
  BY <1>1 DEF Finished, Agents, TurnInv, Coherent
<1>3. /\ Reap(cl.state) \in [Agents -> AgentStates]
      /\ Reap(at) \in [Agents -> Places]
  BY <1>1 DEF Reap, AgentStates, Places
<1>4. /\ c \in ClusterType
      /\ c.state = [Reap(cl.state) EXCEPT ![w] = "starting"]
      /\ c.running = cl.running /\ c.ready = cl.ready
      /\ c.wake = [cl.wake EXCEPT ![w] = FALSE]
  BY <1>1, <1>3 DEF ClusterType, AgentStates
<1> HIDE DEF c
<1>5. t \in [Agents -> Places]
  BY <1>3 DEF Places
<1>6. \A x \in Agents : Reap(cl.state)[x] = (IF x \in Finished THEN "none" ELSE cl.state[x])
                       /\ Reap(at)[x] = (IF x \in Finished THEN "none" ELSE at[x])
  BY DEF Reap
<1>7. ASSUME NEW x \in Agents PROVE Placed(c, t, x)
  <2>1. CASE x = w
    <3>1. c.state[x] = "starting" /\ t[x] = "boot"
      BY <1>1, <1>3, <1>4, <2>1
    <3>2. ~Queued(c.ready, x) /\ c.running # x
      BY <1>1, <1>4, <2>1 DEF Placed
    <3> QED BY <3>1, <3>2 DEF Placed, Holding
  <2>2. CASE x # w /\ x \in Finished
    <3>1. c.state[x] = "none" /\ t[x] = "none"
      BY <1>1, <1>3, <1>4, <1>6, <2>2
    <3>2. ~Queued(c.ready, x) /\ c.running # x
      BY <1>1, <1>2, <1>4, <2>2 DEF Placed
    <3> QED BY <3>1, <3>2 DEF Placed, Holding
  <2>3. CASE x # w /\ x \notin Finished
    <3>1. c.state[x] = cl.state[x] /\ t[x] = at[x] /\ c.wake[x] = cl.wake[x]
      BY <1>1, <1>3, <1>4, <1>6, <2>3
    <3> QED BY <3>1, <1>1, <1>4 DEF Placed
  <2> QED BY <2>1, <2>2, <2>3
<1>8. c.state[Main] \notin {"none", "starting", "finished"}
  BY <1>1, <1>2, <1>3, <1>4, <1>6 DEF TurnInv, Coherent
<1>9. Coherent(c, t)
  BY <1>4, <1>5, <1>7, <1>8 DEF TurnInv, Coherent
<1> QED BY <1>9 DEF c

\* agent_start keeps the invariant: the main agent blocks in the record that
\* has the new agent starting.
LEMMA StartsInv == ASSUME TurnInv, NEW w \in Workers, Starts(w) PROVE TurnInv'
<1> DEFINE c == [cl EXCEPT !.state = [Reap(@) EXCEPT ![w] = "starting"],
                           !.wake[w] = FALSE]
           t == [Reap(at) EXCEPT ![w] = "boot"]
           b == agent_block(c, Main, FALSE, FALSE)
<1>1. /\ Main \in Agents /\ w \in Agents /\ w # Main
      /\ at \in [Agents -> Places]
      /\ at[Main] \in Holding
  BY CoherentTypes, TurnAssumption DEF TurnInv, Agents, Starts, Hold
<1>2. Coherent(c, t)
  BY SpawnCoherent DEF Starts
<1>3. t[Main] \in Holding
  <2>1. Main \notin Finished
    BY TurnAssumption DEF Finished
  <2> QED BY <1>1, <2>1 DEF Reap
<1>4. cl' = b /\ at' = [Reap(at) EXCEPT ![w] = "boot", ![Main] = await(b, Main)]
  BY DEF Starts
<1> HIDE DEF c
<1>5. at' = [t EXCEPT ![Main] = await(b, Main)]
  BY <1>4
<1>6. Coherent(b, [t EXCEPT ![Main] = await(b, Main)]) /\ Waits(b)
  BY <1>1, <1>2, <1>3, BlockCoherent
<1> QED BY <1>4, <1>5, <1>6 DEF TurnInv

\* A start that fails after the reap keeps the invariant.
LEMMA RefusesInv == ASSUME TurnInv, Refuses PROVE TurnInv'
<1>1. /\ cl \in ClusterType
      /\ at \in [Agents -> Places]
      /\ cl.state \in [Agents -> AgentStates]
      /\ Main \in Agents
      /\ \A x \in Agents : x # NoAgent /\ Placed(cl, at, x)
  BY CoherentTypes DEF TurnInv
<1>2. \A x \in Agents : x \in Finished <=> x # Main /\ cl.state[x] = "finished"
  BY TurnAssumption DEF Finished, Agents, TurnInv, Coherent
<1>3. /\ Reap(cl.state) \in [Agents -> AgentStates]
      /\ Reap(at) \in [Agents -> Places]
  BY <1>1 DEF Reap, AgentStates, Places
<1>4. /\ cl' \in ClusterType
      /\ cl'.state = Reap(cl.state)
      /\ cl'.running = cl.running /\ cl'.ready = cl.ready
      /\ cl'.wake = cl.wake
      /\ at' = Reap(at)
  BY <1>1, <1>3 DEF Refuses, ClusterType
<1>5. \A x \in Agents : Reap(cl.state)[x] = (IF x \in Finished THEN "none" ELSE cl.state[x])
                       /\ Reap(at)[x] = (IF x \in Finished THEN "none" ELSE at[x])
  BY DEF Reap
<1>6. ASSUME NEW x \in Agents PROVE Placed(cl', at', x)
  <2>1. CASE x \in Finished
    <3>1. cl'.state[x] = "none" /\ at'[x] = "none"
      BY <1>4, <1>5, <2>1
    <3>2. ~Queued(cl'.ready, x) /\ cl'.running # x
      BY <1>1, <1>2, <1>4, <2>1 DEF Placed
    <3> QED BY <3>1, <3>2 DEF Placed, Holding
  <2>2. CASE x \notin Finished
    <3>1. cl'.state[x] = cl.state[x] /\ at'[x] = at[x]
      BY <1>4, <1>5, <2>2
    <3> QED BY <3>1, <1>1, <1>4 DEF Placed
  <2> QED BY <2>1, <2>2
<1>7. cl'.state[Main] \notin {"none", "starting", "finished"}
  BY <1>1, <1>2, <1>4, <1>5 DEF TurnInv, Coherent
<1>8. Coherent(cl', at')
  BY <1>3, <1>4, <1>6, <1>7 DEF TurnInv, Coherent
<1>9. cl'.running = Main
  BY <1>1, <1>4 DEF Refuses, Hold, Placed
<1> QED BY <1>1, <1>8, <1>9 DEF TurnInv, Waits

\* The last critical section of an agent thread keeps the invariant.
LEMMA FinishesInv == ASSUME TurnInv, NEW a \in Agents, Finishes(a) PROVE TurnInv'
BY FinishCoherent DEF TurnInv, Finishes, Hold, Go

\* The end of the process keeps the invariant.
LEMMA EndsInv == ASSUME TurnInv, NEW a \in Agents, Ends(a) PROVE TurnInv'
<1>1. cl \in ClusterType
  BY CoherentTypes DEF TurnInv
<1>2. PICK p \in {"failed", "ended"} : cl' = [cl EXCEPT !.process = p]
  BY DEF Ends
<1>3. /\ cl' \in ClusterType
      /\ cl'.state = cl.state /\ cl'.running = cl.running /\ cl'.ready = cl.ready
      /\ cl'.wake = cl.wake /\ cl'.process # "live"
      /\ at' = at
  BY <1>1, <1>2 DEF ClusterType, Ends
<1>4. Coherent(cl', at')
  BY <1>3 DEF TurnInv, Coherent, Placed
<1> QED BY <1>3, <1>4 DEF TurnInv, Waits

\* The main agent starts alone, with the turn.
LEMMA InitInv == TurnInit => TurnInv
<1> SUFFICES ASSUME TurnInit PROVE TurnInv
  OBVIOUS
<1>1. Main \in Agents /\ \A a \in Agents : a # NoAgent
  BY TurnAssumption DEF Agents
<1>2. /\ cl.state = [a \in Agents |-> IF a = Main THEN "running" ELSE "none"]
      /\ cl.running = Main /\ cl.ready = <<>>
      /\ at = [a \in Agents |-> IF a = Main THEN "eval" ELSE "none"]
  BY DEF TurnInit
<1>3. cl \in ClusterType
  BY <1>1 DEF TurnInit, ClusterType, AgentStates
<1>4. at \in [Agents -> Places]
  BY <1>2 DEF Places, Holding
<1>5. Distinct(cl.ready) /\ \A a \in Agents : ~Queued(cl.ready, a)
  BY <1>2 DEF Distinct, Queued
<1>6. \A a \in Agents : Placed(cl, at, a)
  BY <1>1, <1>2, <1>5 DEF Placed, Holding
<1>7. Coherent(cl, at)
  BY <1>1, <1>2, <1>3, <1>4, <1>5, <1>6 DEF Coherent
<1> QED BY <1>1, <1>2, <1>7 DEF TurnInv, Waits

-----------------------------------------------------------------------------
(* The theorems.                                                            *)

\* TurnInv is an invariant of the scheduling of runtime_agent.c, whatever the
\* programs of the agents do and however many workers there are.
THEOREM TurnInvariant == TurnSpec => []TurnInv
<1>1. TurnInit => TurnInv
  BY InitInv
<1>2. TurnInv /\ [TurnNext]_turnVars => TurnInv'
  <2> SUFFICES ASSUME TurnInv, [TurnNext]_turnVars PROVE TurnInv'
    OBVIOUS
  <2>1. CASE UNCHANGED turnVars
    BY <2>1 DEF turnVars, TurnInv, Coherent, Waits, Placed
  <2>2. ASSUME NEW a \in Agents, Wakes(a) PROVE TurnInv'
    BY <2>2, WakesInv
  <2>3. ASSUME NEW a \in Agents, Expires(a) PROVE TurnInv'
    BY <2>3, ExpiresInv
  <2>4. ASSUME NEW a \in Agents, Boots(a) PROVE TurnInv'
    BY <2>4, BootsInv
  <2>5. ASSUME NEW a \in Agents, Runs(a) PROVE TurnInv'
    BY <2>5, RunsInv
  <2>6. ASSUME NEW a \in Agents, Blocks(a) PROVE TurnInv'
    BY <2>6, BlocksInv
  <2>7. ASSUME NEW a \in Agents, Yields(a) PROVE TurnInv'
    BY <2>7, YieldsInv
  <2>8. ASSUME NEW a \in Agents, Finishes(a) PROVE TurnInv'
    BY <2>8, FinishesInv
  <2>9. ASSUME NEW a \in Agents, Ends(a) PROVE TurnInv'
    BY <2>9, EndsInv
  <2>10. ASSUME NEW w \in Workers, Starts(w) PROVE TurnInv'
    BY <2>10, StartsInv
  <2>11. CASE Refuses
    BY <2>11, RefusesInv
  <2> QED BY <2>1, <2>2, <2>3, <2>4, <2>5, <2>6, <2>7, <2>8, <2>9, <2>10, <2>11
          DEF TurnNext
<1> QED BY <1>1, <1>2, PTL DEF TurnSpec

\* The scheduling record and the places of the threads keep their types.
THEOREM TurnTypes == TurnSpec => []TurnTypeOK
<1>1. TurnInv => TurnTypeOK
  BY DEF TurnInv, Coherent, TurnTypeOK
<1> QED BY <1>1, TurnInvariant, PTL

\* runtime_agent.c:41: exactly one agent evaluates at a time.  Latched wakes,
\* deadlines and starting threads never let a second thread run realm code.
THEOREM TurnIsExclusive == TurnSpec => []TurnExclusive
<1>1. TurnInv => TurnExclusive
  BY DEF TurnInv, Coherent, Placed, TurnExclusive
<1> QED BY <1>1, TurnInvariant, PTL

\* No agent is queued twice, dropped from the ready list, or queued while it
\* runs or blocks (ready_push, cluster_dispatch, agent_make_ready).
THEOREM TurnQueue == TurnSpec => []ReadyQueue
<1>1. TurnInv => ReadyQueue
  BY DEF TurnInv, Coherent, Placed, ReadyQueue
<1> QED BY <1>1, TurnInvariant, PTL

\* The agent that holds the turn runs or has a wake waiting (cluster_dispatch
\* signals, agent_await_turn takes wakes): no wake is lost.
THEOREM TurnWakes == TurnSpec => []NoLostWakeup
<1>1. TurnInv => NoLostWakeup
  BY DEF TurnInv, Coherent, Placed, NoLostWakeup
<1> QED BY <1>1, TurnInvariant, PTL

\* The cluster never hangs silently: with the turn free, some thread starts or
\* sleeps until a deadline, or cluster_check_progress has ended the process.
THEOREM TurnNeverHangs == TurnSpec => []NeverHangs
<1>1. ASSUME TurnInv PROVE NeverHangs
  <2> SUFFICES ASSUME cl.process = "live", cl.running = NoAgent
               PROVE  /\ cl.ready = <<>>
                      /\ \E a \in Agents :
                            \/ cl.state[a] = "starting" /\ at[a] = "boot"
                            \/ /\ cl.state[a] = "blocked" /\ cl.hasDeadline[a]
                               /\ at[a] = "asleep"
    BY DEF NeverHangs
  <2>1. PICK a \in Agents : \/ cl.state[a] = "starting"
                            \/ cl.state[a] = "blocked" /\ cl.hasDeadline[a]
    BY <1>1 DEF TurnInv, Waits
  <2>2. /\ at[a] \in Places /\ a # NoAgent
        /\ Placed(cl, at, a)
    BY <1>1, CoherentTypes DEF TurnInv
  <2>3. cl.state[a] = "blocked" => at[a] = "asleep"
    BY <2>2 DEF Placed, Places
  <2>4. cl.state[a] = "starting" => at[a] = "boot"
    BY <2>2 DEF Placed
  <2> QED BY <1>1, <2>1, <2>3, <2>4 DEF TurnInv, Waits
<1> QED BY <1>1, TurnInvariant, PTL

=============================================================================
