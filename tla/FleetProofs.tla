----------------------------- MODULE FleetProofs -----------------------------
(***************************************************************************)
(* Load balancers that share a provider value stay apart, for any number   *)
(* of them, of devices and of failures: as long as one worker runs the     *)
(* passes and no two load balancers have the same name.  With any number   *)
(* of workers the work queue holds each request once and gives it to one   *)
(* of them.                                                                *)
(***************************************************************************)
EXTENDS Fleet, FiniteSetTheorems, TLAPS

(* MaxConcurrentReconciles is one, the default of controller-runtime.      *)
OneWorker == \A v, w \in Workers : v = w

UniqueNames == \A a, b \in LBs : NameOf[a] = NameOf[b] => a = b

Types ==
  /\ dev \in [LBs -> Devices]
  /\ config \in [Devices -> SUBSET Objects]
  /\ pass \in [Workers -> Passes \cup {NoPass}]
  /\ queue \in Seq(LBs)
  /\ gone \subseteq LBs

(* The shared provider value belongs to the pass that is under way.        *)
Tied(w) ==
  /\ pass[w].pc \in {"connect", "write", "status", "reconnect", "clean"} => host = pass[w].dev
  /\ pass[w].pc \in {"write", "clean"} => session = pass[w].dev /\ pass[w].i \in 1..Parts

Named == \A d \in Devices : \A o \in config[d] : o.name = NameOf[o.owner]

ApartInv == Types /\ (\A w \in Workers : Tied(w)) /\ Named

----------------------------------------------------------------------------
(* An order of some load balancers is a queue of load balancers.           *)
LEMMA OrdersAreQueues ==
  ASSUME NEW S, S \subseteq LBs, NEW s \in Orders(S)
  PROVE s \in Seq(LBs)
<1>1. IsFiniteSet(S)
  BY FleetConstants, FS_Subset
<1>2. Cardinality(S) \in Nat
  BY <1>1, FS_CardinalityType
<1>3. s \in [1..Cardinality(S) -> LBs]
  BY DEF Orders
<1> QED
  BY <1>2, <1>3

(* A pass that has begun is a pass of some load balancer.                  *)
LEMMA Begun ==
  ASSUME Types, NEW w \in Workers, pass[w].pc # "idle"
  PROVE pass[w] \in Passes
BY DEF Types, NoPass

(* Adding requests keeps the queue one of load balancers.                  *)
LEMMA AddKeepsTypes ==
  ASSUME Types, NEW S, S \subseteq LBs, Add(S)
  PROVE queue' \in Seq(LBs)
<1> DEFINE new == S \ (InPass \cup Queued)
<1>1. PICK s \in Orders(new) : queue' = queue \o s
  BY DEF Add
<1>2. s \in Seq(LBs)
  BY OrdersAreQueues
<1> QED
  BY <1>1, <1>2 DEF Types

(* So does the end of a pass.                                              *)
LEMMA DoneKeepsTypes ==
  ASSUME Types, NEW w \in Workers, pass[w].pc # "idle", Done(w)
  PROVE /\ queue' \in Seq(LBs)
        /\ pass' = [pass EXCEPT ![w] = NoPass]
        /\ pass' \in [Workers -> Passes \cup {NoPass}]
<1>1. pass[w].lb \in LBs
  BY Begun DEF Passes
<1> QED
  BY <1>1 DEF Done, Types

----------------------------------------------------------------------------
(* The objects a worker's request replaces or removes are its own load     *)
(* balancer's.                                                             *)
LEMMA TouchesOwn ==
  ASSUME ApartInv, UniqueNames, NEW w \in Workers,
         pass[w].pc \in {"write", "clean"},
         NEW X \in SUBSET {Mine(w)},
         config' = [config EXCEPT ![session] = Others(w) \cup X]
  PROVE /\ KeepsApart
        /\ config' \in [Devices -> SUBSET Objects]
        /\ Named'
<1>1. /\ pass[w] \in Passes
      /\ session = pass[w].dev /\ session \in Devices
      /\ pass[w].i \in 1..Parts /\ pass[w].lb \in LBs
  BY Begun DEF ApartInv, Tied, Passes
<1>2. Mine(w) \in Objects /\ Mine(w).owner = pass[w].lb
        /\ Mine(w).name = NameOf[Mine(w).owner]
  BY <1>1, FleetConstants DEF Mine, Objects
<1>3. config[session] \subseteq Objects
  BY <1>1 DEF ApartInv, Types
<1>4. /\ config'[session] = Others(w) \cup X
      /\ \A d \in Devices : d # session => config'[d] = config[d]
  BY <1>1 DEF ApartInv, Types
<1>5. ASSUME NEW o \in Touched(session)
      PROVE o.owner = pass[w].lb
  <2>1. CASE o \in X
    BY <1>2, <2>1
  <2>2. CASE o \notin X
    <3>1. o \in config[session] /\ Same(o, w)
      BY <1>4, <2>2 DEF Touched, Others
    <3>2. o.owner \in LBs /\ o.name = NameOf[o.owner]
      BY <1>1, <1>3, <3>1 DEF ApartInv, Named, Objects
    <3> QED
      BY <1>1, <3>1, <3>2 DEF Same, UniqueNames
  <2> QED
    BY <2>1, <2>2
<1>6. KeepsApart
  <2> SUFFICES ASSUME NEW d \in Devices, NEW o \in Touched(d)
               PROVE \E v \in Workers : pass[v].lb = o.owner /\ pass[v].dev = d
    BY DEF KeepsApart
  <2>1. d = session
    BY <1>4 DEF Touched
  <2> QED
    BY <1>1, <1>5, <2>1
<1>7. config' \in [Devices -> SUBSET Objects]
  BY <1>1, <1>2, <1>3 DEF ApartInv, Types, Others
<1>8. Named'
  <2> SUFFICES ASSUME NEW d \in Devices, NEW o \in config'[d]
               PROVE o.name = NameOf[o.owner]
    BY DEF Named
  <2>1. CASE d = session
    BY <1>1, <1>2, <1>4, <2>1 DEF ApartInv, Named, Others
  <2>2. CASE d # session
    BY <1>4, <2>2 DEF ApartInv, Named
  <2> QED
    BY <2>1, <2>2
<1> QED
  BY <1>6, <1>7, <1>8

----------------------------------------------------------------------------
(* The fleet starts with no pass and nothing configured.                   *)
LEMMA ApartInit == Init => ApartInv
<1> SUFFICES ASSUME Init PROVE ApartInv
  OBVIOUS
<1>1. queue \in Seq(LBs)
  BY OrdersAreQueues DEF Init
<1>2. Types
  BY <1>1 DEF Init, Types
<1>3. \A w \in Workers : Tied(w)
  BY DEF Init, Tied, NoPass
<1>4. Named
  BY DEF Init, Named
<1> QED
  BY <1>2, <1>3, <1>4 DEF ApartInv

(* A step that leaves the devices alone keeps load balancers apart, and the *)
(* invariant needs only to be shown of the rest.                           *)
LEMMA QuietStep ==
  ASSUME ApartInv, UNCHANGED config, Types', \A w \in Workers : Tied(w)'
  PROVE KeepsApart /\ ApartInv'
BY DEF ApartInv, Named, KeepsApart, Touched

(* A pass that goes on stays well typed.                                   *)
LEMMA GoToKeepsTypes ==
  ASSUME Types, NEW w \in Workers, pass[w] \in Passes,
         NEW pc \in {"connect", "write", "status", "reconnect", "clean"},
         NEW i \in 0..Parts, GoTo(w, pc, i)
  PROVE pass' \in [Workers -> Passes \cup {NoPass}]
<1>1. [pass[w] EXCEPT !.pc = pc, !.i = i] \in Passes
  BY DEF Passes
<1> QED
  BY <1>1 DEF Types, GoTo

(* The number of parts bounds the index of a pass.                         *)
LEMMA FirstIndex == 0 \in 0..Parts
BY FleetConstants

(* Ends of passes untie the worker.                                        *)
LEMMA DoneUnties ==
  ASSUME Types, OneWorker, NEW w \in Workers, pass' = [pass EXCEPT ![w] = NoPass]
  PROVE \A v \in Workers : Tied(v)'
BY DEF Types, OneWorker, Tied, NoPass

(* Every step keeps load balancers apart and preserves the invariant.      *)
LEMMA ApartStep ==
  ASSUME OneWorker, UniqueNames, ApartInv, [Next]_vars
  PROVE KeepsApart /\ ApartInv'
<1> USE DEF ApartInv
<1>1. ASSUME NEW w \in Workers, Take(w)
      PROVE KeepsApart /\ ApartInv'
  <2>1. Head(queue) \in LBs /\ queue' \in Seq(LBs)
    BY <1>1 DEF Take, Types
  <2>2. pass' \in [Workers -> Passes \cup {NoPass}]
    BY <1>1, <2>1, FleetConstants DEF Take, Types, Passes
  <2>3. Types'
    BY <1>1, <2>1, <2>2 DEF Take, Types, object
  <2>4. \A v \in Workers : Tied(v)'
    BY <1>1 DEF Take, Types, Tied, OneWorker, provider
  <2> QED
    BY <1>1, <2>3, <2>4, QuietStep DEF Take
<1>2. ASSUME NEW w \in Workers, CreateBackend(w)
      PROVE KeepsApart /\ ApartInv'
  <2>1. pass[w] \in Passes
    BY <1>2, Begun DEF CreateBackend, At
  <2>2. Types'
    BY <1>2, <2>1, FirstIndex, GoToKeepsTypes DEF CreateBackend, Types, object, requests
  <2>3. \A v \in Workers : Tied(v)'
    BY <1>2 DEF CreateBackend, GoTo, Types, Tied, OneWorker
  <2> QED
    BY <1>2, <2>2, <2>3, QuietStep DEF CreateBackend
<1>3. ASSUME NEW w \in Workers, Connect(w)
      PROVE KeepsApart /\ ApartInv'
  <2>1. pass[w] \in Passes /\ host = pass[w].dev
    BY <1>3, Begun DEF Connect, At, Tied
  <2>2. PICK pc \in {"write", "clean"}, i \in 1..Parts : GoTo(w, pc, i)
    BY <1>3, FleetConstants DEF Connect
  <2>3. Types'
    BY <1>3, <2>1, <2>2, FleetConstants
    DEF Connect, GoTo, Types, Passes, object, requests
  <2>4. \A v \in Workers : Tied(v)'
    BY <1>3, <2>1, <2>2 DEF Connect, GoTo, Types, Tied, OneWorker
  <2> QED
    BY <1>3, <2>3, <2>4, QuietStep DEF Connect
<1>4. ASSUME NEW w \in Workers, Configure(w)
      PROVE KeepsApart /\ ApartInv'
  <2>1. /\ KeepsApart
        /\ config' \in [Devices -> SUBSET Objects]
        /\ Named'
    BY <1>4, TouchesOwn DEF Configure, At
  <2>2. /\ pass[w] \in Passes /\ session = pass[w].dev /\ host = pass[w].dev
        /\ pass[w].i \in 1..Parts
    BY <1>4, Begun DEF Configure, At, Tied
  <2>3. PICK pc \in {"write", "status"}, i \in 0..Parts :
          GoTo(w, pc, i) /\ (pc = "write" => i \in 1..Parts)
    BY <1>4, <2>2, FleetConstants DEF Configure
  <2>4. Types'
    BY <1>4, <2>1, <2>2, <2>3 DEF Configure, GoTo, Types, Passes, object, requests
  <2>5. \A v \in Workers : Tied(v)'
    BY <1>4, <2>2, <2>3 DEF Configure, GoTo, Types, Tied, OneWorker, provider
  <2> QED
    BY <2>1, <2>4, <2>5
<1>5. ASSUME NEW w \in Workers, WriteStatus(w)
      PROVE KeepsApart /\ ApartInv'
  <2>1. CASE GoTo(w, "reconnect", 0) /\ UNCHANGED <<queue, dirty>>
    <3>1. pass[w] \in Passes /\ host = pass[w].dev
      BY <1>5, Begun DEF WriteStatus, At, Tied
    <3>2. Types'
      BY <1>5, <2>1, <3>1, FirstIndex, GoToKeepsTypes DEF WriteStatus, Types, object
    <3>3. \A v \in Workers : Tied(v)'
      BY <1>5, <2>1, <3>1 DEF WriteStatus, GoTo, Types, Tied, OneWorker, provider
    <3> QED
      BY <1>5, <3>2, <3>3, QuietStep DEF WriteStatus
  <2>2. CASE Done(w)
    <3>1. Types'
      BY <1>5, <2>2, DoneKeepsTypes DEF WriteStatus, At, Types, object
    <3>2. \A v \in Workers : Tied(v)'
      BY <2>2, DoneUnties DEF Done
    <3> QED
      BY <1>5, <3>1, <3>2, QuietStep DEF WriteStatus
  <2> QED
    BY <1>5, <2>1, <2>2 DEF WriteStatus
<1>6. ASSUME NEW w \in Workers, Cleanup(w)
      PROVE KeepsApart /\ ApartInv'
  <2>1. /\ KeepsApart
        /\ config' \in [Devices -> SUBSET Objects]
        /\ Named'
    <3>1. config' = [config EXCEPT ![session] = Others(w) \cup {}]
      BY <1>6 DEF Cleanup
    <3>2. pass[w].pc \in {"write", "clean"} /\ {} \in SUBSET {Mine(w)}
      BY <1>6 DEF Cleanup, At
    <3> QED
      BY <3>1, <3>2, TouchesOwn
  <2>2. /\ pass[w] \in Passes /\ session = pass[w].dev /\ host = pass[w].dev
        /\ pass[w].i \in 1..Parts /\ pass[w].lb \in LBs
    BY <1>6, Begun DEF Cleanup, At, Tied, Passes
  <2>3. CASE pass[w].i > 1 /\ GoTo(w, "clean", pass[w].i - 1) /\ UNCHANGED <<gone, queue, dirty>>
    <3>1. pass[w].i - 1 \in 1..Parts
      BY <2>2, <2>3, FleetConstants
    <3>2. Types'
      BY <1>6, <2>1, <2>2, <2>3, <3>1 DEF Cleanup, GoTo, Types, Passes
    <3>3. \A v \in Workers : Tied(v)'
      BY <1>6, <2>2, <2>3, <3>1 DEF Cleanup, GoTo, Types, Tied, OneWorker, provider
    <3> QED
      BY <2>1, <3>2, <3>3
  <2>4. CASE gone' = gone \cup {pass[w].lb} /\ Done(w)
    <3>1. Types'
      BY <1>6, <2>1, <2>2, <2>4, DoneKeepsTypes DEF Cleanup, At, Types
    <3>2. \A v \in Workers : Tied(v)'
      BY <2>4, DoneUnties DEF Done
    <3> QED
      BY <2>1, <3>1, <3>2
  <2> QED
    BY <1>6, <2>3, <2>4 DEF Cleanup
<1>7. ASSUME NEW w \in Workers, Failure(w)
      PROVE KeepsApart /\ ApartInv'
  <2>1. Done(w) /\ pass[w].pc # "idle" /\ UNCHANGED <<object, config>>
    BY <1>7 DEF Failure, Fail, At
  <2>2. Types'
    BY <2>1, DoneKeepsTypes DEF Types, object
  <2>3. \A v \in Workers : Tied(v)'
    BY <2>1, DoneUnties DEF Done
  <2> QED
    BY <2>1, <2>2, <2>3, QuietStep
<1>8. ASSUME NEW lb \in LBs, Retry(lb) \/ UserDelete(lb) \/ UserMove(lb)
      PROVE KeepsApart /\ ApartInv'
  <2>1. Add({lb}) /\ UNCHANGED <<gone, provider, config, pass>>
    BY <1>8 DEF Retry, UserDelete, UserMove, EnvOp, object
  <2>2. dev' \in [LBs -> Devices]
    BY <1>8 DEF Retry, UserDelete, UserMove, Types, object
  <2>3. Types'
    BY <2>1, <2>2, AddKeepsTypes DEF Types
  <2>4. \A v \in Workers : Tied(v)'
    BY <2>1 DEF Tied, provider
  <2> QED
    BY <2>1, <2>3, <2>4, QuietStep
<1>9. CASE Crash
  <2>1. Types'
    BY <1>9, OrdersAreQueues DEF Crash, Types, object
  <2>2. \A v \in Workers : Tied(v)'
    BY <1>9 DEF Crash, Tied, NoPass
  <2> QED
    BY <1>9, <2>1, <2>2, QuietStep DEF Crash
<1>10. CASE UNCHANGED vars
  <2>1. Types' /\ UNCHANGED config
    BY <1>10 DEF vars, object, requests, Types
  <2>2. \A v \in Workers : Tied(v)'
    BY <1>10 DEF vars, provider, Tied
  <2> QED
    BY <2>1, <2>2, QuietStep
<1> QED
  BY <1>1, <1>2, <1>3, <1>4, <1>5, <1>6, <1>7, <1>8, <1>9, <1>10 DEF Next, Worker

(* Load balancers that share one provider value, in any number and on any  *)
(* devices, never touch each other's objects and never write to a device   *)
(* other than the one their pass read, through failures, retries, changes  *)
(* of provider, deletions and restarts: if one worker runs and names are   *)
(* unique.                                                                 *)
THEOREM Isolated ==
  ASSUME OneWorker, UniqueNames
  PROVE Spec => Isolation
<1>1. ApartInv /\ [Next]_vars => KeepsApart /\ ApartInv'
  BY ApartStep
<1>2. Spec => []ApartInv
  BY ApartInit, <1>1, PTL DEF Spec
<1>3. ApartInv /\ [Next]_vars => [KeepsApart]_vars
  BY <1>1
<1> QED
  BY <1>2, <1>3, PTL DEF Spec, Isolation

----------------------------------------------------------------------------
(* The work queue, for any number of workers.                              *)

Distinct(q) == \A i, j \in DOMAIN q : q[i] = q[j] => i = j

(* No two workers have the same load balancer.                             *)
OwnPasses == \A v, w \in Workers : pass[v].lb = pass[w].lb /\ v # w => pass[v].lb = None

Waiting ==
  /\ Distinct(queue) /\ OwnPasses
  /\ Queued \cap InPass = {}
  /\ dirty \subseteq InPass

(* A pass only cleans up for an object that is being deleted.              *)
Stage(w) ==
  /\ pass[w].pc \in {"write", "clean"} => pass[w].i \in 1..Parts
  /\ pass[w].pc \in {"reconnect", "clean"} => pass[w].lb \in deleting

Rest ==
  /\ deleting \subseteq LBs /\ gone \subseteq deleting /\ moved \subseteq LBs
  /\ host \in Devices \cup {None} /\ session \in Devices \cup {None}
  /\ delayed \subseteq LBs
  /\ envOps \in 0..MaxEnvOps /\ faults \in 0..MaxFaults /\ crashes \in 0..MaxCrashes

QueueInv == Types /\ Waiting /\ (\A w \in Workers : Stage(w)) /\ Rest

LEMMA OrderDistinct ==
  ASSUME NEW S, S \subseteq LBs, NEW s \in Orders(S)
  PROVE  /\ Distinct(s)
         /\ \A i \in DOMAIN s : s[i] \in S
<1>1. s \in [1..Cardinality(S) -> S]
  BY DEF Orders
<1> QED
  BY <1>1 DEF Orders, Distinct

(* A queue without repetitions is as long as the set of its members.       *)
LEMMA DistinctLength ==
  ASSUME Types, Distinct(queue)
  PROVE  Len(queue) = Cardinality(Queued)
<1>1. queue \in [1..Len(queue) -> Queued] /\ Len(queue) \in Nat /\ DOMAIN queue = 1..Len(queue)
  BY DEF Types, Queued
<1>2. queue \in Bijection(1..Len(queue), Queued)
  BY <1>1 DEF Bijection, Injection, Surjection, IsInjective, Distinct, Queued
<1>3. ExistsBijection(1..Len(queue), Queued)
  BY <1>2 DEF ExistsBijection
<1> QED
  BY <1>1, <1>3, FS_CountingElements

LEMMA SamePasses ==
  ASSUME \A v \in Workers : pass'[v].lb = pass[v].lb
  PROVE  InPass' = InPass /\ (OwnPasses => OwnPasses')
  BY DEF InPass, OwnPasses

(* Add never queues a request twice.                                       *)
LEMMA AddWaiting ==
  ASSUME Types, Waiting, NEW S, S \subseteq LBs, Add(S), UNCHANGED pass
  PROVE  Waiting'
<1> DEFINE new == S \ (InPass \cup Queued)
<1>1. PICK s \in Orders(new) : queue' = queue \o s
  BY DEF Add
<1>2. /\ s \in Seq(LBs) /\ queue \in Seq(LBs) /\ Distinct(s)
      /\ \A i \in DOMAIN s : s[i] \in new
  BY OrdersAreQueues, OrderDistinct DEF Types
<1>3. /\ DOMAIN queue' = 1..(Len(queue) + Len(s))
      /\ \A i \in DOMAIN queue' :
           \/ i \in DOMAIN queue /\ queue'[i] = queue[i]
           \/ i > Len(queue) /\ i - Len(queue) \in DOMAIN s /\ queue'[i] = s[i - Len(queue)]
  BY <1>1, <1>2
<1>4. Distinct(queue')
  <2> SUFFICES ASSUME NEW i \in DOMAIN queue', NEW j \in DOMAIN queue', queue'[i] = queue'[j]
               PROVE  i = j
    BY DEF Distinct
  <2>1. i \in Nat /\ j \in Nat /\ Len(queue) \in Nat
    BY <1>2, <1>3
  <2>2. CASE i \in DOMAIN queue /\ queue'[i] = queue[i] /\ j \in DOMAIN queue /\ queue'[j] = queue[j]
    BY <2>2 DEF Waiting, Distinct
  <2>3. CASE /\ i - Len(queue) \in DOMAIN s /\ queue'[i] = s[i - Len(queue)]
             /\ j - Len(queue) \in DOMAIN s /\ queue'[j] = s[j - Len(queue)]
    <3>1. i - Len(queue) = j - Len(queue)
      BY <1>2, <2>3 DEF Distinct
    <3> QED
      BY <2>1, <3>1
  <2>4. CASE /\ i \in DOMAIN queue /\ queue'[i] = queue[i]
             /\ j - Len(queue) \in DOMAIN s /\ queue'[j] = s[j - Len(queue)]
    BY <1>2, <2>4 DEF Queued
  <2>5. CASE /\ j \in DOMAIN queue /\ queue'[j] = queue[j]
             /\ i - Len(queue) \in DOMAIN s /\ queue'[i] = s[i - Len(queue)]
    BY <1>2, <2>5 DEF Queued
  <2> QED
    BY <1>3, <2>2, <2>3, <2>4, <2>5
<1>5. Queued' \subseteq Queued \cup new
  BY <1>2, <1>3 DEF Queued
<1>6. InPass' = InPass /\ OwnPasses'
  BY SamePasses DEF Waiting
<1> QED
  BY <1>4, <1>5, <1>6 DEF Waiting, Add

(* The end of a pass frees its request, and queues it if it came again.    *)
LEMMA DoneWaiting ==
  ASSUME Types, Waiting, NEW w \in Workers, pass[w].pc # "idle", Done(w)
  PROVE  Waiting'
<1> DEFINE lb == pass[w].lb
<1>1. lb \in LBs /\ lb # None /\ lb \in InPass
  <2>1. lb \in LBs
    BY Begun DEF Passes
  <2> QED
    BY <2>1, FleetConstants DEF InPass
<1>2. \A v \in Workers : pass'[v].lb = IF v = w THEN None ELSE pass[v].lb
  BY DEF Done, Types, NoPass
<1>3. OwnPasses'
  BY <1>2 DEF OwnPasses, Waiting
<1>4. InPass' = InPass \ {lb}
  BY <1>1, <1>2 DEF InPass, OwnPasses, Waiting
<1>5. CASE queue' = queue
  BY <1>3, <1>4, <1>5 DEF Waiting, Done, Queued
<1>6. CASE queue' = Append(queue, lb)
  <2>1. /\ queue \in Seq(LBs) /\ lb \notin Queued
    BY <1>1 DEF Types, Waiting
  <2>2. /\ DOMAIN queue' = DOMAIN queue \cup {Len(queue) + 1}
        /\ \A i \in DOMAIN queue : queue'[i] = queue[i]
        /\ queue'[Len(queue) + 1] = lb
    BY <1>1, <1>6, <2>1
  <2>3. Distinct(queue')
    BY <2>1, <2>2 DEF Distinct, Waiting, Queued
  <2>4. Queued' \subseteq Queued \cup {lb}
    BY <2>2 DEF Queued
  <2> QED
    BY <1>3, <1>4, <2>3, <2>4 DEF Waiting, Done
<1> QED
  BY <1>5, <1>6 DEF Done

(* A request that is taken leaves the queue.                               *)
LEMMA TakeWaiting ==
  ASSUME Types, Waiting, \A v \in Workers : Stage(v), NEW w \in Workers, Take(w)
  PROVE  Types' /\ Waiting' /\ \A v \in Workers : Stage(v)'
<1> DEFINE lb == Head(queue)
           new == [lb |-> lb, dev |-> dev[lb], pc |-> "create", i |-> 0]
<1>1. /\ pass[w].pc = "idle" /\ queue # <<>> /\ queue' = Tail(queue)
      /\ UNCHANGED <<object, config, dirty>>
      /\ pass' = IF lb \in gone THEN pass ELSE [pass EXCEPT ![w] = new]
  BY DEF Take, At
<1>2. queue \in Seq(LBs) /\ lb \in LBs /\ lb \in Queued /\ queue' \in Seq(LBs)
  BY <1>1 DEF Types, Queued
<1>3. /\ DOMAIN queue' = 1..(Len(queue) - 1) /\ Len(queue) \in Nat \ {0}
      /\ \A i \in DOMAIN queue' : i + 1 \in DOMAIN queue /\ queue'[i] = queue[i + 1]
  BY <1>1, <1>2
<1>4. Distinct(queue') /\ Queued' \subseteq Queued /\ lb \notin Queued'
  <2>1. Distinct(queue')
    BY <1>3 DEF Distinct, Waiting
  <2>2. Queued' \subseteq Queued
    BY <1>3 DEF Queued
  <2>3. ASSUME NEW i \in DOMAIN queue' PROVE queue'[i] # lb
    <3>1. 1 \in DOMAIN queue /\ lb = queue[1] /\ i + 1 # 1
      BY <1>1, <1>2, <1>3
    <3> QED
      BY <1>3, <3>1 DEF Distinct, Waiting
  <2>4. lb \notin Queued'
    BY <2>3 DEF Queued
  <2> QED
    BY <2>1, <2>2, <2>4
<1>5. pass[w] = NoPass
  BY <1>1 DEF Types, Passes
<1>6. CASE lb \in gone
  BY <1>1, <1>2, <1>4, <1>6 DEF Waiting, OwnPasses, InPass, Types, Stage, object
<1>7. CASE lb \notin gone
  <2>1. new \in Passes
    BY <1>2, FleetConstants DEF Types, Passes
  <2>2. Types'
    BY <1>1, <1>2, <1>7, <2>1 DEF Types, object
  <2>3. \A v \in Workers : pass'[v] = IF v = w THEN new ELSE pass[v]
    BY <1>1, <1>7 DEF Types
  <2>4. lb \notin InPass
    BY <1>2 DEF Waiting
  <2>5. OwnPasses'
    BY <2>3, <2>4 DEF OwnPasses, InPass, Waiting
  <2>6. InPass \subseteq InPass' /\ InPass' \subseteq InPass \cup {lb}
    BY <1>5, <2>3 DEF InPass, NoPass
  <2>7. Waiting'
    BY <1>1, <1>4, <2>5, <2>6 DEF Waiting
  <2>8. ASSUME NEW v \in Workers, Stage(v) PROVE Stage(v)'
    BY <1>1, <2>3, <2>8 DEF Stage, object
  <2> QED
    BY <2>2, <2>7, <2>8
<1> QED
  BY <1>6, <1>7

(* A step to the next part of a pass.                                      *)
LEMMA GoToWaiting ==
  ASSUME Types, Waiting, \A v \in Workers : Stage(v),
         NEW w \in Workers, pass[w].pc # "idle",
         NEW pc \in {"connect", "write", "status", "reconnect", "clean"}, NEW i \in 0..Parts,
         GoTo(w, pc, i), UNCHANGED <<queue, dirty, deleting>>,
         pc \in {"write", "clean"} => i \in 1..Parts,
         pc \in {"reconnect", "clean"} => pass[w].lb \in deleting
  PROVE  /\ pass' \in [Workers -> Passes \cup {NoPass}]
         /\ Waiting' /\ \A v \in Workers : Stage(v)'
<1>1. pass[w] \in Passes
  BY Begun
<1>2. /\ pass' = [pass EXCEPT ![w] = [pass[w] EXCEPT !.pc = pc, !.i = i]]
      /\ [pass[w] EXCEPT !.pc = pc, !.i = i] \in Passes
  BY <1>1 DEF GoTo, Types, Passes
<1>3. /\ \A v \in Workers : v # w => pass'[v] = pass[v]
      /\ pass'[w].lb = pass[w].lb /\ pass'[w].pc = pc /\ pass'[w].i = i
  BY <1>1, <1>2 DEF Types, Passes
<1>4. Waiting'
  BY <1>3, SamePasses DEF Waiting, Queued
<1>5. \A v \in Workers : Stage(v)'
  BY <1>3 DEF Stage
<1> QED
  BY <1>2, <1>4, <1>5 DEF Types

LEMMA DoneStage ==
  ASSUME Types, \A v \in Workers : Stage(v), NEW w \in Workers, Done(w), UNCHANGED deleting
  PROVE  \A v \in Workers : Stage(v)'
  BY DEF Done, Stage, Types, NoPass

LEMMA QueueStep ==
  ASSUME QueueInv, [Next]_vars
  PROVE  QueueInv'
<1> USE DEF QueueInv
<1>1. ASSUME NEW w \in Workers, Take(w) PROVE QueueInv'
  <2>1. Types' /\ Waiting' /\ \A v \in Workers : Stage(v)'
    BY <1>1, TakeWaiting
  <2> QED
    BY <1>1, <2>1 DEF Take, Rest, object, provider, bounds
<1>2. ASSUME NEW w \in Workers, CreateBackend(w) PROVE QueueInv'
  <2>1. /\ pass[w].pc = "create" /\ host' = pass[w].dev /\ GoTo(w, "connect", 0)
        /\ UNCHANGED <<object, session, config, requests, bounds>>
    BY <1>2 DEF CreateBackend, At
  <2>2. pass[w].dev \in Devices /\ 0 \in 0..Parts
    BY <2>1, Begun, FleetConstants DEF Passes
  <2>3. pass' \in [Workers -> Passes \cup {NoPass}] /\ Waiting' /\ \A v \in Workers : Stage(v)'
    BY <2>1, <2>2, GoToWaiting DEF object, requests
  <2> QED
    BY <2>1, <2>2, <2>3 DEF Types, Rest, object, requests, bounds
<1>3. ASSUME NEW w \in Workers, Connect(w) PROVE QueueInv'
  <2>1. /\ session' = host /\ UNCHANGED <<object, host, config, requests, bounds>>
        /\ \/ pass[w].pc = "connect" /\ GoTo(w, "write", 1)
           \/ pass[w].pc = "reconnect" /\ GoTo(w, "clean", Parts)
    BY <1>3 DEF Connect, At
  <2>2. 1 \in 1..Parts /\ Parts \in 1..Parts /\ 1..Parts \subseteq 0..Parts
    BY FleetConstants
  <2>3. pass' \in [Workers -> Passes \cup {NoPass}] /\ Waiting' /\ \A v \in Workers : Stage(v)'
    <3>1. CASE pass[w].pc = "connect" /\ GoTo(w, "write", 1)
      BY <2>1, <2>2, <3>1, GoToWaiting DEF object, requests
    <3>2. CASE pass[w].pc = "reconnect" /\ GoTo(w, "clean", Parts)
      BY <2>1, <2>2, <3>2, GoToWaiting DEF object, requests, Stage
    <3> QED
      BY <2>1, <3>1, <3>2
  <2> QED
    BY <2>1, <2>3 DEF Types, Rest, object, requests, bounds
<1>4. ASSUME NEW w \in Workers, Configure(w) PROVE QueueInv'
  <2>1. /\ pass[w].pc = "write"
        /\ config' = [config EXCEPT ![session] = Others(w) \cup {Mine(w)}]
        /\ UNCHANGED <<object, provider, requests, bounds>>
        /\ IF pass[w].i < Parts THEN GoTo(w, "write", pass[w].i + 1) ELSE GoTo(w, "status", 0)
    BY <1>4 DEF Configure, At
  <2>2. pass[w] \in Passes /\ pass[w].i \in 1..Parts
    BY <2>1, Begun DEF Stage
  <2>3. config' \in [Devices -> SUBSET Objects]
    <3>1. Mine(w) \in Objects
      BY <2>2, FleetConstants DEF Mine, Objects, Passes
    <3>2. session \in Devices => Others(w) \subseteq Objects
      BY DEF Others, Types
    <3> QED
      BY <2>1, <3>1, <3>2 DEF Types
  <2>4. pass' \in [Workers -> Passes \cup {NoPass}] /\ Waiting' /\ \A v \in Workers : Stage(v)'
    <3>1. CASE pass[w].i < Parts
      <4>1. pass[w].i + 1 \in 1..Parts /\ pass[w].i + 1 \in 0..Parts
        BY <2>2, <3>1, FleetConstants
      <4> QED
        BY <2>1, <3>1, <4>1, GoToWaiting DEF object, requests
    <3>2. CASE ~(pass[w].i < Parts)
      <4>1. 0 \in 0..Parts
        BY FleetConstants
      <4> QED
        BY <2>1, <3>2, <4>1, GoToWaiting DEF object, requests
    <3> QED
      BY <3>1, <3>2
  <2> QED
    BY <2>1, <2>3, <2>4 DEF Types, Rest, object, provider, requests, bounds
<1>5. ASSUME NEW w \in Workers, WriteStatus(w) PROVE QueueInv'
  <2>1. pass[w].pc = "status" /\ UNCHANGED <<object, provider, config, delayed, bounds>>
    BY <1>5 DEF WriteStatus, At
  <2>2. CASE pass[w].lb \in deleting
    <3>1. GoTo(w, "reconnect", 0) /\ UNCHANGED <<queue, dirty>> /\ 0 \in 0..Parts
      BY <1>5, <2>2, FleetConstants DEF WriteStatus
    <3>2. pass' \in [Workers -> Passes \cup {NoPass}] /\ Waiting' /\ \A v \in Workers : Stage(v)'
      BY <2>1, <2>2, <3>1, GoToWaiting DEF object
    <3> QED
      BY <2>1, <3>1, <3>2 DEF Types, Rest, object, provider, bounds
  <2>3. CASE pass[w].lb \notin deleting
    <3>1. Done(w)
      BY <1>5, <2>3 DEF WriteStatus
    <3>2. queue' \in Seq(LBs) /\ pass' \in [Workers -> Passes \cup {NoPass}]
      BY <2>1, <3>1, DoneKeepsTypes
    <3>3. Waiting' /\ \A v \in Workers : Stage(v)'
      BY <2>1, <3>1, DoneWaiting, DoneStage DEF object
    <3> QED
      BY <2>1, <3>2, <3>3 DEF Types, Rest, object, provider, bounds
  <2> QED
    BY <2>2, <2>3
<1>6. ASSUME NEW w \in Workers, Cleanup(w) PROVE QueueInv'
  <2>1. /\ pass[w].pc = "clean"
        /\ config' = [config EXCEPT ![session] = Others(w)]
        /\ UNCHANGED <<dev, deleting, moved, provider, delayed, bounds>>
    BY <1>6 DEF Cleanup, At
  <2>2. pass[w] \in Passes /\ pass[w].i \in 1..Parts /\ pass[w].lb \in deleting
    BY <2>1, Begun DEF Stage
  <2>3. config' \in [Devices -> SUBSET Objects]
    <3>1. session \in Devices => Others(w) \subseteq Objects
      BY DEF Others, Types
    <3> QED
      BY <2>1, <3>1 DEF Types
  <2>4. CASE pass[w].i > 1
    <3>1. GoTo(w, "clean", pass[w].i - 1) /\ UNCHANGED <<gone, queue, dirty>>
      BY <1>6, <2>4 DEF Cleanup
    <3>2. pass[w].i - 1 \in 1..Parts /\ pass[w].i - 1 \in 0..Parts
      BY <2>2, <2>4, FleetConstants
    <3>3. pass' \in [Workers -> Passes \cup {NoPass}] /\ Waiting' /\ \A v \in Workers : Stage(v)'
      BY <2>1, <2>2, <3>1, <3>2, GoToWaiting
    <3> QED
      BY <2>1, <2>3, <3>1, <3>3 DEF Types, Rest, provider, bounds
  <2>5. CASE ~(pass[w].i > 1)
    <3>1. gone' = gone \cup {pass[w].lb} /\ Done(w)
      BY <1>6, <2>5 DEF Cleanup
    <3>2. queue' \in Seq(LBs) /\ pass' \in [Workers -> Passes \cup {NoPass}]
      BY <2>1, <3>1, DoneKeepsTypes
    <3>3. Waiting' /\ \A v \in Workers : Stage(v)'
      BY <2>1, <3>1, DoneWaiting, DoneStage
    <3> QED
      BY <2>1, <2>2, <2>3, <3>1, <3>2, <3>3 DEF Types, Rest, provider, bounds
  <2> QED
    BY <2>4, <2>5
<1>7. ASSUME NEW w \in Workers, Failure(w) PROVE QueueInv'
  <2>1. /\ pass[w].pc # "idle" /\ Done(w) /\ delayed' = delayed \cup {pass[w].lb}
        /\ UNCHANGED <<object, provider, config, envOps, crashes>>
    BY <1>7 DEF Failure, Fail, At
  <2>2. pass[w].lb \in LBs
    BY <2>1, Begun DEF Passes
  <2>3. faults' \in 0..MaxFaults
    BY <1>7, FleetConstants DEF Failure, Rest
  <2>4. queue' \in Seq(LBs) /\ pass' \in [Workers -> Passes \cup {NoPass}]
    BY <2>1, DoneKeepsTypes
  <2>5. Waiting' /\ \A v \in Workers : Stage(v)'
    BY <2>1, DoneWaiting, DoneStage DEF object
  <2> QED
    BY <2>1, <2>2, <2>3, <2>4, <2>5 DEF Types, Rest, object, provider
<1>8. ASSUME NEW lb \in LBs, Retry(lb) \/ UserDelete(lb) \/ UserMove(lb) PROVE QueueInv'
  <2>1. Add({lb}) /\ UNCHANGED <<gone, provider, config, pass>>
    BY <1>8 DEF Retry, UserDelete, UserMove, EnvOp, object
  <2>2. /\ dev' \in [LBs -> Devices] /\ deleting \subseteq deleting' /\ deleting' \subseteq LBs
        /\ moved' \subseteq LBs /\ delayed' \subseteq LBs /\ UNCHANGED <<faults, crashes>>
    BY <1>8 DEF Retry, UserDelete, UserMove, EnvOp, Types, Rest, object, bounds
  <2>3. envOps' \in 0..MaxEnvOps
    BY <1>8, FleetConstants DEF Retry, UserDelete, UserMove, EnvOp, Rest, bounds
  <2>4. queue' \in Seq(LBs) /\ Waiting'
    BY <2>1, AddKeepsTypes, AddWaiting
  <2>5. \A v \in Workers : Stage(v)'
    BY <2>1, <2>2 DEF Stage
  <2> QED
    BY <2>1, <2>2, <2>3, <2>4, <2>5 DEF Types, Rest, provider
<1>9. CASE Crash
  <2>1. /\ pass' = [w \in Workers |-> NoPass] /\ host' = None /\ session' = None
        /\ dirty' = {} /\ delayed' = {} /\ queue' \in Orders(LBs \ gone)
        /\ UNCHANGED <<object, config, envOps, faults>>
    BY <1>9 DEF Crash
  <2>2. crashes' \in 0..MaxCrashes
    BY <1>9, FleetConstants DEF Crash, Rest
  <2>3. queue' \in Seq(LBs) /\ Distinct(queue')
    BY <2>1, OrdersAreQueues, OrderDistinct
  <2>4. InPass' = {} /\ OwnPasses'
    BY <2>1 DEF InPass, OwnPasses, NoPass
  <2>5. \A v \in Workers : Stage(v)'
    BY <2>1 DEF Stage, NoPass
  <2> QED
    BY <2>1, <2>2, <2>3, <2>4, <2>5 DEF Types, Waiting, Rest, object
<1>10. CASE UNCHANGED vars
  BY <1>10
  DEF vars, object, provider, requests, bounds, Types, Waiting, OwnPasses, InPass, Queued, Stage,
      Rest
<1> QED
  BY <1>1, <1>2, <1>3, <1>4, <1>5, <1>6, <1>7, <1>8, <1>9, <1>10 DEF Next, Worker

(* With any number of workers, load balancers and devices: a request waits *)
(* in the queue at most once and not while it is being handled, no two     *)
(* workers handle the same load balancer, and only objects being deleted   *)
(* are finalized, through failures, retries and restarts.                  *)
THEOREM FleetTypeCorrect == Spec => []TypeOK
<1>1. Init => QueueInv
  <2> SUFFICES ASSUME Init PROVE QueueInv
    OBVIOUS
  <2>1. queue \in Seq(LBs) /\ Distinct(queue)
    BY OrdersAreQueues, OrderDistinct DEF Init
  <2>2. Types
    BY <2>1 DEF Init, Types
  <2>3. Waiting
    BY <2>1 DEF Init, Waiting, OwnPasses, InPass, NoPass
  <2>4. \A w \in Workers : Stage(w)
    BY DEF Init, Stage, NoPass
  <2>5. Rest
    BY FleetConstants DEF Init, Rest
  <2> QED
    BY <2>2, <2>3, <2>4, <2>5 DEF QueueInv
<1>2. QueueInv /\ [Next]_vars => QueueInv'
  BY QueueStep
<1>3. QueueInv => TypeOK
  <2> SUFFICES ASSUME QueueInv PROVE TypeOK
    OBVIOUS
  <2>1. Len(queue) = Cardinality(Queued)
    BY DistinctLength DEF QueueInv, Waiting
  <2>2. \A v, w \in Workers : pass[v].lb = pass[w].lb /\ v # w => pass[v] = NoPass
    BY FleetConstants DEF QueueInv, Waiting, OwnPasses, Types, Passes
  <2> QED
    BY <2>1, <2>2 DEF QueueInv, Types, Waiting, Rest, TypeOK
<1> QED
  BY <1>1, <1>2, <1>3, PTL DEF Spec
=============================================================================
