---------------------------- MODULE VendorProofs ----------------------------
(***************************************************************************)
(* The providers that work request by request, for any ports, nodes and    *)
(* specs: every variable keeps its type, a Citrix ADC is never left with a *)
(* configuration it would lose at its next reboot, and on the ADC and on   *)
(* the BIG-IP the Handle operations keep the contract of the backend.      *)
(***************************************************************************)
EXTENDS Vendors, FiniteSetTheorems, FunctionTheorems, WellFoundedInduction, TLAPS

----------------------------------------------------------------------------
(* Lists.  The library states induction for an operator, which the provers *)
(* cannot instantiate; for a set of numbers it follows from the            *)
(* well-foundedness of <.                                                  *)
LEMMA Induct ==
  ASSUME NEW S \in SUBSET Nat, 0 \in S, \A n \in S : n + 1 \in S
  PROVE  S = Nat
PROOF
<1>1. SUFFICES ASSUME Nat \ S # {} PROVE FALSE
  OBVIOUS
<1> DEFINE R == OpToRel(<, Nat)
<1>2. IsWellFoundedOn(R, Nat)
  BY NatLessThanWellFounded
<1>3. \A x, y \in Nat : x < y => <<x, y>> \in R
  BY DEF OpToRel
<1> HIDE DEF R
<1>4. PICK x \in Nat \ S : \A y \in Nat \ S : ~(<<y, x>> \in R)
  BY <1>1, <1>2, WFMin
<1>5. x # 0 /\ x - 1 \in Nat /\ x - 1 < x /\ (x - 1) + 1 = x
  OBVIOUS
<1>6. x - 1 \in S
  BY <1>3, <1>4, <1>5
<1>7. QED BY <1>4, <1>5, <1>6

(* f is what FlattenSeq computes recursively: f[i] joins the first i       *)
(* sequences.                                                              *)
Flat(ss, f) ==
  f = [i \in 1..Len(ss) |-> IF i = 1 THEN ss[i] ELSE f[i - 1] \o ss[i]]

(* The function that Flat describes exists.                                *)
LEMMA FlatExists ==
  ASSUME NEW S, NEW ss \in Seq(Seq(S))
  PROVE  \E f \in [1..Len(ss) -> Seq(S)] : Flat(ss, f)
PROOF
<1> DEFINE F(n, f) == \A i \in 1..n : f[i] = IF i = 1 THEN ss[i] ELSE f[i - 1] \o ss[i]
           N == {n \in Nat : n <= Len(ss) => \E f \in [1..n -> Seq(S)] : F(n, f)}
<1>1. 0 \in N
  <2>1. [i \in 1..0 |-> <<>>] \in [1..0 -> Seq(S)] /\ F(0, [i \in 1..0 |-> <<>>])
    OBVIOUS
  <2>2. QED BY <2>1
<1>2. ASSUME NEW n \in N PROVE n + 1 \in N
  <2>0. n \in Nat /\ Len(ss) \in Nat
    OBVIOUS
  <2>1. SUFFICES ASSUME n + 1 <= Len(ss) PROVE \E f \in [1..n + 1 -> Seq(S)] : F(n + 1, f)
    BY <2>0
  <2>2. PICK f \in [1..n -> Seq(S)] : F(n, f)
    BY <2>1
  <2> DEFINE v == IF n = 0 THEN ss[1] ELSE f[n] \o ss[n + 1]
             g == [i \in 1..n + 1 |-> IF i = n + 1 THEN v ELSE f[i]]
  <2>3. ss[n + 1] \in Seq(S) /\ v \in Seq(S)
    <3>1. n + 1 \in 1..Len(ss)
      BY <2>1
    <3>2. ss[n + 1] \in Seq(S)
      BY <3>1
    <3>3. CASE n = 0
      BY <3>2, <3>3
    <3>4. CASE n # 0
      <4>1. f[n] \in Seq(S)
        BY <3>4
      <4>2. QED BY <3>2, <3>4, <4>1
    <3>5. QED BY <3>2, <3>3, <3>4
  <2> HIDE DEF v
  <2>4. g \in [1..n + 1 -> Seq(S)]
    BY <2>3
  <2>5. F(n + 1, g)
    <3>1. ASSUME NEW i \in 1..n + 1
          PROVE  g[i] = IF i = 1 THEN ss[i] ELSE g[i - 1] \o ss[i]
      <4>1. CASE i = n + 1
        BY <4>1 DEF v
      <4>2. CASE i # n + 1
        <5>1. i \in 1..n /\ g[i] = f[i]
          BY <4>2
        <5>2. i # 1 => i - 1 \in 1..n /\ g[i - 1] = f[i - 1]
          BY <5>1
        <5>3. QED BY <2>2, <5>1, <5>2
      <4>3. QED BY <4>1, <4>2
    <3>2. QED BY <3>1
  <2>6. QED BY <2>4, <2>5
<1>3. N = Nat
  <2>1. N \in SUBSET Nat
    OBVIOUS
  <2> HIDE DEF N
  <2>2. QED BY <1>1, <1>2, <2>1, Induct
<1>4. Len(ss) \in N
  <2>1. Len(ss) \in Nat
    OBVIOUS
  <2> HIDE DEF N
  <2>2. QED BY <1>3, <2>1
<1>5. PICK f \in [1..Len(ss) -> Seq(S)] : F(Len(ss), f)
  BY <1>4
<1>6. Flat(ss, f)
  BY <1>5 DEF Flat
<1>7. QED BY <1>6

(* FlattenSeq of lists over S is a list over S.                            *)
LEMMA FlatType ==
  ASSUME NEW S, NEW ss \in Seq(Seq(S)), NEW f, Flat(ss, f)
  PROVE  \A i \in 1..Len(ss) : f[i] \in Seq(S)
PROOF
<1> DEFINE N == {n \in Nat : n \in 1..Len(ss) => f[n] \in Seq(S)}
<1>1. 0 \in N
  OBVIOUS
<1>2. ASSUME NEW n \in N PROVE n + 1 \in N
  <2>1. SUFFICES ASSUME n + 1 \in 1..Len(ss) PROVE f[n + 1] \in Seq(S)
    OBVIOUS
  <2>2. f[n + 1] = IF n + 1 = 1 THEN ss[n + 1] ELSE f[n] \o ss[n + 1]
    <3>1. \A i \in 1..Len(ss) : f[i] = IF i = 1 THEN ss[i] ELSE f[i - 1] \o ss[i]
      BY DEF Flat
    <3>2. n \in Nat /\ (n + 1) - 1 = n
      OBVIOUS
    <3>3. QED BY <2>1, <3>1, <3>2
  <2>3. ss[n + 1] \in Seq(S)
    BY <2>1
  <2>4. n # 0 => f[n] \in Seq(S)
    BY <2>1
  <2>5. QED BY <2>2, <2>3, <2>4
<1>3. N = Nat
  <2>1. N \in SUBSET Nat
    OBVIOUS
  <2> HIDE DEF N
  <2>2. QED BY <1>1, <1>2, <2>1, Induct
<1>4. QED BY <1>3

(* Joining sequences over S gives a sequence over S.                       *)
LEMMA FlattenType ==
  ASSUME NEW S, NEW ss \in Seq(Seq(S))
  PROVE  FlattenSeq(ss) \in Seq(S)
PROOF
<1>1. CASE Len(ss) = 0
  BY <1>1 DEF FlattenSeq
<1>2. CASE Len(ss) # 0
  <2> DEFINE f == CHOOSE g : g = [i \in 1..Len(ss) |-> IF i = 1 THEN ss[i] ELSE g[i - 1] \o ss[i]]
  <2>1. Flat(ss, f)
    <3>1. \E g : Flat(ss, g)
      BY FlatExists
    <3>2. QED BY <3>1, Zenon DEF Flat
  <2>2. f[Len(ss)] \in Seq(S)
    BY <1>2, <2>1, FlatType
  <2>3. FlattenSeq(ss) = f[Len(ss)]
    BY <1>2 DEF FlattenSeq
  <2>4. QED BY <2>2, <2>3
<1>3. QED BY <1>1, <1>2

(* SetToSeq lists a finite set: it has all its elements and no others.     *)
LEMMA Listing ==
  ASSUME NEW S, IsFiniteSet(S)
  PROVE  /\ SetToSeq(S) \in Seq(S)
         /\ S = {SetToSeq(S)[i] : i \in DOMAIN SetToSeq(S)}
PROOF
<1> DEFINE n == Cardinality(S)
<1>1. n \in Nat /\ ExistsBijection(1..n, S)
  BY FS_CardinalityType
<1> HIDE DEF n
<1>2. PICK g : g \in Bijection(1..n, S)
  BY <1>1 DEF ExistsBijection
<1>3. g \in [1..n -> S] /\ IsInjective(g)
  BY <1>2 DEF Bijection, Injection, IsInjective
<1>4. /\ SetToSeq(S) \in [1..n -> S]
      /\ IsInjective(SetToSeq(S))
  BY <1>3 DEF SetToSeq, n
<1>5. SetToSeq(S) \in Injection(1..n, S)
  BY <1>4 DEF Injection, IsInjective
<1>6. IsFiniteSet(1..n) /\ Cardinality(1..n) = n
  BY <1>1, FS_Interval
<1>7. SetToSeq(S) \in Surjection(1..n, S)
  BY <1>5, <1>6, FS_Injection DEF n
<1>8. QED BY <1>1, <1>4, <1>7 DEF Surjection

----------------------------------------------------------------------------
(* Types.  The calls an operation may have left, and the shapes of the     *)
(* devices.                                                                *)
PlainCalls(ms, ps) == [m : ms, port : ps, host : {None}, bound : BOOLEAN]
HostCalls(ms, ps) == [m : ms, port : ps, host : Hosts, bound : BOOLEAN]

CallsFor(o) ==
  CASE o.op = "monitor" -> PlainCalls({"GetMonitor", "CreateMonitor", "EditMonitor"}, {None})
    [] o.op = "pool" ->
         PlainCalls({"GetPool", "CreatePool", "EditPool", "GetPoolMembers"}, {o.port})
           \cup HostCalls({"CreatePoolMember", "DeletePoolMember"}, {o.port})
    [] o.op = "vip" -> PlainCalls({"GetVIP", "CreateVIP", "EditVIP"}, {o.port})
    [] o.op = "cleanup" ->
         PlainCalls({"DeleteVIP", "DeletePool"}, Ports)
           \cup HostCalls({"DeletePoolMember"}, Ports)
           \cup PlainCalls({"DeleteMonitor"}, {None})

ADCs ==
  [mon : Monitors \cup {None}, groups : SUBSET Ports, monBound : SUBSET Ports,
   members : [Ports -> SUBSET Hosts], servers : SUBSET Hosts,
   vservers : [Ports -> [ip : IPs, method : Methods] \cup {None}],
   groupBound : SUBSET Ports]

BIGIPs ==
  [mons : [Types -> Monitors \cup {None}], pools : SUBSET Ports, monitored : SUBSET Ports,
   method : [Ports -> Methods \cup {None}], members : [Ports -> SUBSET Hosts],
   nodes : SUBSET Hosts, virtuals : [Ports -> IPs \cup {None}]]

(* Handle operations run in the two working parts of a pass only.          *)
Working == {"configure", "cleanup"}

Phases ==
  /\ pc \in {"idle", "configure", "close", "status", "cleanup", "closeCleanup", "rmFinalizer"}
  /\ op # None \/ ops # <<>> => pc \in Working
  /\ gone => pc = "idle"

(* A pass works for a spec; an operation has only calls of its kind left,  *)
(* and HandleMonitors one at a time.                                       *)
FrameOK ==
  /\ pc # "idle" => goal \in Specs
  /\ op = None => todo = <<>> /\ at = 0 /\ ~failed
  /\ op # None => todo \in Seq(CallsFor(op))
  /\ op # None /\ op.op \in {"monitor", "vip"} => Len(todo) <= 1
  /\ failed => todo = <<>>
  /\ todo = <<>> => at = 0

ClientInv == ClientTypeOK /\ Phases /\ FrameOK

(* The F5's EditMonitor is called for a monitor that is there.             *)
EditsFound ==
  vendor = "F5_BigIP" /\ todo # <<>> /\ Head(todo).m = "EditMonitor" =>
    f5.mons[op.monitor.type] # None

VendorInv ==
  /\ ClientInv
  /\ adc \in ADCs /\ unsaved \in BOOLEAN /\ f5 \in BIGIPs
  /\ EditsFound

LEMMA SpecFields ==
  /\ \A s \in Specs : s.monitor \in Monitors /\ s.ip \in IPs /\ s.method \in Methods
  /\ SpecMonitors \subseteq Monitors
  BY PassConstants DEF SpecMonitors

LEMMA MonitorType ==
  ASSUME NEW m \in Monitors
  PROVE  /\ m.type \in Types
         /\ \A n \in Monitors : /\ [m EXCEPT !.type = n.type] \in Monitors
                                /\ [m EXCEPT !.path = n.path] \in Monitors
  BY MonitorFields DEF Types

LEMMA OpKinds ==
  ASSUME NEW o \in Operations
  PROVE  /\ o.op \in {"monitor", "pool", "vip", "cleanup"}
         /\ o.op = "monitor" => o.monitor \in SpecMonitors
         /\ o.op = "pool" => o.port \in Ports /\ o.want \in SUBSET Hosts
         /\ o.op = "vip" => o.port \in Ports /\ o.ip \in IPs
         /\ o.op = "cleanup" => o.status.monitor \in SpecMonitors /\ o.status.handled = PortList
  BY DEF Operations

(* A call tells which operation made it, and that one names its port.      *)
LEMMA CallKinds ==
  ASSUME NEW o \in Operations, NEW c \in CallsFor(o)
  PROVE  /\ c \in Calls
         /\ c.m \in {"GetMonitor", "CreateMonitor", "EditMonitor"} => o.op = "monitor"
         /\ c.m \in {"GetPool", "CreatePool", "EditPool", "GetPoolMembers",
                     "CreatePoolMember"} => o.op = "pool" /\ c.port = o.port
         /\ c.m = "CreatePoolMember" => c.host \in Hosts
         /\ c.m = "DeletePoolMember" =>
              /\ o.op \in {"pool", "cleanup"} /\ c.port \in Ports /\ c.host \in Hosts
              /\ o.op = "pool" => c.port = o.port
         /\ c.m \in {"GetVIP", "CreateVIP", "EditVIP"} => o.op = "vip" /\ c.port = o.port
         /\ c.m \in {"DeleteVIP", "DeletePool"} => o.op = "cleanup" /\ c.port \in Ports
         /\ c.m = "DeleteMonitor" => o.op = "cleanup"
PROOF
<1>1. CASE o.op = "monitor"
  BY <1>1 DEF CallsFor, PlainCalls, Calls
<1>2. CASE o.op = "pool"
  BY <1>2, OpKinds DEF CallsFor, PlainCalls, HostCalls, Calls
<1>3. CASE o.op = "vip"
  BY <1>3, OpKinds DEF CallsFor, PlainCalls, Calls
<1>4. CASE o.op = "cleanup"
  BY <1>4 DEF CallsFor, PlainCalls, HostCalls, Calls
<1>5. QED BY <1>1, <1>2, <1>3, <1>4, OpKinds

LEMMA ListIsSeq ==
  ASSUME NEW S, NEW n \in Nat, NEW f \in [1..n -> S]
  PROVE  f \in Seq(S)
  OBVIOUS

LEMMA MemberCallsList ==
  ASSUME NEW m, NEW p, NEW S \in SUBSET Hosts
  PROVE  MemberCalls(m, p, S) \in Seq(HostCalls({m}, {p}))
PROOF
<1> DEFINE hs == SetToSeq(S)
<1>1. IsFiniteSet(S)
  BY PassConstants, FS_Subset
<1>2. hs \in Seq(S)
  BY <1>1, Listing
<1>3. MemberCalls(m, p, S) = [i \in DOMAIN hs |-> Call(m, p, hs[i])]
  BY DEF MemberCalls
<1> HIDE DEF hs
<1>4. \A i \in DOMAIN hs : Call(m, p, hs[i]) \in HostCalls({m}, {p})
  BY <1>2 DEF Call, HostCalls
<1>5. Len(hs) \in Nat /\ DOMAIN hs = 1..Len(hs)
  BY <1>2
<1>6. MemberCalls(m, p, S) \in [1..Len(hs) -> HostCalls({m}, {p})]
  BY <1>3, <1>4, <1>5
<1>7. QED BY <1>5, <1>6, ListIsSeq

LEMMA SeqSubset ==
  ASSUME NEW S, NEW T, S \subseteq T, NEW s \in Seq(S)
  PROVE  s \in Seq(T)
  OBVIOUS

LEMMA MemberListsType ==
  ASSUME want \in SUBSET Hosts
  PROVE  FlattenSeq([i \in DOMAIN PortList |->
                       MemberCalls("DeletePoolMember", PortList[i], want)])
           \in Seq(HostCalls({"DeletePoolMember"}, Ports))
PROOF
<1> DEFINE D == HostCalls({"DeletePoolMember"}, Ports)
           lists == [i \in DOMAIN PortList |->
                       MemberCalls("DeletePoolMember", PortList[i], want)]
<1>1. ASSUME NEW i \in DOMAIN PortList
      PROVE  MemberCalls("DeletePoolMember", PortList[i], want) \in Seq(D)
  <2>1. PortList[i] \in Ports
    BY PassConstants
  <2>2. HostCalls({"DeletePoolMember"}, {PortList[i]}) \subseteq D
    BY <2>1 DEF HostCalls
  <2> DEFINE s == MemberCalls("DeletePoolMember", PortList[i], want)
             H == HostCalls({"DeletePoolMember"}, {PortList[i]})
  <2>3. s \in Seq(H)
    BY MemberCallsList
  <2> HIDE DEF s, H, D
  <2>4. s \in Seq(D)
    BY <2>2, <2>3 DEF H
  <2>5. QED BY <2>4 DEF s
<1>2. lists \in Seq(Seq(D))
  BY <1>1, PassConstants
<1>3. QED BY <1>2, FlattenType

(* HandleCleanup makes only the calls of a cleanup.                        *)
LEMMA CleanupCallsType ==
  ASSUME NEW o, o.op = "cleanup", want \in SUBSET Hosts
  PROVE  /\ CleanupCalls \in Seq(CallsFor(o))
         /\ CleanupCalls # <<>>
PROOF
<1> DEFINE D == HostCalls({"DeletePoolMember"}, Ports)
           OnPorts(m) == [i \in DOMAIN PortList |-> Call(m, PortList[i], None)]
           lists == [i \in DOMAIN PortList |->
                       MemberCalls("DeletePoolMember", PortList[i], want)]
<1>1. FlattenSeq(lists) \in Seq(D)
  BY MemberListsType
<1>2. FlattenSeq(lists) \in Seq(CallsFor(o))
  <2>1. D \subseteq CallsFor(o)
    BY DEF CallsFor
  <2> HIDE DEF D
  <2>2. QED BY <1>1, <2>1, SeqSubset
<1>3. OnPorts("DeleteVIP") \in Seq(CallsFor(o)) /\ OnPorts("DeletePool") \in Seq(CallsFor(o))
  <2>1. Len(PortList) \in Nat /\ DOMAIN PortList = 1..Len(PortList)
    BY PassConstants
  <2>2. \A i \in DOMAIN PortList : \A m \in {"DeleteVIP", "DeletePool"} :
          Call(m, PortList[i], None) \in CallsFor(o)
    BY PassConstants DEF CallsFor, PlainCalls, Call
  <2>3. \A m \in {"DeleteVIP", "DeletePool"} : OnPorts(m) \in [1..Len(PortList) -> CallsFor(o)]
    BY <2>1, <2>2
  <2> HIDE DEF OnPorts
  <2>4. QED BY <2>1, <2>3
<1>4. <<Call("DeleteMonitor", None, None)>> \in Seq(CallsFor(o))
  BY DEF CallsFor, PlainCalls, Call
<1>5. CleanupCalls = OnPorts("DeleteVIP") \o FlattenSeq(lists) \o OnPorts("DeletePool")
                       \o <<Call("DeleteMonitor", None, None)>>
  BY DEF CleanupCalls
<1> HIDE DEF OnPorts, lists, D
<1>6. QED BY <1>2, <1>3, <1>4, <1>5

LEMMA FirstCallsType ==
  ASSUME NEW o \in Operations, want \in SUBSET Hosts
  PROVE  /\ FirstCalls(o) \in Seq(CallsFor(o))
         /\ FirstCalls(o) # <<>>
         /\ o.op # "cleanup" => Len(FirstCalls(o)) = 1
PROOF
<1>1. CASE o.op = "monitor"
  BY <1>1 DEF FirstCalls, CallsFor, PlainCalls, Call
<1>2. CASE o.op = "pool"
  BY <1>2 DEF FirstCalls, CallsFor, PlainCalls, Call
<1>3. CASE o.op = "vip"
  BY <1>3 DEF FirstCalls, CallsFor, PlainCalls, Call
<1>4. CASE o.op = "cleanup"
  <2>1. FirstCalls(o) = CleanupCalls
    BY <1>4 DEF FirstCalls
  <2>2. QED BY <1>4, <2>1, CleanupCallsType
<1>5. QED BY <1>1, <1>2, <1>3, <1>4, OpKinds

(* What a request of the method under way leaves of its operation.         *)
Answered ==
  /\ todo' \in Seq(CallsFor(op))
  /\ failed' = FALSE \/ (failed' = TRUE /\ todo' = <<>>)
  /\ at' \in 0..2 /\ faults' \in 0..MaxFaults
  /\ op.op \in {"monitor", "vip"} => Len(todo') <= 1
  /\ todo' = <<>> => at' = 0

(* A call is under way.                                                    *)
Calling == op \in Operations /\ failed = FALSE /\ todo # <<>> /\ Head(todo) \in CallsFor(op)

(* A method that runs is the next call of the operation under way.         *)
LEMMA RunningCalls ==
  ASSUME ClientInv, NEW m, Running(m)
  PROVE  Calling /\ Head(todo).m = m /\ pc # "idle"
  BY DEF ClientInv, ClientTypeOK, FrameOK, Phases, Working, Running, Calling

LEMMA FrameStep ==
  ASSUME ClientInv, Calling, UNCHANGED <<outside, pass>>, Answered
  PROVE  ClientInv'
PROOF
<1>1. op # None /\ op' = op
  BY NoneIsNothing DEF Calling, pass
<1>2. todo' \in Seq(Calls)
  <2>1. CallsFor(op) \subseteq Calls
    BY CallKinds DEF Calling
  <2>2. QED BY <2>1, SeqSubset DEF Answered
<1>3. ClientTypeOK'
  BY <1>2 DEF ClientInv, ClientTypeOK, Answered, outside, object, pass
<1>4. Phases'
  BY DEF ClientInv, Phases, Working, outside, object, pass
<1>5. FrameOK'
  BY <1>1 DEF ClientInv, FrameOK, Answered, outside, object, pass
<1>6. QED BY <1>3, <1>4, <1>5 DEF ClientInv

LEMMA Breaking ==
  ASSUME ClientInv, NEW request, UNCHANGED faults \/ Breaks(request)
  PROVE  faults' \in 0..MaxFaults
  BY PassConstants DEF ClientInv, ClientTypeOK, Breaks

(* An error ends the operation, or skips a member of a cleanup.            *)
LEMMA Failing ==
  ASSUME ClientInv, Calling, Fail, faults' \in 0..MaxFaults
  PROVE  Answered
PROOF
<1>1. todo \in Seq(CallsFor(op)) /\ op.op \in {"monitor", "vip"} => Len(todo) <= 1
  BY NoneIsNothing DEF ClientInv, FrameOK, Calling
<1>2. Tail(todo) \in Seq(CallsFor(op)) /\ Len(Tail(todo)) = Len(todo) - 1
  BY NoneIsNothing DEF ClientInv, FrameOK, Calling
<1>3. CASE todo' = Tail(todo) /\ UNCHANGED failed /\ op.op = "cleanup"
  BY <1>2, <1>3 DEF Fail, Calling, Answered
<1>4. CASE todo' = <<>> /\ failed' = TRUE
  BY <1>4 DEF Fail, Calling, Answered
<1>5. QED BY <1>3, <1>4 DEF Fail

LEMMA Proceeding ==
  ASSUME ClientInv, Calling, Proceed, at \in 0..1, faults' \in 0..MaxFaults
  PROVE  Answered
  BY NoneIsNothing DEF ClientInv, FrameOK, Calling, Proceed, Answered

(* The next call is made; the calls an answer adds are the operation's own. *)
LEMMA Returning ==
  ASSUME ClientInv, Calling, NEW calls \in Seq(CallsFor(op)), Return(calls),
         op.op \in {"monitor", "vip"} => Len(calls) <= 1, faults' \in 0..MaxFaults
  PROVE  Answered
PROOF
<1>1. todo \in Seq(CallsFor(op)) /\ (op.op \in {"monitor", "vip"} => Len(todo) <= 1)
  BY NoneIsNothing DEF ClientInv, FrameOK, Calling
<1>2. Tail(todo) \in Seq(CallsFor(op)) /\ Len(Tail(todo)) = Len(todo) - 1
  BY <1>1 DEF Calling
<1>3. calls \o Tail(todo) \in Seq(CallsFor(op))
  BY <1>2
<1>4. Len(calls \o Tail(todo)) = Len(calls) + Len(Tail(todo))
  BY <1>2
<1>5. op.op \in {"monitor", "vip"} => Len(calls \o Tail(todo)) <= 1
  BY <1>1, <1>2, <1>4 DEF Calling
<1>6. QED BY <1>3, <1>5 DEF Return, Answered, Calling

LEMMA OneCall ==
  ASSUME NEW S, NEW c \in S
  PROVE  <<c>> \in Seq(S) /\ Len(<<c>>) = 1
  OBVIOUS

LEMMA ReturningNil ==
  ASSUME ClientInv, Calling, Return(<<>>), faults' \in 0..MaxFaults
  PROVE  Answered
PROOF
<1>1. <<>> \in Seq(CallsFor(op)) /\ Len(<<>>) <= 1
  OBVIOUS
<1>2. QED BY <1>1, Returning

(* The answers to the reads.                                               *)
LEMMA MonitorAnswer ==
  ASSUME ClientInv, Calling, op.op = "monitor", NEW found, GotMonitor(found),
         faults' \in 0..MaxFaults
  PROVE  Answered
PROOF
<1> DEFINE calls == CASE found = None -> <<Call("CreateMonitor", None, None)>>
                      [] found # None /\ found # op.monitor -> <<Call("EditMonitor", None, None)>>
                      [] OTHER -> <<>>
<1>1. \A m \in {"CreateMonitor", "EditMonitor"} : Call(m, None, None) \in CallsFor(op)
  BY DEF CallsFor, PlainCalls, Call
<1>2. calls \in {<<Call("CreateMonitor", None, None)>>, <<Call("EditMonitor", None, None)>>, <<>>}
  OBVIOUS
<1>3. Return(calls)
  BY DEF GotMonitor
<1> HIDE DEF calls
<1>4. calls \in Seq(CallsFor(op)) /\ Len(calls) <= 1
  <2>1. CASE calls = <<Call("CreateMonitor", None, None)>>
    BY <1>1, <2>1, OneCall
  <2>2. CASE calls = <<Call("EditMonitor", None, None)>>
    BY <1>1, <2>2, OneCall
  <2>3. CASE calls = <<>>
    BY <2>3
  <2>4. QED BY <1>2, <2>1, <2>2, <2>3
<1>5. QED BY <1>3, <1>4, Returning

(* What HandleVIP does with the answer to GetVIP.                          *)
LEMMA VIPAnswer ==
  ASSUME ClientInv, Calling, op.op = "vip", NEW found, GotVIP(found), faults' \in 0..MaxFaults
  PROVE  Answered
PROOF
<1> DEFINE calls == CASE found = None -> <<Call("CreateVIP", op.port, None)>>
                      [] found # None /\ found # op.ip -> <<Call("EditVIP", op.port, None)>>
                      [] OTHER -> <<>>
<1>1. \A m \in {"CreateVIP", "EditVIP"} : Call(m, op.port, None) \in CallsFor(op)
  BY DEF CallsFor, PlainCalls, Call
<1>2. calls \in {<<Call("CreateVIP", op.port, None)>>, <<Call("EditVIP", op.port, None)>>, <<>>}
  OBVIOUS
<1>3. Return(calls)
  BY DEF GotVIP
<1> HIDE DEF calls
<1>4. calls \in Seq(CallsFor(op)) /\ Len(calls) <= 1
  <2>1. CASE calls = <<Call("CreateVIP", op.port, None)>>
    BY <1>1, <2>1, OneCall
  <2>2. CASE calls = <<Call("EditVIP", op.port, None)>>
    BY <1>1, <2>2, OneCall
  <2>3. CASE calls = <<>>
    BY <2>3
  <2>4. QED BY <1>2, <2>1, <2>2, <2>3
<1>5. QED BY <1>3, <1>4, Returning

LEMMA PoolMemberCalls ==
  ASSUME NEW o, o.op = "pool", NEW m \in {"CreatePoolMember", "DeletePoolMember"},
         NEW S \in SUBSET Hosts
  PROVE  MemberCalls(m, o.port, S) \in Seq(CallsFor(o))
PROOF
<1>1. HostCalls({m}, {o.port}) \subseteq CallsFor(o)
  BY DEF CallsFor, HostCalls
<1> DEFINE s == MemberCalls(m, o.port, S)
           H == HostCalls({m}, {o.port})
<1>2. s \in Seq(H)
  BY MemberCallsList
<1> HIDE DEF s, H
<1>3. s \in Seq(CallsFor(o))
  BY <1>1, <1>2 DEF H
<1>4. QED BY <1>3 DEF s

(* What HandlePool does with the answers to its two reads.                 *)
LEMMA PoolAnswer ==
  ASSUME ClientInv, Calling, op.op = "pool", faults' \in 0..MaxFaults,
         \/ NoPool
         \/ \E b \in BOOLEAN : GotPool(b)
         \/ \E S \in SUBSET Hosts : GotMembers(S)
  PROVE  Answered
PROOF
<1>1. op.want \in SUBSET Hosts
  BY OpKinds DEF Calling
<1>2. \A m \in {"CreatePool", "EditPool"} : Call(m, op.port, None) \in CallsFor(op)
  BY DEF CallsFor, PlainCalls, Call
<1>3. CASE NoPool
  <2> DEFINE ms == MemberCalls("CreatePoolMember", op.port, op.want)
  <2>1. ms \in Seq(CallsFor(op))
    BY <1>1, PoolMemberCalls
  <2>2. Return(<<Call("CreatePool", op.port, None)>> \o ms)
    BY <1>3 DEF NoPool
  <2> HIDE DEF ms
  <2>3. <<Call("CreatePool", op.port, None)>> \o ms \in Seq(CallsFor(op))
    BY <1>2, <2>1
  <2>4. QED BY <2>2, <2>3, Returning
<1>4. ASSUME NEW b \in BOOLEAN, GotPool(b) PROVE Answered
  <2>1. MembersCall(op.port, b) \in CallsFor(op)
    BY DEF MembersCall, CallsFor, PlainCalls, Call
  <2> DEFINE c == MembersCall(op.port, b)
  <2>2. Return(<<c>>)
    BY <1>4 DEF GotPool
  <2> HIDE DEF c
  <2>3. <<c>> \in Seq(CallsFor(op))
    BY <2>1, OneCall DEF c
  <2>4. QED BY <2>2, <2>3, Returning
<1>5. ASSUME NEW S \in SUBSET Hosts, GotMembers(S) PROVE Answered
  <2> DEFINE first == IF Head(todo).bound THEN <<>> ELSE <<Call("EditPool", op.port, None)>>
             add == MemberCalls("CreatePoolMember", op.port, op.want \ S)
             del == MemberCalls("DeletePoolMember", op.port, S \ op.want)
  <2>1. add \in Seq(CallsFor(op))
    BY <1>1, PoolMemberCalls
  <2>2. del \in Seq(CallsFor(op))
    BY <1>1, PoolMemberCalls
  <2>3. first \in Seq(CallsFor(op))
    BY <1>2
  <2>4. Return(first \o add \o del)
    BY <1>5 DEF GotMembers
  <2> HIDE DEF first, add, del
  <2>5. first \o add \o del \in Seq(CallsFor(op))
    BY <2>1, <2>2, <2>3
  <2>6. QED BY <2>4, <2>5, Returning
<1>6. QED BY <1>3, <1>4, <1>5

(* The requests to the ADC.                                                *)
ADCStep == Calling /\ Answered /\ adc' \in ADCs /\ unsaved' \in BOOLEAN

LEMMA CallsOnce ==
  ASSUME ClientInv, NEW ms, \E m \in ms : Running(m)
  PROVE  Calling /\ Head(todo).m \in ms
  BY RunningCalls

LEMMA ADCRequest ==
  ASSUME ClientInv, adc \in ADCs, Calling, NEW request, NEW new \in ADCs,
         Request(request, new, Return(<<>>)) \/ (at = 0 /\ Request(request, new, Proceed))
  PROVE  ADCStep
PROOF
<1>1. faults' \in 0..MaxFaults
  BY Breaking DEF Request
<1>2. adc' \in ADCs /\ unsaved' \in BOOLEAN
  BY DEF Request
<1>3. Fail \/ Return(<<>>) \/ (at \in 0..1 /\ Proceed)
  BY DEF Request
<1>4. Answered
  BY <1>1, <1>3, Failing, Proceeding, ReturningNil
<1>5. QED BY <1>2, <1>4 DEF ADCStep

LEMMA ADCMonitorTypes ==
  ASSUME VendorInv, GetMonitor \/ SetMonitor \/ DeleteMonitor
  PROVE  ADCStep
PROOF
<1> USE DEF VendorInv
<1>1. CASE GetMonitor
  <2>1. Calling /\ op.op = "monitor"
    BY <1>1, RunningCalls, CallKinds DEF GetMonitor, Calling
  <2>2. faults' \in 0..MaxFaults
    BY <1>1, Breaking DEF GetMonitor, BlindRead
  <2>3. Answered
    BY <1>1, <2>1, <2>2, MonitorAnswer DEF GetMonitor, BlindRead
  <2>4. QED BY <1>1, <2>1, <2>3 DEF GetMonitor, netscaler, ADCStep
<1>2. CASE SetMonitor
  <2> DEFINE type == IF adc.mon # None /\ adc.mon.type = "https" THEN "https" ELSE op.monitor.type
             new == [adc EXCEPT !.mon = [op.monitor EXCEPT !.type = type]]
  <2>1. Calling /\ Head(todo).m \in {"CreateMonitor", "EditMonitor"}
    BY <1>2, CallsOnce DEF SetMonitor
  <2>2. op.monitor \in Monitors
    BY <2>1, CallKinds, OpKinds, SpecFields DEF Calling
  <2>3. [op.monitor EXCEPT !.type = type] \in Monitors
    <3>1. CASE adc.mon # None /\ adc.mon.type = "https"
      <4>1. adc.mon \in Monitors
        BY <3>1 DEF ADCs
      <4>2. [op.monitor EXCEPT !.type = adc.mon.type] \in Monitors
        BY <2>2, <4>1, MonitorType
      <4>3. QED BY <3>1, <4>2
    <3>2. CASE ~(adc.mon # None /\ adc.mon.type = "https")
      <4>1. [op.monitor EXCEPT !.type = op.monitor.type] \in Monitors
        BY <2>2, MonitorType
      <4>2. QED BY <3>2, <4>1
    <3>3. QED BY <3>1, <3>2
  <2>4. Request("AddMonitor", new, Return(<<>>))
    BY <1>2 DEF SetMonitor
  <2>5. new \in ADCs
    BY <2>3 DEF ADCs
  <2> HIDE DEF new
  <2>6. QED BY <2>1, <2>4, <2>5, ADCRequest
<1>3. CASE DeleteMonitor
  <2>1. Calling
    BY <1>3, RunningCalls DEF DeleteMonitor
  <2> DEFINE new == [adc EXCEPT !.mon = None]
  <2>2. Request("DeleteMonitor", new, Return(<<>>))
    BY <1>3 DEF DeleteMonitor
  <2>3. new \in ADCs
    BY DEF ADCs
  <2> HIDE DEF new
  <2>4. QED BY <2>1, <2>2, <2>3, ADCRequest
<1>4. QED BY <1>1, <1>2, <1>3

LEMMA ADCReadTypes ==
  ASSUME VendorInv, GetPoolGroup \/ GetPoolMonitor \/ GetPoolMembers \/ GetVIP
  PROVE  ADCStep
PROOF
<1> USE DEF VendorInv
<1>1. CASE GetPoolGroup
  <2>1. Calling /\ op.op = "pool"
    BY <1>1, RunningCalls, CallKinds DEF GetPoolGroup, Calling
  <2>2. faults' \in 0..MaxFaults
    BY <1>1, Breaking DEF GetPoolGroup, BlindRead
  <2>3. Proceed \/ NoPool
    BY <1>1 DEF GetPoolGroup, BlindRead
  <2>4. Answered
    BY <1>1, <2>1, <2>2, <2>3, PoolAnswer, Proceeding DEF GetPoolGroup
  <2>5. QED BY <1>1, <2>1, <2>4 DEF GetPoolGroup, netscaler, ADCStep
<1>2. CASE GetPoolMonitor
  <2>1. Calling /\ op.op = "pool"
    BY <1>2, RunningCalls, CallKinds DEF GetPoolMonitor, Calling
  <2>2. faults' \in 0..MaxFaults
    BY <1>2, Breaking DEF GetPoolMonitor, Read
  <2>3. GotPool(TRUE) \/ Fail
    BY <1>2 DEF GetPoolMonitor, Read
  <2>4. Answered
    BY <2>1, <2>2, <2>3, PoolAnswer, Failing
  <2>5. QED BY <1>2, <2>1, <2>4 DEF GetPoolMonitor, netscaler, ADCStep
<1>3. CASE GetPoolMembers
  <2>1. Calling /\ op.op = "pool" /\ Port \in Ports
    BY <1>3, RunningCalls, CallKinds, OpKinds DEF GetPoolMembers, Calling, Port
  <2>2. faults' \in 0..MaxFaults
    BY <1>3, Breaking DEF GetPoolMembers, Read
  <2>3. adc.members[Port] \in SUBSET Hosts
    BY <2>1 DEF ADCs
  <2>4. GotMembers(adc.members[Port]) \/ Fail
    BY <1>3 DEF GetPoolMembers, Read
  <2>5. Answered
    BY <2>1, <2>2, <2>3, <2>4, PoolAnswer, Failing
  <2>6. QED BY <1>3, <2>1, <2>5 DEF GetPoolMembers, netscaler, ADCStep
<1>4. CASE GetVIP
  <2>1. Calling /\ op.op = "vip"
    BY <1>4, RunningCalls, CallKinds DEF GetVIP, Calling
  <2>2. faults' \in 0..MaxFaults
    BY <1>4, Breaking DEF GetVIP, BlindRead
  <2>3. Answered
    BY <1>4, <2>1, <2>2, VIPAnswer DEF GetVIP, BlindRead
  <2>4. QED BY <1>4, <2>1, <2>3 DEF GetVIP, netscaler, ADCStep
<1>5. QED BY <1>1, <1>2, <1>3, <1>4

LEMMA ADCPoolTypes ==
  ASSUME VendorInv, SetPool \/ DeletePool \/ CreatePoolMember \/ DeletePoolMember
  PROVE  ADCStep
PROOF
<1> USE DEF VendorInv
<1>1. Calling /\ Port \in Ports
  BY RunningCalls, CallKinds, OpKinds
  DEF SetPool, DeletePool, CreatePoolMember, DeletePoolMember, Calling, Port
<1>2. CreatePoolMember \/ DeletePoolMember => Host \in Hosts
  BY RunningCalls, CallKinds DEF CreatePoolMember, DeletePoolMember, Calling, Host
<1>3. CASE SetPool
  <2>1. [adc EXCEPT !.groups = @ \cup {Port}] \in ADCs
    BY <1>1 DEF ADCs
  <2>2. [adc EXCEPT !.monBound = @ \cup {Port}] \in ADCs
    BY <1>1 DEF ADCs
  <2>3. QED BY <1>1, <1>3, <2>1, <2>2, ADCRequest DEF SetPool
<1>4. CASE DeletePool
  <2> DEFINE new == [adc EXCEPT !.groups = @ \ {Port}, !.monBound = @ \ {Port},
                                !.groupBound = @ \ {Port}, !.members[Port] = {}]
  <2>1. new \in ADCs
    BY <1>1 DEF ADCs
  <2>2. Request("DeleteGroup", new, Return(<<>>))
    BY <1>4 DEF DeletePool
  <2> HIDE DEF new
  <2>3. QED BY <1>1, <2>1, <2>2, ADCRequest
<1>5. CASE CreatePoolMember
  <2>1. [adc EXCEPT !.servers = @ \cup {Host}] \in ADCs
    BY <1>2, <1>5 DEF ADCs
  <2>2. [adc EXCEPT !.members[Port] = @ \cup {Host}] \in ADCs
    BY <1>1, <1>2, <1>5 DEF ADCs
  <2>3. QED BY <1>1, <1>5, <2>1, <2>2, ADCRequest DEF CreatePoolMember
<1>6. CASE DeletePoolMember
  <2>1. [adc EXCEPT !.members[Port] = @ \ {Host}] \in ADCs
    BY <1>1 DEF ADCs
  <2>2. QED BY <1>1, <1>6, <2>1, ADCRequest DEF DeletePoolMember
<1>7. QED BY <1>3, <1>4, <1>5, <1>6

LEMMA ADCVIPTypes ==
  ASSUME VendorInv, SetVIP \/ DeleteVIP
  PROVE  ADCStep
PROOF
<1> USE DEF VendorInv
<1>1. CASE SetVIP
  <2>1. Calling /\ Head(todo).m \in {"CreateVIP", "EditVIP"} /\ pc # "idle"
    BY <1>1, RunningCalls DEF SetVIP
  <2>2. op.op = "vip" /\ Port \in Ports /\ op.ip \in IPs
    BY <2>1, CallKinds, OpKinds DEF Calling, Port
  <2>3. goal.method \in Methods
    BY <2>1, SpecFields DEF ClientInv, FrameOK
  <2>4. [adc EXCEPT !.vservers[Port] = [ip |-> op.ip, method |-> goal.method]] \in ADCs
    BY <2>2, <2>3 DEF ADCs
  <2>5. [adc EXCEPT !.groupBound = @ \cup {Port}] \in ADCs
    BY <2>2 DEF ADCs
  <2>6. QED BY <1>1, <2>1, <2>4, <2>5, ADCRequest DEF SetVIP
<1>2. CASE DeleteVIP
  <2>1. Calling /\ Port \in Ports
    BY <1>2, RunningCalls, CallKinds DEF DeleteVIP, Calling, Port
  <2> DEFINE new == [adc EXCEPT !.vservers[Port] = None, !.groupBound = @ \ {Port}]
  <2>2. new \in ADCs
    BY <2>1 DEF ADCs
  <2>3. Request("DeleteVserver", new, Return(<<>>))
    BY <1>2 DEF DeleteVIP
  <2> HIDE DEF new
  <2>4. QED BY <2>1, <2>2, <2>3, ADCRequest
<1>3. QED BY <1>1, <1>2

(* Every request to the ADC keeps the types.                               *)
LEMMA NetscalerMethodTypes ==
  ASSUME VendorInv, vendor = "Citrix_ADC", NetscalerMethod, UNCHANGED f5
  PROVE  VendorInv'
PROOF
<1>1. ADCStep
  BY ADCMonitorTypes, ADCReadTypes, ADCPoolTypes, ADCVIPTypes DEF NetscalerMethod
<1>2. ClientInv'
  BY <1>1, FrameStep DEF VendorInv, ADCStep, NetscalerMethod
<1>3. vendor' # "F5_BigIP"
  BY DEF NetscalerMethod, outside, object
<1>4. QED BY <1>1, <1>2, <1>3 DEF VendorInv, ADCStep, EditsFound

(* The requests to the BIG-IP.                                             *)
F5Step == Calling /\ Answered /\ f5' \in BIGIPs

(* The answer leaves no call of EditMonitor behind.                        *)
NoEdit == todo' # <<>> => Head(todo').m # "EditMonitor"

LEMMA NoEditElsewhere ==
  ASSUME Calling, Answered, op.op # "monitor" \/ todo' = <<>>
  PROVE  NoEdit
PROOF
<1>1. CASE todo' = <<>>
  BY <1>1 DEF NoEdit
<1>2. CASE todo' # <<>> /\ op.op # "monitor"
  <2>1. Head(todo') \in CallsFor(op)
    BY <1>2 DEF Answered
  <2>2. QED BY <1>2, <2>1, CallKinds DEF NoEdit, Calling
<1>3. QED BY <1>1, <1>2

LEMMA F5Request ==
  ASSUME ClientInv, f5 \in BIGIPs, Calling, NEW request, NEW new \in BIGIPs,
         Send(request, new, Return(<<>>)) \/ (at \in 0..1 /\ Send(request, new, Proceed))
  PROVE  F5Step
PROOF
<1>1. faults' \in 0..MaxFaults
  BY Breaking DEF Send
<1>2. f5' \in BIGIPs
  BY DEF Send
<1>3. Fail \/ Return(<<>>) \/ (at \in 0..1 /\ Proceed)
  BY DEF Send
<1>4. Answered
  BY <1>1, <1>3, Failing, Proceeding, ReturningNil
<1>5. QED BY <1>2, <1>4 DEF F5Step

LEMMA Shorter ==
  ASSUME NEW S, NEW s \in Seq(S), s # <<>>
  PROVE  /\ Len(s) \in Nat \ {0} /\ s[1] = Head(s) /\ Head(s) \in S
         /\ Tail(s) \in Seq(S) /\ Len(Tail(s)) = Len(s) - 1
         /\ \A i \in 1..Len(s) - 1 : Tail(s)[i] = s[i + 1]
  OBVIOUS

(* The last call of HandleMonitors is the last.                            *)
LEMMA MonitorEnds ==
  ASSUME ClientInv, Calling, op.op = "monitor", Return(<<>>) \/ Fail
  PROVE  todo' = <<>>
PROOF
<1>1. todo \in Seq(CallsFor(op)) /\ Len(todo) <= 1 /\ todo # <<>>
  BY NoneIsNothing DEF ClientInv, FrameOK, Calling
<1>2. Tail(todo) \in Seq(CallsFor(op)) /\ Len(Tail(todo)) = 0
  <2>1. /\ Len(todo) \in Nat \ {0}
        /\ Tail(todo) \in Seq(CallsFor(op)) /\ Len(Tail(todo)) = Len(todo) - 1
    BY <1>1, Shorter
  <2>2. QED BY <1>1, <2>1
<1>3. <<>> \o Tail(todo) = <<>>
  BY <1>2
<1>4. QED BY <1>3 DEF Return, Fail

LEMMA F5MonitorTypes ==
  ASSUME VendorInv, vendor = "F5_BigIP", UNCHANGED <<outside, pass>>,
         F5GetMonitor \/ F5CreateMonitor \/ F5EditMonitor \/ F5DeleteMonitor
  PROVE  F5Step /\ EditsFound'
PROOF
<1> USE DEF VendorInv
<1>1. CASE F5GetMonitor
  <2> DEFINE found == Parsed(f5.mons[op.monitor.type])
  <2>1. Calling /\ op.op = "monitor"
    BY <1>1, RunningCalls, CallKinds DEF F5GetMonitor, Calling
  <2>2. faults' \in 0..MaxFaults
    BY <1>1, Breaking DEF F5GetMonitor, Read
  <2>3. Answered
    BY <1>1, <2>1, <2>2, MonitorAnswer, Failing DEF F5GetMonitor, Read
  <2>4. op.monitor' = op.monitor /\ f5' = f5
    BY <1>1 DEF F5GetMonitor, pass
  <2>5. ASSUME found = None, GotMonitor(found) PROVE EditsFound'
    <3>1. todo' = <<Call("CreateMonitor", None, None)>> \o Tail(todo)
      BY <2>5 DEF GotMonitor, Return
    <3>2. Tail(todo) \in Seq(CallsFor(op))
      BY <2>1, NoneIsNothing DEF ClientInv, FrameOK, Calling
    <3>3. Head(todo') = Call("CreateMonitor", None, None)
      BY <3>1, <3>2
    <3>4. QED BY <3>3 DEF EditsFound, Call
  <2>6. ASSUME found # None, GotMonitor(found) PROVE EditsFound'
    <3>1. f5.mons[op.monitor.type] # None
      BY <2>6 DEF Parsed
    <3>2. QED BY <2>4, <3>1 DEF EditsFound
  <2>7. ASSUME Fail PROVE EditsFound'
    <3>1. todo' = <<>>
      BY <2>1, <2>7, MonitorEnds
    <3>2. QED BY <3>1 DEF EditsFound
  <2>8. EditsFound'
    BY <1>1, <2>5, <2>6, <2>7 DEF F5GetMonitor, Read
  <2>9. QED BY <2>1, <2>3, <2>4, <2>8 DEF F5Step
<1>2. CASE F5CreateMonitor \/ F5EditMonitor
  <2>1. Calling /\ op.op = "monitor"
    BY <1>2, RunningCalls, CallKinds DEF F5CreateMonitor, F5EditMonitor, Calling
  <2>2. op.monitor \in Monitors /\ op.monitor.type \in Types
    BY <2>1, OpKinds, SpecFields, MonitorType DEF Calling
  <2>3. F5Step
    <3>1. CASE F5CreateMonitor
      <4>1. [f5 EXCEPT !.mons[op.monitor.type] = op.monitor] \in BIGIPs
        BY <2>2 DEF BIGIPs
      <4>2. QED BY <2>1, <3>1, <4>1, F5Request DEF F5CreateMonitor
    <3>2. CASE F5EditMonitor
      <4>1. Head(todo).m = "EditMonitor"
        BY <3>2, RunningCalls DEF F5EditMonitor
      <4>2. f5.mons[op.monitor.type] \in Monitors
        BY <2>1, <2>2, <4>1 DEF EditsFound, BIGIPs, Calling
      <4>3. [f5.mons[op.monitor.type] EXCEPT !.path = op.monitor.path] \in Monitors
        BY <2>2, <4>2, MonitorType
      <4>4. [f5 EXCEPT !.mons[op.monitor.type].path = op.monitor.path] \in BIGIPs
        BY <2>2, <4>3 DEF BIGIPs
      <4>5. QED BY <2>1, <3>2, <4>4, F5Request DEF F5EditMonitor
    <3>3. QED BY <1>2, <3>1, <3>2
  <2>4. todo' = <<>>
    BY <1>2, <2>1, MonitorEnds DEF F5CreateMonitor, F5EditMonitor, Send
  <2>5. QED BY <2>3, <2>4 DEF EditsFound
<1>3. CASE F5DeleteMonitor
  <2>1. Calling /\ op.op = "cleanup"
    BY <1>3, RunningCalls, CallKinds DEF F5DeleteMonitor, Calling
  <2>2. op.status.monitor.type \in Types
    BY <2>1, OpKinds, SpecFields, MonitorType DEF Calling
  <2>3. [f5 EXCEPT !.mons[op.status.monitor.type] = None] \in BIGIPs
    BY <2>2 DEF BIGIPs
  <2>4. F5Step
    BY <1>3, <2>1, <2>3, F5Request DEF F5DeleteMonitor
  <2>5. QED BY <2>1, <2>4, NoEditElsewhere DEF F5Step, NoEdit, EditsFound
<1>4. QED BY <1>1, <1>2, <1>3

LEMMA F5ReadTypes ==
  ASSUME VendorInv, F5GetPool \/ F5GetPoolMembers \/ F5GetVIP
  PROVE  F5Step /\ op.op # "monitor"
PROOF
<1> USE DEF VendorInv
<1>1. CASE F5GetPool
  <2>1. Calling /\ op.op = "pool"
    BY <1>1, RunningCalls, CallKinds DEF F5GetPool, Calling
  <2>2. faults' \in 0..MaxFaults
    BY <1>1, Breaking DEF F5GetPool, Read
  <2>3. (\E b \in BOOLEAN : GotPool(b)) \/ NoPool \/ Fail
    BY <1>1 DEF F5GetPool, Read
  <2>4. Answered
    BY <2>1, <2>2, <2>3, PoolAnswer, Failing
  <2>5. QED BY <1>1, <2>1, <2>4 DEF F5GetPool, F5Step
<1>2. CASE F5GetPoolMembers
  <2>1. Calling /\ op.op = "pool" /\ OnPort \in Ports
    BY <1>2, RunningCalls, CallKinds, OpKinds DEF F5GetPoolMembers, Calling, OnPort
  <2>2. faults' \in 0..MaxFaults
    BY <1>2, Breaking DEF F5GetPoolMembers, Read
  <2>3. f5.members[OnPort] \in SUBSET Hosts
    BY <2>1 DEF BIGIPs
  <2>4. GotMembers(f5.members[OnPort]) \/ Fail
    BY <1>2 DEF F5GetPoolMembers, Read
  <2>5. Answered
    BY <2>1, <2>2, <2>3, <2>4, PoolAnswer, Failing
  <2>6. QED BY <1>2, <2>1, <2>5 DEF F5GetPoolMembers, F5Step
<1>3. CASE F5GetVIP
  <2>1. Calling /\ op.op = "vip"
    BY <1>3, RunningCalls, CallKinds DEF F5GetVIP, Calling
  <2>2. faults' \in 0..MaxFaults
    BY <1>3, Breaking DEF F5GetVIP, Read
  <2>3. Answered
    BY <1>3, <2>1, <2>2, VIPAnswer, Failing DEF F5GetVIP, Read
  <2>4. QED BY <1>3, <2>1, <2>3 DEF F5GetVIP, F5Step
<1>4. QED BY <1>1, <1>2, <1>3

LEMMA F5WriteTypes ==
  ASSUME VendorInv, F5CreatePool \/ F5EditPool \/ F5DeletePool \/ F5CreatePoolMember
                      \/ F5DeletePoolMember \/ F5SetVIP \/ F5DeleteVIP
  PROVE  F5Step /\ op.op # "monitor"
PROOF
<1> USE DEF VendorInv
<1>1. Calling /\ op.op # "monitor" /\ OnPort \in Ports
  BY RunningCalls, CallKinds, OpKinds
  DEF F5CreatePool, F5EditPool, F5DeletePool, F5CreatePoolMember, F5DeletePoolMember,
      F5SetVIP, F5DeleteVIP, Calling, OnPort
<1>2. goal.method \in Methods
  BY RunningCalls, SpecFields
  DEF F5CreatePool, F5EditPool, F5DeletePool, F5CreatePoolMember, F5DeletePoolMember,
      F5SetVIP, F5DeleteVIP, ClientInv, FrameOK
<1>3. CASE F5CreatePool
  <2>1. [f5 EXCEPT !.pools = @ \cup {OnPort}] \in BIGIPs
    BY <1>1 DEF BIGIPs
  <2>2. [f5 EXCEPT !.monitored = @ \cup {OnPort}] \in BIGIPs
    BY <1>1 DEF BIGIPs
  <2>3. [f5 EXCEPT !.method[OnPort] = goal.method] \in BIGIPs
    BY <1>1, <1>2 DEF BIGIPs
  <2>4. QED BY <1>1, <1>3, <2>1, <2>2, <2>3, F5Request DEF F5CreatePool
<1>4. CASE F5EditPool
  <2>1. [f5 EXCEPT !.monitored = @ \cup {OnPort}, !.method[OnPort] = goal.method] \in BIGIPs
    BY <1>1, <1>2 DEF BIGIPs
  <2>2. QED BY <1>1, <1>4, <2>1, F5Request DEF F5EditPool
<1>5. CASE F5DeletePool
  <2>1. [f5 EXCEPT !.pools = @ \ {OnPort}, !.monitored = @ \ {OnPort},
                   !.method[OnPort] = None, !.members[OnPort] = {}] \in BIGIPs
    BY <1>1 DEF BIGIPs
  <2>2. QED BY <1>1, <1>5, <2>1, F5Request DEF F5DeletePool
<1>6. CASE F5CreatePoolMember
  <2>1. Member \in Hosts
    BY <1>6, RunningCalls, CallKinds DEF F5CreatePoolMember, Calling, Member
  <2>2. CASE Read("GetNode", Proceed) /\ UNCHANGED f5 /\ at = 0
    <3>1. faults' \in 0..MaxFaults
      BY <2>2, Breaking DEF Read
    <3>2. Answered
      BY <1>1, <2>2, <3>1, Failing, Proceeding DEF Read
    <3>3. QED BY <1>1, <2>2, <3>2 DEF F5Step
  <2>3. [f5 EXCEPT !.nodes = @ \cup {Member}] \in BIGIPs
    BY <2>1 DEF BIGIPs
  <2>4. [f5 EXCEPT !.members[OnPort] = @ \cup {Member}] \in BIGIPs
    BY <1>1, <2>1 DEF BIGIPs
  <2>5. QED BY <1>1, <1>6, <2>2, <2>3, <2>4, F5Request DEF F5CreatePoolMember
<1>7. CASE F5DeletePoolMember
  <2>1. [f5 EXCEPT !.members[OnPort] = @ \ {Member}] \in BIGIPs
    BY <1>1 DEF BIGIPs
  <2>2. QED BY <1>1, <1>7, <2>1, F5Request DEF F5DeletePoolMember
<1>8. CASE F5SetVIP
  <2>1. op.ip \in IPs
    BY <1>8, RunningCalls, CallKinds, OpKinds DEF F5SetVIP, Calling
  <2>2. [f5 EXCEPT !.virtuals[OnPort] = op.ip] \in BIGIPs
    BY <1>1, <2>1 DEF BIGIPs
  <2>3. QED BY <1>1, <1>8, <2>2, F5Request DEF F5SetVIP
<1>9. CASE F5DeleteVIP
  <2>1. [f5 EXCEPT !.virtuals[OnPort] = None] \in BIGIPs
    BY <1>1 DEF BIGIPs
  <2>2. QED BY <1>1, <1>9, <2>1, F5Request DEF F5DeleteVIP
<1>10. QED BY <1>3, <1>4, <1>5, <1>6, <1>7, <1>8, <1>9

(* Every request to the BIG-IP keeps the types.                            *)
LEMMA F5MethodTypes ==
  ASSUME VendorInv, vendor = "F5_BigIP", F5Method, UNCHANGED netscaler
  PROVE  VendorInv'
PROOF
<1>1. F5Step /\ EditsFound'
  <2>1. CASE F5GetMonitor \/ F5CreateMonitor \/ F5EditMonitor \/ F5DeleteMonitor
    BY <2>1, F5MonitorTypes DEF F5Method
  <2>2. CASE F5Step /\ op.op # "monitor"
    BY <2>2, NoEditElsewhere DEF F5Step, NoEdit, EditsFound
  <2>3. QED BY <2>1, <2>2, F5ReadTypes, F5WriteTypes DEF F5Method
<1>2. ClientInv'
  BY <1>1, FrameStep DEF VendorInv, F5Step, F5Method
<1>3. QED BY <1>1, <1>2 DEF VendorInv, F5Step, netscaler

(* The pass around the operations.                                         *)
LEMMA ConfigureOpsType ==
  ASSUME NEW s \in Specs, NEW ns \in SUBSET Hosts
  PROVE  ConfigureOps(s, ns) \in Seq(Operations)
PROOF
<1> DEFINE first == [op |-> "monitor", monitor |-> s.monitor]
           ps == [i \in DOMAIN PortList |-> [op |-> "pool", port |-> PortList[i], want |-> ns]]
           vs == [i \in DOMAIN PortList |-> [op |-> "vip", port |-> PortList[i], ip |-> s.ip]]
<1>1. Len(PortList) \in Nat /\ DOMAIN PortList = 1..Len(PortList)
  BY PassConstants
<1>2. <<first>> \in Seq(Operations)
  <2>1. first \in Operations
    BY DEF Operations, SpecMonitors
  <2>2. QED BY <2>1, OneCall
<1>3. ps \in Seq(Operations)
  <2>1. \A i \in DOMAIN PortList : [op |-> "pool", port |-> PortList[i], want |-> ns] \in Operations
    BY PassConstants DEF Operations
  <2>2. ps \in [1..Len(PortList) -> Operations]
    BY <1>1, <2>1
  <2> HIDE DEF ps
  <2>3. QED BY <1>1, <2>2, ListIsSeq
<1>4. vs \in Seq(Operations)
  <2>1. \A i \in DOMAIN PortList : [op |-> "vip", port |-> PortList[i], ip |-> s.ip] \in Operations
    BY PassConstants, SpecFields DEF Operations
  <2>2. vs \in [1..Len(PortList) -> Operations]
    BY <1>1, <2>1
  <2> HIDE DEF vs
  <2>3. QED BY <1>1, <2>2, ListIsSeq
<1>5. ConfigureOps(s, ns) = <<first>> \o ps \o vs
  BY DEF ConfigureOps
<1> HIDE DEF first, ps, vs
<1>6. QED BY <1>2, <1>3, <1>4, <1>5

LEMMA EndPassTypes ==
  ASSUME ClientInv, EndPass, UNCHANGED <<spec, nodes, deleting>>,
         {gone', queued'} \subseteq BOOLEAN, status' \in (Specs \X SUBSET Hosts) \cup {None},
         faults' \in 0..MaxFaults, envOps' \in 0..MaxEnvOps, crashes' \in 0..MaxCrashes
  PROVE  ClientInv'
PROOF
<1>1. ops' = <<>> /\ op' = None /\ todo' = <<>> /\ at' = 0 /\ failed' = FALSE /\ pc' = "idle"
        /\ goal' = None /\ want' = {}
  BY DEF EndPass
<1>2. <<>> \in Seq(Operations) /\ <<>> \in Seq(Calls)
  OBVIOUS
<1>3. ClientTypeOK'
  <2>1. {deleting', gone', queued', failed'} \subseteq BOOLEAN
    BY <1>1 DEF ClientInv, ClientTypeOK
  <2>2. spec' \in Specs /\ nodes' \in SUBSET Hosts /\ want' \in SUBSET Hosts /\ at' \in 0..2
    BY <1>1 DEF ClientInv, ClientTypeOK
  <2>3. QED BY <1>1, <1>2, <2>1, <2>2 DEF ClientTypeOK
<1>4. Phases'
  BY <1>1 DEF Phases
<1>5. FrameOK'
  BY <1>1 DEF FrameOK
<1>6. QED BY <1>3, <1>4, <1>5 DEF ClientInv

LEMMA RequeueTypes ==
  ASSUME ClientInv, Requeue, UNCHANGED <<object, status, envOps, crashes>>,
         faults' \in 0..MaxFaults
  PROVE  ClientInv'
PROOF
<1>1. {gone', queued'} \subseteq BOOLEAN
  BY DEF Requeue, object, ClientInv, ClientTypeOK
<1>2. /\ status' \in (Specs \X SUBSET Hosts) \cup {None}
      /\ envOps' \in 0..MaxEnvOps /\ crashes' \in 0..MaxCrashes
  BY DEF ClientInv, ClientTypeOK
<1>3. QED BY <1>1, <1>2, EndPassTypes DEF Requeue, object

(* The steps of a pass between the operations keep the types.              *)
LEMMA ReconcileTypes ==
  ASSUME ClientInv, Reconcile
  PROVE  ClientInv' /\ (todo' # <<>> => Head(todo').m # "EditMonitor" \/ UNCHANGED <<vendor, todo, op>>)
PROOF
<1>1. CASE StartPass
  <2>1. op = None /\ todo = <<>> /\ at = 0 /\ ~failed
    BY <1>1 DEF StartPass, ClientInv, Phases, FrameOK, Working
  <2>2. spec \in Specs /\ nodes \in SUBSET Hosts
    BY DEF ClientInv, ClientTypeOK
  <2>3. ops' \in Seq(Operations)
    BY <1>1, <2>2, ConfigureOpsType DEF StartPass
  <2>4. ClientTypeOK'
    BY <1>1, <2>2, <2>3 DEF StartPass, ClientInv, ClientTypeOK, frame, object
  <2>5. Phases' /\ FrameOK'
    BY <1>1, <2>1, <2>2
    DEF StartPass, ClientInv, Phases, FrameOK, Working, frame, object
  <2>6. QED BY <1>1, <2>1, <2>4, <2>5 DEF StartPass, frame, ClientInv
<1>2. CASE BeginOp
  <2>1. Head(ops) \in Operations /\ Tail(ops) \in Seq(Operations) /\ want \in SUBSET Hosts
    BY <1>2, Shorter DEF BeginOp, ClientInv, ClientTypeOK
  <2>2. /\ todo' \in Seq(CallsFor(op')) /\ todo' # <<>> /\ op' \in Operations /\ op' # None
        /\ op'.op # "cleanup" => Len(todo') = 1
    BY <1>2, <2>1, FirstCallsType, NoneIsNothing DEF BeginOp
  <2>3. todo' \in Seq(Calls)
    <3>1. CallsFor(op') \subseteq Calls
      BY <2>2, CallKinds
    <3>2. QED BY <2>2, <3>1, SeqSubset
  <2>4. ClientTypeOK'
    BY <1>2, <2>1, <2>2, <2>3 DEF BeginOp, ClientInv, ClientTypeOK, outside, object
  <2>5. failed = FALSE
    BY <1>2 DEF BeginOp, ClientInv, ClientTypeOK, FrameOK
  <2>6. Phases' /\ FrameOK'
    <3>1. Phases'
      BY <1>2 DEF BeginOp, ClientInv, Phases, Working, outside, object
    <3>2. failed' = FALSE /\ goal' = goal /\ pc' = pc
      BY <1>2, <2>5 DEF BeginOp
    <3>3. FrameOK'
      <4>1. pc' # "idle" => goal' \in Specs
        BY <3>2 DEF ClientInv, FrameOK
      <4>2. op'.op \in {"monitor", "vip"} => Len(todo') <= 1
        <5>1. op'.op # "cleanup" => Len(todo') = 1
          BY <2>2
        <5>2. ASSUME op'.op \in {"monitor", "vip"} PROVE Len(todo') <= 1
          <6>1. op'.op # "cleanup"
            BY <5>2
          <6>2. Len(todo') = 1
            BY <5>1, <6>1
          <6>3. QED BY <6>2
        <5>3. QED BY <5>2
      <4>3. QED BY <2>2, <3>2, <4>1, <4>2 DEF FrameOK
    <3>4. QED BY <3>1, <3>3
  <2>7. Head(todo').m # "EditMonitor"
    <3>1. CASE op'.op = "monitor"
      BY <1>2, <3>1 DEF BeginOp, FirstCalls, Call
    <3>2. CASE op'.op # "monitor"
      <4>1. Head(todo') \in CallsFor(op')
        BY <2>2, Shorter
      <4>2. QED BY <2>2, <3>2, <4>1, CallKinds
    <3>3. QED BY <3>1, <3>2
  <2>8. QED BY <2>4, <2>6, <2>7 DEF ClientInv
<1>3. CASE EndOp
  <2>1. CASE failed
    <3>1. Requeue /\ todo' = <<>> /\ UNCHANGED <<object, status, envOps, crashes, faults>>
      BY <1>3, <2>1 DEF EndOp, Requeue, EndPass
    <3>2. faults' \in 0..MaxFaults
      BY <3>1 DEF ClientInv, ClientTypeOK
    <3>3. QED BY <3>1, <3>2, RequeueTypes
  <2>2. CASE ~failed
    <3>1. pc \in Working /\ todo = <<>> /\ at = 0
      BY <1>3 DEF EndOp, ClientInv, Phases, FrameOK
    <3>2. ClientTypeOK'
      BY <1>3, <2>2, <3>1 DEF EndOp, ClientInv, ClientTypeOK, Working, object
    <3>3. Phases' /\ FrameOK'
      BY <1>3, <2>2, <3>1 DEF EndOp, ClientInv, Phases, FrameOK, Working, object
    <3>4. QED BY <1>3, <2>2, <3>1, <3>2, <3>3 DEF EndOp, ClientInv
  <2>3. QED BY <2>1, <2>2
<1>4. CASE WriteStatus
  <2>1. op = None /\ ops = <<>> /\ goal \in Specs /\ want \in SUBSET Hosts /\ todo = <<>>
    BY <1>4 DEF WriteStatus, ClientInv, ClientTypeOK, Phases, FrameOK, Working
  <2>2. status' \in (Specs \X SUBSET Hosts) \cup {None} /\ queued' \in BOOLEAN
    BY <1>4, <2>1 DEF WriteStatus
  <2>3. CASE deleting
    <3> DEFINE o == [op |-> "cleanup", status |-> [monitor |-> goal.monitor,
                                                   handled |-> PortList, members |-> want]]
    <3>1. o \in Operations
      BY <2>1 DEF Operations, SpecMonitors
    <3>2. ops' = <<o>> /\ pc' = "cleanup" /\ UNCHANGED <<goal, want, op, todo, at, failed>>
      BY <1>4, <2>3 DEF WriteStatus
    <3> HIDE DEF o
    <3>3. ops' \in Seq(Operations)
      BY <3>1, <3>2, OneCall
    <3>4. ClientTypeOK'
      BY <1>4, <2>2, <3>2, <3>3 DEF WriteStatus, ClientInv, ClientTypeOK, object
    <3>5. Phases' /\ FrameOK'
      BY <1>4, <2>1, <3>2 DEF WriteStatus, ClientInv, Phases, FrameOK, Working, object
    <3>6. QED BY <2>1, <3>2, <3>4, <3>5 DEF ClientInv
  <2>4. CASE ~deleting
    <3>1. EndPass /\ UNCHANGED <<object, faults, envOps, crashes>>
      BY <1>4, <2>4 DEF WriteStatus
    <3>2. {gone', queued'} \subseteq BOOLEAN /\ faults' \in 0..MaxFaults
            /\ envOps' \in 0..MaxEnvOps /\ crashes' \in 0..MaxCrashes
      BY <2>2, <3>1 DEF ClientInv, ClientTypeOK, object
    <3>3. ClientInv'
      BY <2>2, <3>1, <3>2, EndPassTypes DEF object
    <3>4. QED BY <3>1, <3>3 DEF EndPass
  <2>5. QED BY <2>3, <2>4
<1>5. CASE RemoveFinalizer
  <2>1. /\ {gone', queued'} \subseteq BOOLEAN /\ faults' \in 0..MaxFaults
        /\ envOps' \in 0..MaxEnvOps /\ crashes' \in 0..MaxCrashes
        /\ status' \in (Specs \X SUBSET Hosts) \cup {None}
    BY <1>5 DEF RemoveFinalizer, ClientInv, ClientTypeOK
  <2>2. ClientInv'
    BY <1>5, <2>1, EndPassTypes DEF RemoveFinalizer
  <2>3. QED BY <1>5, <2>2 DEF RemoveFinalizer, EndPass
<1>6. QED BY <1>1, <1>2, <1>3, <1>4, <1>5 DEF Reconcile

LEMMA CloseTypes ==
  ASSUME ClientInv, Closing, UNCHANGED <<object, status, envOps, crashes>>,
         Closed \/ \E r \in {"SaveConfig"} : CloseFails(r)
  PROVE  ClientInv' /\ todo' = <<>>
PROOF
<1>1. op = None /\ ops = <<>> /\ todo = <<>> /\ pc # "idle" /\ ~gone
  BY DEF Closing, ClientInv, Phases, FrameOK, Working
<1>2. CASE Closed
  <2>1. ClientTypeOK'
    BY <1>2 DEF Closed, ClientInv, ClientTypeOK, object
  <2>2. Phases' /\ FrameOK'
    BY <1>1, <1>2 DEF Closed, ClientInv, Phases, FrameOK, Working, object
  <2>3. QED BY <1>1, <1>2, <2>1, <2>2 DEF Closed, ClientInv
<1>3. ASSUME CloseFails("SaveConfig") PROVE ClientInv' /\ todo' = <<>>
  <2>1. faults' \in 0..MaxFaults
    BY <1>3, Breaking DEF CloseFails
  <2>2. QED BY <1>3, <2>1, RequeueTypes DEF CloseFails, Requeue, EndPass
<1>4. QED BY <1>2, <1>3

LEMMA EnvironmentTypes ==
  ASSUME ClientInv, Environment
  PROVE  ClientInv' /\ (todo' # <<>> => UNCHANGED <<vendor, todo, op>>)
PROOF
<1>1. CASE ChangeSpec \/ ChangeNodes \/ Delete
  <2>1. /\ EnvOp /\ spec' \in Specs /\ nodes' \in SUBSET Hosts /\ deleting' \in BOOLEAN
    BY <1>1 DEF ChangeSpec, ChangeNodes, Delete, EnvOp, ClientInv, ClientTypeOK
  <2>2. envOps' \in 0..MaxEnvOps
    BY <2>1, PassConstants DEF EnvOp, ClientInv, ClientTypeOK
  <2>3. ClientTypeOK'
    BY <2>1, <2>2 DEF EnvOp, ClientInv, ClientTypeOK, pass, frame
  <2>4. Phases' /\ FrameOK'
    BY <2>1 DEF EnvOp, ClientInv, Phases, FrameOK, Working, pass, frame
  <2>5. QED BY <2>1, <2>3, <2>4 DEF EnvOp, pass, frame, ClientInv
<1>2. CASE Crash
  <2>1. crashes' \in 0..MaxCrashes
    BY <1>2, PassConstants DEF Crash, ClientInv, ClientTypeOK
  <2>2. /\ {gone', queued'} \subseteq BOOLEAN /\ faults' \in 0..MaxFaults
        /\ envOps' \in 0..MaxEnvOps /\ status' \in (Specs \X SUBSET Hosts) \cup {None}
    BY <1>2 DEF Crash, object, ClientInv, ClientTypeOK
  <2>3. ClientInv'
    BY <1>2, <2>1, <2>2, EndPassTypes DEF Crash, object
  <2>4. QED BY <1>2, <2>3 DEF Crash, EndPass
<1>3. QED BY <1>1, <1>2 DEF Environment

LEMMA DummyTypes ==
  ASSUME ClientInv, DummyRead \/ DummyWrite, UNCHANGED <<faults, outside, pass>>
  PROVE  ClientInv'
PROOF
<1>1. faults' \in 0..MaxFaults
  BY DEF ClientInv, ClientTypeOK
<1>2. CASE DummyRead
  <2>1. CASE Running("GetMonitor") /\ GotMonitor(DummyMonitor)
    <3>1. Calling /\ op.op = "monitor"
      BY <2>1, RunningCalls, CallKinds DEF Calling
    <3>2. QED BY <1>1, <2>1, <3>1, MonitorAnswer, FrameStep
  <2>2. CASE Running("GetPool") /\ NoPool
    <3>1. Calling /\ op.op = "pool"
      BY <2>2, RunningCalls, CallKinds DEF Calling
    <3>2. QED BY <1>1, <2>2, <3>1, PoolAnswer, FrameStep
  <2>3. CASE Running("GetVIP") /\ GotVIP(None)
    <3>1. Calling /\ op.op = "vip"
      BY <2>3, RunningCalls, CallKinds DEF Calling
    <3>2. QED BY <1>1, <2>3, <3>1, VIPAnswer, FrameStep
  <2>4. QED BY <1>2, <2>1, <2>2, <2>3 DEF DummyRead
<1>3. CASE DummyWrite
  <2>1. Calling /\ Return(<<>>)
    BY <1>3, RunningCalls DEF DummyWrite
  <2>2. QED BY <1>1, <2>1, ReturningNil, FrameStep
<1>4. QED BY <1>2, <1>3

(* The invariant behind VendorsTypeCorrect.                                *)
LEMMA VendorInvHolds == Spec => []VendorInv
PROOF
<1>1. Init => VendorInv
  <2> SUFFICES ASSUME Init PROVE VendorInv
    OBVIOUS
  <2>1. ClientInv
    <3>1. <<>> \in Seq(Operations) /\ <<>> \in Seq(Calls)
      OBVIOUS
    <3>2. ClientTypeOK
      <4>1. 0 \in 0..MaxFaults /\ 0 \in 0..MaxEnvOps /\ 0 \in 0..MaxCrashes /\ 0 \in 0..2
        BY PassConstants
      <4>2. {deleting, gone, queued, failed} \subseteq BOOLEAN
        BY DEF Init, ClientInit
      <4>3. QED BY <3>1, <4>1, <4>2 DEF Init, ClientInit, ClientTypeOK
    <3>3. Phases
      BY DEF Init, ClientInit, Phases
    <3>4. FrameOK
      BY DEF Init, ClientInit, FrameOK
    <3>5. QED BY <3>2, <3>3, <3>4 DEF ClientInv
  <2>2. adc \in ADCs /\ unsaved \in BOOLEAN
    BY DEF Init, NetscalerInit, EmptyADC, ADCs
  <2>3. f5 \in BIGIPs
    BY DEF Init, F5Init, EmptyF5, BIGIPs
  <2>4. EditsFound
    BY DEF Init, ClientInit, EditsFound
  <2>5. QED BY <2>1, <2>2, <2>3, <2>4 DEF VendorInv
<1>2. VendorInv /\ [Next]_vars => VendorInv'
  <2> SUFFICES ASSUME VendorInv, [Next]_vars PROVE VendorInv'
    OBVIOUS
  <2>1. CASE Reconcile /\ UNCHANGED devices
    <3>1. ClientInv' /\ EditsFound'
      BY <2>1, ReconcileTypes DEF VendorInv, EditsFound, devices
    <3>2. QED BY <2>1, <3>1 DEF VendorInv, devices, netscaler
  <2>2. CASE Citrix_ADC
    <3>1. CASE NetscalerMethod
      BY <2>2, <3>1, NetscalerMethodTypes DEF Citrix_ADC
    <3>2. CASE NetscalerClose
      <4>1. ClientInv' /\ todo' = <<>>
        BY <3>2, CloseTypes DEF VendorInv, NetscalerClose
      <4>2. unsaved' \in BOOLEAN /\ UNCHANGED <<adc, f5>>
        BY <2>2, <3>2 DEF VendorInv, Citrix_ADC, NetscalerClose
      <4>3. QED BY <4>1, <4>2 DEF VendorInv, EditsFound
    <3>3. QED BY <2>2, <3>1, <3>2 DEF Citrix_ADC, NetscalerNext
  <2>3. CASE F5_BigIP
    <3>1. CASE F5Method
      BY <2>3, <3>1, F5MethodTypes DEF F5_BigIP
    <3>2. CASE F5Close
      <4>1. ClientInv' /\ todo' = <<>>
        BY <3>2, CloseTypes DEF VendorInv, F5Close
      <4>2. QED BY <2>3, <3>2, <4>1 DEF VendorInv, EditsFound, F5_BigIP, F5Close, netscaler
    <3>3. QED BY <2>3, <3>1, <3>2 DEF F5_BigIP, F5Next
  <2>4. CASE Dummy
    <3>1. vendor' # "F5_BigIP" /\ UNCHANGED devices
      BY <2>4 DEF Dummy, DummyNext, DummyClose, outside, object
    <3>2. ClientInv'
      BY <2>4, DummyTypes, CloseTypes DEF VendorInv, Dummy, DummyNext, DummyClose
    <3>3. QED BY <3>1, <3>2 DEF VendorInv, EditsFound, devices, netscaler
  <2>5. CASE Environment /\ UNCHANGED devices
    <3>1. ClientInv' /\ EditsFound'
      BY <2>5, EnvironmentTypes DEF VendorInv, EditsFound, devices
    <3>2. QED BY <2>5, <3>1 DEF VendorInv, devices, netscaler
  <2>6. CASE UNCHANGED vars
    BY <2>6
    DEF vars, client, outside, object, pass, frame, devices, netscaler, VendorInv, ClientInv,
        ClientTypeOK, Phases, FrameOK, EditsFound
  <2>7. QED BY <2>1, <2>2, <2>3, <2>4, <2>5, <2>6 DEF Next, Worker
<1>3. QED BY <1>1, <1>2, PTL DEF Spec

(* Every variable of the pass and of the devices keeps its type, whatever  *)
(* vendor, ports, nodes and specs are configured: no operation is left with *)
(* a call of another one, and the F5's EditMonitor never meets a monitor   *)
(* that is not there.                                                      *)
THEOREM VendorsTypeCorrect == Spec => []TypeOK
PROOF
<1>1. VendorInv => TypeOK
  BY DEF VendorInv, ClientInv, ADCs, BIGIPs, TypeOK, NetscalerTypeOK, F5TypeOK
<1>2. QED BY <1>1, VendorInvHolds, PTL

----------------------------------------------------------------------------
(* What is unsaved will be saved: only a pass that has yet to call Close,  *)
(* or a request in the queue of an object that is still there, leaves the  *)
(* ADC so.                                                                 *)
SaveAhead ==
  unsaved =>
    /\ vendor = "Citrix_ADC" /\ ~gone
    /\ pc \notin {"status", "rmFinalizer"}
    /\ pc = "idle" => queued

SaveInv == Phases /\ SaveAhead

(* A pass that ends early is queued again.                                 *)
LEMMA RequeueSaves ==
  ASSUME SaveInv, Requeue, UNCHANGED object, unsaved' => unsaved, ~gone
  PROVE  SaveInv'
  BY DEF SaveInv, Phases, SaveAhead, Requeue, EndPass, object

LEMMA ReconcileSaves ==
  ASSUME SaveInv, Reconcile, UNCHANGED devices
  PROVE  SaveInv'
PROOF
<1>1. UNCHANGED unsaved
  BY DEF devices, netscaler
<1>2. CASE StartPass
  BY <1>1, <1>2 DEF StartPass, SaveInv, Phases, SaveAhead, Working, object
<1>3. CASE BeginOp
  BY <1>1, <1>3 DEF BeginOp, SaveInv, Phases, SaveAhead, Working, outside, object
<1>4. CASE EndOp
  <2>1. pc \in Working /\ ~gone /\ UNCHANGED object
    BY <1>4 DEF EndOp, SaveInv, Phases, Working
  <2>2. CASE failed
    BY <1>1, <1>4, <2>1, <2>2, RequeueSaves DEF EndOp
  <2>3. CASE ~failed
    BY <1>1, <1>4, <2>1, <2>3 DEF EndOp, SaveInv, Phases, SaveAhead, Working, object
  <2>4. QED BY <2>2, <2>3
<1>5. CASE WriteStatus
  BY <1>1, <1>5 DEF WriteStatus, EndPass, SaveInv, Phases, SaveAhead, Working, object
<1>6. CASE RemoveFinalizer
  BY <1>1, <1>6 DEF RemoveFinalizer, EndPass, SaveInv, Phases, SaveAhead, Working
<1>7. QED BY <1>2, <1>3, <1>4, <1>5, <1>6 DEF Reconcile

(* The requests of an operation: the pass will still call Close.           *)
LEMMA MethodSaves ==
  ASSUME SaveInv, op # None, UNCHANGED <<outside, pass>>,
         unsaved' => unsaved \/ vendor = "Citrix_ADC"
  PROVE  SaveInv'
  BY DEF SaveInv, Phases, SaveAhead, Working, outside, object, pass

LEMMA ProviderSaves ==
  ASSUME SaveInv, Citrix_ADC \/ F5_BigIP \/ Dummy
  PROVE  SaveInv'
PROOF
<1>1. CASE Citrix_ADC /\ NetscalerMethod
  <2>1. op # None
    BY <1>1
    DEF NetscalerMethod, GetMonitor, SetMonitor, DeleteMonitor, GetPoolGroup, GetPoolMonitor,
        SetPool, DeletePool, GetPoolMembers, CreatePoolMember, DeletePoolMember, GetVIP, SetVIP,
        DeleteVIP, Running
  <2>2. QED BY <1>1, <2>1, MethodSaves DEF Citrix_ADC, NetscalerMethod
<1>2. CASE Citrix_ADC /\ NetscalerClose
  <2>1. Closing /\ ~gone /\ UNCHANGED object
    BY <1>2 DEF NetscalerClose, Closing, SaveInv, Phases
  <2>2. CASE unsaved' = FALSE /\ Closed
    BY <2>1, <2>2 DEF Closing, Closed, SaveInv, Phases, SaveAhead, Working, object
  <2>3. CASE unsaved' \in {FALSE, unsaved} /\ CloseFails("SaveConfig")
    <3>1. unsaved' => unsaved
      BY <2>3
    <3>2. QED BY <2>1, <2>3, <3>1, RequeueSaves DEF CloseFails
  <2>4. QED BY <1>2, <2>2, <2>3 DEF NetscalerClose
<1>3. CASE F5_BigIP \/ Dummy
  <2>1. ~unsaved /\ ~unsaved'
    BY <1>3 DEF F5_BigIP, Dummy, devices, netscaler, SaveInv, SaveAhead
  <2>2. CASE op # None /\ UNCHANGED <<outside, pass>>
    BY <2>1, <2>2, MethodSaves
  <2>3. CASE Closing /\ Closed /\ UNCHANGED object
    BY <2>1, <2>3 DEF Closing, Closed, SaveInv, Phases, SaveAhead, Working, object
  <2>4. CASE F5_BigIP
    <3>1. F5Method => op # None /\ UNCHANGED <<outside, pass>>
      BY DEF F5Method, F5GetMonitor, F5CreateMonitor, F5EditMonitor, F5DeleteMonitor, F5GetPool,
             F5CreatePool, F5EditPool, F5DeletePool, F5GetPoolMembers, F5CreatePoolMember,
             F5DeletePoolMember, F5GetVIP, F5SetVIP, F5DeleteVIP, Running
    <3>2. QED BY <2>2, <2>3, <2>4, <3>1 DEF F5_BigIP, F5Next, F5Close
  <2>5. CASE Dummy
    <3>1. DummyRead \/ DummyWrite => op # None
      BY DEF DummyRead, DummyWrite, Running
    <3>2. QED BY <2>2, <2>3, <2>5, <3>1 DEF Dummy, DummyNext, DummyClose
  <2>6. QED BY <1>3, <2>4, <2>5
<1>4. QED BY <1>1, <1>2, <1>3 DEF Citrix_ADC, NetscalerNext

LEMMA EnvironmentSaves ==
  ASSUME SaveInv, Environment, UNCHANGED devices
  PROVE  SaveInv'
PROOF
<1>1. CASE ChangeSpec \/ ChangeNodes \/ Delete
  <2>1. EnvOp /\ UNCHANGED unsaved
    BY <1>1 DEF ChangeSpec, ChangeNodes, Delete, devices, netscaler
  <2>2. QED BY <2>1 DEF EnvOp, SaveInv, Phases, SaveAhead, Working, pass
<1>2. CASE Crash
  BY <1>2 DEF Crash, EndPass, SaveInv, Phases, SaveAhead, Working, object, devices, netscaler
<1>3. QED BY <1>1, <1>2 DEF Environment

(* Whatever spec, ports and nodes are configured, and however requests,    *)
(* saves and the operator itself fail: once the operator rests, the ADC    *)
(* holds no configuration that is not saved.                               *)
THEOREM SavesWhenDone == Spec => []SavedWhenDone
PROOF
<1>1. Init => SaveInv
  BY DEF Init, ClientInit, NetscalerInit, SaveInv, Phases, SaveAhead
<1>2. SaveInv /\ [Next]_vars => SaveInv'
  <2>1. ASSUME SaveInv, UNCHANGED vars PROVE SaveInv'
    BY <2>1
    DEF vars, client, outside, object, pass, devices, netscaler, SaveInv, Phases, SaveAhead
  <2>2. QED BY <2>1, ReconcileSaves, ProviderSaves, EnvironmentSaves DEF Next, Worker
<1>3. SaveInv => SavedWhenDone
  BY DEF SaveInv, SaveAhead, SavedWhenDone, AtRest
<1>4. QED BY <1>1, <1>2, <1>3, PTL DEF Spec

----------------------------------------------------------------------------
(* The contract.  What the calls left of an operation will do to the       *)
(* device, whoever makes it; g, b and S stand for the pool, its monitor    *)
(* and its members.                                                        *)
MemberMethods == {"CreatePoolMember", "DeletePoolMember"}

Left(calls, m) == {c \in Range(calls) : c.m = m}
HostsLeft(calls, m) == {c.host : c \in Left(calls, m)}
PortsLeft(calls, m) == {c.port : c \in Left(calls, m)}

(* No call of a comes after one of b.                                      *)
InOrder(calls, a, b) ==
  \A i, j \in DOMAIN calls : i < j /\ calls[i].m = b => calls[j].m # a

Reads(calls) == calls # <<>> /\ Head(calls).m \in {"GetPool", "GetPoolMembers"}

(* Hosts wanted and missing will be added, then the others removed, so     *)
(* that a pool in service is never drained.                                *)
MembersPlan(o, calls, S) ==
  /\ o.want \ S \subseteq HostsLeft(calls, "CreatePoolMember")
  /\ HostsLeft(calls, "CreatePoolMember") \subseteq o.want
  /\ S \ o.want \subseteq HostsLeft(calls, "DeletePoolMember")
  /\ HostsLeft(calls, "DeletePoolMember") \cap o.want = {}
  /\ InOrder(calls, "CreatePoolMember", "DeletePoolMember")

(* Only the first call may be another than one on a member.                *)
MembersFollow(calls) == calls # <<>> => \A c \in Range(Tail(calls)) : c.m \in MemberMethods

PoolPlan(o, calls, k, g, b, S) ==
  /\ Reads(calls) =>
       /\ Len(calls) = 1
       /\ Head(calls).m = "GetPoolMembers" \/ k > 0 => g
       /\ Head(calls).m = "GetPoolMembers" /\ Head(calls).bound => b
  /\ ~Reads(calls) =>
       /\ MembersFollow(calls)
       /\ MembersPlan(o, calls, S)
       /\ calls = <<>> \/ Head(calls).m \in MemberMethods => g /\ b
       /\ calls # <<>> /\ Head(calls).m = "EditPool" => g
       /\ calls # <<>> /\ Head(calls).m = "CreatePool" =>
            S = {} /\ (k > 0 => g) /\ (k > 1 => b)

(* VIPs on the ports V and the pools G will be deleted, in this order, and *)
(* the monitor.                                                            *)
CleanupPlan(calls, V, G, mon) ==
  /\ V \subseteq PortsLeft(calls, "DeleteVIP")
  /\ G \subseteq PortsLeft(calls, "DeletePool")
  /\ mon # None => Left(calls, "DeleteMonitor") # {}
  /\ InOrder(calls, "DeleteVIP", "DeletePool")

(* Lists of calls.                                                         *)
LEMMA RangeTail ==
  ASSUME NEW C, NEW s \in Seq(C), s # <<>>
  PROVE  Range(s) = Range(Tail(s)) \cup {Head(s)}
PROOF
<1> DEFINE n == Len(s)
<1>1. /\ n \in Nat \ {0} /\ DOMAIN s = 1..n /\ DOMAIN Tail(s) = 1..n - 1
      /\ s[1] = Head(s) /\ \A i \in 1..n - 1 : Tail(s)[i] = s[i + 1]
  BY Shorter
<1> HIDE DEF n
<1>2. ASSUME NEW i \in 1..n PROVE s[i] \in Range(Tail(s)) \cup {Head(s)}
  <2>1. CASE i = 1
    BY <1>1, <2>1
  <2>2. CASE i # 1
    <3>1. i - 1 \in 1..n - 1 /\ (i - 1) + 1 = i
      BY <1>1, <2>2
    <3>2. QED BY <1>1, <3>1 DEF Range
  <2>3. QED BY <2>1, <2>2
<1>3. ASSUME NEW i \in 1..n - 1 PROVE Tail(s)[i] \in Range(s)
  <2>1. i + 1 \in 1..n
    BY <1>1
  <2>2. QED BY <1>1, <2>1 DEF Range
<1>4. Head(s) \in Range(s)
  BY <1>1 DEF Range
<1>5. QED BY <1>1, <1>2, <1>3, <1>4 DEF Range

LEMMA Joined ==
  ASSUME NEW C, NEW s \in Seq(C), NEW t \in Seq(C)
  PROVE  s \o t \in Seq(C) /\ Range(s \o t) = Range(s) \cup Range(t)
PROOF
<1> DEFINE k == Len(s)
           n == Len(t)
           u == s \o t
<1>1. /\ k \in Nat /\ DOMAIN s = 1..k /\ n \in Nat /\ DOMAIN t = 1..n
      /\ u \in Seq(C) /\ DOMAIN u = 1..k + n
      /\ \A i \in 1..k + n : u[i] = IF i <= k THEN s[i] ELSE t[i - k]
  OBVIOUS
<1> HIDE DEF k, n, u
<1>2. \A i \in 1..k + n : (i <= k => i \in 1..k) /\ (~(i <= k) => i - k \in 1..n)
  BY <1>1
<1>3. ASSUME NEW i \in 1..k PROVE i \in 1..k + n /\ u[i] = s[i]
  BY <1>1
<1>4. ASSUME NEW i \in 1..n PROVE i + k \in 1..k + n /\ u[i + k] = t[i]
  <2>1. i + k \in 1..k + n /\ ~(i + k <= k) /\ (i + k) - k = i
    BY <1>1
  <2>2. QED BY <1>1, <2>1
<1>5. Range(u) = Range(s) \cup Range(t)
  <2>1. Range(u) \subseteq Range(s) \cup Range(t)
    BY <1>1, <1>2 DEF Range
  <2>2. Range(s) \subseteq Range(u)
    BY <1>1, <1>3 DEF Range
  <2>3. Range(t) \subseteq Range(u)
    BY <1>1, <1>4 DEF Range
  <2>4. QED BY <2>1, <2>2, <2>3
<1>6. QED BY <1>1, <1>5 DEF u

(* Lists joined in order are in order.                                     *)
LEMMA OrderJoined ==
  ASSUME NEW C, NEW s \in Seq(C), NEW t \in Seq(C), NEW a, NEW b,
         InOrder(s, a, b), InOrder(t, a, b), Left(s, b) = {} \/ Left(t, a) = {}
  PROVE  InOrder(s \o t, a, b)
PROOF
<1> DEFINE k == Len(s)
           n == Len(t)
           u == s \o t
<1>1. /\ k \in Nat /\ DOMAIN s = 1..k /\ n \in Nat /\ DOMAIN t = 1..n
      /\ u \in Seq(C) /\ DOMAIN u = 1..k + n
      /\ \A i \in 1..k + n : u[i] = IF i <= k THEN s[i] ELSE t[i - k]
  OBVIOUS
<1> HIDE DEF k, n, u
<1>2. InOrder(u, a, b)
  <2> SUFFICES ASSUME NEW i \in 1..k + n, NEW j \in 1..k + n, i < j, u[i].m = b
               PROVE  u[j].m # a
    BY <1>1 DEF InOrder
  <2>1. CASE j <= k
    <3>1. i \in 1..k /\ j \in 1..k /\ u[i] = s[i] /\ u[j] = s[j]
      BY <1>1, <2>1
    <3>2. QED BY <1>1, <3>1 DEF InOrder
  <2>2. CASE ~(i <= k)
    <3>1. i - k \in 1..n /\ j - k \in 1..n /\ i - k < j - k /\ ~(j <= k)
      BY <1>1, <2>2
    <3>2. u[i] = t[i - k] /\ u[j] = t[j - k]
      BY <1>1, <2>2, <3>1
    <3>3. QED BY <1>1, <3>1, <3>2 DEF InOrder
  <2>3. CASE i <= k /\ ~(j <= k)
    <3>1. i \in 1..k /\ u[i] = s[i] /\ j - k \in 1..n /\ u[j] = t[j - k]
      BY <1>1, <2>3
    <3>2. s[i] \in Range(s) /\ t[j - k] \in Range(t)
      BY <1>1, <3>1 DEF Range
    <3>3. QED BY <3>1, <3>2 DEF Left
  <2>4. QED BY <1>1, <2>1, <2>2, <2>3
<1>3. QED BY <1>2 DEF u

LEMMA OrderTail ==
  ASSUME NEW C, NEW s \in Seq(C), s # <<>>, NEW a, NEW b, InOrder(s, a, b)
  PROVE  /\ InOrder(Tail(s), a, b)
         /\ Head(s).m = b => Left(Tail(s), a) = {}
PROOF
<1> DEFINE n == Len(s)
<1>1. /\ n \in Nat \ {0} /\ DOMAIN s = 1..n /\ DOMAIN Tail(s) = 1..n - 1
      /\ s[1] = Head(s) /\ \A i \in 1..n - 1 : Tail(s)[i] = s[i + 1]
  BY Shorter
<1> HIDE DEF n
<1>2. InOrder(Tail(s), a, b)
  <2> SUFFICES ASSUME NEW i \in 1..n - 1, NEW j \in 1..n - 1, i < j, Tail(s)[i].m = b
               PROVE  Tail(s)[j].m # a
    BY <1>1 DEF InOrder
  <2>1. i + 1 \in 1..n /\ j + 1 \in 1..n /\ i + 1 < j + 1
    BY <1>1
  <2>2. QED BY <1>1, <2>1 DEF InOrder
<1>3. ASSUME Head(s).m = b, NEW i \in 1..n - 1 PROVE Tail(s)[i].m # a
  <2>1. 1 \in 1..n /\ i + 1 \in 1..n /\ 1 < i + 1
    BY <1>1
  <2>2. QED BY <1>1, <1>3, <2>1 DEF InOrder
<1>4. QED BY <1>1, <1>2, <1>3 DEF Left, Range

LEMMA OneMethod ==
  ASSUME NEW s, NEW a, NEW b, Left(s, a) = {} \/ Left(s, b) = {}
  PROVE  InOrder(s, a, b)
  BY DEF InOrder, Left, Range

LEMMA Single ==
  ASSUME NEW c
  PROVE  /\ Range(<<c>>) = {c} /\ Head(<<c>>) = c /\ Tail(<<c>>) = <<>> /\ Len(<<c>>) = 1
         /\ <<c>> # <<>> /\ Range(<<>>) = {}
  BY DEF Range

LEMMA LastCall ==
  ASSUME NEW C, NEW s \in Seq(C), s # <<>>, Len(s) = 1
  PROVE  Tail(s) = <<>>
PROOF
<1> DEFINE t == Tail(s)
<1>1. t \in Seq(C) /\ Len(t) = 0
  <2>1. t \in Seq(C) /\ Len(t) = Len(s) - 1
    BY Shorter
  <2>2. QED BY <2>1
<1> HIDE DEF t
<1>2. t = <<>>
  BY <1>1
<1>3. QED BY <1>2 DEF t

(* The call c on a member, carried out, makes Q of the members S.          *)
MemberCall(c, S, Q) ==
  \/ c.m = "CreatePoolMember" /\ Q = S \cup {c.host}
  \/ c.m = "DeletePoolMember" /\ Q = S \ {c.host}

(* From S towards W without a detour: the contract's TowardsMembers.       *)
Towards(S, Q, W) ==
  S \cap W \subseteq Q /\ Q \subseteq S \cup W /\ (S # {} /\ W # {} => Q # {})

(* A member's call is made: the pool has come one host nearer to the wanted ones. *)
LEMMA MemberPopped ==
  ASSUME NEW o, NEW C, NEW s \in Seq(C), s # <<>>, NEW k, NEW g \in BOOLEAN, NEW b \in BOOLEAN,
         NEW S, PoolPlan(o, s, k, g, b, S), NEW Q, MemberCall(Head(s), S, Q)
  PROVE  g /\ b /\ PoolPlan(o, Tail(s), 0, g, b, Q) /\ Towards(S, Q, o.want)
PROOF
<1> DEFINE t == Tail(s)
           h == Head(s).host
<1>1. Head(s).m \in MemberMethods
  BY DEF MemberMethods, MemberCall
<1>2. ~Reads(s) /\ g /\ b /\ MembersFollow(s) /\ MembersPlan(o, s, S)
  BY <1>1 DEF PoolPlan, Reads, MemberMethods
<1>3. InOrder(t, "CreatePoolMember", "DeletePoolMember")
  BY <1>2, OrderTail DEF MembersPlan
<1>4. Range(s) = Range(t) \cup {Head(s)} /\ t \in Seq(C)
  BY RangeTail
<1>5. t # <<>> => Range(t) = Range(Tail(t)) \cup {Head(t)}
  BY <1>4, RangeTail
<1>6. \A c \in Range(t) : c.m \in MemberMethods
  BY <1>2 DEF MembersFollow
<1> HIDE DEF t, h
<1>7. MembersFollow(t) /\ ~Reads(t) /\ (t # <<>> => Head(t).m \in MemberMethods)
  BY <1>5, <1>6 DEF MembersFollow, Reads, MemberMethods
<1>8. ASSUME MembersPlan(o, t, Q) PROVE PoolPlan(o, t, 0, g, b, Q)
  BY <1>2, <1>7, <1>8 DEF PoolPlan, MemberMethods
<1>9. CASE Head(s).m = "CreatePoolMember" /\ Q = S \cup {h}
  <2>1. /\ HostsLeft(s, "CreatePoolMember") = HostsLeft(t, "CreatePoolMember") \cup {h}
        /\ HostsLeft(s, "DeletePoolMember") = HostsLeft(t, "DeletePoolMember")
    BY <1>4, <1>9 DEF HostsLeft, Left, h
  <2>2. h \in o.want
    BY <1>2, <2>1 DEF MembersPlan
  <2>3. MembersPlan(o, t, Q)
    BY <1>2, <1>3, <1>9, <2>1, <2>2 DEF MembersPlan
  <2>4. Towards(S, Q, o.want)
    BY <1>9, <2>2 DEF Towards
  <2>5. QED BY <1>2, <1>8, <2>3, <2>4 DEF t
<1>10. CASE Head(s).m = "DeletePoolMember" /\ Q = S \ {h}
  <2>1. /\ HostsLeft(s, "CreatePoolMember") = HostsLeft(t, "CreatePoolMember")
        /\ HostsLeft(s, "DeletePoolMember") = HostsLeft(t, "DeletePoolMember") \cup {h}
    BY <1>4, <1>10 DEF HostsLeft, Left, h
  <2>2. HostsLeft(t, "CreatePoolMember") = {}
    <3>1. Left(t, "CreatePoolMember") = {}
      BY <1>2, <1>10, OrderTail DEF MembersPlan, t
    <3>2. QED BY <3>1 DEF HostsLeft
  <2>3. h \notin o.want /\ o.want \subseteq S
    BY <1>2, <2>1, <2>2 DEF MembersPlan
  <2>4. MembersPlan(o, t, Q)
    BY <1>2, <1>3, <1>10, <2>1, <2>3 DEF MembersPlan
  <2>5. Towards(S, Q, o.want)
    BY <1>10, <2>3 DEF Towards
  <2>6. QED BY <1>2, <1>8, <2>4, <2>5 DEF t
<1>11. QED BY <1>9, <1>10 DEF MemberCall, h

(* The pool is created or edited, to the last request.                     *)
LEMMA PoolPopped ==
  ASSUME NEW o, NEW C, NEW s \in Seq(C), s # <<>>, Head(s).m \in {"CreatePool", "EditPool"},
         NEW k, NEW g \in BOOLEAN, NEW b \in BOOLEAN, NEW S, PoolPlan(o, s, k, g, b, S)
  PROVE  PoolPlan(o, Tail(s), 0, TRUE, TRUE, S)
PROOF
<1> DEFINE t == Tail(s)
<1>1. ~Reads(s) /\ MembersFollow(s) /\ MembersPlan(o, s, S)
  BY DEF PoolPlan, Reads
<1>2. InOrder(t, "CreatePoolMember", "DeletePoolMember")
  BY <1>1, OrderTail DEF MembersPlan
<1>3. Range(s) = Range(t) \cup {Head(s)} /\ t \in Seq(C)
  BY RangeTail
<1>4. t # <<>> => Range(t) = Range(Tail(t)) \cup {Head(t)}
  BY <1>3, RangeTail
<1>5. \A c \in Range(t) : c.m \in MemberMethods
  BY <1>1 DEF MembersFollow
<1> HIDE DEF t
<1>6. MembersFollow(t) /\ ~Reads(t) /\ (t # <<>> => Head(t).m \in MemberMethods)
  BY <1>4, <1>5 DEF MembersFollow, Reads, MemberMethods
<1>7. /\ HostsLeft(s, "CreatePoolMember") = HostsLeft(t, "CreatePoolMember")
      /\ HostsLeft(s, "DeletePoolMember") = HostsLeft(t, "DeletePoolMember")
  BY <1>3 DEF HostsLeft, Left
<1>8. MembersPlan(o, t, S)
  BY <1>1, <1>2, <1>7 DEF MembersPlan
<1>9. PoolPlan(o, t, 0, TRUE, TRUE, S)
  BY <1>6, <1>8 DEF PoolPlan, MemberMethods
<1>10. QED BY <1>9 DEF t

(* The requests before a method's last one change nothing but g and b.     *)
LEMMA PoolProceeds ==
  ASSUME NEW o, NEW s, s # <<>>, NEW k, NEW g \in BOOLEAN, NEW b \in BOOLEAN, NEW S,
         PoolPlan(o, s, k, g, b, S), NEW l \in Nat, NEW h \in BOOLEAN, NEW c \in BOOLEAN,
         g => h, b => c, Head(s).m = "GetPool" => h,
         Head(s).m = "CreatePool" => h /\ (l > 1 => c)
  PROVE  PoolPlan(o, s, l, h, c, S)
PROOF
<1>1. CASE Reads(s)
  BY <1>1 DEF PoolPlan, Reads
<1>2. CASE ~Reads(s)
  BY <1>2 DEF PoolPlan, MemberMethods
<1>3. QED BY <1>1, <1>2

(* The first request of CreatePool makes the pool, the second its monitor. *)
LEMMA PoolMade ==
  ASSUME NEW o, NEW s, s # <<>>, Head(s).m \in {"CreatePool", "EditPool"}, NEW k,
         NEW g \in BOOLEAN, NEW b \in BOOLEAN, NEW S, PoolPlan(o, s, k, g, b, S)
  PROVE  PoolPlan(o, s, 1, TRUE, b, S) /\ PoolPlan(o, s, 2, TRUE, TRUE, S)
  BY DEF PoolPlan, Reads, MemberMethods

(* Calls for the hosts of S and no others.                                 *)
LEMMA MemberCallsLeft ==
  ASSUME NEW m, NEW p, NEW S \in SUBSET Hosts
  PROVE  /\ \A c \in Range(MemberCalls(m, p, S)) : c.m = m
         /\ HostsLeft(MemberCalls(m, p, S), m) = S
PROOF
<1> DEFINE hs == SetToSeq(S)
           s == MemberCalls(m, p, S)
<1>1. IsFiniteSet(S)
  BY PassConstants, FS_Subset
<1>2. S = {hs[i] : i \in DOMAIN hs}
  BY <1>1, Listing
<1>3. s = [i \in DOMAIN hs |-> Call(m, p, hs[i])]
  BY DEF MemberCalls
<1> HIDE DEF hs, s
<1>4. DOMAIN s = DOMAIN hs /\ \A i \in DOMAIN hs : s[i].m = m /\ s[i].host = hs[i]
  BY <1>3 DEF Call
<1>5. \A c \in Range(s) : c.m = m
  BY <1>4 DEF Range
<1>6. Left(s, m) = Range(s)
  BY <1>5 DEF Left
<1>7. HostsLeft(s, m) = S
  BY <1>2, <1>4, <1>6 DEF HostsLeft, Range
<1>8. QED BY <1>5, <1>7 DEF s

LEMMA Prepended ==
  ASSUME NEW C, NEW c \in C, NEW s \in Seq(C)
  PROVE  /\ <<c>> \o s \in Seq(C) /\ <<c>> \o s # <<>>
         /\ Head(<<c>> \o s) = c /\ Tail(<<c>> \o s) = s
         /\ Range(<<c>> \o s) = {c} \cup Range(s)
PROOF
<1>1. <<c>> \in Seq(C)
  OBVIOUS
<1>2. <<c>> \o s \in Seq(C) /\ Range(<<c>> \o s) = Range(<<c>>) \cup Range(s)
  BY <1>1, Joined, Zenon
<1>3. <<c>> \o s # <<>> /\ Head(<<c>> \o s) = c
  BY <1>1
<1>4. Tail(<<c>> \o s) = s
  BY <1>1
<1>5. QED BY <1>2, <1>3, <1>4, Single

(* The plan of members that are added, then removed.                       *)
LEMMA MembersPlanned ==
  ASSUME NEW C, NEW o, NEW S, o.want \in SUBSET Hosts, S \in SUBSET Hosts,
         NEW add \in Seq(C), NEW del \in Seq(C),
         add = MemberCalls("CreatePoolMember", o.port, o.want \ S),
         del = MemberCalls("DeletePoolMember", o.port, S \ o.want)
  PROVE  /\ add \o del \in Seq(C)
         /\ \A c \in Range(add \o del) : c.m \in MemberMethods
         /\ MembersPlan(o, add \o del, S)
PROOF
<1> DEFINE A == o.want \ S
           D == S \ o.want
<1>1. A \in SUBSET Hosts /\ D \in SUBSET Hosts
  OBVIOUS
<1>2. (\A c \in Range(add) : c.m = "CreatePoolMember") /\ HostsLeft(add, "CreatePoolMember") = A
  <2>1. HostsLeft(MemberCalls("CreatePoolMember", o.port, A), "CreatePoolMember") = A
    BY <1>1, MemberCallsLeft
  <2>2. \A c \in Range(MemberCalls("CreatePoolMember", o.port, A)) : c.m = "CreatePoolMember"
    BY <1>1, MemberCallsLeft
  <2>3. QED BY <2>1, <2>2
<1>3. (\A c \in Range(del) : c.m = "DeletePoolMember") /\ HostsLeft(del, "DeletePoolMember") = D
  <2>1. HostsLeft(MemberCalls("DeletePoolMember", o.port, D), "DeletePoolMember") = D
    BY <1>1, MemberCallsLeft
  <2>2. \A c \in Range(MemberCalls("DeletePoolMember", o.port, D)) : c.m = "DeletePoolMember"
    BY <1>1, MemberCallsLeft
  <2>3. QED BY <2>1, <2>2
<1>4. add \o del \in Seq(C) /\ Range(add \o del) = Range(add) \cup Range(del)
  <2>1. ASSUME NEW s \in Seq(C), NEW t \in Seq(C)
        PROVE  s \o t \in Seq(C) /\ Range(s \o t) = Range(s) \cup Range(t)
    BY Joined
  <2>2. QED BY <2>1, Zenon
<1>5. Left(add, "DeletePoolMember") = {} /\ Left(del, "CreatePoolMember") = {}
  BY <1>2, <1>3 DEF Left
<1>6. InOrder(add \o del, "CreatePoolMember", "DeletePoolMember")
  BY <1>5, OneMethod, OrderJoined
<1>7. HostsLeft(add \o del, "CreatePoolMember") = A /\ HostsLeft(add \o del, "DeletePoolMember") = D
  BY <1>2, <1>3, <1>4 DEF HostsLeft, Left
<1>8. MembersPlan(o, add \o del, S)
  BY <1>6, <1>7 DEF MembersPlan
<1>9. QED BY <1>2, <1>3, <1>4, <1>8 DEF MemberMethods

(* A call of EditPool or CreatePool in front changes nothing of it.        *)
LEMMA PlannedAfter ==
  ASSUME NEW C, NEW c \in C, c.m \notin MemberMethods, NEW s \in Seq(C), NEW o, NEW S,
         MembersPlan(o, s, S)
  PROVE  MembersPlan(o, <<c>> \o s, S)
PROOF
<1>1. <<c>> \in Seq(C) /\ Range(<<c>>) = {c}
  BY Single
<1>2. Left(<<c>>, "DeletePoolMember") = {} /\ Left(<<c>>, "CreatePoolMember") = {}
  BY <1>1 DEF Left, MemberMethods
<1>3. InOrder(<<c>> \o s, "CreatePoolMember", "DeletePoolMember")
  BY <1>1, <1>2, OneMethod, OrderJoined DEF MembersPlan
<1>4. Range(<<c>> \o s) = {c} \cup Range(s)
  BY Prepended
<1>5. /\ HostsLeft(<<c>> \o s, "CreatePoolMember") = HostsLeft(s, "CreatePoolMember")
      /\ HostsLeft(<<c>> \o s, "DeletePoolMember") = HostsLeft(s, "DeletePoolMember")
  BY <1>4 DEF HostsLeft, Left, MemberMethods
<1>6. QED BY <1>3, <1>5 DEF MembersPlan

(* What HandlePool plans when there is no pool.                            *)
LEMMA NoPoolPlan ==
  ASSUME NEW o, o.op = "pool", o.want \in SUBSET Hosts, NEW g \in BOOLEAN, NEW b \in BOOLEAN
  PROVE  PoolPlan(o, <<Call("CreatePool", o.port, None)>>
                       \o MemberCalls("CreatePoolMember", o.port, o.want), 0, g, b, {})
PROOF
<1> DEFINE c == Call("CreatePool", o.port, None)
           s == MemberCalls("CreatePoolMember", o.port, o.want)
<1>1. c.m = "CreatePool" /\ c \in CallsFor(o)
  BY DEF Call, CallsFor, PlainCalls
<1>2. s \in Seq(CallsFor(o))
  BY PoolMemberCalls
<1>3. (\A d \in Range(s) : d.m = "CreatePoolMember") /\ HostsLeft(s, "CreatePoolMember") = o.want
  <2>1. HostsLeft(s, "CreatePoolMember") = o.want
    BY MemberCallsLeft
  <2>2. \A d \in Range(s) : d.m = "CreatePoolMember"
    BY MemberCallsLeft
  <2>3. QED BY <2>1, <2>2
<1> HIDE DEF c, s
<1>4. HostsLeft(s, "DeletePoolMember") = {} /\ Left(s, "DeletePoolMember") = {}
  BY <1>3 DEF HostsLeft, Left
<1>5. MembersPlan(o, s, {})
  BY <1>3, <1>4, OneMethod DEF MembersPlan
<1>6. MembersPlan(o, <<c>> \o s, {})
  BY <1>1, <1>2, <1>5, PlannedAfter DEF MemberMethods
<1>7. Head(<<c>> \o s) = c /\ Tail(<<c>> \o s) = s /\ <<c>> \o s # <<>>
  BY <1>1, <1>2, Prepended
<1>8. MembersFollow(<<c>> \o s) /\ ~Reads(<<c>> \o s)
  BY <1>1, <1>3, <1>7 DEF MembersFollow, Reads, MemberMethods
<1>9. PoolPlan(o, <<c>> \o s, 0, g, b, {})
  BY <1>1, <1>6, <1>7, <1>8 DEF PoolPlan, MemberMethods
<1>10. QED BY <1>9 DEF c, s

(* What it plans once it knows the members.                                *)
LEMMA GotMembersPlan ==
  ASSUME NEW o, o.op = "pool", o.want \in SUBSET Hosts, NEW S \in SUBSET Hosts,
         NEW k \in BOOLEAN, NEW b \in BOOLEAN, k => b
  PROVE  PoolPlan(o, (IF k THEN <<>> ELSE <<Call("EditPool", o.port, None)>>)
                       \o MemberCalls("CreatePoolMember", o.port, o.want \ S)
                       \o MemberCalls("DeletePoolMember", o.port, S \ o.want),
                  0, TRUE, b, S)
PROOF
<1> DEFINE c == Call("EditPool", o.port, None)
           A == o.want \ S
           D == S \ o.want
           add == MemberCalls("CreatePoolMember", o.port, A)
           del == MemberCalls("DeletePoolMember", o.port, D)
           s == add \o del
<1>1. c.m = "EditPool" /\ c \in CallsFor(o)
  BY DEF Call, CallsFor, PlainCalls
<1>2. add \in Seq(CallsFor(o))
  <2>1. A \in SUBSET Hosts
    OBVIOUS
  <2> HIDE DEF A
  <2>2. QED BY <2>1, PoolMemberCalls
<1>3. del \in Seq(CallsFor(o))
  <2>1. D \in SUBSET Hosts
    OBVIOUS
  <2> HIDE DEF D
  <2>2. QED BY <2>1, PoolMemberCalls
<1>4. /\ s \in Seq(CallsFor(o)) /\ MembersPlan(o, s, S)
      /\ \A d \in Range(s) : d.m \in MemberMethods
  BY <1>2, <1>3, MembersPlanned
<1>5. CASE k
  <2>1. (IF k THEN <<>> ELSE <<c>>) \o add \o del = s
    <3> HIDE DEF add, del
    <3>1. <<>> \o add = add
      BY <1>2
    <3>2. QED BY <1>5, <3>1 DEF s
  <2> HIDE DEF s
  <2>2. s # <<>> => Range(s) = Range(Tail(s)) \cup {Head(s)}
    BY <1>4, RangeTail
  <2>3. MembersFollow(s) /\ ~Reads(s) /\ (s # <<>> => Head(s).m \in MemberMethods)
    BY <1>4, <2>2 DEF MembersFollow, Reads, MemberMethods
  <2>4. PoolPlan(o, s, 0, TRUE, b, S)
    BY <1>4, <1>5, <2>3 DEF PoolPlan, MemberMethods
  <2>5. QED BY <2>1, <2>4
<1>6. CASE ~k
  <2>1. (IF k THEN <<>> ELSE <<c>>) \o add \o del = <<c>> \o s
    <3> HIDE DEF add, del, c
    <3>1. (<<c>> \o add) \o del = <<c>> \o (add \o del)
      BY <1>1, <1>2, <1>3
    <3>2. QED BY <1>6, <3>1
  <2> DEFINE t == <<c>> \o s
  <2>2. MembersPlan(o, t, S) /\ Head(t) = c /\ Tail(t) = s /\ t # <<>>
    <3> HIDE DEF s, c
    <3>1. MembersPlan(o, t, S)
      BY <1>1, <1>4, PlannedAfter DEF MemberMethods
    <3>2. QED BY <1>1, <1>4, <3>1, Prepended
  <2> HIDE DEF t, s, c
  <2>3. MembersFollow(t) /\ ~Reads(t)
    BY <1>1, <1>4, <2>2 DEF MembersFollow, Reads, MemberMethods
  <2>4. PoolPlan(o, t, 0, TRUE, b, S)
    BY <1>1, <2>2, <2>3 DEF PoolPlan, MemberMethods
  <2>5. QED BY <2>1, <2>4 DEF t, c
<1>7. QED BY <1>5, <1>6

(* A pool that has yet to be read may be in any state.                     *)
LEMMA ReadPlan ==
  ASSUME NEW o, NEW c, NEW g \in BOOLEAN, NEW b \in BOOLEAN, NEW S,
         \/ c.m = "GetPool"
         \/ c.m = "GetPoolMembers" /\ g /\ (c.bound => b)
  PROVE  PoolPlan(o, <<c>>, 0, g, b, S)
PROOF
<1>1. Reads(<<c>>)
  BY Single DEF Reads
<1>2. QED BY <1>1, Single DEF PoolPlan

(* With no call left the pool is as wanted.                                *)
LEMMA PoolDone ==
  ASSUME NEW o, NEW k, NEW g \in BOOLEAN, NEW b \in BOOLEAN, NEW S, PoolPlan(o, <<>>, k, g, b, S)
  PROVE  g /\ b /\ S = o.want
PROOF
<1>1. ~Reads(<<>>)
  BY DEF Reads
<1>2. g /\ b /\ MembersPlan(o, <<>>, S)
  BY <1>1 DEF PoolPlan
<1>3. \A m : HostsLeft(<<>>, m) = {}
  BY Single DEF HostsLeft, Left
<1>4. o.want \subseteq S /\ S \subseteq o.want
  BY <1>2, <1>3 DEF MembersPlan
<1>5. QED BY <1>2, <1>4

(* HandleCleanup plans to delete everything, virtual servers first.        *)
LEMMA CleanupPlanned ==
  ASSUME want \in SUBSET Hosts, NEW V \in SUBSET Ports, NEW G \in SUBSET Ports, NEW mon
  PROVE  CleanupPlan(CleanupCalls, V, G, mon)
PROOF
<1> DEFINE D == HostCalls({"DeletePoolMember"}, Ports)
           OnPorts(m) == [i \in DOMAIN PortList |-> Call(m, PortList[i], None)]
           lists == [i \in DOMAIN PortList |->
                       MemberCalls("DeletePoolMember", PortList[i], want)]
           C == Calls
           a == OnPorts("DeleteVIP")
           b == FlattenSeq(lists)
           c == OnPorts("DeletePool")
           d == <<Call("DeleteMonitor", None, None)>>
<1>1. ASSUME NEW m \in {"DeleteVIP", "DeletePool"}
      PROVE  /\ OnPorts(m) \in Seq(C)
             /\ \A e \in Range(OnPorts(m)) : e.m = m
             /\ PortsLeft(OnPorts(m), m) = Ports
  <2>1. Len(PortList) \in Nat /\ DOMAIN PortList = 1..Len(PortList)
    BY PassConstants
  <2>2. \A i \in DOMAIN PortList : Call(m, PortList[i], None) \in C
    BY PassConstants DEF Call, Calls
  <2>3. OnPorts(m) \in [1..Len(PortList) -> C]
    BY <2>1, <2>2
  <2> DEFINE s == OnPorts(m)
  <2>4. DOMAIN s = DOMAIN PortList /\ \A i \in DOMAIN PortList : s[i].m = m /\ s[i].port = PortList[i]
    BY DEF Call
  <2> HIDE DEF s
  <2>5. s \in Seq(C)
    BY <2>1, <2>3, ListIsSeq DEF s
  <2>6. \A e \in Range(s) : e.m = m
    BY <2>4 DEF Range
  <2>7. Left(s, m) = Range(s)
    BY <2>6 DEF Left
  <2>8. PortsLeft(s, m) = Ports
    BY <2>4, <2>7, PassConstants DEF PortsLeft, Range
  <2>9. QED BY <2>5, <2>6, <2>8 DEF s
<1>2. b \in Seq(D) /\ D \subseteq C
  <2>1. b \in Seq(D)
    BY MemberListsType
  <2>2. D \subseteq C
    BY DEF HostCalls, Calls
  <2>3. QED BY <2>1, <2>2
<1>3. b \in Seq(C) /\ \A e \in Range(b) : e.m = "DeletePoolMember"
  <2>1. \A i \in DOMAIN b : b[i] \in D
    <3> HIDE DEF b, D
    <3>1. QED BY <1>2
  <2>2. \A e \in D : e.m = "DeletePoolMember"
    BY DEF HostCalls
  <2> HIDE DEF b, D, C
  <2>3. b \in Seq(C)
    BY <1>2, SeqSubset
  <2>4. QED BY <2>1, <2>2, <2>3 DEF Range
<1>4. /\ d \in Seq(C) /\ \A e \in Range(d) : e.m = "DeleteMonitor"
      /\ Left(d, "DeleteMonitor") # {}
  <2>1. Call("DeleteMonitor", None, None) \in C
    BY DEF Call, Calls
  <2>2. Range(d) = {Call("DeleteMonitor", None, None)} /\ d \in Seq(C)
    BY <2>1, Single
  <2>3. Call("DeleteMonitor", None, None).m = "DeleteMonitor"
    BY DEF Call
  <2> HIDE DEF d
  <2>4. QED BY <2>2, <2>3 DEF Left
<1>5. CleanupCalls = a \o b \o c \o d
  BY DEF CleanupCalls
<1>6. /\ a \in Seq(C) /\ \A e \in Range(a) : e.m = "DeleteVIP"
      /\ PortsLeft(a, "DeleteVIP") = Ports
  BY <1>1
<1>7. /\ c \in Seq(C) /\ \A e \in Range(c) : e.m = "DeletePool"
      /\ PortsLeft(c, "DeletePool") = Ports
  BY <1>1
<1> HIDE DEF a, b, c, d, C
<1> DEFINE ab == a \o b
           abc == ab \o c
           abcd == abc \o d
<1>8. ab \in Seq(C) /\ Range(ab) = Range(a) \cup Range(b)
  BY <1>3, <1>6, Joined
<1> HIDE DEF ab
<1>9. abc \in Seq(C) /\ Range(abc) = Range(ab) \cup Range(c)
  BY <1>7, <1>8, Joined
<1> HIDE DEF abc
<1>10. abcd \in Seq(C) /\ Range(abcd) = Range(abc) \cup Range(d)
  BY <1>4, <1>9, Joined
<1>11. InOrder(abcd, "DeleteVIP", "DeletePool")
  <2>1. InOrder(ab, "DeleteVIP", "DeletePool")
    <3>1. Left(ab, "DeletePool") = {}
      BY <1>3, <1>6, <1>8 DEF Left
    <3>2. QED BY <3>1, OneMethod
  <2>2. InOrder(abc, "DeleteVIP", "DeletePool")
    <3>1. Left(c, "DeleteVIP") = {}
      BY <1>7 DEF Left
    <3>2. InOrder(c, "DeleteVIP", "DeletePool")
      BY <3>1, OneMethod
    <3>3. QED BY <1>7, <1>8, <2>1, <3>1, <3>2, OrderJoined DEF abc
  <2>3. Left(d, "DeleteVIP") = {}
    BY <1>4 DEF Left
  <2>4. InOrder(d, "DeleteVIP", "DeletePool")
    BY <2>3, OneMethod
  <2>5. QED BY <1>4, <1>9, <2>2, <2>3, <2>4, OrderJoined
<1> HIDE DEF abcd
<1>12. Range(a) \cup Range(c) \cup Range(d) \subseteq Range(abcd)
  BY <1>8, <1>9, <1>10
<1>13. Ports \subseteq PortsLeft(abcd, "DeleteVIP") /\ Ports \subseteq PortsLeft(abcd, "DeletePool")
  BY <1>6, <1>7, <1>12 DEF PortsLeft, Left
<1>14. Left(abcd, "DeleteMonitor") # {}
  BY <1>4, <1>12 DEF Left
<1>15. CleanupPlan(abcd, V, G, mon)
  BY <1>11, <1>13, <1>14 DEF CleanupPlan
<1>16. QED BY <1>5, <1>15 DEF abcd, abc, ab

(* A request of the cleanup is carried out.                                *)
LEMMA CleanupPopped ==
  ASSUME NEW C, NEW s \in Seq(C), s # <<>>, NEW V, NEW G, NEW mon, CleanupPlan(s, V, G, mon)
  PROVE  /\ Head(s).m = "DeleteVIP" => CleanupPlan(Tail(s), V \ {Head(s).port}, G, mon)
         /\ Head(s).m = "DeletePool" =>
              V = {} /\ CleanupPlan(Tail(s), V, G \ {Head(s).port}, mon)
         /\ Head(s).m = "DeletePoolMember" => CleanupPlan(Tail(s), V, G, mon)
         /\ Head(s).m = "DeleteMonitor" => CleanupPlan(Tail(s), V, G, None)
PROOF
<1> DEFINE t == Tail(s)
<1>1. Range(s) = Range(t) \cup {Head(s)}
  BY RangeTail
<1>2. /\ InOrder(t, "DeleteVIP", "DeletePool")
      /\ Head(s).m = "DeletePool" => Left(t, "DeleteVIP") = {}
  BY OrderTail DEF CleanupPlan
<1> HIDE DEF t
<1>3. ASSUME NEW m, Head(s).m # m
      PROVE  Left(s, m) = Left(t, m) /\ PortsLeft(s, m) = PortsLeft(t, m)
  BY <1>1, <1>3 DEF PortsLeft, Left
<1>4. CASE Head(s).m = "DeleteVIP"
  <2>1. PortsLeft(s, "DeleteVIP") = PortsLeft(t, "DeleteVIP") \cup {Head(s).port}
    BY <1>1, <1>4 DEF PortsLeft, Left
  <2>2. /\ PortsLeft(s, "DeletePool") = PortsLeft(t, "DeletePool")
        /\ Left(s, "DeleteMonitor") = Left(t, "DeleteMonitor")
    BY <1>3, <1>4
  <2>3. CleanupPlan(t, V \ {Head(s).port}, G, mon)
    BY <1>2, <2>1, <2>2 DEF CleanupPlan
  <2>4. QED BY <1>4, <2>3 DEF t
<1>5. CASE Head(s).m = "DeletePool"
  <2>1. PortsLeft(s, "DeletePool") = PortsLeft(t, "DeletePool") \cup {Head(s).port}
    BY <1>1, <1>5 DEF PortsLeft, Left
  <2>2. /\ PortsLeft(s, "DeleteVIP") = PortsLeft(t, "DeleteVIP")
        /\ Left(s, "DeleteMonitor") = Left(t, "DeleteMonitor")
    BY <1>3, <1>5
  <2>3. V = {}
    <3>1. PortsLeft(t, "DeleteVIP") = {}
      BY <1>2, <1>5 DEF PortsLeft
    <3>2. QED BY <2>2, <3>1 DEF CleanupPlan
  <2>4. CleanupPlan(t, V, G \ {Head(s).port}, mon)
    BY <1>2, <2>1, <2>2 DEF CleanupPlan
  <2>5. QED BY <1>5, <2>3, <2>4 DEF t
<1>6. CASE Head(s).m = "DeletePoolMember"
  <2>1. /\ PortsLeft(s, "DeleteVIP") = PortsLeft(t, "DeleteVIP")
        /\ PortsLeft(s, "DeletePool") = PortsLeft(t, "DeletePool")
        /\ Left(s, "DeleteMonitor") = Left(t, "DeleteMonitor")
    BY <1>3, <1>6
  <2>2. CleanupPlan(t, V, G, mon)
    BY <1>2, <2>1 DEF CleanupPlan
  <2>3. QED BY <1>6, <2>2 DEF t
<1>7. CASE Head(s).m = "DeleteMonitor"
  <2>1. /\ PortsLeft(s, "DeleteVIP") = PortsLeft(t, "DeleteVIP")
        /\ PortsLeft(s, "DeletePool") = PortsLeft(t, "DeletePool")
    BY <1>3, <1>7
  <2>2. CleanupPlan(t, V, G, None)
    BY <1>2, <2>1 DEF CleanupPlan
  <2>3. QED BY <1>7, <2>2 DEF t
<1>8. QED BY <1>4, <1>5, <1>6, <1>7

(* When no call is left, nothing is left on the device.                    *)
LEMMA CleanupDone ==
  ASSUME NEW V, NEW G, NEW mon, CleanupPlan(<<>>, V, G, mon)
  PROVE  V = {} /\ G = {} /\ mon = None
PROOF
<1>1. \A m : PortsLeft(<<>>, m) = {} /\ Left(<<>>, m) = {}
  BY Single DEF PortsLeft, Left
<1>2. QED BY <1>1 DEF CleanupPlan

----------------------------------------------------------------------------
(* What a request leaves of the operation that made it.                    *)
Done == todo' = Tail(todo) /\ at' = 0 /\ failed' = FALSE
GoesOn == todo' = todo /\ at' = at + 1 /\ failed' = FALSE
Failed == todo' = <<>> /\ at' = 0 /\ failed' = TRUE
Skipped == op.op = "cleanup" /\ Head(todo).m = "DeletePoolMember" /\ Done

LEMMA CallingList ==
  ASSUME ClientInv, Calling
  PROVE  /\ op # None /\ todo \in Seq(CallsFor(op)) /\ todo # <<>> /\ failed = FALSE
         /\ Tail(todo) \in Seq(CallsFor(op))
         /\ op.op \in {"monitor", "vip"} => Tail(todo) = <<>>
PROOF
<1>1. /\ op # None /\ todo \in Seq(CallsFor(op)) /\ todo # <<>> /\ failed = FALSE
      /\ op.op \in {"monitor", "vip"} => Len(todo) <= 1
  BY NoneIsNothing DEF ClientInv, FrameOK, Calling
<1>2. Tail(todo) \in Seq(CallsFor(op)) /\ Len(Tail(todo)) = Len(todo) - 1
  BY <1>1
<1>3. op.op \in {"monitor", "vip"} => Len(Tail(todo)) <= 0
  BY <1>1, <1>2
<1>4. QED BY <1>1, <1>2, <1>3

(* How the three ways out of a request leave the calls to come.            *)
LEMMA RequestLeaves ==
  ASSUME ClientInv, Calling
  PROVE  /\ Return(<<>>) => Done
         /\ Proceed => GoesOn
         /\ Fail => Failed \/ Skipped
PROOF
<1>1. Tail(todo) \in Seq(CallsFor(op)) /\ failed = FALSE
  BY CallingList
<1>2. <<>> \o Tail(todo) = Tail(todo)
  BY <1>1
<1>3. Return(<<>>) => Done
  BY <1>1, <1>2 DEF Return, Done
<1>4. Proceed => GoesOn
  BY <1>1 DEF Proceed, GoesOn
<1>5. Fail => Failed \/ Skipped
  BY <1>1 DEF Fail, Failed, Skipped, Done
<1>6. QED BY <1>3, <1>4, <1>5

(* An answer that leads to no further call is the one that was wanted.     *)
LEMMA MonitorTodo ==
  ASSUME ClientInv, Calling, op.op = "monitor", NEW found, GotMonitor(found)
  PROVE  at' = 0 /\ failed' = FALSE /\ (todo' = <<>> => found # None /\ found = op.monitor)
PROOF
<1> DEFINE calls == CASE found = None -> <<Call("CreateMonitor", None, None)>>
                      [] found # None /\ found # op.monitor -> <<Call("EditMonitor", None, None)>>
                      [] OTHER -> <<>>
<1>1. Tail(todo) = <<>> /\ failed = FALSE
  BY CallingList
<1>2. todo' = calls \o <<>> /\ at' = 0 /\ failed' = FALSE
  BY <1>1 DEF GotMonitor, Return
<1>3. calls # <<>> \/ (calls = <<>> /\ found # None /\ found = op.monitor)
  OBVIOUS
<1>4. calls \o <<>> = calls
  OBVIOUS
<1> HIDE DEF calls
<1>5. QED BY <1>2, <1>3, <1>4

LEMMA VIPTodo ==
  ASSUME ClientInv, Calling, op.op = "vip", NEW found, GotVIP(found)
  PROVE  at' = 0 /\ failed' = FALSE /\ (todo' = <<>> => found # None /\ found = op.ip)
PROOF
<1> DEFINE calls == CASE found = None -> <<Call("CreateVIP", op.port, None)>>
                      [] found # None /\ found # op.ip -> <<Call("EditVIP", op.port, None)>>
                      [] OTHER -> <<>>
<1>1. Tail(todo) = <<>> /\ failed = FALSE
  BY CallingList
<1>2. todo' = calls \o <<>> /\ at' = 0 /\ failed' = FALSE
  BY <1>1 DEF GotVIP, Return
<1>3. calls # <<>> \/ (calls = <<>> /\ found # None /\ found = op.ip)
  OBVIOUS
<1>4. calls \o <<>> = calls
  OBVIOUS
<1> HIDE DEF calls
<1>5. QED BY <1>2, <1>3, <1>4

(* The answers about a pool lead to a plan; g, b and S are what they found. *)
LEMMA PoolTodo ==
  ASSUME ClientInv, Calling, op.op = "pool", Tail(todo) = <<>>,
         NEW g \in BOOLEAN, NEW b \in BOOLEAN, NEW S \in SUBSET Hosts,
         \/ NoPool /\ S = {}
         \/ \E k \in BOOLEAN : GotPool(k) /\ g /\ (k => b)
         \/ GotMembers(S) /\ g /\ (Head(todo).bound => b)
  PROVE  at' = 0 /\ failed' = FALSE /\ PoolPlan(op, todo', 0, g, b, S)
PROOF
<1>1. op.want \in SUBSET Hosts /\ failed = FALSE
  BY OpKinds DEF Calling
<1>2. CASE NoPool /\ S = {}
  <2> DEFINE s == <<Call("CreatePool", op.port, None)>>
                    \o MemberCalls("CreatePoolMember", op.port, op.want)
  <2>1. PoolPlan(op, s, 0, g, b, {})
    BY <1>1, NoPoolPlan
  <2>2. Return(s)
    BY <1>2 DEF NoPool
  <2>3. s \in Seq(CallsFor(op))
    <3>1. Call("CreatePool", op.port, None) \in CallsFor(op)
      BY DEF CallsFor, PlainCalls, Call
    <3>2. MemberCalls("CreatePoolMember", op.port, op.want) \in Seq(CallsFor(op))
      BY <1>1, PoolMemberCalls
    <3>3. QED BY <3>1, <3>2, Prepended
  <2> HIDE DEF s
  <2>4. s \o <<>> = s
    BY <2>3
  <2>5. QED BY <1>1, <1>2, <2>1, <2>2, <2>4 DEF Return
<1>3. ASSUME NEW k \in BOOLEAN, GotPool(k), g, k => b
      PROVE  at' = 0 /\ failed' = FALSE /\ PoolPlan(op, todo', 0, g, b, S)
  <2> DEFINE c == MembersCall(op.port, k)
  <2>1. c.m = "GetPoolMembers" /\ c.bound = k
    BY DEF MembersCall, Call
  <2>2. Return(<<c>>)
    BY <1>3 DEF GotPool
  <2> HIDE DEF c
  <2>3. PoolPlan(op, <<c>>, 0, g, b, S)
    BY <1>3, <2>1, ReadPlan
  <2>4. <<c>> \o <<>> = <<c>>
    OBVIOUS
  <2>5. QED BY <1>1, <2>2, <2>3, <2>4 DEF Return
<1>4. CASE GotMembers(S) /\ g /\ (Head(todo).bound => b)
  <2> DEFINE k == Head(todo).bound
             first == IF k THEN <<>> ELSE <<Call("EditPool", op.port, None)>>
             add == MemberCalls("CreatePoolMember", op.port, op.want \ S)
             del == MemberCalls("DeletePoolMember", op.port, S \ op.want)
             s == first \o add \o del
  <2>1. k \in BOOLEAN
    <3>1. Head(todo) \in Calls
      BY CallKinds DEF Calling
    <3>2. QED BY <3>1 DEF Calls
  <2>2. PoolPlan(op, s, 0, TRUE, b, S)
    <3> HIDE DEF k
    <3>1. k => b
      BY <1>4 DEF k
    <3>2. QED BY <1>1, <2>1, <3>1, GotMembersPlan
  <2>3. Return(s)
    BY <1>4 DEF GotMembers
  <2>4. s \in Seq(CallsFor(op))
    <3>1. Call("EditPool", op.port, None) \in CallsFor(op)
      BY DEF CallsFor, PlainCalls, Call
    <3>2. first \in Seq(CallsFor(op))
      BY <3>1
    <3>3. add \in Seq(CallsFor(op))
      BY <1>1, PoolMemberCalls
    <3>4. del \in Seq(CallsFor(op))
      BY <1>1, PoolMemberCalls
    <3> HIDE DEF first, add, del
    <3>5. QED BY <3>2, <3>3, <3>4
  <2> HIDE DEF s
  <2>5. s \o <<>> = s
    BY <2>4
  <2>6. QED BY <1>1, <1>4, <2>2, <2>3, <2>5 DEF Return
<1>5. QED BY <1>2, <1>3, <1>4

----------------------------------------------------------------------------
(* The steps of the client: nothing happens to the operation, one begins,  *)
(* one ends or is cut off.                                                 *)
Quiet == UNCHANGED <<adc, f5, vendor, op, todo, at, failed>>

Begun ==
  /\ op = None /\ op' \in Operations /\ todo' = FirstCalls(op')
  /\ UNCHANGED <<adc, f5, vendor, at, failed>>

Ended ==
  /\ op' = None /\ todo' = <<>> /\ at' = 0 /\ failed' = FALSE
  /\ at > 0 => vendor \in CrashInside
  /\ UNCHANGED <<adc, f5, vendor>>

(* Every step is one of these.                                             *)
LEMMA ClientSteps ==
  ASSUME VendorInv, [Next]_vars
  PROVE  \/ Quiet \/ Begun \/ Ended
         \/ vendor = "Citrix_ADC" /\ NetscalerMethod /\ UNCHANGED f5
         \/ vendor = "F5_BigIP" /\ F5Method /\ UNCHANGED adc
         \/ vendor = "Dummy" /\ UNCHANGED <<vendor, adc, f5>>
PROOF
<1>1. /\ op # None \/ ops # <<>> => pc \in Working
      /\ op = None => todo = <<>> /\ at = 0 /\ failed = FALSE
      /\ todo = <<>> => at = 0
      /\ failed \in BOOLEAN /\ ops \in Seq(Operations)
  BY DEF VendorInv, ClientInv, Phases, FrameOK, ClientTypeOK
<1>2. CASE Reconcile /\ UNCHANGED devices
  <2>1. UNCHANGED <<adc, f5>>
    BY <1>2 DEF devices, netscaler
  <2>2. CASE StartPass
    BY <2>1, <2>2 DEF StartPass, frame, object, Quiet
  <2>3. CASE BeginOp
    <3>1. Head(ops) \in Operations
      BY <1>1, <2>3 DEF BeginOp
    <3>2. QED BY <2>1, <2>3, <3>1 DEF BeginOp, outside, object, Begun
  <2>4. CASE EndOp
    BY <1>1, <2>1, <2>4 DEF EndOp, Requeue, EndPass, object, Ended
  <2>5. CASE WriteStatus
    <3>1. op = None
      BY <1>1, <2>5 DEF WriteStatus, Working
    <3>2. QED BY <1>1, <2>1, <2>5, <3>1 DEF WriteStatus, EndPass, object, Quiet
  <2>6. CASE RemoveFinalizer
    <3>1. op = None
      BY <1>1, <2>6 DEF RemoveFinalizer, Working
    <3>2. QED BY <1>1, <2>1, <2>6, <3>1 DEF RemoveFinalizer, EndPass, Quiet
  <2>7. QED BY <1>2, <2>2, <2>3, <2>4, <2>5, <2>6 DEF Reconcile
<1>3. ASSUME Closing, Closed \/ Requeue, UNCHANGED <<adc, f5, object>> PROVE Quiet
  <2>1. op = None
    BY <1>1, <1>3 DEF Closing, Working
  <2>2. QED BY <1>1, <1>3, <2>1 DEF Closed, Requeue, EndPass, object, Quiet
<1>4. CASE Citrix_ADC
  <2>1. CASE NetscalerClose
    BY <1>3, <1>4, <2>1 DEF NetscalerClose, CloseFails, Citrix_ADC
  <2>2. QED BY <1>4, <2>1 DEF Citrix_ADC, NetscalerNext
<1>5. CASE F5_BigIP
  <2>1. CASE F5Close
    BY <1>3, <1>5, <2>1 DEF F5Close, F5_BigIP, netscaler
  <2>2. QED BY <1>5, <2>1 DEF F5_BigIP, F5Next, netscaler
<1>6. CASE Dummy
  BY <1>6 DEF Dummy, DummyNext, DummyClose, devices, netscaler, outside, object
<1>7. CASE Environment /\ UNCHANGED devices
  <2>1. UNCHANGED <<adc, f5>>
    BY <1>7 DEF devices, netscaler
  <2>2. CASE Crash
    BY <2>1, <2>2 DEF Crash, EndPass, object, Ended
  <2>3. CASE EnvOp
    BY <2>1, <2>3 DEF EnvOp, pass, frame, Quiet
  <2>4. QED BY <1>7, <2>2, <2>3 DEF Environment, ChangeSpec, ChangeNodes, Delete
<1>8. CASE UNCHANGED vars
  BY <1>8 DEF vars, client, outside, object, pass, frame, devices, netscaler, Quiet
<1>9. QED BY <1>2, <1>4, <1>5, <1>6, <1>7, <1>8 DEF Next, Worker

(* What an operation that has just begun has to do.                        *)
LEMMA FirstPlan ==
  ASSUME VendorInv, Begun, NEW g \in BOOLEAN, NEW b \in BOOLEAN, NEW S,
         NEW V \in SUBSET Ports, NEW G \in SUBSET Ports, NEW mon
  PROVE  /\ op'.op # "cleanup" => todo' # <<>>
         /\ op'.op = "pool" => PoolPlan(op', todo', 0, g, b, S)
         /\ op'.op = "cleanup" => CleanupPlan(todo', V, G, mon)
PROOF
<1>1. want \in SUBSET Hosts /\ op' \in Operations /\ todo' = FirstCalls(op')
  BY DEF VendorInv, ClientInv, ClientTypeOK, Begun
<1>2. op'.op \in {"monitor", "pool", "vip", "cleanup"}
  BY <1>1, OpKinds
<1>3. op'.op # "cleanup" => todo' # <<>>
  BY <1>1, <1>2 DEF FirstCalls
<1>4. ASSUME op'.op = "pool" PROVE PoolPlan(op', todo', 0, g, b, S)
  <2> DEFINE c == Call("GetPool", op'.port, None)
  <2>1. c.m = "GetPool" /\ todo' = <<c>>
    BY <1>1, <1>4 DEF Call, FirstCalls
  <2> HIDE DEF c
  <2>2. PoolPlan(op', <<c>>, 0, g, b, S)
    BY <2>1, ReadPlan
  <2>3. QED BY <2>1, <2>2
<1>5. ASSUME op'.op = "cleanup" PROVE CleanupPlan(todo', V, G, mon)
  <2>1. todo' = CleanupCalls
    BY <1>1, <1>5 DEF FirstCalls
  <2>2. QED BY <1>1, <2>1, CleanupPlanned
<1>6. QED BY <1>3, <1>4, <1>5

(* What the contract sees of these steps: the call under way and what it   *)
(* has returned.                                                           *)
LEMMA CallSeen ==
  ASSUME VendorInv, NEW v
  PROVE  /\ Quiet => UNCHANGED <<CallOn(v), ResultOn(v)>>
         /\ vendor # v /\ vendor' = vendor => UNCHANGED <<CallOn(v), ResultOn(v)>>
         /\ vendor = v /\ Begun => /\ CallOn(v) = None /\ CallOn(v)' # None
                                   /\ ResultOn(v)' = "none"
         /\ vendor = v /\ Ended => CallOn(v)' = None /\ ResultOn(v)' = "none"
PROOF
<1>1. Quiet => UNCHANGED <<CallOn(v), ResultOn(v)>>
  BY DEF Quiet, CallOn, ResultOn
<1>2. vendor # v /\ vendor' = vendor => UNCHANGED <<CallOn(v), ResultOn(v)>>
  BY DEF CallOn, ResultOn
<1>3. ASSUME vendor = v, Begun
      PROVE  CallOn(v) = None /\ CallOn(v)' # None /\ ResultOn(v)' = "none"
  <2>1. todo' # <<>> /\ failed' = FALSE
    BY <1>3, FirstCallsType DEF Begun, VendorInv, ClientInv, ClientTypeOK, FrameOK
  <2>2. QED BY <1>3, <2>1, NoneIsNothing DEF Begun, CallOn, ResultOn
<1>4. ASSUME vendor = v, Ended PROVE CallOn(v)' = None /\ ResultOn(v)' = "none"
  BY <1>4 DEF Ended, CallOn, ResultOn
<1>5. QED BY <1>1, <1>2, <1>3, <1>4

(* While a method runs the contract sees one call, which may return.       *)
LEMMA CallWorks ==
  ASSUME VendorInv, VendorInv', NEW v, vendor = v, Calling, op' = op, vendor' = vendor
  PROVE  /\ op # None /\ CallOn(v) = op /\ CallOn(v)' = op /\ ResultOn(v) = "none"
         /\ ResultOn(v)' \in {"none", "err", "ok"}
         /\ ResultOn(v)' = "ok" => failed' = FALSE /\ todo' = <<>>
PROOF
<1>1. op # None /\ todo # <<>> /\ failed = FALSE /\ failed' \in BOOLEAN
  BY CallingList DEF VendorInv, ClientInv, ClientTypeOK
<1>2. CallOn(v) = op /\ CallOn(v)' = op /\ ResultOn(v) = "none"
  BY <1>1 DEF CallOn, ResultOn
<1>3. /\ ResultOn(v)' \in {"none", "err", "ok"}
      /\ ResultOn(v)' = "ok" => failed' = FALSE /\ todo' = <<>>
  BY <1>1, <1>2 DEF ResultOn
<1>4. QED BY <1>1, <1>2, <1>3

----------------------------------------------------------------------------
(* The contract on the ADC.                                                *)

(* Users do not change the type of the monitor: the ADC would keep the     *)
(* secure flag (MCMonitorType.cfg), the BIG-IP both monitors.              *)
SameType == \A s, t \in Specs : s.monitor.type = t.monitor.type

(* What the Netscaler provider does not repair does not happen: a failed   *)
(* search for the pool is taken for its absence (MCBlindPool.cfg), and a   *)
(* virtual server whose binding failed, or was cut off by a restart, is    *)
(* never bound (MCUnboundVIP.cfg).                                         *)
NetscalerConditions ==
  /\ SameType
  /\ Fallible \cap {"FindGroup", "AddVserver", "BindGroup"} = {}
  /\ "Citrix_ADC" \notin CrashInside

OnADC == vendor = "Citrix_ADC"
Up == {p \in Ports : adc.vservers[p] # None}

(* CreateVIP or EditVIP of port p has not yet bound the group.             *)
Binding(p) == op # None /\ op.op = "vip" /\ op.port = p /\ at = 1 /\ todo # <<>>

ADCPlan ==
  OnADC /\ op # None /\ failed = FALSE =>
    /\ op.op = "monitor" /\ todo = <<>> => adc.mon = op.monitor
    /\ op.op = "pool" => PoolPlan(op, todo, at, op.port \in adc.groups,
                                  op.port \in adc.monBound, adc.members[op.port])
    /\ op.op = "vip" =>
         /\ todo = <<>> => op.port \in adc.groupBound
         /\ todo = <<>> \/ at = 1 => op.port \in Up /\ adc.vservers[op.port].ip = op.ip
         /\ at = 1 => Head(todo).m # "GetVIP"
    /\ op.op = "cleanup" => CleanupPlan(todo, Up, adc.groups, adc.mon)

(* Between the calls: a server is bound, and only a group has members.     *)
ADCState ==
  OnADC =>
    /\ adc.mon \in SpecMonitors \cup {None}
    /\ \A p \in Ports \ adc.groups : adc.members[p] = {}
    /\ adc.groupBound \subseteq Up
    /\ \A p \in Up : p \in adc.groupBound \/ Binding(p)

(* What every request has to keep.                                         *)
ADCKept == ADCPlan' /\ ADCState' /\ NetscalerDevice!Allowed(op)

ADCRuns ==
  /\ VendorInv /\ ADCPlan /\ ADCState /\ NetscalerConditions /\ OnADC
  /\ UNCHANGED <<outside, pass>>

LEMMA MonitorParts ==
  ASSUME NEW m \in SpecMonitors
  PROVE  /\ m \in Monitors /\ m # None /\ m.path # None /\ m.type # "HTTP"
         /\ [m EXCEPT !.type = m.type] = m
         /\ SameType => \A n \in SpecMonitors : n.type = m.type
PROOF
<1>1. m \in Monitors /\ m # None
  BY SpecFields, PassConstants
<1>2. m.path # None /\ m.type # "HTTP" /\ [m EXCEPT !.type = m.type] = m
  BY <1>1, MonitorFields
<1>3. SameType => \A n \in SpecMonitors : n.type = m.type
  BY DEF SameType, SpecMonitors
<1>4. QED BY <1>1, <1>2, <1>3

LEMMA ADCRequestLeaves ==
  ASSUME ClientInv, Calling, NEW request, NEW new,
         Request(request, new, Return(<<>>))
  PROVE  \/ adc' = new /\ Done
         \/ adc' \in {adc, new} /\ request \in Fallible /\ (Failed \/ Skipped)
  BY RequestLeaves DEF Request, Breaks

LEMMA ADCRequestGoesOn ==
  ASSUME ClientInv, Calling, NEW request, NEW new,
         Request(request, new, Proceed)
  PROVE  \/ adc' = new /\ GoesOn
         \/ adc' \in {adc, new} /\ request \in Fallible /\ (Failed \/ Skipped)
  BY RequestLeaves DEF Request, Breaks

(* HandleMonitors on the ADC.                                              *)
LEMMA ADCMonitorKept ==
  ASSUME ADCRuns, GetMonitor \/ SetMonitor
  PROVE  ADCKept
PROOF
<1> USE DEF ADCRuns
<1>1. Calling /\ op.op = "monitor" /\ op.monitor \in SpecMonitors /\ ClientInv
  BY CallsOnce, RunningCalls, CallKinds, OpKinds DEF GetMonitor, SetMonitor, Calling, VendorInv
<1>2. op # None /\ op' = op /\ vendor' = vendor /\ failed = FALSE
  BY <1>1, CallingList DEF outside, object, pass
<1>3. /\ adc.mon \in SpecMonitors \cup {None} /\ adc.groupBound = Up /\ adc \in ADCs
      /\ \A p \in Ports \ adc.groups : adc.members[p] = {}
  BY <1>1 DEF ADCState, Binding, VendorInv
<1>4. ASSUME /\ adc'.mon \in {adc.mon, op.monitor}
             /\ adc'.groups = adc.groups /\ adc'.monBound = adc.monBound
             /\ adc'.members = adc.members /\ adc'.vservers = adc.vservers
             /\ adc'.groupBound = adc.groupBound,
             todo' = <<>> /\ failed' = FALSE => adc'.mon = op.monitor
      PROVE  ADCKept
  <2>1. ADCState'
    BY <1>1, <1>2, <1>3, <1>4 DEF ADCState, OnADC, Up
  <2>2. ADCPlan'
    BY <1>1, <1>2, <1>4 DEF ADCPlan
  <2>3. NetscalerDevice!Allowed(op)
    BY <1>1, <1>4 DEF NetscalerDevice!Allowed
  <2>4. QED BY <2>1, <2>2, <2>3 DEF ADCKept
<1>5. CASE GetMonitor
  <2> DEFINE m == Parsed(adc.mon)
             found == IF m # None /\ m.type # "https" THEN [m EXCEPT !.type = "HTTP"] ELSE m
  <2>1. adc' = adc /\ (GotMonitor(found) \/ GotMonitor(None))
    BY <1>5 DEF GetMonitor, BlindRead, netscaler
  <2>2. todo' = <<>> => found # None /\ found = op.monitor
    <3> HIDE DEF found
    <3>1. CASE GotMonitor(found)
      BY <1>1, <3>1, MonitorTodo
    <3>2. CASE GotMonitor(None)
      <4>1. todo' = <<>> => None # None
        BY <1>1, <3>2, MonitorTodo
      <4>2. QED BY <4>1
    <3>3. QED BY <2>1, <3>1, <3>2
  <2>3. found # None /\ found = op.monitor => adc.mon = op.monitor
    <3> SUFFICES ASSUME found # None, found = op.monitor PROVE adc.mon = op.monitor
      OBVIOUS
    <3>1. found.type # "HTTP" /\ found.path # None
      BY <1>1, MonitorParts
    <3>2. m # None /\ adc.mon # None
      BY DEF Parsed
    <3>3. adc.mon \in Monitors
      BY <1>3, <3>2, SpecFields
    <3>4. CASE adc.mon.path \in Clipped
      <4>1. m = [adc.mon EXCEPT !.path = None]
        BY <3>2, <3>4 DEF Parsed
      <4>2. m.path = None
        BY <3>3, <4>1, MonitorFields
      <4>3. found.path = None
        BY <3>3, <4>1, <4>2, MonitorFields
      <4>4. QED BY <3>1, <4>3
    <3>5. CASE adc.mon.path \notin Clipped
      <4>1. m = adc.mon
        BY <3>5 DEF Parsed
      <4>2. CASE m.type # "https"
        <5>1. found.type = "HTTP"
          BY <3>2, <3>3, <4>1, <4>2, MonitorFields
        <5>2. QED BY <3>1, <5>1
      <4>3. QED BY <4>1, <4>2
    <3>6. QED BY <3>4, <3>5
  <2>4. QED BY <1>4, <2>1, <2>2, <2>3
<1>6. CASE SetMonitor
  <2> DEFINE type == IF adc.mon # None /\ adc.mon.type = "https" THEN "https" ELSE op.monitor.type
             new == [adc EXCEPT !.mon = [op.monitor EXCEPT !.type = type]]
  <2>1. Request("AddMonitor", new, Return(<<>>))
    BY <1>6 DEF SetMonitor
  <2>2. type = op.monitor.type
    BY <1>1, <1>3, MonitorParts DEF NetscalerConditions
  <2>3. new = [adc EXCEPT !.mon = op.monitor]
    BY <1>1, <2>2, MonitorParts
  <2>4. /\ new.mon = op.monitor /\ new.groups = adc.groups /\ new.monBound = adc.monBound
        /\ new.members = adc.members /\ new.vservers = adc.vservers
        /\ new.groupBound = adc.groupBound
    BY <1>3, <2>3 DEF ADCs
  <2> HIDE DEF new
  <2>5. \/ adc' = new
        \/ adc' \in {adc, new} /\ failed' = TRUE
    BY <1>1, <2>1, ADCRequestLeaves DEF Failed, Skipped
  <2>6. QED BY <1>4, <2>4, <2>5
<1>7. QED BY <1>5, <1>6

LEMMA ADCPoolRuns ==
  ASSUME ADCRuns, Calling, op.op = "pool"
  PROVE  /\ ClientInv /\ op # None /\ op' = op /\ vendor' = vendor /\ failed = FALSE
         /\ op.port \in Ports /\ op.want \in SUBSET Hosts
         /\ adc \in ADCs /\ adc.members[op.port] \in SUBSET Hosts
         /\ adc.mon \in SpecMonitors \cup {None} /\ adc.groupBound = Up
         /\ \A p \in Ports \ adc.groups : adc.members[p] = {}
         /\ PoolPlan(op, todo, at, op.port \in adc.groups, op.port \in adc.monBound,
                     adc.members[op.port])
PROOF
<1> USE DEF ADCRuns
<1>1. ClientInv /\ op # None /\ op' = op /\ vendor' = vendor /\ failed = FALSE
  BY CallingList DEF VendorInv, outside, object, pass
<1>2. op.port \in Ports /\ op.want \in SUBSET Hosts
  BY OpKinds DEF Calling
<1>3. adc \in ADCs /\ adc.members[op.port] \in SUBSET Hosts
  BY <1>2 DEF VendorInv, ADCs
<1>4. /\ adc.mon \in SpecMonitors \cup {None} /\ adc.groupBound = Up
      /\ \A p \in Ports \ adc.groups : adc.members[p] = {}
  BY DEF ADCState, Binding
<1>5. PoolPlan(op, todo, at, op.port \in adc.groups, op.port \in adc.monBound,
               adc.members[op.port])
  BY <1>1 DEF ADCPlan
<1>6. QED BY <1>1, <1>2, <1>3, <1>4, <1>5

(* A request of HandlePool may touch its own pool, and has to keep to its  *)
(* plan.                                                                   *)
LEMMA ADCPoolKept ==
  ASSUME ADCRuns, Calling, op.op = "pool", NEW S \in SUBSET Hosts,
         adc'.members = [adc.members EXCEPT ![op.port] = S],
         adc'.mon = adc.mon /\ adc'.vservers = adc.vservers /\ adc'.groupBound = adc.groupBound,
         adc'.groups \in {adc.groups, adc.groups \cup {op.port}},
         adc'.monBound \in {adc.monBound, adc.monBound \cup {op.port}},
         op.port \in adc'.groups \/ S = {},
         Towards(adc.members[op.port], S, op.want),
         failed' = FALSE => PoolPlan(op, todo', at', op.port \in adc'.groups,
                                     op.port \in adc'.monBound, S)
  PROVE  ADCKept
PROOF
<1>1. /\ op' = op /\ vendor' = vendor /\ op.port \in Ports /\ adc \in ADCs
      /\ adc.mon \in SpecMonitors \cup {None} /\ adc.groupBound = Up
      /\ \A p \in Ports \ adc.groups : adc.members[p] = {}
  BY ADCPoolRuns
<1>2. /\ adc'.members[op.port] = S
      /\ \A p \in Ports \ {op.port} : adc'.members[p] = adc.members[p]
  BY <1>1 DEF ADCs
<1>3. ADCState'
  BY <1>1, <1>2 DEF ADCState, OnADC, Up
<1>4. ADCPlan'
  BY <1>1, <1>2 DEF ADCPlan
<1>5. NetscalerDevice!Allowed(op)
  <2>1. NetscalerDevice!OnlyPorts({op.port})
    BY <1>1, <1>2 DEF NetscalerDevice!OnlyPorts
  <2>2. NetscalerDevice!TowardsMembers(op.port, op.want)
    BY <1>2 DEF NetscalerDevice!TowardsMembers, Towards
  <2>3. QED BY <2>1, <2>2 DEF NetscalerDevice!Allowed
<1>6. QED BY <1>3, <1>4, <1>5 DEF ADCKept

(* The reads of HandlePool change nothing and leave a plan that fits the pool. *)
LEMMA ADCPoolReadKept ==
  ASSUME ADCRuns, GetPoolGroup \/ GetPoolMonitor \/ GetPoolMembers
  PROVE  ADCKept
PROOF
<1>1. Calling /\ op.op = "pool" /\ Head(todo).port = op.port
  BY RunningCalls, CallKinds
  DEF GetPoolGroup, GetPoolMonitor, GetPoolMembers, Calling, ADCRuns, VendorInv
<1> DEFINE p == op.port
           g == p \in adc.groups
           b == p \in adc.monBound
           S == adc.members[p]
<1>2. /\ ClientInv /\ p \in Ports /\ adc \in ADCs /\ S \in SUBSET Hosts /\ failed = FALSE
      /\ PoolPlan(op, todo, at, g, b, S) /\ (~g => S = {})
  BY <1>1, ADCPoolRuns
<1>3. adc' = adc /\ todo \in Seq(CallsFor(op)) /\ todo # <<>>
  BY <1>1, <1>2, CallingList DEF GetPoolGroup, GetPoolMonitor, GetPoolMembers, netscaler
<1>4. Reads(todo) /\ Len(todo) = 1
  BY <1>2, <1>3
  DEF GetPoolGroup, GetPoolMonitor, GetPoolMembers, Running, Reads, PoolPlan
<1>5. Tail(todo) = <<>>
  BY <1>3, <1>4, LastCall
<1>6. /\ Head(todo).m = "GetPoolMembers" \/ at > 0 => g
      /\ Head(todo).m = "GetPoolMembers" /\ Head(todo).bound => b
  BY <1>2, <1>4 DEF PoolPlan
<1>7. ASSUME failed' = FALSE => PoolPlan(op, todo', at', g, b, S) PROVE ADCKept
  <2>1. adc'.members = [adc.members EXCEPT ![p] = S] /\ Towards(S, S, op.want)
    BY <1>2, <1>3 DEF ADCs, Towards
  <2>2. QED BY <1>1, <1>2, <1>3, <1>7, <2>1, ADCPoolKept
<1> HIDE DEF g, b, S
<1>8. g \in BOOLEAN /\ b \in BOOLEAN
  BY DEF g, b
<1>9. CASE GetPoolGroup
  <2>1. (IF g THEN Proceed ELSE NoPool)
    BY <1>1, <1>9 DEF GetPoolGroup, BlindRead, Breaks, ADCRuns, NetscalerConditions, Port, g
  <2>2. CASE g
    <3>1. GoesOn /\ Head(todo).m = "GetPool"
      BY <1>1, <1>2, <1>9, <2>1, <2>2, RequestLeaves DEF GetPoolGroup, Running
    <3>2. PoolPlan(op, todo, at + 1, g, b, S)
      <4>1. at + 1 \in Nat /\ PoolPlan(op, todo, at, g, b, S) /\ todo # <<>>
        BY <1>2, <1>3, <1>9 DEF GetPoolGroup
      <4>2. /\ (Head(todo).m = "GetPool" => g)
            /\ (Head(todo).m = "CreatePool" => g /\ (at + 1 > 1 => b))
        BY <2>2, <3>1
      <4>3. QED BY <1>8, <4>1, <4>2, PoolProceeds, Zenon
    <3>3. QED BY <1>7, <3>1, <3>2 DEF GoesOn
  <2>3. CASE ~g
    <3>1. PoolPlan(op, todo', 0, g, b, S) /\ at' = 0
      BY <1>1, <1>2, <1>5, <1>8, <2>1, <2>3, PoolTodo
    <3>2. QED BY <1>7, <3>1
  <2>4. QED BY <2>2, <2>3
<1>10. CASE GetPoolMonitor
  <2>1. (GotPool(TRUE) /\ b) \/ Fail
    BY <1>1, <1>10 DEF GetPoolMonitor, Read, Port, b
  <2>2. CASE GotPool(TRUE) /\ b
    <3>1. g
      BY <1>6, <1>10 DEF GetPoolMonitor
    <3>2. PoolPlan(op, todo', 0, g, b, S) /\ at' = 0
      BY <1>1, <1>2, <1>5, <1>8, <2>2, <3>1, PoolTodo
    <3>3. QED BY <1>7, <3>2
  <2>3. CASE Fail
    <3>1. failed' = TRUE
      BY <1>1, <1>2, <2>3, RequestLeaves DEF Failed, Skipped
    <3>2. QED BY <1>7, <3>1
  <2>4. QED BY <2>1, <2>2, <2>3
<1>11. CASE GetPoolMembers
  <2>1. GotMembers(S) \/ Fail
    BY <1>1, <1>11 DEF GetPoolMembers, Read, Port, S
  <2>2. CASE GotMembers(S)
    <3>1. g /\ (Head(todo).bound => b)
      BY <1>6, <1>11 DEF GetPoolMembers, Running
    <3>2. PoolPlan(op, todo', 0, g, b, S) /\ at' = 0
      BY <1>1, <1>2, <1>5, <1>8, <2>2, <3>1, PoolTodo
    <3>3. QED BY <1>7, <3>2
  <2>3. CASE Fail
    <3>1. failed' = TRUE
      BY <1>1, <1>2, <2>3, RequestLeaves DEF Failed, Skipped
    <3>2. QED BY <1>7, <3>1
  <2>4. QED BY <2>1, <2>2, <2>3
<1>12. QED BY <1>9, <1>10, <1>11

(* The writes of HandlePool carry out the plan.                            *)
LEMMA ADCPoolWriteKept ==
  ASSUME ADCRuns, op.op = "pool", SetPool \/ CreatePoolMember \/ DeletePoolMember
  PROVE  ADCKept
PROOF
<1>1. Calling /\ Head(todo).port = op.port
  BY CallsOnce, RunningCalls, CallKinds
  DEF SetPool, CreatePoolMember, DeletePoolMember, Calling, ADCRuns, VendorInv
<1> DEFINE p == op.port
           h == Head(todo).host
           g == p \in adc.groups
           b == p \in adc.monBound
           S == adc.members[p]
<1>2. /\ ClientInv /\ p \in Ports /\ adc \in ADCs /\ S \in SUBSET Hosts /\ failed = FALSE
      /\ op.want \in SUBSET Hosts /\ PoolPlan(op, todo, at, g, b, S) /\ (~g => S = {})
  BY <1>1, ADCPoolRuns
<1>3. todo \in Seq(CallsFor(op)) /\ todo # <<>> /\ Port = p /\ Host = h
  BY <1>1, <1>2, CallingList DEF Port, Host
<1>4. g \in BOOLEAN /\ b \in BOOLEAN
  OBVIOUS
<1>5. adc.members = [adc.members EXCEPT ![p] = S] /\ Towards(S, S, op.want)
  BY <1>2 DEF ADCs, Towards
<1>6. CASE SetPool
  <2>1. Head(todo).m \in {"CreatePool", "EditPool"}
    BY <1>6, CallsOnce DEF SetPool, ADCRuns, VendorInv
  <2>2. CASE at = 0 /\ Request("AddGroup", [adc EXCEPT !.groups = @ \cup {p}], Proceed)
    <3> DEFINE new == [adc EXCEPT !.groups = @ \cup {p}]
    <3>1. /\ new.groups = adc.groups \cup {p} /\ new.monBound = adc.monBound
          /\ new.members = adc.members /\ new.mon = adc.mon /\ new.vservers = adc.vservers
          /\ new.groupBound = adc.groupBound
      BY <1>2 DEF ADCs
    <3> HIDE DEF new
    <3>2. \/ adc' = new /\ GoesOn
          \/ adc' \in {adc, new} /\ failed' = TRUE
      BY <1>1, <1>2, <2>2, ADCRequestGoesOn DEF Failed, Skipped, new
    <3>3. PoolPlan(op, todo, 1, TRUE, b, S) /\ p \in new.groups /\ at + 1 = 1
      <4>1. p \in new.groups /\ at + 1 = 1
        BY <2>2, <3>1
      <4> HIDE DEF g, b, S
      <4>2. QED BY <1>2, <1>3, <1>4, <2>1, <4>1, PoolMade
    <3>4. failed' = FALSE => PoolPlan(op, todo', at', p \in adc'.groups, p \in adc'.monBound, S)
      BY <3>1, <3>2, <3>3 DEF GoesOn
    <3>5. /\ adc'.members = [adc.members EXCEPT ![p] = S]
          /\ adc'.mon = adc.mon /\ adc'.vservers = adc.vservers /\ adc'.groupBound = adc.groupBound
          /\ adc'.groups \in {adc.groups, adc.groups \cup {p}} /\ adc'.monBound = adc.monBound
          /\ p \in adc'.groups \/ S = {}
      BY <1>2, <1>5, <3>1, <3>2
    <3>6. QED BY <1>1, <1>2, <1>5, <3>4, <3>5, ADCPoolKept
  <2>3. CASE at = 1 /\ Request("BindMonitor", [adc EXCEPT !.monBound = @ \cup {p}], Return(<<>>))
    <3> DEFINE new == [adc EXCEPT !.monBound = @ \cup {p}]
    <3>1. /\ new.groups = adc.groups /\ new.monBound = adc.monBound \cup {p}
          /\ new.members = adc.members /\ new.mon = adc.mon /\ new.vservers = adc.vservers
          /\ new.groupBound = adc.groupBound
      BY <1>2 DEF ADCs
    <3> HIDE DEF new
    <3>2. \/ adc' = new /\ Done
          \/ adc' \in {adc, new} /\ failed' = TRUE
      BY <1>1, <1>2, <2>3, ADCRequestLeaves DEF Failed, Skipped, new
    <3>3. PoolPlan(op, Tail(todo), 0, TRUE, TRUE, S) /\ g
      <4>1. g
        BY <1>2, <1>3, <2>1, <2>3 DEF PoolPlan, Reads
      <4> HIDE DEF g, b, S
      <4>2. QED BY <1>2, <1>3, <1>4, <2>1, <4>1, PoolPopped
    <3>4. failed' = FALSE => PoolPlan(op, todo', at', p \in adc'.groups, p \in adc'.monBound, S)
      BY <3>1, <3>2, <3>3 DEF Done
    <3>5. /\ adc'.members = [adc.members EXCEPT ![p] = S]
          /\ adc'.mon = adc.mon /\ adc'.vservers = adc.vservers /\ adc'.groupBound = adc.groupBound
          /\ adc'.groups = adc.groups /\ adc'.monBound \in {adc.monBound, adc.monBound \cup {p}}
          /\ p \in adc'.groups \/ S = {}
      BY <1>2, <1>5, <3>1, <3>2
    <3>6. QED BY <1>1, <1>2, <1>5, <3>4, <3>5, ADCPoolKept
  <2>4. QED BY <1>3, <1>6, <2>2, <2>3 DEF SetPool
<1>7. CASE CreatePoolMember
  <2>1. Head(todo).m = "CreatePoolMember" /\ h \in Hosts
    BY <1>1, <1>7, RunningCalls, CallKinds DEF CreatePoolMember, Calling, ADCRuns, VendorInv
  <2>2. /\ g /\ b /\ PoolPlan(op, Tail(todo), 0, g, b, S \cup {h})
        /\ Towards(S, S \cup {h}, op.want)
    <3> DEFINE Q == S \cup {h}
    <3> HIDE DEF g, b, S, Q
    <3>1. MemberCall(Head(todo), S, Q)
      BY <2>1 DEF MemberCall, Q
    <3>2. g /\ b /\ PoolPlan(op, Tail(todo), 0, g, b, Q) /\ Towards(S, Q, op.want)
      BY <1>2, <1>3, <1>4, <3>1, MemberPopped, Zenon
    <3>3. QED BY <3>2 DEF Q
  <2>3. CASE at = 0 /\ Request("AddServer", [adc EXCEPT !.servers = @ \cup {h}], Proceed)
    <3> DEFINE new == [adc EXCEPT !.servers = @ \cup {h}]
    <3>1. /\ new.groups = adc.groups /\ new.monBound = adc.monBound
          /\ new.members = adc.members /\ new.mon = adc.mon /\ new.vservers = adc.vservers
          /\ new.groupBound = adc.groupBound
      BY <1>2 DEF ADCs
    <3> HIDE DEF new
    <3>2. \/ adc' = new /\ GoesOn
          \/ adc' \in {adc, new} /\ failed' = TRUE
      BY <1>1, <1>2, <2>3, ADCRequestGoesOn DEF Failed, Skipped, new
    <3>3. PoolPlan(op, todo, at + 1, g, b, S)
      <4> HIDE DEF g, b, S
      <4>1. at + 1 \in Nat /\ PoolPlan(op, todo, at, g, b, S) /\ todo # <<>>
        BY <1>2, <1>3, <2>3
      <4>2. /\ (Head(todo).m = "GetPool" => g)
            /\ (Head(todo).m = "CreatePool" => g /\ (at + 1 > 1 => b))
        BY <2>1
      <4>3. QED BY <1>4, <4>1, <4>2, PoolProceeds, Zenon
    <3>4. failed' = FALSE => PoolPlan(op, todo', at', p \in adc'.groups, p \in adc'.monBound, S)
      BY <3>1, <3>2, <3>3 DEF GoesOn
    <3>5. /\ adc'.members = [adc.members EXCEPT ![p] = S]
          /\ adc'.mon = adc.mon /\ adc'.vservers = adc.vservers /\ adc'.groupBound = adc.groupBound
          /\ adc'.groups = adc.groups /\ adc'.monBound = adc.monBound
          /\ p \in adc'.groups
      BY <1>5, <2>2, <3>1, <3>2
    <3>6. QED BY <1>1, <1>2, <1>5, <3>4, <3>5, ADCPoolKept
  <2>4. CASE at = 1 /\ Request("AddMember", [adc EXCEPT !.members[p] = @ \cup {h}], Return(<<>>))
    <3> DEFINE new == [adc EXCEPT !.members[p] = @ \cup {h}]
    <3>1. /\ new.groups = adc.groups /\ new.monBound = adc.monBound
          /\ new.members = [adc.members EXCEPT ![p] = S \cup {h}]
          /\ new.mon = adc.mon /\ new.vservers = adc.vservers
          /\ new.groupBound = adc.groupBound
      BY <1>2 DEF ADCs
    <3> HIDE DEF new
    <3>2. \/ adc' = new /\ Done
          \/ adc' \in {adc, new} /\ failed' = TRUE
      BY <1>1, <1>2, <2>4, ADCRequestLeaves DEF Failed, Skipped, new
    <3>3. CASE adc' = new
      <4>1. failed' = FALSE => PoolPlan(op, todo', at', p \in adc'.groups, p \in adc'.monBound,
                                        S \cup {h})
        BY <2>2, <3>1, <3>2, <3>3 DEF Done
      <4>2. S \cup {h} \in SUBSET Hosts
        BY <1>2, <2>1
      <4>3. /\ adc'.members = [adc.members EXCEPT ![p] = S \cup {h}]
            /\ adc'.mon = adc.mon /\ adc'.vservers = adc.vservers
            /\ adc'.groupBound = adc.groupBound
            /\ adc'.groups = adc.groups /\ adc'.monBound = adc.monBound /\ p \in adc'.groups
        BY <2>2, <3>1, <3>3
      <4>4. QED BY <1>1, <1>2, <2>2, <4>1, <4>2, <4>3, ADCPoolKept
    <3>4. CASE adc' = adc /\ failed' = TRUE
      <4>1. QED BY <1>1, <1>2, <1>5, <2>2, <3>4, ADCPoolKept
    <3>5. QED BY <3>2, <3>3, <3>4
  <2>5. QED BY <1>3, <1>7, <2>3, <2>4 DEF CreatePoolMember
<1>8. CASE DeletePoolMember
  <2>1. Head(todo).m = "DeletePoolMember" /\ h \in Hosts
    BY <1>1, <1>8, RunningCalls, CallKinds DEF DeletePoolMember, Calling, ADCRuns, VendorInv
  <2>2. /\ g /\ b /\ PoolPlan(op, Tail(todo), 0, g, b, S \ {h})
        /\ Towards(S, S \ {h}, op.want)
    <3> DEFINE Q == S \ {h}
    <3> HIDE DEF g, b, S, Q
    <3>1. MemberCall(Head(todo), S, Q)
      BY <2>1 DEF MemberCall, Q
    <3>2. g /\ b /\ PoolPlan(op, Tail(todo), 0, g, b, Q) /\ Towards(S, Q, op.want)
      BY <1>2, <1>3, <1>4, <3>1, MemberPopped, Zenon
    <3>3. QED BY <3>2 DEF Q
  <2> DEFINE new == [adc EXCEPT !.members[p] = @ \ {h}]
  <2>3. /\ new.groups = adc.groups /\ new.monBound = adc.monBound
        /\ new.members = [adc.members EXCEPT ![p] = S \ {h}]
        /\ new.mon = adc.mon /\ new.vservers = adc.vservers
        /\ new.groupBound = adc.groupBound
    BY <1>2 DEF ADCs
  <2>4. Request("DeleteMember", new, Return(<<>>))
    BY <1>3, <1>8 DEF DeletePoolMember
  <2> HIDE DEF new
  <2>5. \/ adc' = new /\ Done
        \/ adc' \in {adc, new} /\ failed' = TRUE
    BY <1>1, <1>2, <2>4, ADCRequestLeaves DEF Failed, Skipped
  <2>6. CASE adc' = new
    <3>1. failed' = FALSE => PoolPlan(op, todo', at', p \in adc'.groups, p \in adc'.monBound, S \ {h})
      BY <2>2, <2>3, <2>5, <2>6 DEF Done
    <3>2. S \ {h} \in SUBSET Hosts
      BY <1>2
    <3>3. /\ adc'.members = [adc.members EXCEPT ![p] = S \ {h}]
          /\ adc'.mon = adc.mon /\ adc'.vservers = adc.vservers
          /\ adc'.groupBound = adc.groupBound
          /\ adc'.groups = adc.groups /\ adc'.monBound = adc.monBound /\ p \in adc'.groups
      BY <2>2, <2>3, <2>6
    <3>4. QED BY <1>1, <1>2, <2>2, <3>1, <3>2, <3>3, ADCPoolKept
  <2>7. CASE adc' = adc /\ failed' = TRUE
    <3>1. QED BY <1>1, <1>2, <1>5, <2>2, <2>7, ADCPoolKept
  <2>8. QED BY <2>5, <2>6, <2>7
<1>9. QED BY <1>6, <1>7, <1>8

(* HandleVIP on the ADC: v is the virtual server the request leaves.       *)
VIPRequest(v) ==
  /\ adc'.mon = adc.mon /\ adc'.groups = adc.groups /\ adc'.monBound = adc.monBound
  /\ adc'.members = adc.members
  /\ adc'.vservers = [adc.vservers EXCEPT ![op.port] = v]
  /\ v = adc.vservers[op.port] \/ (v # None /\ v.ip = op.ip)
  /\ adc'.groupBound \in {adc.groupBound, adc.groupBound \cup {op.port}}
  /\ op.port \in adc'.groupBound => v # None
  /\ op.port \in adc'.groupBound /\ op.port \notin adc.groupBound => v.ip = op.ip
  /\ v # None => op.port \in adc'.groupBound \/ (at' = 1 /\ todo' # <<>>)
  /\ failed' = FALSE =>
       /\ todo' = <<>> => op.port \in adc'.groupBound
       /\ todo' = <<>> \/ at' = 1 => v # None /\ v.ip = op.ip
       /\ at' = 1 => Head(todo').m # "GetVIP"

LEMMA ADCVIPKept ==
  ASSUME ADCRuns, Calling, op.op = "vip", NEW v, VIPRequest(v)
  PROVE  ADCKept
PROOF
<1> USE DEF VIPRequest
<1> DEFINE p == op.port
           ipOf(q) == IF q \in adc.groupBound THEN adc.vservers[q].ip ELSE None
           ipOf1(q) == IF q \in adc'.groupBound THEN adc'.vservers[q].ip ELSE None
<1>1. /\ op # None /\ op' = op /\ vendor' = vendor /\ p \in Ports /\ adc \in ADCs
  BY CallingList, OpKinds DEF ADCRuns, VendorInv, outside, object, pass, Calling
<1>2. /\ adc.mon \in SpecMonitors \cup {None}
      /\ \A q \in Ports \ adc.groups : adc.members[q] = {}
      /\ adc.groupBound \subseteq Up
      /\ \A q \in Up \ {p} : q \in adc.groupBound
  BY DEF ADCRuns, ADCState, Binding
<1>3. adc'.vservers[p] = v /\ \A q \in Ports \ {p} : adc'.vservers[q] = adc.vservers[q]
  BY <1>1 DEF ADCs
<1>4. ADCState'
  <2>1. adc'.groupBound \subseteq Up'
    BY <1>1, <1>2, <1>3 DEF Up
  <2>2. \A q \in Up' : q \in adc'.groupBound \/ Binding(q)'
    <3>1. \A q \in Up' \ {p} : q \in adc'.groupBound
      BY <1>2, <1>3 DEF Up
    <3>2. ASSUME NEW q \in Up' PROVE q \in adc'.groupBound \/ Binding(q)'
      <4>1. CASE q = p
        BY <1>1, <1>3, <3>2, <4>1 DEF Up, Binding
      <4>2. CASE q # p
        BY <3>1, <3>2, <4>2
      <4>3. QED BY <4>1, <4>2
    <3>3. QED BY <3>2
  <2>3. QED BY <1>2, <2>1, <2>2 DEF ADCState
<1>5. ADCPlan'
  BY <1>1, <1>3 DEF ADCPlan, Up
<1>6. NetscalerDevice!Allowed(op)
  <2>1. ipOf1(p) \in {ipOf(p), op.ip} /\ \A q \in Ports \ {p} : ipOf1(q) = ipOf(q)
    BY <1>1, <1>3
  <2>2. NetscalerDevice!OnlyPorts({p})
    BY <1>1, <2>1 DEF NetscalerDevice!OnlyPorts
  <2>3. QED BY <1>1, <2>1, <2>2 DEF NetscalerDevice!Allowed
<1>7. QED BY <1>4, <1>5, <1>6 DEF ADCKept

(* GetVIP, and the two requests of CreateVIP and EditVIP.                  *)
LEMMA ADCVIPRequestKept ==
  ASSUME ADCRuns, GetVIP \/ SetVIP
  PROVE  ADCKept
PROOF
<1>1. Calling /\ op.op = "vip" /\ Head(todo).port = op.port
  BY CallsOnce, RunningCalls, CallKinds DEF GetVIP, SetVIP, Calling, ADCRuns, VendorInv
<1> DEFINE p == op.port
           v == adc.vservers[p]
<1>2. /\ op # None /\ op' = op /\ vendor' = vendor /\ p \in Ports /\ adc \in ADCs /\ failed = FALSE
      /\ ClientInv /\ Port = p /\ op.ip \in IPs /\ Tail(todo) = <<>> /\ todo # <<>>
  BY <1>1, CallingList, OpKinds DEF ADCRuns, VendorInv, outside, object, pass, Calling, Port
<1>3. adc.vservers = [adc.vservers EXCEPT ![p] = v]
  BY <1>2 DEF ADCs
<1>4. /\ at = 1 => p \in Up /\ v.ip = op.ip /\ Head(todo).m # "GetVIP"
      /\ adc.groupBound \subseteq Up
      /\ p \in Up => p \in adc.groupBound \/ at = 1
  BY <1>1, <1>2 DEF ADCRuns, ADCPlan, ADCState, Binding
<1>5. CASE GetVIP
  <2> DEFINE found == IF v = None THEN None ELSE v.ip
  <2>1. adc' = adc /\ (GotVIP(found) \/ GotVIP(None)) /\ Head(todo).m = "GetVIP"
    BY <1>2, <1>5 DEF GetVIP, BlindRead, netscaler, Running
  <2>2. at' = 0 /\ (todo' = <<>> => found # None /\ found = op.ip)
    <3> HIDE DEF found
    <3>1. CASE GotVIP(found)
      BY <1>1, <1>2, <3>1, VIPTodo
    <3>2. CASE GotVIP(None)
      <4>1. at' = 0 /\ (todo' = <<>> => None # None)
        BY <1>1, <1>2, <3>2, VIPTodo
      <4>2. QED BY <4>1
    <3>3. QED BY <2>1, <3>1, <3>2
  <2>3. v # None => p \in adc.groupBound
    BY <1>2, <1>4, <2>1 DEF Up
  <2>4. p \in adc.groupBound => v # None
    BY <1>4 DEF Up
  <2>5. todo' = <<>> => v # None /\ v.ip = op.ip
    BY <2>2
  <2>6. /\ adc'.mon = adc.mon /\ adc'.groups = adc.groups /\ adc'.monBound = adc.monBound
        /\ adc'.members = adc.members /\ adc'.groupBound = adc.groupBound
        /\ adc'.vservers = [adc.vservers EXCEPT ![op.port] = v] /\ v = adc.vservers[op.port]
    BY <1>3, <2>1
  <2> HIDE DEF v
  <2>7. VIPRequest(v)
    BY <2>2, <2>3, <2>4, <2>5, <2>6 DEF VIPRequest
  <2>8. QED BY <1>1, <2>7, ADCVIPKept
<1>6. CASE SetVIP
  <2>1. Head(todo).m \in {"CreateVIP", "EditVIP"}
    BY <1>6 DEF SetVIP, Running
  <2>2. CASE at = 0 /\ Request("AddVserver",
                   [adc EXCEPT !.vservers[p] = [ip |-> op.ip, method |-> goal.method]], Proceed)
    <3> DEFINE w == [ip |-> op.ip, method |-> goal.method]
               new == [adc EXCEPT !.vservers[p] = w]
    <3>1. w # None /\ w.ip = op.ip
      <4>1. goal.method \in Methods
        BY <1>1, <1>2, SpecFields DEF ClientInv, Phases, FrameOK, Working
      <4>2. w \in [ip : IPs, method : Methods]
        BY <1>2, <4>1
      <4>3. QED BY <4>2, NoneIsNoVserver
    <3>2. /\ new.groups = adc.groups /\ new.monBound = adc.monBound
          /\ new.members = adc.members /\ new.mon = adc.mon
          /\ new.vservers = [adc.vservers EXCEPT ![p] = w] /\ new.groupBound = adc.groupBound
      BY <1>2 DEF ADCs
    <3> HIDE DEF new, w
    <3>3. Request("AddVserver", new, Proceed)
      BY <2>2 DEF new, w
    <3>4. adc' = new /\ GoesOn
      BY <1>1, <1>2, <3>3, ADCRequestGoesOn DEF ADCRuns, NetscalerConditions
    <3>5. at' = 1 /\ todo' = todo
      BY <2>2, <3>4 DEF GoesOn
    <3>6. VIPRequest(w)
      BY <1>2, <2>1, <3>1, <3>2, <3>4, <3>5 DEF VIPRequest
    <3>7. QED BY <1>1, <3>6, ADCVIPKept
  <2>3. CASE at = 1 /\ Request("BindGroup", [adc EXCEPT !.groupBound = @ \cup {p}], Return(<<>>))
    <3> DEFINE new == [adc EXCEPT !.groupBound = @ \cup {p}]
    <3>1. /\ new.groups = adc.groups /\ new.monBound = adc.monBound
          /\ new.members = adc.members /\ new.mon = adc.mon
          /\ new.vservers = adc.vservers /\ new.groupBound = adc.groupBound \cup {p}
      BY <1>2 DEF ADCs
    <3> HIDE DEF new
    <3>2. Request("BindGroup", new, Return(<<>>))
      BY <2>3 DEF new
    <3>3. adc' = new /\ Done
      BY <1>1, <1>2, <3>2, ADCRequestLeaves DEF ADCRuns, NetscalerConditions
    <3>4. at' = 0 /\ todo' = <<>> /\ p \in adc'.groupBound
      BY <1>2, <3>1, <3>3 DEF Done
    <3>5. v # None /\ v.ip = op.ip
      BY <1>4, <2>3 DEF Up
    <3>6. /\ adc'.mon = adc.mon /\ adc'.groups = adc.groups /\ adc'.monBound = adc.monBound
          /\ adc'.members = adc.members /\ adc'.groupBound = adc.groupBound \cup {op.port}
          /\ adc'.vservers = [adc.vservers EXCEPT ![op.port] = v] /\ v = adc.vservers[op.port]
      BY <1>3, <3>1, <3>3
    <3> HIDE DEF v
    <3>7. VIPRequest(v)
      BY <3>4, <3>5, <3>6 DEF VIPRequest
    <3>8. QED BY <1>1, <3>7, ADCVIPKept
  <2>4. QED BY <1>2, <1>6, <2>2, <2>3 DEF SetVIP
<1>7. QED BY <1>5, <1>6

(* HandleCleanup on the ADC only takes away.                               *)
CleanupRequest ==
  /\ adc'.mon \in {adc.mon, None}
  /\ adc'.groups \subseteq adc.groups /\ adc'.monBound \subseteq adc.monBound
  /\ \A p \in Ports : /\ adc'.members[p] \subseteq adc.members[p]
                      /\ p \notin adc'.groups => adc'.members[p] = {}
                      /\ adc'.vservers[p] \in {adc.vservers[p], None}
  /\ adc'.groupBound = Up'
  /\ failed' = FALSE => CleanupPlan(todo', Up', adc'.groups, adc'.mon)

LEMMA ADCCleanupRuns ==
  ASSUME ADCRuns, Calling, op.op = "cleanup"
  PROVE  /\ ClientInv /\ op # None /\ op' = op /\ vendor' = vendor /\ failed = FALSE
         /\ op.status.handled = PortList /\ adc \in ADCs
         /\ adc.mon \in SpecMonitors \cup {None} /\ adc.groupBound = Up
         /\ \A p \in Ports \ adc.groups : adc.members[p] = {}
         /\ CleanupPlan(todo, Up, adc.groups, adc.mon)
PROOF
<1> USE DEF ADCRuns
<1>1. ClientInv /\ op # None /\ op' = op /\ vendor' = vendor /\ failed = FALSE
  BY CallingList DEF VendorInv, outside, object, pass
<1>2. op.status.handled = PortList /\ adc \in ADCs
  BY OpKinds DEF Calling, VendorInv
<1>3. /\ adc.mon \in SpecMonitors \cup {None} /\ adc.groupBound = Up
      /\ \A p \in Ports \ adc.groups : adc.members[p] = {}
  BY DEF ADCState, Binding
<1>4. CleanupPlan(todo, Up, adc.groups, adc.mon)
  BY <1>1 DEF ADCPlan
<1>5. QED BY <1>1, <1>2, <1>3, <1>4

LEMMA ADCCleanupKept ==
  ASSUME ADCRuns, Calling, op.op = "cleanup", CleanupRequest
  PROVE  ADCKept
PROOF
<1> DEFINE ipOf(q) == IF q \in adc.groupBound THEN adc.vservers[q].ip ELSE None
           ipOf1(q) == IF q \in adc'.groupBound THEN adc'.vservers[q].ip ELSE None
<1> USE DEF CleanupRequest
<1>1. /\ op # None /\ op' = op /\ vendor' = vendor /\ op.status.handled = PortList /\ adc \in ADCs
      /\ adc.mon \in SpecMonitors \cup {None} /\ adc.groupBound = Up
  BY ADCCleanupRuns
<1>2. ADCState'
  BY <1>1 DEF ADCState
<1>3. ADCPlan'
  BY <1>1 DEF ADCPlan
<1>4. NetscalerDevice!Allowed(op)
  <2>1. \A q \in Ports : ipOf1(q) \in {ipOf(q), None}
    BY <1>1 DEF Up
  <2>2. Ports = {op.status.handled[i] : i \in DOMAIN op.status.handled}
    BY <1>1, PassConstants
  <2>3. NetscalerDevice!OnlyPorts({op.status.handled[i] : i \in DOMAIN op.status.handled})
    BY <2>2 DEF NetscalerDevice!OnlyPorts
  <2>4. QED BY <1>1, <2>1, <2>3 DEF NetscalerDevice!Allowed
<1>5. QED BY <1>2, <1>3, <1>4 DEF ADCKept

(* Each of the deletions of HandleCleanup.                                 *)
LEMMA ADCCleanupRequestKept ==
  ASSUME ADCRuns, op.op = "cleanup", DeleteVIP \/ DeletePoolMember \/ DeletePool \/ DeleteMonitor
  PROVE  ADCKept
PROOF
<1> DEFINE p == Head(todo).port
           h == Head(todo).host
           G == adc.groups
           mon == adc.mon
<1>1. Calling /\ (Head(todo).m # "DeleteMonitor" => p \in Ports)
  BY RunningCalls, CallKinds
  DEF DeleteVIP, DeletePoolMember, DeletePool, DeleteMonitor, Calling, Running, ADCRuns, VendorInv
<1>2. /\ ClientInv /\ adc \in ADCs /\ failed = FALSE
      /\ adc.groupBound = Up /\ (\A q \in Ports \ adc.groups : adc.members[q] = {})
      /\ CleanupPlan(todo, Up, G, mon)
  BY <1>1, ADCCleanupRuns
<1>3. todo \in Seq(CallsFor(op)) /\ todo # <<>> /\ Port = p /\ Host = h
  BY <1>1, <1>2, CallingList DEF Port, Host
<1>4. CASE DeleteVIP
  <2> DEFINE new == [adc EXCEPT !.vservers[p] = None, !.groupBound = @ \ {p}]
             V == Up \ {p}
  <2>1. Head(todo).m = "DeleteVIP"
    BY <1>4 DEF DeleteVIP, Running
  <2>2. /\ new.groups = G /\ new.monBound = adc.monBound /\ new.members = adc.members
        /\ new.mon = mon /\ new.vservers = [adc.vservers EXCEPT ![p] = None]
        /\ new.groupBound = V
    BY <1>2 DEF ADCs
  <2>3. CleanupPlan(Tail(todo), V, G, mon)
    BY <1>2, <1>3, <2>1, CleanupPopped
  <2>4. Request("DeleteVserver", new, Return(<<>>))
    BY <1>3, <1>4 DEF DeleteVIP
  <2> HIDE DEF new, V, G, mon
  <2>5. \/ adc' = new /\ Done
        \/ adc' \in {adc, new} /\ failed' = TRUE
    BY <1>1, <1>2, <2>1, <2>4, ADCRequestLeaves DEF Failed, Skipped
  <2>6. CASE adc' = adc /\ failed' = TRUE
    <3>1. CleanupRequest
      BY <1>2, <2>6 DEF CleanupRequest, Up
    <3>2. QED BY <1>1, <3>1, ADCCleanupKept
  <2>7. CASE adc' = new
    <3>1. Up' = V /\ \A q \in Ports : adc'.vservers[q] \in {adc.vservers[q], None}
      BY <1>1, <1>2, <2>1, <2>2, <2>7 DEF Up, V, ADCs
    <3>2. failed' = FALSE => CleanupPlan(todo', Up', adc'.groups, adc'.mon)
      BY <2>2, <2>3, <2>5, <2>7, <3>1 DEF Done
    <3>3. CleanupRequest
      BY <1>2, <2>2, <2>7, <3>1, <3>2 DEF CleanupRequest, G, mon
    <3>4. QED BY <1>1, <3>3, ADCCleanupKept
  <2>8. QED BY <2>5, <2>6, <2>7
<1>5. CASE DeletePoolMember
  <2> DEFINE new == [adc EXCEPT !.members[p] = @ \ {h}]
             V == Up
  <2>1. Head(todo).m = "DeletePoolMember"
    BY <1>5 DEF DeletePoolMember, Running
  <2>2. /\ new.groups = G /\ new.monBound = adc.monBound
        /\ new.members = [adc.members EXCEPT ![p] = @ \ {h}]
        /\ new.mon = mon /\ new.vservers = adc.vservers /\ new.groupBound = adc.groupBound
    BY <1>2 DEF ADCs
  <2>3. CleanupPlan(Tail(todo), V, G, mon)
    BY <1>2, <1>3, <2>1, CleanupPopped
  <2>4. Request("DeleteMember", new, Return(<<>>))
    BY <1>3, <1>5 DEF DeletePoolMember
  <2> HIDE DEF new, V, G, mon
  <2>5. adc' \in {adc, new} /\ (Done \/ failed' = TRUE)
    BY <1>1, <1>2, <2>4, ADCRequestLeaves DEF Failed, Skipped
  <2>6. /\ adc'.groups = G /\ adc'.monBound = adc.monBound /\ adc'.mon = mon
        /\ adc'.vservers = adc.vservers /\ adc'.groupBound = adc.groupBound
        /\ \A q \in Ports : adc'.members[q] \subseteq adc.members[q]
    BY <1>1, <1>2, <2>1, <2>2, <2>5 DEF ADCs, G, mon
  <2>7. Up' = V
    BY <2>6 DEF Up, V
  <2>8. failed' = FALSE => CleanupPlan(todo', Up', adc'.groups, adc'.mon)
    BY <2>3, <2>5, <2>6, <2>7 DEF Done
  <2>9. CleanupRequest
    BY <1>2, <2>6, <2>7, <2>8 DEF CleanupRequest, G, mon, V
  <2>10. QED BY <1>1, <2>9, ADCCleanupKept
<1>6. CASE DeletePool
  <2> DEFINE new == [adc EXCEPT !.groups = @ \ {p}, !.monBound = @ \ {p},
                         !.groupBound = @ \ {p}, !.members[p] = {}]
             V == Up
             H == G \ {p}
  <2>1. Head(todo).m = "DeletePool"
    BY <1>6 DEF DeletePool, Running
  <2>2. /\ new.groups = H /\ new.monBound = adc.monBound \ {p}
        /\ new.members = [adc.members EXCEPT ![p] = {}]
        /\ new.mon = mon /\ new.vservers = adc.vservers /\ new.groupBound = adc.groupBound \ {p}
    BY <1>2 DEF ADCs
  <2>3. V = {} /\ CleanupPlan(Tail(todo), V, H, mon)
    BY <1>2, <1>3, <2>1, CleanupPopped
  <2>4. Request("DeleteGroup", new, Return(<<>>))
    BY <1>3, <1>6 DEF DeletePool
  <2> HIDE DEF new, V, G, H, mon
  <2>5. \/ adc' = new /\ Done
        \/ adc' \in {adc, new} /\ failed' = TRUE
    BY <1>1, <1>2, <2>1, <2>4, ADCRequestLeaves DEF Failed, Skipped
  <2>6. Up' = V
    <3>1. adc'.vservers = adc.vservers
      BY <2>2, <2>5
    <3>2. QED BY <3>1 DEF Up, V
  <2>7. CASE adc' = adc /\ failed' = TRUE
    <3>1. CleanupRequest
      BY <1>2, <2>7 DEF CleanupRequest, Up
    <3>2. QED BY <1>1, <3>1, ADCCleanupKept
  <2>8. CASE adc' = new
    <3>1. failed' = FALSE => CleanupPlan(todo', Up', adc'.groups, adc'.mon)
      BY <2>2, <2>3, <2>5, <2>6, <2>8 DEF Done
    <3>2. \A q \in Ports : /\ adc'.members[q] \subseteq adc.members[q]
                           /\ q \notin adc'.groups => adc'.members[q] = {}
      BY <1>2, <2>2, <2>8 DEF ADCs, H, G
    <3>3. CleanupRequest
      BY <1>2, <2>2, <2>3, <2>6, <2>8, <3>1, <3>2 DEF CleanupRequest, G, H, mon, V
    <3>4. QED BY <1>1, <3>3, ADCCleanupKept
  <2>9. QED BY <2>5, <2>7, <2>8
<1>7. CASE DeleteMonitor
  <2> DEFINE new == [adc EXCEPT !.mon = None]
             V == Up
  <2>1. Head(todo).m = "DeleteMonitor"
    BY <1>7 DEF DeleteMonitor, Running
  <2>2. /\ new.groups = G /\ new.monBound = adc.monBound /\ new.members = adc.members
        /\ new.mon = None /\ new.vservers = adc.vservers /\ new.groupBound = adc.groupBound
    BY <1>2 DEF ADCs
  <2>3. CleanupPlan(Tail(todo), V, G, None)
    BY <1>2, <1>3, <2>1, CleanupPopped
  <2>4. Request("DeleteMonitor", new, Return(<<>>))
    BY <1>7 DEF DeleteMonitor
  <2> HIDE DEF new, V, G, mon
  <2>5. \/ adc' = new /\ Done
        \/ adc' \in {adc, new} /\ failed' = TRUE
    BY <1>1, <1>2, <2>1, <2>4, ADCRequestLeaves DEF Failed, Skipped
  <2>6. Up' = V
    <3>1. adc'.vservers = adc.vservers
      BY <2>2, <2>5
    <3>2. QED BY <3>1 DEF Up, V
  <2>7. failed' = FALSE => CleanupPlan(todo', Up', adc'.groups, adc'.mon)
    BY <2>2, <2>3, <2>5, <2>6 DEF Done
  <2>8. CleanupRequest
    BY <1>2, <2>2, <2>5, <2>6, <2>7 DEF CleanupRequest, G, V
  <2>9. QED BY <1>1, <2>8, ADCCleanupKept
<1>8. QED BY <1>4, <1>5, <1>6, <1>7

(* Every request to the ADC keeps the plan and is allowed.                 *)
LEMMA ADCMethodKept ==
  ASSUME VendorInv, ADCPlan, ADCState, NetscalerConditions, OnADC, NetscalerMethod
  PROVE  ADCKept
PROOF
<1>1. ADCRuns
  BY DEF ADCRuns, NetscalerMethod
<1>2. CASE GetMonitor \/ SetMonitor
  BY <1>1, <1>2, ADCMonitorKept
<1>3. CASE GetPoolGroup \/ GetPoolMonitor \/ GetPoolMembers
  BY <1>1, <1>3, ADCPoolReadKept
<1>4. CASE GetVIP \/ SetVIP
  BY <1>1, <1>4, ADCVIPRequestKept
<1>5. CASE SetPool \/ CreatePoolMember \/ DeletePoolMember
  <2>1. op.op = "pool" \/ (op.op = "cleanup" /\ DeletePoolMember)
    BY <1>5, CallsOnce, RunningCalls, CallKinds
    DEF SetPool, CreatePoolMember, DeletePoolMember, Calling, VendorInv
  <2>2. QED BY <1>1, <1>5, <2>1, ADCPoolWriteKept, ADCCleanupRequestKept
<1>6. CASE DeleteVIP \/ DeletePool \/ DeleteMonitor
  <2>1. op.op = "cleanup"
    BY <1>6, RunningCalls, CallKinds DEF DeleteVIP, DeletePool, DeleteMonitor, Calling, VendorInv
  <2>2. QED BY <1>1, <1>6, <2>1, ADCCleanupRequestKept
<1>7. QED BY <1>2, <1>3, <1>4, <1>5, <1>6 DEF NetscalerMethod

(* A method's request is made by an operation under way.                   *)
LEMMA ADCMethodCalls ==
  ASSUME ClientInv, NetscalerMethod
  PROVE  Calling /\ op' = op /\ vendor' = vendor
PROOF
<1>1. \E m : Running(m)
  BY DEF NetscalerMethod, GetMonitor, SetMonitor, DeleteMonitor, GetPoolGroup, GetPoolMonitor,
         SetPool, DeletePool, GetPoolMembers, CreatePoolMember, DeletePoolMember, GetVIP, SetVIP,
         DeleteVIP
<1>2. QED BY <1>1, RunningCalls DEF NetscalerMethod, outside, object, pass

(* Every step keeps the plan.                                              *)
LEMMA ADCStepKept ==
  ASSUME NetscalerConditions, VendorInv, ADCPlan, ADCState, [Next]_vars
  PROVE  ADCPlan' /\ ADCState'
PROOF
<1>1. adc \in ADCs
  BY DEF VendorInv
<1>2. CASE Quiet
  <2>1. ADCPlan'
    BY <1>2 DEF Quiet, ADCPlan, OnADC, Up
  <2>2. ADCState'
    BY <1>2 DEF Quiet, ADCState, OnADC, Up, Binding
  <2>3. QED BY <2>1, <2>2
<1>3. CASE Begun
  <2> SUFFICES ASSUME OnADC PROVE ADCPlan' /\ ADCState'
    BY <1>3 DEF Begun, ADCPlan, ADCState, OnADC
  <2>1. /\ adc' = adc /\ vendor' = vendor /\ Up' = Up /\ at' = 0
        /\ \A p \in Up : p \in adc.groupBound
    BY <1>3 DEF Begun, ADCState, Binding, VendorInv, ClientInv, FrameOK, Up
  <2>2. ADCState'
    BY <2>1 DEF ADCState, OnADC
  <2>3. ASSUME op'.op = "pool"
        PROVE  PoolPlan(op', todo', at', op'.port \in adc'.groups,
                        op'.port \in adc'.monBound, adc'.members[op'.port])
    <3> DEFINE g == op'.port \in adc'.groups
               b == op'.port \in adc'.monBound
               S == adc'.members[op'.port]
    <3>1. g \in BOOLEAN /\ b \in BOOLEAN /\ Up \in SUBSET Ports
      BY DEF Up
    <3> HIDE DEF g, b, S
    <3>2. PoolPlan(op', todo', 0, g, b, S)
      BY <1>3, <2>3, <3>1, FirstPlan
    <3>3. QED BY <2>1, <3>2 DEF g, b, S
  <2>4. ASSUME op'.op = "cleanup" PROVE CleanupPlan(todo', Up', adc'.groups, adc'.mon)
    <3> DEFINE V == Up
               G == adc.groups
               mon == adc.mon
    <3>1. V \in SUBSET Ports /\ G \in SUBSET Ports
      BY <1>1 DEF Up, ADCs
    <3> HIDE DEF V, G, mon
    <3>2. CleanupPlan(todo', V, G, mon)
      BY <1>3, <2>4, <3>1, FirstPlan
    <3>3. QED BY <2>1, <3>2 DEF V, G, mon
  <2>5. op'.op # "cleanup" => todo' # <<>>
    BY <1>1, <1>3, FirstPlan
  <2>6. ADCPlan'
    BY <2>1, <2>3, <2>4, <2>5 DEF ADCPlan
  <2>7. QED BY <2>2, <2>6
<1>4. CASE Ended
  <2>1. ADCPlan'
    BY <1>4 DEF Ended, ADCPlan
  <2>2. ADCState'
    BY <1>4 DEF Ended, ADCState, OnADC, Up, Binding, NetscalerConditions
  <2>3. QED BY <2>1, <2>2
<1>5. CASE vendor = "Citrix_ADC" /\ NetscalerMethod
  BY <1>5, ADCMethodKept DEF OnADC, ADCKept
<1>6. CASE vendor # "Citrix_ADC" /\ vendor' = vendor
  BY <1>6 DEF ADCPlan, ADCState, OnADC
<1>7. CASE vendor = "F5_BigIP" /\ F5Method
  <2>1. vendor' = vendor
    BY <1>7 DEF F5Method, outside, object
  <2>2. QED BY <1>6, <1>7, <2>1
<1>8. QED BY <1>2, <1>3, <1>4, <1>5, <1>6, <1>7, ClientSteps

(* An operation that has made its last call has done what it promised.     *)
LEMMA ADCGoal ==
  ASSUME VendorInv', ADCPlan', ADCState', OnADC', op' # None, failed' = FALSE, todo' = <<>>
  PROVE  NetscalerDevice!Goal(op)'
PROOF
<1>1. op' \in Operations /\ adc' \in ADCs
  BY DEF VendorInv, ClientInv, ClientTypeOK, FrameOK
<1>2. CASE op'.op = "monitor"
  BY <1>2 DEF ADCPlan, NetscalerDevice!Goal
<1>3. CASE op'.op = "pool"
  <2> DEFINE g == op'.port \in adc'.groups
             b == op'.port \in adc'.monBound
             S == adc'.members[op'.port]
  <2>1. g \in BOOLEAN /\ b \in BOOLEAN /\ PoolPlan(op', <<>>, at', g, b, S)
    BY <1>3 DEF ADCPlan
  <2> HIDE DEF g, b, S
  <2>2. g /\ b /\ S = op'.want
    BY <2>1, PoolDone
  <2>3. QED BY <1>3, <2>2 DEF NetscalerDevice!Goal, g, b, S
<1>4. CASE op'.op = "vip"
  <2>1. op'.port \in Ports
    BY <1>1, <1>4, OpKinds
  <2>2. op'.port \in adc'.groupBound /\ adc'.vservers[op'.port].ip = op'.ip
    BY <1>4 DEF ADCPlan
  <2>3. QED BY <1>4, <2>1, <2>2 DEF NetscalerDevice!Goal
<1>5. CASE op'.op = "cleanup"
  <2>1. Up' = {} /\ adc'.groups = {} /\ adc'.mon = None
    <3> DEFINE V == Up'
               G == adc'.groups
               mon == adc'.mon
    <3>1. CleanupPlan(<<>>, V, G, mon)
      BY <1>5 DEF ADCPlan
    <3> HIDE DEF V, G, mon
    <3>2. V = {} /\ G = {} /\ mon = None
      BY <3>1, CleanupDone
    <3>3. QED BY <3>2 DEF V, G, mon
  <2>2. adc'.groupBound = {}
    BY <2>1 DEF ADCState
  <2>3. op'.status.handled = PortList /\ \A i \in DOMAIN PortList : PortList[i] \in Ports
    BY <1>1, <1>5, OpKinds, PassConstants
  <2>4. QED BY <1>5, <2>1, <2>2, <2>3 DEF NetscalerDevice!Goal
<1>6. QED BY <1>1, <1>2, <1>3, <1>4, <1>5, OpKinds

LEMMA ADCInvHolds == NetscalerConditions => (Spec => [](ADCPlan /\ ADCState))
PROOF
<1> SUFFICES ASSUME NetscalerConditions PROVE Spec => [](ADCPlan /\ ADCState)
  OBVIOUS
<1>1. Init => ADCPlan /\ ADCState
  BY DEF Init, ClientInit, NetscalerInit, EmptyADC, ADCPlan, ADCState, Up
<1>2. VendorInv /\ ADCPlan /\ ADCState /\ [Next]_vars => (ADCPlan /\ ADCState)'
  BY ADCStepKept
<1>3. QED BY <1>1, <1>2, VendorInvHolds, PTL DEF Spec

(* On a Citrix ADC the Handle operations keep the contract of the backend  *)
(* although a method is up to two requests and some reads drop their       *)
(* errors: whatever else fails and whenever the operator dies between two  *)
(* methods, a request changes only what the operation names and only       *)
(* towards what it asks for, and nil is returned only in the state asked   *)
(* for.  NetscalerConditions names the failures that the code does not     *)
(* repair; for each a configuration shows the contract broken.             *)
THEOREM NetscalerKeepsContract == NetscalerConditions => (Spec => NetscalerContract)
PROOF
<1> SUFFICES ASSUME NetscalerConditions PROVE Spec => NetscalerContract
  OBVIOUS
<1>1. Init => NetscalerDevice!Init
  <2> SUFFICES ASSUME Init PROVE NetscalerDevice!Init
    OBVIOUS
  <2>1. op = None /\ adc = EmptyADC
    BY DEF Init, ClientInit, NetscalerInit
  <2>2. CallOn("Citrix_ADC") = None /\ ResultOn("Citrix_ADC") = "none"
    BY <2>1 DEF CallOn, ResultOn
  <2>3. NetscalerDevice!DeviceInit
    BY <2>1 DEF EmptyADC, NetscalerDevice!DeviceInit
  <2>4. QED BY <2>2, <2>3 DEF NetscalerDevice!Init
<1>2. /\ VendorInv /\ ADCPlan /\ ADCState /\ VendorInv' /\ ADCPlan' /\ ADCState' /\ [Next]_vars
      => [NetscalerDevice!Next \/ NetscalerDevice!Abandon]_NetscalerDevice!contract
  <2> SUFFICES ASSUME VendorInv, ADCPlan, ADCState, VendorInv', ADCPlan', ADCState', [Next]_vars
               PROVE  [NetscalerDevice!Next \/ NetscalerDevice!Abandon]_NetscalerDevice!contract
    OBVIOUS
  <2>1. ASSUME UNCHANGED adc PROVE UNCHANGED NetscalerDevice!device
    BY <2>1 DEF NetscalerDevice!device
  <2>2. CASE vendor # "Citrix_ADC" /\ UNCHANGED <<vendor, adc>>
    BY <2>1, <2>2, CallSeen DEF NetscalerDevice!contract
  <2>3. CASE Quiet
    <3>1. UNCHANGED adc
      BY <2>3 DEF Quiet
    <3>2. QED BY <2>1, <2>3, <3>1, CallSeen DEF NetscalerDevice!contract
  <2>4. CASE vendor = "Citrix_ADC" /\ Begun
    <3>1. UNCHANGED adc
      BY <2>4 DEF Begun
    <3>2. NetscalerDevice!Start
      BY <2>1, <2>4, <3>1, CallSeen DEF NetscalerDevice!Start
    <3>3. QED BY <3>2 DEF NetscalerDevice!Next
  <2>5. CASE vendor = "Citrix_ADC" /\ Ended
    <3>1. UNCHANGED adc /\ CallOn("Citrix_ADC")' = None /\ ResultOn("Citrix_ADC")' = "none"
      BY <2>5, CallSeen DEF Ended
    <3>2. CASE op # None
      <4>1. CallOn("Citrix_ADC") # None
        BY <2>5, <3>2 DEF CallOn
      <4>2. QED BY <2>1, <3>1, <4>1 DEF NetscalerDevice!Abandon
    <3>3. CASE op = None
      <4>1. CallOn("Citrix_ADC") = None /\ ResultOn("Citrix_ADC") = "none"
        BY <3>3 DEF CallOn, ResultOn
      <4>2. QED BY <2>1, <3>1, <4>1 DEF NetscalerDevice!contract
    <3>4. QED BY <3>2, <3>3
  <2>6. CASE vendor = "Citrix_ADC" /\ NetscalerMethod
    <3>1. Calling /\ op' = op /\ vendor' = vendor
      BY <2>6, ADCMethodCalls DEF VendorInv
    <3>2. NetscalerDevice!Allowed(op)
      BY <2>6, ADCMethodKept DEF OnADC, ADCKept
    <3>3. failed' = FALSE /\ todo' = <<>> => NetscalerDevice!Goal(op)'
      <4>1. op # None
        BY <3>1, NoneIsNothing DEF Calling
      <4>2. QED BY <2>6, <3>1, <4>1, ADCGoal DEF OnADC
    <3>4. /\ op # None /\ CallOn("Citrix_ADC") = op /\ CallOn("Citrix_ADC")' = op
          /\ ResultOn("Citrix_ADC") = "none" /\ ResultOn("Citrix_ADC")' \in {"none", "err", "ok"}
          /\ ResultOn("Citrix_ADC")' = "ok" => failed' = FALSE /\ todo' = <<>>
      BY <2>6, <3>1, CallWorks
    <3>5. ResultOn("Citrix_ADC")' = "ok" => NetscalerDevice!Goal(CallOn("Citrix_ADC"))'
      BY <3>1, <3>3, <3>4
    <3>6. NetscalerDevice!Allowed(CallOn("Citrix_ADC"))
      <4> USE <3>2, <3>4 DEF NetscalerDevice!Allowed
      <4>1. CASE op.op = "monitor"
        BY <4>1
      <4>2. CASE op.op = "pool"
        BY <4>2 DEF NetscalerDevice!OnlyPorts, NetscalerDevice!TowardsMembers
      <4>3. CASE op.op = "vip"
        BY <4>3 DEF NetscalerDevice!OnlyPorts
      <4>4. CASE op.op = "cleanup"
        <5> DEFINE o == CallOn("Citrix_ADC")
                   S == {o.status.handled[i] : i \in DOMAIN o.status.handled}
        <5>1. o = op /\ Ports = S
          BY <3>1, <4>4, OpKinds, PassConstants DEF Calling
        <5> HIDE DEF o
        <5>2. NetscalerDevice!OnlyPorts(S)
          BY <5>1 DEF NetscalerDevice!OnlyPorts
        <5>3. NetscalerDevice!Allowed(o)
          BY <4>4, <5>1, <5>2
        <5>4. QED BY <5>3 DEF o
      <4>5. QED BY <3>1, <4>1, <4>2, <4>3, <4>4, OpKinds DEF Calling
    <3>7. NetscalerDevice!Work
      BY <3>4, <3>5, <3>6 DEF NetscalerDevice!Work
    <3>8. QED BY <3>7 DEF NetscalerDevice!Next
  <2>7. Begun \/ Ended \/ (F5Method /\ UNCHANGED adc) => UNCHANGED <<vendor, adc>>
    BY DEF Begun, Ended, F5Method, outside, object
  <2>8. QED BY <2>2, <2>3, <2>4, <2>5, <2>6, <2>7, ClientSteps
<1>3. QED BY <1>1, <1>2, VendorInvHolds, ADCInvHolds, PTL
      DEF Spec, NetscalerContract, NetscalerDevice!SpecWithRestarts

----------------------------------------------------------------------------
(* The contract on the BIG-IP.                                             *)

(* Users do not change the type or the port of the monitor: the BIG-IP     *)
(* keeps monitors of two types apart, and EditMonitor sends no port        *)
(* (MCMonitorPort.cfg).                                                    *)
F5Conditions == SameType /\ \A s, t \in Specs : s.monitor.port = t.monitor.port

OnF5 == vendor = "F5_BigIP"
F5Up == {p \in Ports : f5.virtuals[p] # None}

(* The monitor of a BIG-IP d, as the contract sees it.                     *)
InUse(d) == {t \in Types : d.mons[t] # None}
MonitorOf(d) == IF InUse(d) = {} THEN None ELSE d.mons[CHOOSE t \in InUse(d) : TRUE]

F5Plan ==
  OnF5 /\ op # None /\ failed = FALSE =>
    /\ op.op = "monitor" /\ todo = <<>> => f5.mons[op.monitor.type] = op.monitor
    /\ op.op = "pool" => PoolPlan(op, todo, at, op.port \in f5.pools,
                                  op.port \in f5.monitored, f5.members[op.port])
    /\ op.op = "vip" /\ todo = <<>> => f5.virtuals[op.port] = op.ip
    /\ op.op = "cleanup" => CleanupPlan(todo, F5Up, f5.pools, MonitorOf(f5))

(* A monitor is the one of a spec, and only a pool has members.            *)
MonitorsOfSpecs(mons) ==
  \A t \in Types : mons[t] # None => mons[t] \in SpecMonitors /\ mons[t].type = t

F5State ==
  OnF5 =>
    /\ MonitorsOfSpecs(f5.mons)
    /\ \A p \in Ports \ f5.pools : f5.members[p] = {}

F5Kept == F5Plan' /\ F5State' /\ F5Device!Allowed(op)

F5Runs ==
  /\ VendorInv /\ F5Plan /\ F5State /\ F5Conditions /\ OnF5
  /\ UNCHANGED <<outside, pass>>

(* All specs have one type, so there is one monitor.                       *)
LEMMA OneMonitor ==
  ASSUME SameType, NEW m \in SpecMonitors, NEW d, MonitorsOfSpecs(d.mons)
  PROVE  MonitorOf(d) = d.mons[m.type] /\ m.type \in Types
PROOF
<1>1. m.type \in Types /\ \A n \in SpecMonitors : n.type = m.type
  BY MonitorParts, MonitorType
<1>2. InUse(d) \subseteq {m.type}
  BY <1>1 DEF InUse, MonitorsOfSpecs
<1>3. CASE d.mons[m.type] = None
  <2>1. InUse(d) = {}
    BY <1>2, <1>3 DEF InUse
  <2>2. QED BY <1>1, <1>3, <2>1 DEF MonitorOf
<1>4. CASE d.mons[m.type] # None
  <2>1. InUse(d) = {m.type}
    BY <1>1, <1>2, <1>4 DEF InUse
  <2>2. (CHOOSE t \in {m.type} : TRUE) = m.type
    OBVIOUS
  <2>3. QED BY <1>1, <2>1, <2>2 DEF MonitorOf
<1>5. QED BY <1>3, <1>4

LEMMA SentLeaves ==
  ASSUME ClientInv, Calling, NEW request, NEW new, Send(request, new, Return(<<>>))
  PROVE  \/ f5' = new /\ Done
         \/ f5' \in {f5, new} /\ (Failed \/ Skipped)
  BY RequestLeaves DEF Send

LEMMA SentGoesOn ==
  ASSUME ClientInv, Calling, NEW request, NEW new, Send(request, new, Proceed)
  PROVE  \/ f5' = new /\ GoesOn
         \/ f5' \in {f5, new} /\ (Failed \/ Skipped)
  BY RequestLeaves DEF Send

(* HandleMonitors on the BIG-IP.                                           *)
LEMMA F5MonitorKept ==
  ASSUME F5Runs, F5GetMonitor \/ F5CreateMonitor \/ F5EditMonitor
  PROVE  F5Kept
PROOF
<1> USE DEF F5Runs
<1> DEFINE m == op.monitor
           T == op.monitor.type
           old == f5.mons[T]
<1>1. Calling /\ op.op = "monitor" /\ m \in SpecMonitors /\ ClientInv /\ EditsFound
  BY RunningCalls, CallKinds, OpKinds
  DEF F5GetMonitor, F5CreateMonitor, F5EditMonitor, Calling, VendorInv
<1>2. op # None /\ op' = op /\ vendor' = vendor /\ failed = FALSE /\ todo # <<>>
  BY <1>1, CallingList DEF outside, object, pass
<1>3. /\ f5 \in BIGIPs /\ MonitorsOfSpecs(f5.mons)
      /\ \A p \in Ports \ f5.pools : f5.members[p] = {}
  BY DEF F5State, VendorInv
<1>4. SameType /\ MonitorOf(f5) = old /\ T \in Types
  BY <1>1, <1>3, OneMonitor DEF F5Conditions
<1>5. old = None \/ old \in SpecMonitors
  BY <1>3, <1>4 DEF MonitorsOfSpecs
<1>6. ASSUME f5'.mons \in {f5.mons, [f5.mons EXCEPT ![T] = m]},
             f5'.pools = f5.pools, f5'.monitored = f5.monitored,
             f5'.members = f5.members, f5'.virtuals = f5.virtuals,
             todo' = <<>> /\ failed' = FALSE => f5'.mons[T] = m
      PROVE  F5Kept
  <2>1. MonitorsOfSpecs(f5'.mons) /\ f5'.mons[T] \in {old, m}
    BY <1>1, <1>3, <1>4, <1>6 DEF MonitorsOfSpecs, BIGIPs
  <2>2. F5State'
    BY <1>2, <1>3, <1>6, <2>1 DEF F5State
  <2>3. F5Plan'
    BY <1>1, <1>2, <1>6 DEF F5Plan
  <2>4. MonitorOf(f5') \in {MonitorOf(f5), m}
    BY <1>1, <1>4, <2>1, OneMonitor
  <2>5. F5Device!Allowed(op)
    BY <1>1, <1>6, <2>4 DEF F5Device!Allowed, MonitorOf, InUse, TypesInUse
  <2>6. QED BY <2>2, <2>3, <2>5 DEF F5Kept
<1>7. CASE F5GetMonitor
  <2> DEFINE found == Parsed(old)
  <2>1. f5' = f5 /\ (GotMonitor(found) \/ Fail)
    BY <1>7 DEF F5GetMonitor, Read
  <2>2. CASE Fail
    <3>1. failed' = TRUE
      BY <1>1, <2>2, RequestLeaves DEF Failed, Skipped
    <3>2. QED BY <1>6, <2>1, <3>1
  <2>3. CASE GotMonitor(found)
    <3>1. todo' = <<>> => found # None /\ found = m
      <4> HIDE DEF found
      <4>1. QED BY <1>1, <2>3, MonitorTodo
    <3>2. found # None /\ found = m => old = m
      <4> SUFFICES ASSUME found # None, found = m PROVE old = m
        OBVIOUS
      <4>1. m.path # None /\ old # None
        BY <1>1, MonitorParts DEF Parsed
      <4>2. old \in Monitors
        BY <1>5, <4>1, SpecFields
      <4>3. CASE old.path \in Clipped
        <5>1. found = [old EXCEPT !.path = None]
          BY <4>1, <4>3 DEF Parsed
        <5>2. found.path = None
          BY <4>2, <5>1, MonitorFields
        <5>3. QED BY <4>1, <5>2
      <4>4. CASE old.path \notin Clipped
        BY <4>4 DEF Parsed
      <4>5. QED BY <4>3, <4>4
    <3>3. QED BY <1>6, <2>1, <3>1, <3>2
  <2>4. QED BY <2>1, <2>2, <2>3
<1>8. CASE F5CreateMonitor
  <2> DEFINE new == [f5 EXCEPT !.mons[T] = m]
  <2>1. Send("AddMonitor", new, Return(<<>>))
    BY <1>8 DEF F5CreateMonitor
  <2>2. /\ new.mons = [f5.mons EXCEPT ![T] = m] /\ new.mons[T] = m
        /\ new.pools = f5.pools /\ new.monitored = f5.monitored
        /\ new.members = f5.members /\ new.virtuals = f5.virtuals
    BY <1>3, <1>4 DEF BIGIPs
  <2> HIDE DEF new
  <2>3. f5' = new \/ (f5' \in {f5, new} /\ failed' = TRUE)
    BY <1>1, <2>1, SentLeaves DEF Failed, Skipped
  <2>4. QED BY <1>6, <2>2, <2>3
<1>9. CASE F5EditMonitor
  <2> DEFINE new == [f5 EXCEPT !.mons[T].path = m.path]
             n == [old EXCEPT !.path = m.path]
  <2>1. Send("PatchMonitor", new, Return(<<>>))
    BY <1>9 DEF F5EditMonitor
  <2>2. old \in SpecMonitors
    BY <1>1, <1>5, <1>9 DEF F5EditMonitor, Running, EditsFound, OnF5
  <2>3. n = m
    <3>1. old \in Monitors /\ m \in Monitors /\ old.type = m.type
      BY <1>1, <1>4, <2>2, MonitorParts
    <3>2. old.port = m.port
      BY <1>1, <2>2 DEF F5Conditions, SpecMonitors
    <3>3. QED BY <3>1, <3>2, MonitorFields
  <2>4. /\ new.mons = [f5.mons EXCEPT ![T] = n] /\ new.mons[T] = n
        /\ new.pools = f5.pools /\ new.monitored = f5.monitored
        /\ new.members = f5.members /\ new.virtuals = f5.virtuals
    BY <1>3, <1>4 DEF BIGIPs
  <2> HIDE DEF new, n
  <2>5. f5' = new \/ (f5' \in {f5, new} /\ failed' = TRUE)
    BY <1>1, <2>1, SentLeaves DEF Failed, Skipped
  <2>6. QED BY <1>6, <2>3, <2>4, <2>5
<1>10. QED BY <1>7, <1>8, <1>9

(* HandlePool on the BIG-IP.                                               *)
LEMMA F5PoolRuns ==
  ASSUME F5Runs, Calling, op.op = "pool"
  PROVE  /\ ClientInv /\ op # None /\ op' = op /\ vendor' = vendor /\ failed = FALSE
         /\ op.port \in Ports /\ op.want \in SUBSET Hosts
         /\ f5 \in BIGIPs /\ f5.members[op.port] \in SUBSET Hosts
         /\ MonitorsOfSpecs(f5.mons)
         /\ \A p \in Ports \ f5.pools : f5.members[p] = {}
         /\ PoolPlan(op, todo, at, op.port \in f5.pools, op.port \in f5.monitored,
                     f5.members[op.port])
PROOF
<1> USE DEF F5Runs
<1>1. ClientInv /\ op # None /\ op' = op /\ vendor' = vendor /\ failed = FALSE
  BY CallingList DEF VendorInv, outside, object, pass
<1>2. op.port \in Ports /\ op.want \in SUBSET Hosts
  BY OpKinds DEF Calling
<1>3. f5 \in BIGIPs /\ f5.members[op.port] \in SUBSET Hosts
  BY <1>2 DEF VendorInv, BIGIPs
<1>4. MonitorsOfSpecs(f5.mons) /\ \A p \in Ports \ f5.pools : f5.members[p] = {}
  BY DEF F5State
<1>5. PoolPlan(op, todo, at, op.port \in f5.pools, op.port \in f5.monitored,
               f5.members[op.port])
  BY <1>1 DEF F5Plan
<1>6. QED BY <1>1, <1>2, <1>3, <1>4, <1>5

F5PoolRequest(S) ==
  /\ f5'.members = [f5.members EXCEPT ![op.port] = S]
  /\ f5'.mons = f5.mons /\ f5'.virtuals = f5.virtuals
  /\ f5'.pools \in {f5.pools, f5.pools \cup {op.port}}
  /\ f5'.monitored \in {f5.monitored, f5.monitored \cup {op.port}}
  /\ op.port \in f5'.pools \/ S = {}
  /\ Towards(f5.members[op.port], S, op.want)
  /\ failed' = FALSE => PoolPlan(op, todo', at', op.port \in f5'.pools,
                                 op.port \in f5'.monitored, S)

LEMMA F5PoolKept ==
  ASSUME F5Runs, Calling, op.op = "pool", NEW S, F5PoolRequest(S)
  PROVE  F5Kept
PROOF
<1> USE DEF F5PoolRequest
<1>1. /\ op' = op /\ vendor' = vendor /\ op.port \in Ports /\ f5 \in BIGIPs
      /\ MonitorsOfSpecs(f5.mons) /\ \A p \in Ports \ f5.pools : f5.members[p] = {}
  BY F5PoolRuns
<1>2. /\ f5'.members[op.port] = S
      /\ \A p \in Ports \ {op.port} : f5'.members[p] = f5.members[p]
  BY <1>1 DEF BIGIPs
<1>3. F5State'
  BY <1>1, <1>2 DEF F5State
<1>4. F5Plan'
  BY <1>1, <1>2 DEF F5Plan
<1>5. F5Device!Allowed(op)
  <2>1. F5Device!OnlyPorts({op.port})
    BY <1>1, <1>2 DEF F5Device!OnlyPorts
  <2>2. F5Device!TowardsMembers(op.port, op.want)
    BY <1>2 DEF F5Device!TowardsMembers, Towards
  <2>3. TypesInUse' = TypesInUse
    BY DEF TypesInUse
  <2>4. QED BY <2>1, <2>2, <2>3 DEF F5Device!Allowed
<1>6. QED BY <1>3, <1>4, <1>5 DEF F5Kept

(* The reads of HandlePool change nothing and leave a plan that fits the pool. *)
LEMMA F5PoolReadKept ==
  ASSUME F5Runs, F5GetPool \/ F5GetPoolMembers
  PROVE  F5Kept
PROOF
<1>1. Calling /\ op.op = "pool" /\ Head(todo).port = op.port
  BY RunningCalls, CallKinds DEF F5GetPool, F5GetPoolMembers, Calling, F5Runs, VendorInv
<1> DEFINE p == op.port
           g == p \in f5.pools
           b == p \in f5.monitored
           S == f5.members[p]
<1>2. /\ ClientInv /\ p \in Ports /\ f5 \in BIGIPs /\ S \in SUBSET Hosts /\ failed = FALSE
      /\ PoolPlan(op, todo, at, g, b, S) /\ (~g => S = {})
  BY <1>1, F5PoolRuns
<1>3. f5' = f5 /\ todo \in Seq(CallsFor(op)) /\ todo # <<>>
  BY <1>1, <1>2, CallingList DEF F5GetPool, F5GetPoolMembers
<1>4. Reads(todo) /\ Len(todo) = 1
  BY <1>2, <1>3 DEF F5GetPool, F5GetPoolMembers, Running, Reads, PoolPlan
<1>5. Tail(todo) = <<>>
  BY <1>3, <1>4, LastCall
<1>6. Head(todo).m = "GetPoolMembers" => g /\ (Head(todo).bound => b)
  BY <1>2, <1>4 DEF PoolPlan
<1>7. ASSUME failed' = FALSE => PoolPlan(op, todo', at', g, b, S) PROVE F5Kept
  <2>1. f5'.members = [f5.members EXCEPT ![p] = S] /\ Towards(S, S, op.want)
    BY <1>2, <1>3 DEF BIGIPs, Towards
  <2>2. F5PoolRequest(S)
    BY <1>2, <1>3, <1>7, <2>1 DEF F5PoolRequest
  <2> HIDE DEF S
  <2>3. QED BY <1>1, <2>2, F5PoolKept
<1> HIDE DEF g, b, S
<1>8. g \in BOOLEAN /\ b \in BOOLEAN
  BY DEF g, b
<1>9. ASSUME Fail PROVE F5Kept
  <2>1. failed' = TRUE
    BY <1>1, <1>2, <1>9, RequestLeaves DEF Failed, Skipped
  <2>2. QED BY <1>7, <2>1
<1>10. CASE F5GetPool
  <2> DEFINE k == b /\ ~NameClipped
  <2>1. (IF g THEN GotPool(k) ELSE NoPool) \/ Fail
    BY <1>1, <1>10 DEF F5GetPool, Read, OnPort, g, b
  <2>2. CASE g /\ GotPool(k)
    <3>1. k \in BOOLEAN /\ (k => b)
      BY <1>8
    <3> HIDE DEF k
    <3>2. PoolPlan(op, todo', 0, g, b, S) /\ at' = 0
      BY <1>1, <1>2, <1>5, <1>8, <2>2, <3>1, PoolTodo
    <3>3. QED BY <1>7, <3>2
  <2>3. CASE ~g /\ NoPool
    <3>1. PoolPlan(op, todo', 0, g, b, S) /\ at' = 0
      BY <1>1, <1>2, <1>5, <1>8, <2>3, PoolTodo
    <3>2. QED BY <1>7, <3>1
  <2>4. QED BY <1>9, <2>1, <2>2, <2>3
<1>11. CASE F5GetPoolMembers
  <2>1. GotMembers(S) \/ Fail
    BY <1>1, <1>11 DEF F5GetPoolMembers, Read, OnPort, S
  <2>2. CASE GotMembers(S)
    <3>1. g /\ (Head(todo).bound => b)
      BY <1>6, <1>11 DEF F5GetPoolMembers, Running
    <3>2. PoolPlan(op, todo', 0, g, b, S) /\ at' = 0
      BY <1>1, <1>2, <1>5, <1>8, <2>2, <3>1, PoolTodo
    <3>3. QED BY <1>7, <3>2
  <2>3. QED BY <1>9, <2>1, <2>2
<1>12. QED BY <1>10, <1>11

(* The BIG-IP new, with the members S in the pool of the operation.        *)
F5PoolTo(new, S) ==
  /\ new.members = [f5.members EXCEPT ![op.port] = S]
  /\ new.mons = f5.mons /\ new.virtuals = f5.virtuals
  /\ new.pools \in {f5.pools, f5.pools \cup {op.port}}
  /\ new.monitored \in {f5.monitored, f5.monitored \cup {op.port}}
  /\ op.port \in new.pools \/ S = {}
  /\ Towards(f5.members[op.port], S, op.want)

F5PoolPlanned(new, S, calls, k) ==
  PoolPlan(op, calls, k, op.port \in new.pools, op.port \in new.monitored, S)

LEMMA F5PoolSent ==
  ASSUME F5Runs, Calling, op.op = "pool", NEW new, NEW S, F5PoolTo(new, S),
         \/ f5' = new /\ F5PoolPlanned(new, S, todo', at')
         \/ f5' \in {f5, new} /\ failed' = TRUE
  PROVE  F5Kept
PROOF
<1>1. CASE f5' = new
  <2>1. F5PoolRequest(S)
    BY <1>1 DEF F5PoolRequest, F5PoolTo, F5PoolPlanned
  <2>2. QED BY <2>1, F5PoolKept
<1>2. CASE f5' = f5 /\ failed' = TRUE
  <2> DEFINE Q == f5.members[op.port]
  <2>1. /\ f5.members = [f5.members EXCEPT ![op.port] = Q]
        /\ op.port \in f5.pools \/ Q = {}
    BY F5PoolRuns DEF BIGIPs
  <2>2. F5PoolRequest(Q)
    BY <1>2, <2>1 DEF F5PoolRequest, Towards
  <2> HIDE DEF Q
  <2>3. QED BY <2>2, F5PoolKept
<1>3. QED BY <1>1, <1>2

(* The three requests of CreatePool, and EditPool.                         *)
LEMMA F5PoolWriteKept ==
  ASSUME F5Runs, F5CreatePool \/ F5EditPool
  PROVE  F5Kept
PROOF
<1>1. /\ Calling /\ op.op = "pool" /\ Head(todo).port = op.port
      /\ Head(todo).m \in {"CreatePool", "EditPool"}
  BY RunningCalls, CallKinds DEF F5CreatePool, F5EditPool, Running, Calling, F5Runs, VendorInv
<1> DEFINE p == op.port
           g == p \in f5.pools
           b == p \in f5.monitored
           S == f5.members[p]
<1>2. /\ ClientInv /\ p \in Ports /\ f5 \in BIGIPs
      /\ PoolPlan(op, todo, at, g, b, S) /\ (~g => S = {})
  BY <1>1, F5PoolRuns
<1>3. todo \in Seq(CallsFor(op)) /\ todo # <<>> /\ OnPort = p
  BY <1>1, <1>2, CallingList DEF OnPort
<1>4. g \in BOOLEAN /\ b \in BOOLEAN
  OBVIOUS
<1>5. f5.members = [f5.members EXCEPT ![p] = S] /\ Towards(S, S, op.want)
  BY <1>2 DEF BIGIPs, Towards
<1>6. PoolPlan(op, Tail(todo), 0, TRUE, TRUE, S)
  <2> HIDE DEF g, b, S
  <2>1. QED BY <1>1, <1>2, <1>3, <1>4, PoolPopped
<1>7. /\ at > 0 \/ Head(todo).m = "EditPool" => g
      /\ Head(todo).m = "CreatePool" /\ at > 1 => b
  BY <1>1, <1>2, <1>3 DEF PoolPlan, Reads, Running, F5CreatePool, F5EditPool
<1>8. CASE Running("CreatePool") /\ at = 0
           /\ Send("CreatePool", [f5 EXCEPT !.pools = @ \cup {p}], Proceed)
  <2> DEFINE new == [f5 EXCEPT !.pools = @ \cup {p}]
  <2>1. /\ new.pools = f5.pools \cup {p} /\ new.monitored = f5.monitored
        /\ new.members = f5.members /\ new.mons = f5.mons /\ new.virtuals = f5.virtuals
    BY <1>2 DEF BIGIPs
  <2>2. at + 1 = 1
    BY <1>8, <2>1
  <2>3. Send("CreatePool", new, Proceed)
    BY <1>8
  <2> HIDE DEF new
  <2>4. F5PoolTo(new, S)
    BY <1>5, <2>1 DEF F5PoolTo
  <2>5. PoolPlan(op, todo, 1, TRUE, b, S)
    <3> HIDE DEF g, b, S
    <3>1. QED BY <1>1, <1>2, <1>3, <1>4, PoolMade
  <2>6. \/ f5' = new /\ F5PoolPlanned(new, S, todo', at')
        \/ f5' \in {f5, new} /\ failed' = TRUE
    BY <1>1, <1>2, <2>1, <2>2, <2>3, <2>5, SentGoesOn DEF GoesOn, Failed, Skipped, F5PoolPlanned
  <2> HIDE DEF S
  <2>7. QED BY <1>1, <2>4, <2>6, F5PoolSent
<1>9. CASE Running("CreatePool") /\ at = 1
           /\ Send("AddMonitorToPool", [f5 EXCEPT !.monitored = @ \cup {p}], Proceed)
  <2> DEFINE new == [f5 EXCEPT !.monitored = @ \cup {p}]
  <2>1. /\ new.pools = f5.pools /\ new.monitored = f5.monitored \cup {p}
        /\ new.members = f5.members /\ new.mons = f5.mons /\ new.virtuals = f5.virtuals
    BY <1>2 DEF BIGIPs
  <2>2. g /\ at + 1 = 2
    BY <1>7, <1>9, <2>1
  <2>3. Send("AddMonitorToPool", new, Proceed)
    BY <1>9
  <2> HIDE DEF new
  <2>4. F5PoolTo(new, S)
    BY <1>5, <2>1, <2>2 DEF F5PoolTo
  <2>5. PoolPlan(op, todo, 2, TRUE, TRUE, S)
    <3> HIDE DEF g, b, S
    <3>1. QED BY <1>1, <1>2, <1>3, <1>4, PoolMade
  <2>6. \/ f5' = new /\ F5PoolPlanned(new, S, todo', at')
        \/ f5' \in {f5, new} /\ failed' = TRUE
    BY <1>1, <1>2, <2>1, <2>2, <2>3, <2>5, SentGoesOn DEF GoesOn, Failed, Skipped, F5PoolPlanned
  <2> HIDE DEF S
  <2>7. QED BY <1>1, <2>4, <2>6, F5PoolSent
<1>10. ASSUME NEW request, NEW new, Send(request, new, Return(<<>>)),
              F5PoolTo(new, S), p \in new.pools, p \in new.monitored
       PROVE  F5Kept
  <2>1. F5PoolPlanned(new, S, Tail(todo), 0)
    BY <1>6, <1>10 DEF F5PoolPlanned
  <2>2. \/ f5' = new /\ F5PoolPlanned(new, S, todo', at')
        \/ f5' \in {f5, new} /\ failed' = TRUE
    BY <1>1, <1>2, <1>10, <2>1, SentLeaves DEF Done, Failed, Skipped
  <2> HIDE DEF S
  <2>3. QED BY <1>1, <1>10, <2>2, F5PoolSent
<1>11. CASE Running("CreatePool") /\ at = 2
           /\ Send("SetMethod", [f5 EXCEPT !.method[p] = goal.method], Return(<<>>))
  <2> DEFINE new == [f5 EXCEPT !.method[p] = goal.method]
  <2>1. /\ new.pools = f5.pools /\ new.monitored = f5.monitored
        /\ new.members = f5.members /\ new.mons = f5.mons /\ new.virtuals = f5.virtuals
    BY <1>2 DEF BIGIPs
  <2>2. g /\ b
    BY <1>7, <1>11 DEF Running
  <2>3. Send("SetMethod", new, Return(<<>>))
    BY <1>11
  <2> HIDE DEF new
  <2>4. F5PoolTo(new, S) /\ p \in new.pools /\ p \in new.monitored
    BY <1>5, <2>1, <2>2 DEF F5PoolTo
  <2>5. QED BY <1>10, <2>3, <2>4
<1>12. CASE F5EditPool
  <2> DEFINE new == [f5 EXCEPT !.monitored = @ \cup {p}, !.method[p] = goal.method]
  <2>1. /\ new.pools = f5.pools /\ new.monitored = f5.monitored \cup {p}
        /\ new.members = f5.members /\ new.mons = f5.mons /\ new.virtuals = f5.virtuals
    BY <1>2 DEF BIGIPs
  <2>2. g
    BY <1>7, <1>12 DEF F5EditPool, Running
  <2>3. Send("ModifyPool", new, Return(<<>>))
    BY <1>3, <1>12 DEF F5EditPool
  <2> HIDE DEF new
  <2>4. F5PoolTo(new, S) /\ p \in new.pools /\ p \in new.monitored
    BY <1>5, <2>1, <2>2 DEF F5PoolTo
  <2>5. QED BY <1>10, <2>3, <2>4
<1>13. QED BY <1>3, <1>8, <1>9, <1>11, <1>12 DEF F5CreatePool

(* The three requests of CreatePoolMember, and DeletePoolMember.           *)
LEMMA F5PoolMemberKept ==
  ASSUME F5Runs, op.op = "pool", F5CreatePoolMember \/ F5DeletePoolMember
  PROVE  F5Kept
PROOF
<1>1. Calling /\ Head(todo).port = op.port
  BY RunningCalls, CallKinds
  DEF F5CreatePoolMember, F5DeletePoolMember, Calling, F5Runs, VendorInv
<1> DEFINE p == op.port
           h == Head(todo).host
           g == p \in f5.pools
           b == p \in f5.monitored
           S == f5.members[p]
           Q == IF Head(todo).m = "CreatePoolMember" THEN S \cup {h} ELSE S \ {h}
<1>2. /\ ClientInv /\ p \in Ports /\ f5 \in BIGIPs /\ PoolPlan(op, todo, at, g, b, S)
  BY <1>1, F5PoolRuns
<1>3. todo \in Seq(CallsFor(op)) /\ todo # <<>> /\ OnPort = p /\ Member = h
  BY <1>1, <1>2, CallingList DEF OnPort, Member
<1>4. g \in BOOLEAN /\ b \in BOOLEAN
  OBVIOUS
<1>5. f5.members = [f5.members EXCEPT ![p] = S] /\ Towards(S, S, op.want)
  BY <1>2 DEF BIGIPs, Towards
<1>6. Head(todo).m \in {"CreatePoolMember", "DeletePoolMember"}
  BY DEF F5CreatePoolMember, F5DeletePoolMember, Running
<1>7. g /\ b /\ PoolPlan(op, Tail(todo), 0, g, b, Q) /\ Towards(S, Q, op.want)
  <2>1. MemberCall(Head(todo), S, Q)
    BY <1>6 DEF MemberCall
  <2> HIDE DEF g, b, S, Q
  <2>2. QED BY <1>2, <1>3, <1>4, <2>1, MemberPopped, Zenon
<1>8. ASSUME NEW request, NEW new, Send(request, new, Return(<<>>)),
             new.members = [f5.members EXCEPT ![p] = Q],
             new.mons = f5.mons, new.virtuals = f5.virtuals,
             new.pools = f5.pools, new.monitored = f5.monitored
      PROVE  F5Kept
  <2>1. F5PoolTo(new, Q)
    BY <1>7, <1>8 DEF F5PoolTo
  <2>2. F5PoolPlanned(new, Q, Tail(todo), 0)
    BY <1>7, <1>8 DEF F5PoolPlanned
  <2> HIDE DEF Q
  <2>3. \/ f5' = new /\ F5PoolPlanned(new, Q, todo', at')
        \/ f5' \in {f5, new} /\ failed' = TRUE
    BY <1>1, <1>2, <1>8, <2>2, SentLeaves DEF Done, Failed, Skipped
  <2>4. QED BY <1>1, <2>1, <2>3, F5PoolSent
<1>9. ASSUME NEW k \in Nat, at = k, Head(todo).m = "CreatePoolMember"
      PROVE  PoolPlan(op, todo, at + 1, g, b, S)
  <2> HIDE DEF g, b, S
  <2>1. /\ (Head(todo).m = "GetPool" => g)
        /\ (Head(todo).m = "CreatePool" => g /\ (at + 1 > 1 => b))
    BY <1>9
  <2>2. at + 1 \in Nat
    BY <1>9
  <2>3. QED BY <1>2, <1>3, <1>4, <2>1, <2>2, PoolProceeds, Zenon
<1>10. ASSUME NEW k \in Nat, at = k, Head(todo).m = "CreatePoolMember", NEW new,
              \/ f5' = new /\ GoesOn
              \/ f5' \in {f5, new} /\ failed' = TRUE,
              new.members = f5.members,
              new.mons = f5.mons, new.virtuals = f5.virtuals,
              new.pools = f5.pools, new.monitored = f5.monitored
       PROVE  F5Kept
  <2>1. F5PoolTo(new, S)
    BY <1>5, <1>7, <1>10 DEF F5PoolTo
  <2>2. F5PoolPlanned(new, S, todo, at + 1)
    BY <1>9, <1>10 DEF F5PoolPlanned
  <2> HIDE DEF S
  <2>3. \/ f5' = new /\ F5PoolPlanned(new, S, todo', at')
        \/ f5' \in {f5, new} /\ failed' = TRUE
    BY <1>10, <2>2 DEF GoesOn
  <2>4. QED BY <1>1, <2>1, <2>3, F5PoolSent
<1>11. CASE F5CreatePoolMember
  <2>1. Head(todo).m = "CreatePoolMember" /\ Q = S \cup {h}
    BY <1>11 DEF F5CreatePoolMember, Running
  <2>2. CASE at = 0 /\ Read("GetNode", Proceed) /\ UNCHANGED f5
    <3>1. GoesOn \/ failed' = TRUE
      BY <1>1, <1>2, <2>2, RequestLeaves DEF Read, Failed, Skipped
    <3>2. QED BY <1>10, <2>1, <2>2, <3>1
  <2>3. CASE at = 1 /\ Send("PutNode", [f5 EXCEPT !.nodes = @ \cup {h}], Proceed)
    <3> DEFINE new == [f5 EXCEPT !.nodes = @ \cup {h}]
    <3>1. /\ new.members = f5.members /\ new.mons = f5.mons /\ new.virtuals = f5.virtuals
          /\ new.pools = f5.pools /\ new.monitored = f5.monitored
      BY <1>2 DEF BIGIPs
    <3>2. Send("PutNode", new, Proceed)
      BY <2>3
    <3> HIDE DEF new
    <3>3. \/ f5' = new /\ GoesOn
          \/ f5' \in {f5, new} /\ failed' = TRUE
      BY <1>1, <1>2, <3>2, SentGoesOn DEF Failed, Skipped
    <3>4. at = 1 /\ 1 \in Nat
      BY <2>3
    <3>5. QED BY <1>10, <2>1, <3>1, <3>3, <3>4, Zenon
  <2>4. CASE Send("AddPoolMember", [f5 EXCEPT !.members[p] = @ \cup {h}], Return(<<>>))
    <3> DEFINE new == [f5 EXCEPT !.members[p] = @ \cup {h}]
    <3>1. /\ new.members = [f5.members EXCEPT ![p] = Q]
          /\ new.mons = f5.mons /\ new.virtuals = f5.virtuals
          /\ new.pools = f5.pools /\ new.monitored = f5.monitored
      BY <1>2, <2>1 DEF BIGIPs
    <3>2. Send("AddPoolMember", new, Return(<<>>))
      BY <2>4
    <3> HIDE DEF new, Q
    <3>3. QED BY <1>8, <3>1, <3>2
  <2>5. QED BY <1>3, <1>11, <2>2, <2>3, <2>4 DEF F5CreatePoolMember
<1>12. CASE F5DeletePoolMember
  <2> DEFINE new == [f5 EXCEPT !.members[p] = @ \ {h}]
  <2>1. Q = S \ {h}
    BY <1>12 DEF F5DeletePoolMember, Running
  <2>2. /\ new.members = [f5.members EXCEPT ![p] = Q]
        /\ new.mons = f5.mons /\ new.virtuals = f5.virtuals
        /\ new.pools = f5.pools /\ new.monitored = f5.monitored
    BY <1>2, <2>1 DEF BIGIPs
  <2>3. Send("DeletePoolMember", new, Return(<<>>))
    BY <1>3, <1>12 DEF F5DeletePoolMember
  <2> HIDE DEF new, Q
  <2>4. QED BY <1>8, <2>2, <2>3
<1>13. QED BY <1>11, <1>12

(* HandleVIP on the BIG-IP: v is the destination the request leaves.       *)
F5VIPRequest(v) ==
  /\ f5'.mons = f5.mons /\ f5'.pools = f5.pools /\ f5'.monitored = f5.monitored
  /\ f5'.members = f5.members
  /\ f5'.virtuals = [f5.virtuals EXCEPT ![op.port] = v]
  /\ v \in {f5.virtuals[op.port], op.ip}
  /\ failed' = FALSE /\ todo' = <<>> => v = op.ip

LEMMA F5VIPKept ==
  ASSUME F5Runs, Calling, op.op = "vip", NEW v, F5VIPRequest(v)
  PROVE  F5Kept
PROOF
<1> USE DEF F5VIPRequest
<1>1. /\ op # None /\ op' = op /\ vendor' = vendor /\ op.port \in Ports /\ f5 \in BIGIPs
  BY CallingList, OpKinds DEF F5Runs, VendorInv, outside, object, pass, Calling
<1>2. /\ f5'.virtuals[op.port] = v
      /\ \A q \in Ports \ {op.port} : f5'.virtuals[q] = f5.virtuals[q]
  BY <1>1 DEF BIGIPs
<1>3. F5State'
  BY <1>1 DEF F5State, F5Runs
<1>4. F5Plan'
  BY <1>1, <1>2 DEF F5Plan
<1>5. F5Device!Allowed(op)
  <2>1. F5Device!OnlyPorts({op.port})
    BY <1>1, <1>2 DEF F5Device!OnlyPorts
  <2>2. TypesInUse' = TypesInUse
    BY DEF TypesInUse
  <2>3. QED BY <1>1, <1>2, <2>1, <2>2 DEF F5Device!Allowed
<1>6. QED BY <1>3, <1>4, <1>5 DEF F5Kept

(* GetVIP, and the one request of CreateVIP and EditVIP.                   *)
LEMMA F5VIPRequestKept ==
  ASSUME F5Runs, F5GetVIP \/ F5SetVIP
  PROVE  F5Kept
PROOF
<1>1. Calling /\ op.op = "vip" /\ Head(todo).port = op.port
  BY RunningCalls, CallKinds DEF F5GetVIP, F5SetVIP, Calling, F5Runs, VendorInv
<1> DEFINE p == op.port
           v == f5.virtuals[p]
<1>2. /\ op # None /\ p \in Ports /\ f5 \in BIGIPs /\ failed = FALSE
      /\ ClientInv /\ OnPort = p /\ todo # <<>>
  BY <1>1, CallingList, OpKinds DEF F5Runs, VendorInv, Calling, OnPort
<1>3. f5.virtuals = [f5.virtuals EXCEPT ![p] = v]
  BY <1>2 DEF BIGIPs
<1>4. ASSUME f5' = f5, failed' = FALSE /\ todo' = <<>> => v = op.ip
      PROVE  F5Kept
  <2>1. F5VIPRequest(v)
    BY <1>3, <1>4 DEF F5VIPRequest
  <2> HIDE DEF v
  <2>2. QED BY <1>1, <2>1, F5VIPKept
<1>5. CASE F5GetVIP
  <2>1. f5' = f5 /\ (GotVIP(v) \/ Fail)
    BY <1>2, <1>5 DEF F5GetVIP, Read
  <2>2. CASE GotVIP(v)
    <3>1. todo' = <<>> => v # None /\ v = op.ip
      <4> HIDE DEF v
      <4>1. QED BY <1>1, <1>2, <2>2, VIPTodo
    <3>2. QED BY <1>4, <2>1, <3>1
  <2>3. CASE Fail
    <3>1. failed' = TRUE
      BY <1>1, <1>2, <2>3, RequestLeaves DEF Failed, Skipped
    <3>2. QED BY <1>4, <2>1, <3>1
  <2>4. QED BY <2>1, <2>2, <2>3
<1>6. CASE F5SetVIP
  <2> DEFINE new == [f5 EXCEPT !.virtuals[p] = op.ip]
  <2>1. Send("PutVirtualServer", new, Return(<<>>))
    BY <1>2, <1>6 DEF F5SetVIP
  <2>2. /\ new.mons = f5.mons /\ new.pools = f5.pools /\ new.monitored = f5.monitored
        /\ new.members = f5.members /\ new.virtuals = [f5.virtuals EXCEPT ![p] = op.ip]
    BY <1>2 DEF BIGIPs
  <2> HIDE DEF new
  <2>3. f5' = new \/ (f5' = f5 /\ failed' = TRUE)
    BY <1>1, <1>2, <2>1, SentLeaves DEF Failed, Skipped
  <2>4. CASE f5' = new
    <3>1. F5VIPRequest(op.ip)
      BY <2>2, <2>4 DEF F5VIPRequest
    <3>2. QED BY <1>1, <3>1, F5VIPKept
  <2>5. QED BY <1>4, <2>3, <2>4
<1>7. QED BY <1>5, <1>6

(* HandleCleanup on the BIG-IP only takes away.                            *)
F5CleanupRequest ==
  /\ f5'.mons \in {f5.mons, [f5.mons EXCEPT ![op.status.monitor.type] = None]}
  /\ f5'.pools \subseteq f5.pools /\ f5'.monitored \subseteq f5.monitored
  /\ \A p \in Ports : /\ f5'.members[p] \subseteq f5.members[p]
                      /\ p \notin f5'.pools => f5'.members[p] = {}
                      /\ f5'.virtuals[p] \in {f5.virtuals[p], None}
  /\ failed' = FALSE => CleanupPlan(todo', F5Up', f5'.pools, MonitorOf(f5'))

LEMMA F5CleanupRuns ==
  ASSUME F5Runs, Calling, op.op = "cleanup"
  PROVE  /\ ClientInv /\ op # None /\ op' = op /\ vendor' = vendor /\ failed = FALSE
         /\ op.status.handled = PortList /\ f5 \in BIGIPs
         /\ op.status.monitor \in SpecMonitors /\ op.status.monitor.type \in Types
         /\ MonitorsOfSpecs(f5.mons) /\ MonitorOf(f5) = f5.mons[op.status.monitor.type]
         /\ \A p \in Ports \ f5.pools : f5.members[p] = {}
         /\ CleanupPlan(todo, F5Up, f5.pools, MonitorOf(f5))
PROOF
<1> USE DEF F5Runs
<1>1. ClientInv /\ op # None /\ op' = op /\ vendor' = vendor /\ failed = FALSE
  BY CallingList DEF VendorInv, outside, object, pass
<1>2. op.status.handled = PortList /\ f5 \in BIGIPs /\ op.status.monitor \in SpecMonitors
  BY OpKinds DEF Calling, VendorInv
<1>3. MonitorsOfSpecs(f5.mons) /\ \A p \in Ports \ f5.pools : f5.members[p] = {}
  BY DEF F5State
<1>4. op.status.monitor.type \in Types /\ MonitorOf(f5) = f5.mons[op.status.monitor.type]
  BY <1>2, <1>3, OneMonitor DEF F5Conditions
<1>5. CleanupPlan(todo, F5Up, f5.pools, MonitorOf(f5))
  BY <1>1 DEF F5Plan
<1>6. QED BY <1>1, <1>2, <1>3, <1>4, <1>5

LEMMA F5CleanupKept ==
  ASSUME F5Runs, Calling, op.op = "cleanup", F5CleanupRequest
  PROVE  F5Kept
PROOF
<1> DEFINE m == op.status.monitor
<1> USE DEF F5CleanupRequest
<1>1. /\ op # None /\ op' = op /\ vendor' = vendor /\ op.status.handled = PortList
      /\ f5 \in BIGIPs /\ m \in SpecMonitors /\ m.type \in Types
      /\ MonitorsOfSpecs(f5.mons) /\ MonitorOf(f5) = f5.mons[m.type]
  BY F5CleanupRuns
<1>2. MonitorsOfSpecs(f5'.mons) /\ f5'.mons[m.type] \in {f5.mons[m.type], None}
  BY <1>1 DEF MonitorsOfSpecs, BIGIPs
<1>3. MonitorOf(f5') \in {MonitorOf(f5), None}
  BY <1>1, <1>2, OneMonitor DEF F5Runs, F5Conditions
<1>4. F5State'
  BY <1>1, <1>2 DEF F5State
<1>5. F5Plan'
  BY <1>1 DEF F5Plan
<1>6. F5Device!Allowed(op)
  <2>1. Ports = {op.status.handled[i] : i \in DOMAIN op.status.handled}
    BY <1>1, PassConstants
  <2>2. F5Device!OnlyPorts({op.status.handled[i] : i \in DOMAIN op.status.handled})
    BY <2>1 DEF F5Device!OnlyPorts
  <2>3. QED BY <1>1, <1>3, <2>2 DEF F5Device!Allowed, MonitorOf, InUse, TypesInUse
<1>7. QED BY <1>4, <1>5, <1>6 DEF F5Kept

(* The BIG-IP new, after the next call of the cleanup.                     *)
UpOn(d) == {p \in Ports : d.virtuals[p] # None}

F5CleanupTo(new) ==
  /\ new.mons \in {f5.mons, [f5.mons EXCEPT ![op.status.monitor.type] = None]}
  /\ new.pools \subseteq f5.pools /\ new.monitored \subseteq f5.monitored
  /\ \A p \in Ports : /\ new.members[p] \subseteq f5.members[p]
                      /\ p \notin new.pools => new.members[p] = {}
                      /\ new.virtuals[p] \in {f5.virtuals[p], None}
  /\ CleanupPlan(Tail(todo), UpOn(new), new.pools, MonitorOf(new))

LEMMA F5CleanupSent ==
  ASSUME F5Runs, Calling, op.op = "cleanup",
         NEW request, NEW new, Send(request, new, Return(<<>>)), F5CleanupTo(new)
  PROVE  F5Kept
PROOF
<1>1. /\ ClientInv /\ CleanupPlan(todo, F5Up, f5.pools, MonitorOf(f5))
      /\ \A p \in Ports \ f5.pools : f5.members[p] = {}
  BY F5CleanupRuns
<1>2. \/ f5' = new /\ Done
      \/ f5' \in {f5, new} /\ (Failed \/ Skipped)
  BY <1>1, SentLeaves, Zenon
<1>3. F5Up' = UpOn(f5')
  BY DEF F5Up, UpOn
<1>4. CASE f5' = new
  <2>1. F5CleanupRequest
    BY <1>2, <1>3, <1>4 DEF F5CleanupRequest, F5CleanupTo, Done, Failed, Skipped
  <2>2. QED BY <2>1, F5CleanupKept
<1>5. CASE f5' = f5 /\ (Failed \/ Skipped)
  <2>1. failed' = FALSE => CleanupPlan(todo', F5Up, f5.pools, MonitorOf(f5))
    <3> DEFINE V == F5Up
               G == f5.pools
               mon == MonitorOf(f5)
    <3>1. todo \in Seq(CallsFor(op)) /\ todo # <<>> /\ CleanupPlan(todo, V, G, mon)
      BY <1>1, CallingList
    <3> HIDE DEF V, G, mon
    <3>2. Head(todo).m = "DeletePoolMember" => CleanupPlan(Tail(todo), V, G, mon)
      BY <3>1, CleanupPopped
    <3>3. failed' = FALSE => CleanupPlan(todo', V, G, mon)
      BY <1>5, <3>2 DEF Failed, Skipped, Done
    <3>4. QED BY <3>3 DEF V, G, mon
  <2>2. F5Up' = F5Up
    BY <1>5 DEF F5Up
  <2>3. F5CleanupRequest
    BY <1>1, <1>5, <2>1, <2>2 DEF F5CleanupRequest
  <2>4. QED BY <2>3, F5CleanupKept
<1>6. QED BY <1>2, <1>4, <1>5

(* Each of the deletions of HandleCleanup.                                 *)
LEMMA F5CleanupRequestKept ==
  ASSUME F5Runs, op.op = "cleanup",
         F5DeleteVIP \/ F5DeletePoolMember \/ F5DeletePool \/ F5DeleteMonitor
  PROVE  F5Kept
PROOF
<1> DEFINE p == Head(todo).port
           h == Head(todo).host
           V == F5Up
           G == f5.pools
           mon == MonitorOf(f5)
           T == op.status.monitor.type
<1>1. Calling /\ (Head(todo).m # "DeleteMonitor" => p \in Ports)
  BY RunningCalls, CallKinds
  DEF F5DeleteVIP, F5DeletePoolMember, F5DeletePool, F5DeleteMonitor, Calling, Running, F5Runs,
      VendorInv
<1>2. /\ ClientInv /\ f5 \in BIGIPs
      /\ MonitorsOfSpecs(f5.mons) /\ T \in Types /\ op.status.monitor \in SpecMonitors
      /\ CleanupPlan(todo, V, G, mon) /\ \A q \in Ports \ f5.pools : f5.members[q] = {}
  BY <1>1, F5CleanupRuns
<1>3. todo \in Seq(CallsFor(op)) /\ todo # <<>> /\ OnPort = p /\ Member = h
  BY <1>1, <1>2, CallingList DEF OnPort, Member
<1>4. CASE F5DeleteVIP
  <2> DEFINE new == [f5 EXCEPT !.virtuals[p] = None]
             W == V \ {p}
  <2>1. Head(todo).m = "DeleteVIP" /\ Send("DeleteVirtualServer", new, Return(<<>>))
    BY <1>3, <1>4 DEF F5DeleteVIP, Running
  <2>2. /\ new.pools = G /\ new.monitored = f5.monitored /\ new.members = f5.members
        /\ new.mons = f5.mons /\ new.virtuals = [f5.virtuals EXCEPT ![p] = None]
    BY <1>2 DEF BIGIPs
  <2> HIDE DEF new
  <2>3. UpOn(new) = W /\ \A q \in Ports : new.virtuals[q] \in {f5.virtuals[q], None}
    BY <1>1, <1>2, <2>1, <2>2 DEF UpOn, F5Up, BIGIPs
  <2>4. MonitorOf(new) = mon
    BY <2>2 DEF MonitorOf, InUse
  <2> HIDE DEF V, W, G, mon
  <2>5. CleanupPlan(Tail(todo), W, G, mon)
    BY <1>2, <1>3, <2>1, CleanupPopped DEF W
  <2>6. F5CleanupTo(new)
    BY <1>2, <2>2, <2>3, <2>4, <2>5 DEF F5CleanupTo, G
  <2>7. QED BY <1>1, <2>1, <2>6, F5CleanupSent
<1>5. CASE F5DeletePoolMember
  <2> DEFINE new == [f5 EXCEPT !.members[p] = @ \ {h}]
  <2>1. Head(todo).m = "DeletePoolMember" /\ Send("DeletePoolMember", new, Return(<<>>))
    BY <1>3, <1>5 DEF F5DeletePoolMember, Running
  <2>2. /\ new.pools = G /\ new.monitored = f5.monitored
        /\ new.members = [f5.members EXCEPT ![p] = @ \ {h}]
        /\ new.mons = f5.mons /\ new.virtuals = f5.virtuals
    BY <1>2 DEF BIGIPs
  <2> HIDE DEF new
  <2>3. \A q \in Ports : new.members[q] \subseteq f5.members[q]
    BY <1>1, <1>2, <2>1, <2>2 DEF BIGIPs
  <2>4. MonitorOf(new) = mon /\ UpOn(new) = V
    BY <2>2 DEF MonitorOf, InUse, UpOn, F5Up
  <2> HIDE DEF V, G, mon
  <2>5. CleanupPlan(Tail(todo), V, G, mon)
    BY <1>2, <1>3, <2>1, CleanupPopped
  <2>6. F5CleanupTo(new)
    BY <1>2, <2>2, <2>3, <2>4, <2>5 DEF F5CleanupTo, G
  <2>7. QED BY <1>1, <2>1, <2>6, F5CleanupSent
<1>6. CASE F5DeletePool
  <2> DEFINE new == [f5 EXCEPT !.pools = @ \ {p}, !.monitored = @ \ {p},
                               !.method[p] = None, !.members[p] = {}]
             H == G \ {p}
  <2>1. Head(todo).m = "DeletePool" /\ Send("DeletePool", new, Return(<<>>))
    BY <1>3, <1>6 DEF F5DeletePool, Running
  <2>2. /\ new.pools = H /\ new.monitored = f5.monitored \ {p}
        /\ new.members = [f5.members EXCEPT ![p] = {}]
        /\ new.mons = f5.mons /\ new.virtuals = f5.virtuals
    BY <1>2 DEF BIGIPs
  <2> HIDE DEF new
  <2>3. \A q \in Ports : /\ new.members[q] \subseteq f5.members[q]
                         /\ q \notin new.pools => new.members[q] = {}
    BY <1>2, <2>2 DEF BIGIPs
  <2>4. MonitorOf(new) = mon /\ UpOn(new) = V
    BY <2>2 DEF MonitorOf, InUse, UpOn, F5Up
  <2> HIDE DEF V, G, H, mon
  <2>5. CleanupPlan(Tail(todo), V, H, mon)
    BY <1>2, <1>3, <2>1, CleanupPopped DEF H
  <2>6. F5CleanupTo(new)
    BY <1>2, <2>2, <2>3, <2>4, <2>5 DEF F5CleanupTo, G, H
  <2>7. QED BY <1>1, <2>1, <2>6, F5CleanupSent
<1>7. CASE F5DeleteMonitor
  <2> DEFINE new == [f5 EXCEPT !.mons[T] = None]
  <2>1. Head(todo).m = "DeleteMonitor" /\ Send("DeleteMonitor", new, Return(<<>>))
    BY <1>7 DEF F5DeleteMonitor, Running
  <2>2. /\ new.pools = G /\ new.monitored = f5.monitored /\ new.members = f5.members
        /\ new.mons = [f5.mons EXCEPT ![T] = None] /\ new.virtuals = f5.virtuals
    BY <1>2 DEF BIGIPs
  <2> HIDE DEF new
  <2>3. MonitorsOfSpecs(new.mons) /\ new.mons[T] = None
    BY <1>2, <2>2 DEF MonitorsOfSpecs, BIGIPs
  <2>4. MonitorOf(new) = None /\ UpOn(new) = V
    BY <1>2, <2>2, <2>3, OneMonitor DEF F5Runs, F5Conditions, UpOn, F5Up
  <2> HIDE DEF V, G, mon
  <2>5. CleanupPlan(Tail(todo), V, G, None)
    BY <1>2, <1>3, <2>1, CleanupPopped
  <2>6. F5CleanupTo(new)
    BY <1>2, <2>2, <2>4, <2>5 DEF F5CleanupTo, G
  <2>7. QED BY <1>1, <2>1, <2>6, F5CleanupSent
<1>8. QED BY <1>4, <1>5, <1>6, <1>7

(* Every request to the BIG-IP keeps the plan and is allowed.              *)
LEMMA F5MethodKept ==
  ASSUME VendorInv, F5Plan, F5State, F5Conditions, OnF5, F5Method
  PROVE  F5Kept
PROOF
<1>1. F5Runs
  BY DEF F5Runs, F5Method
<1>2. CASE F5GetMonitor \/ F5CreateMonitor \/ F5EditMonitor
  BY <1>1, <1>2, F5MonitorKept
<1>3. CASE F5GetPool \/ F5GetPoolMembers
  BY <1>1, <1>3, F5PoolReadKept
<1>4. CASE F5CreatePool \/ F5EditPool
  BY <1>1, <1>4, F5PoolWriteKept
<1>5. CASE F5GetVIP \/ F5SetVIP
  BY <1>1, <1>5, F5VIPRequestKept
<1>6. CASE F5CreatePoolMember \/ F5DeletePoolMember
  <2>1. op.op = "pool" \/ (op.op = "cleanup" /\ F5DeletePoolMember)
    BY <1>6, RunningCalls, CallKinds
    DEF F5CreatePoolMember, F5DeletePoolMember, Calling, VendorInv
  <2>2. QED BY <1>1, <1>6, <2>1, F5PoolMemberKept, F5CleanupRequestKept
<1>7. CASE F5DeleteVIP \/ F5DeletePool \/ F5DeleteMonitor
  <2>1. op.op = "cleanup"
    BY <1>7, RunningCalls, CallKinds
    DEF F5DeleteVIP, F5DeletePool, F5DeleteMonitor, Calling, VendorInv
  <2>2. QED BY <1>1, <1>7, <2>1, F5CleanupRequestKept
<1>8. QED BY <1>2, <1>3, <1>4, <1>5, <1>6, <1>7 DEF F5Method

LEMMA F5MethodCalls ==
  ASSUME ClientInv, F5Method
  PROVE  Calling /\ op' = op /\ vendor' = vendor
PROOF
<1>1. \E m : Running(m)
  BY DEF F5Method, F5GetMonitor, F5CreateMonitor, F5EditMonitor, F5DeleteMonitor, F5GetPool,
         F5CreatePool, F5EditPool, F5DeletePool, F5GetPoolMembers, F5CreatePoolMember,
         F5DeletePoolMember, F5GetVIP, F5SetVIP, F5DeleteVIP
<1>2. QED BY <1>1, RunningCalls DEF F5Method, outside, object, pass

(* Every step keeps the plan.                                              *)
LEMMA F5StepKept ==
  ASSUME F5Conditions, VendorInv, F5Plan, F5State, [Next]_vars
  PROVE  F5Plan' /\ F5State'
PROOF
<1>1. f5 \in BIGIPs
  BY DEF VendorInv
<1>2. CASE Quiet
  <2>1. F5Plan'
    BY <1>2 DEF Quiet, F5Plan, OnF5, F5Up
  <2>2. F5State'
    BY <1>2 DEF Quiet, F5State, OnF5
  <2>3. QED BY <2>1, <2>2
<1>3. CASE Begun
  <2> SUFFICES ASSUME OnF5 PROVE F5Plan' /\ F5State'
    BY <1>3 DEF Begun, F5Plan, F5State, OnF5
  <2>1. f5' = f5 /\ vendor' = vendor /\ F5Up' = F5Up /\ at' = 0
    BY <1>3 DEF Begun, VendorInv, ClientInv, FrameOK, F5Up
  <2>2. F5State'
    BY <2>1 DEF F5State, OnF5
  <2>3. ASSUME op'.op = "pool"
        PROVE  PoolPlan(op', todo', at', op'.port \in f5'.pools,
                        op'.port \in f5'.monitored, f5'.members[op'.port])
    <3> DEFINE g == op'.port \in f5'.pools
               b == op'.port \in f5'.monitored
               S == f5'.members[op'.port]
    <3>1. g \in BOOLEAN /\ b \in BOOLEAN /\ F5Up \in SUBSET Ports
      BY DEF F5Up
    <3> HIDE DEF g, b, S
    <3>2. PoolPlan(op', todo', 0, g, b, S)
      BY <1>3, <2>3, <3>1, FirstPlan
    <3>3. QED BY <2>1, <3>2 DEF g, b, S
  <2>4. ASSUME op'.op = "cleanup" PROVE CleanupPlan(todo', F5Up', f5'.pools, MonitorOf(f5'))
    <3> DEFINE V == F5Up
               G == f5.pools
               mon == MonitorOf(f5)
    <3>1. V \in SUBSET Ports /\ G \in SUBSET Ports
      BY <1>1 DEF F5Up, BIGIPs
    <3> HIDE DEF V, G, mon
    <3>2. CleanupPlan(todo', V, G, mon)
      BY <1>3, <2>4, <3>1, FirstPlan
    <3>3. QED BY <2>1, <3>2 DEF V, G, mon
  <2>5. op'.op # "cleanup" => todo' # <<>>
    <3>1. {} \in SUBSET Ports
      OBVIOUS
    <3>2. QED BY <1>3, <3>1, FirstPlan
  <2>6. F5Plan'
    BY <2>1, <2>3, <2>4, <2>5 DEF F5Plan
  <2>7. QED BY <2>2, <2>6
<1>4. CASE Ended
  BY <1>4 DEF Ended, F5Plan, F5State, OnF5
<1>5. CASE vendor = "F5_BigIP" /\ F5Method
  BY <1>5, F5MethodKept DEF OnF5, F5Kept
<1>6. CASE vendor # "F5_BigIP" /\ vendor' = vendor
  BY <1>6 DEF F5Plan, F5State, OnF5
<1>7. CASE vendor = "Citrix_ADC" /\ NetscalerMethod
  <2>1. vendor' = vendor
    BY <1>7 DEF NetscalerMethod, outside, object
  <2>2. QED BY <1>6, <1>7, <2>1
<1>8. QED BY <1>2, <1>3, <1>4, <1>5, <1>6, <1>7, ClientSteps

(* An operation that has made its last call has done what it promised.     *)
LEMMA F5Goal ==
  ASSUME VendorInv', F5Plan', F5State', OnF5', F5Conditions,
         op' # None, failed' = FALSE, todo' = <<>>
  PROVE  F5Device!Goal(op)'
PROOF
<1>1. op' \in Operations /\ f5' \in BIGIPs /\ MonitorsOfSpecs(f5'.mons)
  BY DEF VendorInv, ClientInv, ClientTypeOK, FrameOK, F5State
<1>2. CASE op'.op = "monitor"
  <2>1. op'.monitor \in SpecMonitors
    BY <1>1, <1>2, OpKinds
  <2>2. MonitorOf(f5') = op'.monitor
    BY <1>1, <1>2, <2>1, OneMonitor DEF F5Plan, F5Conditions
  <2>3. QED BY <1>2, <2>2 DEF F5Device!Goal, MonitorOf, InUse, TypesInUse
<1>3. CASE op'.op = "pool"
  <2> DEFINE g == op'.port \in f5'.pools
             b == op'.port \in f5'.monitored
             S == f5'.members[op'.port]
  <2>1. g \in BOOLEAN /\ b \in BOOLEAN /\ PoolPlan(op', <<>>, at', g, b, S)
    BY <1>3 DEF F5Plan
  <2> HIDE DEF g, b, S
  <2>2. g /\ b /\ S = op'.want
    BY <2>1, PoolDone
  <2>3. QED BY <1>3, <2>2 DEF F5Device!Goal, g, b, S
<1>4. CASE op'.op = "vip"
  BY <1>4 DEF F5Plan, F5Device!Goal
<1>5. CASE op'.op = "cleanup"
  <2>1. F5Up' = {} /\ f5'.pools = {} /\ MonitorOf(f5') = None
    <3> DEFINE V == F5Up'
               G == f5'.pools
               mon == MonitorOf(f5')
    <3>1. CleanupPlan(<<>>, V, G, mon)
      BY <1>5 DEF F5Plan
    <3> HIDE DEF V, G, mon
    <3>2. V = {} /\ G = {} /\ mon = None
      BY <3>1, CleanupDone
    <3>3. QED BY <3>2 DEF V, G, mon
  <2>2. \A p \in Ports : f5'.virtuals[p] = None
    BY <2>1 DEF F5Up
  <2>3. op'.status.handled = PortList /\ \A i \in DOMAIN PortList : PortList[i] \in Ports
    BY <1>1, <1>5, OpKinds, PassConstants
  <2>4. QED BY <1>5, <2>1, <2>2, <2>3 DEF F5Device!Goal, MonitorOf, InUse, TypesInUse
<1>6. QED BY <1>1, <1>2, <1>3, <1>4, <1>5, OpKinds

LEMMA F5InvHolds == F5Conditions => (Spec => [](F5Plan /\ F5State))
PROOF
<1> SUFFICES ASSUME F5Conditions PROVE Spec => [](F5Plan /\ F5State)
  OBVIOUS
<1>1. Init => F5Plan /\ F5State
  BY DEF Init, ClientInit, F5Init, EmptyF5, F5Plan, F5State, MonitorsOfSpecs
<1>2. VendorInv /\ F5Plan /\ F5State /\ [Next]_vars => (F5Plan /\ F5State)'
  BY F5StepKept
<1>3. QED BY <1>1, <1>2, VendorInvHolds, PTL DEF Spec

(* On an F5 BIG-IP the Handle operations keep the contract of the backend  *)
(* under any failure of a request and with the operator dying at any       *)
(* point, between the three requests of CreatePool and of CreatePoolMember *)
(* too: every read returns its error.                                      *)
THEOREM F5KeepsContract == F5Conditions => (Spec => F5Contract)
PROOF
<1> SUFFICES ASSUME F5Conditions PROVE Spec => F5Contract
  OBVIOUS
<1>1. Init => F5Device!Init
  <2> SUFFICES ASSUME Init PROVE F5Device!Init
    OBVIOUS
  <2>1. op = None /\ f5 = EmptyF5
    BY DEF Init, ClientInit, F5Init
  <2>2. CallOn("F5_BigIP") = None /\ ResultOn("F5_BigIP") = "none"
    BY <2>1 DEF CallOn, ResultOn
  <2>3. TypesInUse = {}
    BY <2>1 DEF EmptyF5, TypesInUse
  <2>4. F5Device!DeviceInit
    BY <2>1, <2>3 DEF EmptyF5, F5Device!DeviceInit
  <2>5. QED BY <2>2, <2>4 DEF F5Device!Init
<1>2. /\ VendorInv /\ F5Plan /\ F5State /\ VendorInv' /\ F5Plan' /\ F5State' /\ [Next]_vars
      => [F5Device!Next \/ F5Device!Abandon]_F5Device!contract
  <2> SUFFICES ASSUME VendorInv, F5Plan, F5State, VendorInv', F5Plan', F5State', [Next]_vars
               PROVE  [F5Device!Next \/ F5Device!Abandon]_F5Device!contract
    OBVIOUS
  <2>1. ASSUME UNCHANGED f5 PROVE UNCHANGED F5Device!device
    BY <2>1 DEF F5Device!device, TypesInUse
  <2>2. CASE vendor # "F5_BigIP" /\ UNCHANGED <<vendor, f5>>
    BY <2>1, <2>2, CallSeen DEF F5Device!contract
  <2>3. CASE Quiet
    <3>1. UNCHANGED f5
      BY <2>3 DEF Quiet
    <3>2. QED BY <2>1, <2>3, <3>1, CallSeen DEF F5Device!contract
  <2>4. CASE vendor = "F5_BigIP" /\ Begun
    <3>1. UNCHANGED f5
      BY <2>4 DEF Begun
    <3>2. F5Device!Start
      BY <2>1, <2>4, <3>1, CallSeen DEF F5Device!Start
    <3>3. QED BY <3>2 DEF F5Device!Next
  <2>5. CASE vendor = "F5_BigIP" /\ Ended
    <3>1. UNCHANGED f5 /\ CallOn("F5_BigIP")' = None /\ ResultOn("F5_BigIP")' = "none"
      BY <2>5, CallSeen DEF Ended
    <3>2. CASE op # None
      <4>1. CallOn("F5_BigIP") # None
        BY <2>5, <3>2 DEF CallOn
      <4>2. QED BY <2>1, <3>1, <4>1 DEF F5Device!Abandon
    <3>3. CASE op = None
      <4>1. CallOn("F5_BigIP") = None /\ ResultOn("F5_BigIP") = "none"
        BY <3>3 DEF CallOn, ResultOn
      <4>2. QED BY <2>1, <3>1, <4>1 DEF F5Device!contract
    <3>4. QED BY <3>2, <3>3
  <2>6. CASE vendor = "F5_BigIP" /\ F5Method
    <3>1. Calling /\ op' = op /\ vendor' = vendor
      BY <2>6, F5MethodCalls DEF VendorInv
    <3>2. F5Device!Allowed(op)
      BY <2>6, F5MethodKept DEF OnF5, F5Kept
    <3>3. failed' = FALSE /\ todo' = <<>> => F5Device!Goal(op)'
      <4>1. op # None
        BY <3>1, NoneIsNothing DEF Calling
      <4>2. QED BY <2>6, <3>1, <4>1, F5Goal DEF OnF5
    <3>4. /\ op # None /\ CallOn("F5_BigIP") = op /\ CallOn("F5_BigIP")' = op
          /\ ResultOn("F5_BigIP") = "none" /\ ResultOn("F5_BigIP")' \in {"none", "err", "ok"}
          /\ ResultOn("F5_BigIP")' = "ok" => failed' = FALSE /\ todo' = <<>>
      BY <2>6, <3>1, CallWorks
    <3>5. ResultOn("F5_BigIP")' = "ok" => F5Device!Goal(CallOn("F5_BigIP"))'
      BY <3>1, <3>3, <3>4
    <3>6. F5Device!Allowed(CallOn("F5_BigIP"))
      <4> USE <3>2, <3>4 DEF F5Device!Allowed
      <4>1. CASE op.op = "monitor"
        BY <4>1
      <4>2. CASE op.op = "pool"
        BY <4>2 DEF F5Device!OnlyPorts, F5Device!TowardsMembers
      <4>3. CASE op.op = "vip"
        BY <4>3 DEF F5Device!OnlyPorts
      <4>4. CASE op.op = "cleanup"
        <5> DEFINE o == CallOn("F5_BigIP")
                   S == {o.status.handled[i] : i \in DOMAIN o.status.handled}
        <5>1. o = op /\ Ports = S
          BY <3>1, <4>4, OpKinds, PassConstants DEF Calling
        <5> HIDE DEF o
        <5>2. F5Device!OnlyPorts(S)
          BY <5>1 DEF F5Device!OnlyPorts
        <5>3. F5Device!Allowed(o)
          BY <4>4, <5>1, <5>2
        <5>4. QED BY <5>3 DEF o
      <4>5. QED BY <3>1, <4>1, <4>2, <4>3, <4>4, OpKinds DEF Calling
    <3>7. F5Device!Work
      BY <3>4, <3>5, <3>6 DEF F5Device!Work
    <3>8. QED BY <3>7 DEF F5Device!Next
  <2>7. Begun \/ Ended \/ (vendor = "Citrix_ADC" /\ NetscalerMethod /\ UNCHANGED f5)
        => UNCHANGED <<vendor, f5>>
    BY DEF Begun, Ended, NetscalerMethod, outside, object
  <2>8. QED BY <2>2, <2>3, <2>4, <2>5, <2>6, <2>7, ClientSteps
<1>3. QED BY <1>1, <1>2, VendorInvHolds, F5InvHolds, PTL
      DEF Spec, F5Contract, F5Device!SpecWithRestarts
=============================================================================
