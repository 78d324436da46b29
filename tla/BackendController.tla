-------------------------- MODULE BackendController --------------------------
(***************************************************************************)
(* The four Handle operations of backend_controller.go, one action per     *)
(* request they send to the provider.  The caller's arguments (the monitor,*)
(* pool, VIP or status it points to) are the parameters of the actions; the*)
(* operation's own frame is the variables below.  A caller starts an       *)
(* operation by setting step to its first request and goes on when step is *)
(* "idle" again, with the returned error in result.                        *)
(*                                                                         *)
(* Any request may fail, before the device carried it out or after (the    *)
(* answer is lost); MaxFaults bounds how often.                            *)
(***************************************************************************)
EXTENDS Provider

CONSTANTS MaxFaults      \* bound on failed requests

ASSUME MaxFaultsAssumption == MaxFaults \in Nat

VARIABLES
  step,     \* the request the operation sends next
  toAdd,    \* addMembers of HandlePool, those still to be created
  toDel,    \* delMembers of HandlePool, or the members cleanup still deletes
  at,       \* index into the status' lists during HandleCleanup
  result,   \* what the last operation returned: "none" while none has
  faults    \* failed requests so far

frame == <<step, toAdd, toDel, at, result>>
backend == <<device, frame, faults>>

Steps == {"idle", "getMonitor", "createMonitor", "editMonitor",
          "getPool", "editPool", "createPool", "bindMonitor", "addMembers",
          "delMembers", "getVIP", "createVIP", "editVIP",
          "cleanVIPs", "cleanMembers", "cleanPools", "cleanMonitor"}

(* Status lists a VIP and a pool for each port in handled, all with the    *)
(* same address and members; ports is Status.Ports.                        *)
Statuses ==
  [monitor : Monitors \cup {None}, ip : IPs \cup {None}, handled : Seq(Ports),
   members : SUBSET Hosts, ports : Seq(Ports)]

EmptyStatus ==
  [monitor |-> None, ip |-> None, handled |-> <<>>, members |-> {}, ports |-> <<>>]

BackendTypeOK ==
  /\ DeviceTypeOK
  /\ step \in Steps
  /\ toAdd \in SUBSET Hosts
  /\ toDel \in SUBSET Hosts
  /\ at \in Nat
  /\ result \in {"none", "ok", "err"}
  /\ faults \in 0..MaxFaults

FrameInit ==
  /\ step = "idle"
  /\ toAdd = {}
  /\ toDel = {}
  /\ at = 0
  /\ result = "none"

BackendInit == DeviceInit /\ FrameInit /\ faults = 0

(* The caller enters an operation, whose first request is s.               *)
Call(s, i, d) ==
  /\ step' = s
  /\ at' = i
  /\ toDel' = d
  /\ result' = "none"
  /\ UNCHANGED toAdd

(* The operation returns: r is "ok" for a nil error.                       *)
Return(r) ==
  /\ step' = "idle"
  /\ toAdd' = {}
  /\ toDel' = {}
  /\ at' = 0
  /\ result' = r

GoTo(s) ==
  /\ step' = s
  /\ UNCHANGED <<toAdd, toDel, at, result>>

Fault == faults < MaxFaults /\ faults' = faults + 1

(* One write request: it succeeds, or fails with or without its effect.    *)
Request(effect, next) ==
  \/ effect /\ next /\ UNCHANGED faults
  \/ effect /\ Fault /\ Return("err")
  \/ UNCHANGED device /\ Fault /\ Return("err")

Refuse == UNCHANGED <<device, faults>> /\ Return("err")

(* A read request fails, which returns its error.                          *)
ReadFails == UNCHANGED device /\ Fault /\ Return("err")

----------------------------------------------------------------------------
(* HandleMonitors                                                          *)

HandleMonitorsGet(m) ==
  /\ step = "getMonitor"
  /\ \/ ReadFails
     \/ /\ CASE monitor = None -> GoTo("createMonitor")
             [] monitor # None /\ monitor # m -> GoTo("editMonitor")
             [] OTHER -> Return("ok")
        /\ UNCHANGED <<device, faults>>

HandleMonitorsCreate(m) ==
  /\ step = "createMonitor"
  /\ Request(CreateMonitor(m), Return("ok"))

HandleMonitorsEdit(m) ==
  /\ step = "editMonitor"
  /\ Request(EditMonitor(m), Return("ok"))

HandleMonitors(m) ==
  HandleMonitorsGet(m) \/ HandleMonitorsCreate(m) \/ HandleMonitorsEdit(m)

----------------------------------------------------------------------------
(* HandlePool: members to add and to remove are computed from one read of  *)
(* the device, before any of them is added or removed.                     *)

(* Mutant: every wanted member is added, also one that is there. *)
HandlePoolGet_AddAll(p, want) ==
  /\ step = "getPool"
  /\ toAdd' = want
  /\ toDel' = (IF p \in pools THEN members[p] \ want ELSE {})
  /\ step' = (IF p \in bound THEN "addMembers"
              ELSE IF p \in pools THEN "editPool" ELSE "createPool")
  /\ UNCHANGED <<device, at, result, faults>>

HandlePoolGet(p, want) ==
  /\ step = "getPool"
  /\ \/ ReadFails
     \/ /\ IF p \in pools
             THEN /\ toAdd' = want \ members[p]
                  /\ toDel' = members[p] \ want
                  /\ step' = IF p \in bound THEN "addMembers" ELSE "editPool"
             ELSE /\ toAdd' = want
                  /\ toDel' = {}
                  /\ step' = "createPool"
        /\ UNCHANGED <<device, at, result, faults>>

HandlePoolEdit(p) ==
  /\ step = "editPool"
  /\ Request(EditPool(p), GoTo("addMembers"))

HandlePoolCreate(p) ==
  /\ step = "createPool"
  /\ Request(CreatePool(p), GoTo("bindMonitor"))

HandlePoolBind(p) ==
  /\ step = "bindMonitor"
  /\ Request(BindMonitor(p), GoTo("addMembers"))

HandlePoolAdd(p) ==
  /\ step = "addMembers"
  /\ \E h \in toAdd :
       Request(CreatePoolMember(h, p),
               toAdd' = toAdd \ {h} /\ UNCHANGED <<step, toDel, at, result>>)

HandlePoolAdded ==
  /\ step = "addMembers"
  /\ toAdd = {}
  /\ GoTo("delMembers")
  /\ UNCHANGED <<device, faults>>

(* Mutant: members are removed before the new ones are added. *)
HandlePoolDel_First(p) ==
  /\ step \in {"addMembers", "delMembers"}
  /\ \E h \in toDel :
       Request(DeletePoolMember(h, p),
               toDel' = toDel \ {h} /\ UNCHANGED <<step, toAdd, at, result>>)

HandlePoolDel(p) ==
  /\ step = "delMembers"
  /\ \E h \in toDel :
       Request(DeletePoolMember(h, p),
               toDel' = toDel \ {h} /\ UNCHANGED <<step, toAdd, at, result>>)

HandlePoolDone ==
  /\ step = "delMembers"
  /\ toDel = {}
  /\ Return("ok")
  /\ UNCHANGED <<device, faults>>

HandlePool(p, want) ==
  \/ HandlePoolGet(p, want)
  \/ HandlePoolEdit(p)
  \/ HandlePoolCreate(p)
  \/ HandlePoolBind(p)
  \/ HandlePoolAdd(p)
  \/ HandlePoolAdded
  \/ HandlePoolDel(p)
  \/ HandlePoolDone

----------------------------------------------------------------------------
(* HandleVIP                                                               *)

HandleVIPGet(p, ip) ==
  /\ step = "getVIP"
  /\ \/ ReadFails
     \/ /\ CASE vips[p] = None -> GoTo("createVIP")
             [] vips[p] # None /\ vips[p] # ip -> GoTo("editVIP")
             [] OTHER -> Return("ok")
        /\ UNCHANGED <<device, faults>>

HandleVIPCreate(p, ip) ==
  /\ step = "createVIP"
  /\ Request(CreateVIP(p, ip), Return("ok"))

HandleVIPEdit(p, ip) ==
  /\ step = "editVIP"
  /\ Request(EditVIP(p, ip), Return("ok"))

HandleVIP(p, ip) ==
  HandleVIPGet(p, ip) \/ HandleVIPCreate(p, ip) \/ HandleVIPEdit(p, ip)

----------------------------------------------------------------------------
(* HandleCleanup(st): four loops over the lists of the status st.  The     *)
(* error of a member's deletion is logged and ignored, every other error   *)
(* ends the cleanup.                                                       *)

NextItem ==
  /\ at' = at + 1
  /\ UNCHANGED <<step, toAdd, toDel, result>>

NextLoop(s, d) ==
  /\ step' = s
  /\ at' = 1
  /\ toDel' = d
  /\ UNCHANGED <<device, toAdd, result, faults>>

CleanVIP(st) ==
  /\ step = "cleanVIPs"
  /\ at \in DOMAIN st.handled
  /\ LET p == st.handled[at] IN
       IF MissingVIP(p) THEN Refuse ELSE Request(DeleteVIP(p), NextItem)

CleanVIPsDone(st) ==
  /\ step = "cleanVIPs"
  /\ at \notin DOMAIN st.handled
  /\ NextLoop("cleanMembers", st.members)

(* Whether the request succeeds or not, the loop goes on.                  *)
CleanMember(st) ==
  /\ step = "cleanMembers"
  /\ at \in DOMAIN st.handled
  /\ \E h \in toDel :
       /\ LET p == st.handled[at] IN
            IF MissingMember(h, p)
              THEN UNCHANGED <<device, faults>>
              ELSE \/ DeletePoolMember(h, p) /\ UNCHANGED faults
                   \/ UNCHANGED device /\ Fault
       /\ toDel' = toDel \ {h}
       /\ UNCHANGED <<step, toAdd, at, result>>

CleanMembersNext(st) ==
  /\ step = "cleanMembers"
  /\ at \in DOMAIN st.handled
  /\ toDel = {}
  /\ at' = at + 1
  /\ toDel' = st.members
  /\ UNCHANGED <<device, step, toAdd, result, faults>>

CleanMembersDone(st) ==
  /\ step = "cleanMembers"
  /\ at \notin DOMAIN st.handled
  /\ NextLoop("cleanPools", {})

CleanPool(st) ==
  /\ step = "cleanPools"
  /\ at \in DOMAIN st.handled
  /\ LET p == st.handled[at] IN
       IF PoolRefused(p) THEN Refuse ELSE Request(DeletePool(p), NextItem)

CleanPoolsDone(st) ==
  /\ step = "cleanPools"
  /\ at \notin DOMAIN st.handled
  /\ NextLoop("cleanMonitor", {})

CleanMonitor(st) ==
  /\ step = "cleanMonitor"
  /\ CASE st.monitor = None -> Return("ok") /\ UNCHANGED <<device, faults>>
       [] st.monitor # None /\ MonitorRefused -> Refuse
       [] OTHER -> Request(DeleteMonitor, Return("ok"))

HandleCleanup(st) ==
  \/ CleanVIP(st)
  \/ CleanVIPsDone(st)
  \/ CleanMember(st)
  \/ CleanMembersNext(st)
  \/ CleanMembersDone(st)
  \/ CleanPool(st)
  \/ CleanPoolsDone(st)
  \/ CleanMonitor(st)
=============================================================================
