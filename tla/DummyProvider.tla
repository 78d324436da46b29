---------------------------- MODULE DummyProvider ----------------------------
(***************************************************************************)
(* dummy_controller.go: a Provider without a device.  Writes succeed and do *)
(* nothing; a fixed monitor is found, pools and virtual servers never are. *)
(***************************************************************************)
EXTENDS ProviderPass

DummyMonitor == [type |-> "http", path |-> "/", port |-> 1234]

DummyRead ==
  \/ Running("GetMonitor") /\ GotMonitor(DummyMonitor)
  \/ Running("GetPool") /\ NoPool
  \/ Running("GetVIP") /\ GotVIP(None)

DummyWrite ==
  /\ \E m \in {"EditMonitor", "DeleteMonitor", "CreatePool", "DeletePool",
               "CreatePoolMember", "DeletePoolMember", "CreateVIP", "DeleteVIP"} :
       Running(m)
  /\ Return(<<>>)

DummyClose == Closing /\ Closed /\ UNCHANGED <<object, status, envOps, crashes>>

DummyNext ==
  \/ (DummyRead \/ DummyWrite) /\ UNCHANGED <<faults, outside, pass>>
  \/ DummyClose
=============================================================================
