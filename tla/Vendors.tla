------------------------------- MODULE Vendors -------------------------------
(***************************************************************************)
(* CreateBackend's registry of providers over the passes of one load       *)
(* balancer: the vendor of the spec selects the provider that every Handle *)
(* operation of the pass then calls.                                       *)
(***************************************************************************)
EXTENDS NetscalerProvider, F5Provider, DummyProvider

CONSTANTS Registered   \* the vendors this instance looks at

ASSUME RegisteredAssumption == Registered \subseteq {"Citrix_ADC", "F5_BigIP", "Dummy"}

devices == <<netscaler, f5>>
vars == <<client, devices>>

Init == ClientInit(Registered) /\ NetscalerInit /\ F5Init

(* The provider of the vendor runs its methods.                            *)
Citrix_ADC == vendor = "Citrix_ADC" /\ NetscalerNext /\ UNCHANGED f5
F5_BigIP == vendor = "F5_BigIP" /\ F5Next /\ UNCHANGED netscaler
Dummy == vendor = "Dummy" /\ DummyNext /\ UNCHANGED devices

Worker ==
  \/ Reconcile /\ UNCHANGED devices
  \/ Citrix_ADC \/ F5_BigIP \/ Dummy

Next == Worker \/ (Environment /\ UNCHANGED devices)

Spec == Init /\ [][Next]_vars

(* The worker goroutine goes on as long as it has work, provided that the  *)
(* device answers or refuses its requests (Fleet has those that hang).     *)
FairSpec == Spec /\ WF_vars(Worker)

----------------------------------------------------------------------------
(* Every variable of the pass and of the devices is well typed.            *)
TypeOK == ClientTypeOK /\ NetscalerTypeOK /\ F5TypeOK

(* On a Citrix ADC, where most methods are several requests and some reads  *)
(* drop their errors, the Handle operations still implement the contract of *)
(* the backend: they change only what they are asked to, towards what is    *)
(* wanted, and return nil only when the ADC is in the state asked for.     *)
NetscalerContract == NetscalerDevice!SpecWithRestarts

(* On an F5 BIG-IP, where a member is a node and a pool entry and a pool is *)
(* made by three requests, the Handle operations implement the same contract. *)
F5Contract == F5Device!SpecWithRestarts

(* When the operator rests, no configuration of the ADC is unsaved: Close   *)
(* runs after every configuring and every cleaning pass, and its error is   *)
(* an error of the pass.                                                   *)
SavedWhenDone == AtRest => ~unsaved

(* After the last change, failure and restart a deleted object's            *)
(* configuration is gone from the device, or the device and the status are  *)
(* and stay as the spec and the nodes ask, also while the operator answers  *)
(* its own status writes: it rests unless there are nodes to reorder.       *)
Converges ==
  <>[](IF gone
         THEN AtRest /\ NetscalerEmpty /\ F5Empty
         ELSE /\ ~deleting /\ status = <<spec, nodes>>
              /\ AtRest \/ Cardinality(nodes) > 1
              /\ vendor = "Citrix_ADC" => NetscalerServes(spec, nodes)
              /\ vendor = "F5_BigIP" => F5Serves(spec, nodes))

(* A pool of the ADC that has no monitor gets one or is removed: GetPool    *)
(* reports a pool without a monitor, and HandlePool edits it.              *)
PoolsGetMonitored ==
  \A p \in Ports : p \in adc.groups ~> (p \in adc.monBound \/ p \notin adc.groups)

(* The balancing method of the spec is in force once the operator rests:    *)
(* CreateVIP (Netscaler) and CreatePool (F5) send Spec.Provider.LBMethod.   *)
MethodApplied ==
  AtRest /\ ~gone =>
    \A p \in Ports : /\ vendor = "Citrix_ADC" => adc.vservers[p].method = spec.method
                     /\ vendor = "F5_BigIP" => f5.method[p] = spec.method
=============================================================================
