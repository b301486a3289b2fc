-------------------------- MODULE MCDeviceHarness --------------------------
(***************************************************************************)
(* TLC instance of DeviceHarness: the registered device, an impostor under    *)
(* its serial, and two devices the registry does not know, one of them       *)
(* rooted.                                                                  *)
(***************************************************************************)
EXTENDS DeviceHarness

CONSTANTS little, big

BothGovernors == [p \in Policies |-> {"performance", "schedutil"}]

MCDevices ==
    {[codename |-> "d2s", want |-> "d2s", method |-> "recovery", su |-> "recovery"],
     [codename |-> "d2q", want |-> "d2s", method |-> "recovery", su |-> "never"],
     [codename |-> "e3q", want |-> "", method |-> "none", su |-> "never"],
     [codename |-> "beyond1", want |-> "", method |-> "none", su |-> "always"]}
=============================================================================
