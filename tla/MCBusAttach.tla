----------------------------- MODULE MCBusAttach -----------------------------
(***************************************************************************)
(* BusAttach for TLC: a slot size that makes the rings a multiple of 64    *)
(* and one that does not, a host for each region check, and a              *)
(* configuration for each check of validateModuleConfig.                   *)
(***************************************************************************)
EXTENDS BusAttach

Ring(slot, cap) == [magicOK |-> TRUE, slot |-> slot, cap |-> cap, mask |-> cap - 1,
                    slotsOff |-> 192, head |-> 1, tail |-> Word - 1]

Host(slot, cap, out) ==
  [ctlOK |-> TRUE, ctlSlot |-> slot, inline |-> slot, arena |-> 64, slot |-> slot, cap |-> cap,
   qpOK |-> TRUE, inOff |-> 128, outOff |-> out, inbound |-> Ring(slot, cap), outbound |-> Ring(slot, cap)]

Odd == Host(72, 2, 512)

MCHosts ==
  {Odd, Host(96, 4, 704),
   [Odd EXCEPT !.ctlOK = FALSE], [Odd EXCEPT !.inline = 73], [Odd EXCEPT !.arena = 0],
   [Odd EXCEPT !.ctlSlot = 80],
   [Odd EXCEPT !.qpOK = FALSE], [Odd EXCEPT !.outOff = 128], [Odd EXCEPT !.outOff = 848],
   [Odd EXCEPT !.inbound.magicOK = FALSE], [Odd EXCEPT !.outbound.slot = 73],
   [Odd EXCEPT !.outbound.mask = 2], [Odd EXCEPT !.inbound.tail = Word - 2]}

OneStage == <<[kind |-> 1, stage |-> 1]>>

MCConfigs ==
  {[socketPath |-> TRUE, identity |-> TRUE, stages |-> OneStage \o <<[kind |-> 2, stage |-> 1]>>],
   [socketPath |-> FALSE, identity |-> TRUE, stages |-> OneStage],
   [socketPath |-> TRUE, identity |-> TRUE, stages |-> OneStage \o OneStage]}

=============================================================================
