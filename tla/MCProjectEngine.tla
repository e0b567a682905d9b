-------------------------- MODULE MCProjectEngine --------------------------
(* A server with a network card, a switch, one port of a patch panel with  *)
(* its two faces, a power strip with one outlet and two monitors.          *)
EXTENDS ProjectEngine, TLC

MCItemType ==
  [srv |-> "server", nic |-> "nic", sw |-> "switch", pp |-> "patchPanel",
   strip |-> "powerStrip", m1 |-> "monitor", m2 |-> "monitor"]
MCOwner ==
  [n |-> "nic", w |-> "sw", f |-> "pp", b |-> "pp", out |-> "strip",
   in1 |-> "m1", in2 |-> "m2"]
MCPortType ==
  [n |-> "rj45", w |-> "rj45", f |-> "rj45", b |-> "rj45", out |-> "ac-outlet",
   in1 |-> "ac-input", in2 |-> "ac-input"]
MCSpeed == [n |-> 1, w |-> 2, f |-> 0, b |-> 0, out |-> 0, in1 |-> 0, in2 |-> 0]
MCFace ==
  [n |-> "n", w |-> "w", f |-> "b", b |-> "f", out |-> "out", in1 |-> "in1",
   in2 |-> "in2"]
MCRoutes == {NoRoute, [src |-> "none", tgt |-> "bottom", bends |-> 1, avoid |-> TRUE]}
MCPlugs ==
  {<<"n", "f">>, <<"w", "b">>, <<"f", "b">>, <<"in1", "out">>,
   <<"out", "in2">>, <<"n", "out">>}
MCStarts == {{[id |-> 1, host |-> "srv", item |-> "nic", slot |-> 1]}}
=============================================================================
