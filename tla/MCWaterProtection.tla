--------------------------- MODULE MCWaterProtection ---------------------------
(* Small instances of WaterProtection for TLC: how often each input may    *)
(* happen, and what reaches the node besides the automations.              *)
EXTENDS WaterProtection

CONSTANTS kitchen, bath

TwoSensors == {kitchen, bath}
OneSensor == {kitchen}

NoCommands == {}
NodeCommands == CommandKinds \ {"switch_on"}

(* So many inputs of one kind and of another.                              *)
Mix(kind1, n1, kind2, n2) ==
  [k \in InputKinds |-> CASE k = kind1 -> n1 [] k = kind2 -> n2 [] OTHER -> 0]

Pairs == {Mix("wet", 2, "double", 2), Mix("wet", 2, "test", 1),
          Mix("single", 2, "double", 2), Mix("wet", 2, "hold", 1),
          Mix("single", 2, "test", 1), Mix("wet", 2, "single", 2),
          Mix("test", 1, "link", 1), Mix("wet", 2, "link", 1)}
OffLine == {[Mix("wet", 1, "link", 1) EXCEPT !["double"] = 1],
            [Mix("single", 1, "link", 1) EXCEPT !["hold"] = 1]}
HandledMixes == Pairs \cup OffLine
AnyTwo == {Mix(a, 1, b, 1) : a, b \in InputKinds}
HandledAndAnyTwo == HandledMixes \cup AnyTwo

(* The theorems about handled mixes apply to these constants.              *)
ASSUME HandledAreApart == Timely /\ \A mix \in HandledMixes : Apart(mix)

LeakAndClicks ==
  {[Mix("wet", 1, "single", 1) EXCEPT !["double"] = 1]}

=============================================================================
