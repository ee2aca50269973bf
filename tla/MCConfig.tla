------------------------------ MODULE MCConfig ------------------------------
(* An instance of Config for TLC. *)
EXTENDS Config, TLC

TwoNamespaces == <<"default", "tenant">>

Holds(keys, vals) == [k \in Keys |-> IF k \in keys THEN vals ELSE {}]

\* Below, bare names; in the middle both spellings; on top the namespaced keys.
Layered ==
    (0 :> Holds({Raw}, {"a"})) @@ (1 :> Holds({Raw, "default"}, {"b"}))
    @@ (2 :> [Holds(NsKeys, {"c"}) EXCEPT !["tenant"] = {"a", "c"}])

\* One updater of the whole top source that works while no other does, and two
\* with a key of their own, in different sources, that run side by side.
MixedLevels == ("top" :> 2) @@ ("low" :> 1) @@ ("high" :> 2)
MixedKeys == ("top" :> Keys) @@ ("low" :> {"default"}) @@ ("high" :> {"tenant"})

\* The hypotheses of the theorems about Config are met by this instance.
ASSUME DisciplineAssumption == Discipline /\ TailOnTop

=============================================================================
