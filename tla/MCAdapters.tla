------------------------------ MODULE MCAdapters ------------------------------
(* Instances of Adapters: see the .cfg files for the other constants. *)
EXTENDS Adapters

Wrapped == [adapter |-> "wrap", watches |-> "child", markers |-> {}, sentinel |-> FALSE]

Tailed(watches, markers, sentinel) ==
    [adapter |-> "tail", watches |-> watches, markers |-> markers, sentinel |-> sentinel]

EveryKind == {Wrapped, Tailed("child", Marker, TRUE), Tailed("pid", {"bad"}, FALSE),
              Tailed("log", {"good"}, TRUE), Tailed("log", {}, FALSE)}

FailureMarkerOnly == {Tailed("child", {"bad"}, FALSE)}
=============================================================================
