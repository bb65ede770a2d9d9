---------------------------- MODULE MCCollector ----------------------------
(* Collector with two targets: of labels of their own, of two URLs of one label, or
   of one URL.  main refuses the last two where it serves per-target series, a program
   of its own may not. *)
EXTENDS Collector, TLC

CONSTANTS a, b, u, v

MCConfigurations ==
    LET Own == a :> u @@ b :> v
        Id  == [x \in URLs |-> x]
    IN  {[url |-> Own, label |-> Id],
         [url |-> Own, label |-> [x \in URLs |-> u]],
         [url |-> [t \in Targets |-> u], label |-> Id]}

MCSymmetry == Permutations(Workers)

=============================================================================
