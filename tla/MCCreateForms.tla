---------------------------- MODULE MCCreateForms ----------------------------
(* Instances of CreateForms for TLC. *)
EXTENDS CreateForms, TLC

EntitySymmetry == Permutations(Entities)

\* Bounds: at most one input, the name among them, breaks a rule, and a form
\* with such an input is submitted once.
Switches == {"partial", "keys", "several"}
Slips == {"bad", "odd", "space", "dotted", "twice"}
Slipped ==
    {x \in DOMAIN text \ Switches : text[x] \in Slips}
        \cup {x \in {"name"} : formName \in Slips}
OneSlip ==
    \/ Slipped = {}
    \/ Cardinality(Slipped) = 1 /\ \A i \in 2..MaxSubmits : submits[i] = Unsent
=============================================================================
