----------------------------- MODULE MCSettings -----------------------------
(* Small instances of Settings for TLC. *)
EXTENDS Settings, TLC

CONSTANTS f1, f2

OneFrontEnd == {f1}
TwoFrontEnds == {f1, f2}

\* Bounds: at most one variable is set, at most one option given.
OneVariable ==
  UNION {{[[j \in Keys |-> Unset] EXCEPT ![k] = t] : t \in Spellings(k) \cup {Unset}} :
           k \in Keys}
OneOption ==
  {o \in UNION {{[[j \in Keys |-> "none"] EXCEPT ![k] = v] :
                    v \in {"good", "default", "none"} \cup NotFinite} : k \in Keys \ Secrets} :
     /\ \A k \in Bools \cup Paths : o[k] # "default"
     /\ \A k \in Keys \ Floats : o[k] \notin NotFinite}

\* Front ends are interchangeable.
Symmetric == Permutations(FrontEnds)
=============================================================================
