------------------------------- MODULE MCDecide --------------------------------
(* Small values for the constants of Decide. *)
EXTENDS Decide

MCRules ==
    {r \in [order: {0, 1}, enabled: BOOLEAN, action: Actions,
            retain_payload: BOOLEAN, shadow: BOOLEAN] :
        /\ r.retain_payload => r.action = "drop"
        /\ r.shadow => r.action = "drop" /\ ~r.retain_payload}

\* Every chain of two such rules.
MCChains ==
    [rules: [Ids -> MCRules], default_action: Actions, shadow_mode: BOOLEAN]

MCEvents == Event
================================================================================
