----------------------------- MODULE MCRuleStore -----------------------------
(* Small values for the constants of RuleStore. *)
EXTENDS RuleStore, TLC

CONSTANTS r1, r2, a, b

NoChange == [action |-> Unset, retain_payload |-> Unset, enabled |-> Unset]

\* One name: a second rule of that name gets the second id.
MCSlugs == {<<a, b>>}

MCPayloads ==
    {[action |-> "drop", retain_payload |-> FALSE, enabled |-> TRUE]}

\* The two edits that are each valid and not valid together, the
\* edit that would repair the row, and the one that undoes a disable.
MCPatches ==
    {[NoChange EXCEPT !.action = "forward"],
     [NoChange EXCEPT !.retain_payload = TRUE],
     [NoChange EXCEPT !.retain_payload = FALSE],
     [NoChange EXCEPT !.enabled = TRUE]}

MCSettingsPatches ==
    {[default_action |-> "drop", shadow_mode |-> Unset],
     [default_action |-> Unset, shadow_mode |-> TRUE]}

Symmetry == Permutations({r1, r2})
=============================================================================
