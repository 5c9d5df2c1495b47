-------------------------------- MODULE Decide ---------------------------------
(***************************************************************************)
(* What happens to one event on a node: the VRL program that               *)
(* compiler/compiler.py generates from a rule chain, run by the topology   *)
(* that compiler/vector_config.py puts around it.                          *)
(*                                                                         *)
(* The program parses the event, walks an if / else if cascade with one    *)
(* branch per enabled rule, and then, apart from the matching, chooses a   *)
(* decision.  The topology routes on the decision: to ELK, to the drop     *)
(* audit, and a sample of everything to the control plane.                 *)
(*                                                                         *)
(* A rule id is its rank in the lexical order of ids.  Whether a rule's    *)
(* conditions hold is part of the event.                                   *)
(***************************************************************************)
EXTENDS Integers

CONSTANTS
    Ids,     \* rule ids
    Chains,  \* the chains a bundle may have been compiled from
    Events,  \* the events that may arrive
    NoRule   \* no rule matched

Actions == {"forward", "drop"}

Rule == [order: Nat, enabled: BOOLEAN, action: Actions,
         retain_payload: BOOLEAN, shadow: BOOLEAN]

Chain == [rules: [Ids -> Rule], default_action: Actions, shadow_mode: BOOLEAN]

\* Whether parse_syslog reads the event, where parse_cef can read it ("body":
\* what parse_syslog leaves of it, "marker": from its CEF marker on, "broken":
\* not even there, "none": it has no marker), and the rules it satisfies.
Event == [syslog: BOOLEAN, cef: {"body", "marker", "broken", "none"},
          matches: SUBSET Ids]

ASSUME DecideAssumption ==
    /\ Ids \subseteq Nat
    /\ Chains \subseteq Chain
    /\ Events \subseteq Event
    /\ NoRule \notin Ids

VARIABLES
    chain,      \* the chain of the bundle Vector runs
    event,      \* the event
    pc,         \* how far the program is
    syslog_ok,  \* parse_syslog succeeded
    cef_ok,     \* parse_cef succeeded
    todo,       \* the rules whose branches are still ahead
    matched,    \* the rule whose branch was taken
    ss,         \* the verdict the program leaves in .ss
    out         \* where the event or a record of it went

vars == <<chain, event, pc, syslog_ok, cef_ok, todo, matched, ss, out>>

Reasons == {"rule", "default", "parse_error", "shadow"}

Verdict == [decision: Actions \cup {"forward_parse_error", "none"},
            reason: Reasons \cup {"none"}, rule_id: Ids \cup {NoRule},
            retain: BOOLEAN]

\* .ss before the program assigns it.
NoVerdict == [decision |-> "none", reason |-> "none", rule_id |-> NoRule,
              retain |-> FALSE]

Outputs == [elk: BOOLEAN, audit: {"none", "metadata", "full"}, tail: BOOLEAN]

NoOutput == [elk |-> FALSE, audit |-> "none", tail |-> FALSE]

\* RuleChain.active sorts the enabled rules by order, then by id.
Active == {id \in Ids : chain.rules[id].enabled}

Precedes(a, b) ==
    \/ chain.rules[a].order < chain.rules[b].order
    \/ chain.rules[a].order = chain.rules[b].order /\ a < b

-----------------------------------------------------------------------------

Init ==
    /\ chain \in Chains
    /\ event \in Events
    /\ pc = "syslog"
    /\ syslog_ok = FALSE
    /\ cef_ok = FALSE
    /\ todo = Active
    /\ matched = NoRule
    /\ ss = NoVerdict
    /\ out = NoOutput

ParseSyslog ==
    /\ pc = "syslog"
    /\ pc' = "cef"
    /\ syslog_ok' = event.syslog
    /\ UNCHANGED <<chain, event, cef_ok, todo, matched, ss, out>>

\* Once over the body and, when that fails and there is a marker, once more
\* from the marker in the raw bytes.
ParseCef ==
    /\ pc = "cef"
    /\ pc' = "rules"
    /\ cef_ok' = (event.cef \in {"body", "marker"})
    /\ UNCHANGED <<chain, event, syslog_ok, todo, matched, ss, out>>

\* Mistake: the rules are sorted by id alone.
TestById ==
    /\ pc = "rules"
    /\ \E id \in todo :
         /\ \A other \in todo \ {id} : id < other
         /\ IF id \in event.matches
              THEN matched' = id /\ pc' = "enforce" /\ UNCHANGED todo
              ELSE todo' = todo \ {id} /\ UNCHANGED <<matched, pc>>
    /\ UNCHANGED <<chain, event, syslog_ok, cef_ok, ss, out>>

\* One branch of the cascade: the first whose predicate holds is taken.
TestRule ==
    /\ pc = "rules"
    /\ \E id \in todo :
         /\ \A other \in todo \ {id} : Precedes(id, other)
         /\ IF id \in event.matches
              THEN matched' = id /\ pc' = "enforce" /\ UNCHANGED todo
              ELSE todo' = todo \ {id} /\ UNCHANGED <<matched, pc>>
    /\ UNCHANGED <<chain, event, syslog_ok, cef_ok, ss, out>>

\* No branch was taken.
NoMatch ==
    /\ pc = "rules"
    /\ todo = {}
    /\ pc' = "enforce"
    /\ UNCHANGED <<chain, event, syslog_ok, cef_ok, todo, matched, ss, out>>

ParseOk == syslog_ok \/ cef_ok

Shadowed == chain.shadow_mode \/ chain.rules[matched].shadow

\* Mistake: the default applies before the parse check.
ChosenParseLast ==
    CASE matched = NoRule -> <<chain.default_action, "default">>
      [] matched # NoRule /\ Shadowed -> <<"forward", "shadow">>
      [] OTHER -> <<chain.rules[matched].action, "rule">>

\* Mistake: the reason of an unreadable event is written as its decision.
ChosenReason ==
    CASE ~ParseOk -> <<"parse_error", "parse_error">>
      [] ParseOk /\ matched = NoRule -> <<chain.default_action, "default">>
      [] ParseOk /\ matched # NoRule /\ Shadowed -> <<"forward", "shadow">>
      [] OTHER -> <<chain.rules[matched].action, "rule">>

\* The decision and its reason, in the order of the generated branches.
Chosen ==
    CASE ~ParseOk          -> <<"forward_parse_error", "parse_error">>
      [] ParseOk /\ matched = NoRule
                           -> <<chain.default_action, "default">>
      [] ParseOk /\ matched # NoRule /\ Shadowed
                           -> <<"forward", "shadow">>
      [] OTHER             -> <<chain.rules[matched].action, "rule">>

Enforce ==
    /\ pc = "enforce"
    /\ pc' = "route"
    /\ ss' = [decision |-> Chosen[1],
              reason   |-> Chosen[2],
              rule_id  |-> matched,
              retain   |-> matched # NoRule
                             /\ chain.rules[matched].retain_payload]
    /\ UNCHANGED <<chain, event, syslog_ok, cef_ok, todo, matched, out>>

\* slice! or set! fails at run time: with drop_on_error off the event goes on
\* as it came, and .ss was never assigned.
Abort ==
    /\ pc = "cef"
    /\ pc' = "route"
    /\ UNCHANGED <<chain, event, syslog_ok, cef_ok, todo, matched, ss, out>>

\* Mistake: only the decision "forward" is routed, and nothing is unmatched.
OnlyForward == ss.decision = "forward"

\* The route "forward" and its _unmatched lead to ELK, "dropped" to the audit.
GoesToElk == ss.decision # "drop"

GoesToAudit == ss.decision = "drop"

\* The sample transform never thins out drops.
Sampled(chosen) == ss.decision = "drop" \/ chosen

Route ==
    /\ pc = "route"
    /\ pc' = "done"
    /\ \E chosen \in BOOLEAN :
         out' = [elk   |-> GoesToElk,
                 audit |-> IF ~GoesToAudit THEN "none"
                           ELSE IF ss.retain THEN "full" ELSE "metadata",
                 tail  |-> Sampled(chosen)]
    /\ UNCHANGED <<chain, event, syslog_ok, cef_ok, todo, matched, ss>>

Next ==
    \/ ParseSyslog
    \/ ParseCef
    \/ TestRule
    \/ NoMatch
    \/ Enforce
    \/ Abort
    \/ Route

Spec == Init /\ [][Next]_vars

-----------------------------------------------------------------------------

\* Every variable has its type.
TypeOK ==
    /\ chain \in Chains
    /\ event \in Events
    /\ pc \in {"syslog", "cef", "rules", "enforce", "route", "done"}
    /\ syslog_ok \in BOOLEAN
    /\ cef_ok \in BOOLEAN
    /\ todo \subseteq Ids
    /\ matched \in Ids \cup {NoRule}
    /\ ss \in Verdict
    /\ out \in Outputs

\* The rule of D-05: the enabled rule that comes first among those the event
\* satisfies.
First(id) ==
    /\ id \in Active \cap event.matches
    /\ \A other \in (Active \cap event.matches) \ {id} : Precedes(id, other)

\* The verdict names the first enabled rule that matches, in shadow or not,
\* parsed or not, and none when none matches.
FirstMatchDecides ==
    ss # NoVerdict =>
        IF ss.rule_id = NoRule THEN Active \cap event.matches = {}
                               ELSE First(ss.rule_id)

\* Every event ends in ELK or in the drop audit, never in both or in neither,
\* whatever the verdict is and even when there is none.
NothingLost == pc = "done" => (out.elk <=> out.audit = "none")

\* The parsers can read the event.
Readable == event.syslog \/ event.cef \in {"body", "marker"}

\* The event satisfies no rule and the chain's default is to drop.
DroppedByDefault ==
    Active \cap event.matches = {} /\ chain.default_action = "drop"

\* The first rule the event satisfies drops it, out of shadow mode.
DroppedBy(id) ==
    /\ First(id)
    /\ chain.rules[id].action = "drop"
    /\ ~chain.rules[id].shadow /\ ~chain.shadow_mode

\* An event is kept from ELK only if it could be read and a rule or the
\* default drops it, and then it is, unless the program aborted on it.  The
\* audit has its payload exactly when that rule asked for it, and the live view
\* always sees it.
DropsAreDue ==
    pc = "done" =>
        /\ ~out.elk =>
              /\ Readable
              /\ out.tail
              /\ \/ DroppedByDefault /\ out.audit = "metadata"
                 \/ \E id \in Ids :
                       /\ DroppedBy(id)
                       /\ out.audit = IF chain.rules[id].retain_payload
                                        THEN "full" ELSE "metadata"
        /\ /\ ss # NoVerdict
           /\ Readable
           /\ DroppedByDefault \/ \E id \in Ids : DroppedBy(id)
           => ~out.elk

\* "Evaluate everything, enforce nothing": with chain-wide shadow mode on,
\* nothing is kept from ELK.
ShadowEnforcesNothing == pc = "done" /\ chain.shadow_mode => out.elk

================================================================================
