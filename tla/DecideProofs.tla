------------------------------ MODULE DecideProofs -----------------------------
(***************************************************************************)
(* What Decide guarantees for every chain of rules and every event.        *)
(***************************************************************************)
EXTENDS Decide, TLAPS

\* While the cascade runs, the branches behind it are of rules that the event
\* does not satisfy, so the next one that it satisfies is the first.
CascadeOK ==
    /\ pc \in {"syslog", "cef"} => todo = Active
    /\ pc \in {"syslog", "cef", "rules"} => matched = NoRule
    /\ pc = "rules" => /\ todo \subseteq Active
                       /\ Active \cap event.matches \subseteq todo
    /\ pc = "enforce" =>
         IF matched = NoRule THEN Active \cap event.matches = {}
                             ELSE First(matched)

\* The flags are what the parsers found, once they have run.
ParsedOK ==
    /\ pc # "syslog" => syslog_ok = event.syslog
    /\ pc \in {"rules", "enforce"} =>
         cef_ok = (event.cef \in {"body", "marker"})

\* What a verdict may be.
VerdictOK ==
    /\ pc \in {"syslog", "cef", "rules", "enforce"} => ss = NoVerdict
    /\ ss # NoVerdict =>
         IF ss.rule_id = NoRule THEN Active \cap event.matches = {}
                                ELSE First(ss.rule_id)
    /\ ss.decision = "drop" =>
         /\ event.syslog \/ event.cef \in {"body", "marker"}
         /\ \/ /\ ss.rule_id = NoRule /\ ~ss.retain
               /\ Active \cap event.matches = {}
               /\ chain.default_action = "drop"
            \/ /\ ss.rule_id \in Ids
               /\ First(ss.rule_id)
               /\ chain.rules[ss.rule_id].action = "drop"
               /\ ~chain.rules[ss.rule_id].shadow /\ ~chain.shadow_mode
               /\ ss.retain = chain.rules[ss.rule_id].retain_payload

\* Where the event went follows from the verdict.
OutOK ==
    pc = "done" =>
        /\ out.elk = (ss.decision # "drop")
        /\ out.audit = IF ss.decision # "drop" THEN "none"
                       ELSE IF ss.retain THEN "full" ELSE "metadata"
        /\ ss.decision = "drop" => out.tail

IInv == TypeOK /\ CascadeOK /\ ParsedOK /\ VerdictOK /\ OutOK

-----------------------------------------------------------------------------

LEMMA InitIInv == Init => IInv
<1> SUFFICES ASSUME Init PROVE IInv
  OBVIOUS
<1>1. TypeOK
  BY DEF Init, TypeOK, Active, Verdict, NoVerdict, Outputs, NoOutput
<1>2. CascadeOK /\ ParsedOK /\ OutOK
  BY DEF Init, CascadeOK, ParsedOK, OutOK
<1>3. VerdictOK
  BY DEF Init, VerdictOK, NoVerdict
<1> QED
  BY <1>1, <1>2, <1>3 DEF IInv

\* The order and the first rule depend on the chain and the event alone.
LEMMA FirstUnchanged ==
    ASSUME UNCHANGED <<chain, event>>
    PROVE  /\ Active' = Active
           /\ \A id : First(id)' <=> First(id)
BY DEF Active, First, Precedes

LEMMA ParseKeepsIInv ==
    ASSUME IInv, ParseSyslog \/ ParseCef \/ Abort
    PROVE  IInv'
<1> USE DEF IInv
<1>1. /\ UNCHANGED <<chain, event, todo, matched, ss, out>>
      /\ ss = NoVerdict
  BY DEF ParseSyslog, ParseCef, Abort, VerdictOK
<1>2. Active' = Active /\ \A id : First(id)' <=> First(id)
  BY <1>1, FirstUnchanged
<1>3. event \in Event
  BY DecideAssumption DEF TypeOK
<1>4. TypeOK'
  <2>1. /\ event.syslog \in BOOLEAN
        /\ (event.cef \in {"body", "marker"}) \in BOOLEAN
    BY <1>3 DEF Event
  <2>2. syslog_ok' \in BOOLEAN /\ cef_ok' \in BOOLEAN
    BY <2>1 DEF ParseSyslog, ParseCef, Abort, TypeOK
  <2>3. pc' \in {"cef", "rules", "route"}
    BY DEF ParseSyslog, ParseCef, Abort
  <2> QED
    BY <1>1, <2>2, <2>3 DEF TypeOK
<1>5. CascadeOK' /\ ParsedOK'
  BY <1>1, <1>2
  DEF ParseSyslog, ParseCef, Abort, TypeOK, CascadeOK, ParsedOK
<1>6. VerdictOK' /\ OutOK'
  BY <1>1 DEF ParseSyslog, ParseCef, Abort, VerdictOK, OutOK, NoVerdict
<1> QED
  BY <1>4, <1>5, <1>6

LEMMA RulesKeepIInv ==
    ASSUME IInv, TestRule \/ NoMatch
    PROVE  IInv'
<1> USE DEF IInv
<1>1. /\ UNCHANGED <<chain, event, syslog_ok, cef_ok, ss, out>>
      /\ pc = "rules" /\ pc' \in {"rules", "enforce"}
      /\ ss = NoVerdict
  BY DEF TestRule, NoMatch, VerdictOK
<1>2. Active' = Active /\ \A id : First(id)' <=> First(id)
  BY <1>1, FirstUnchanged
<1>3. TypeOK'
  BY <1>1 DEF TestRule, NoMatch, TypeOK
<1>4. CascadeOK'
  <2>1. CASE NoMatch
    BY <1>1, <1>2, <2>1 DEF NoMatch, CascadeOK
  <2>2. CASE TestRule
    <3>1. PICK id \in todo :
            /\ \A other \in todo \ {id} : Precedes(id, other)
            /\ IF id \in event.matches
                 THEN matched' = id /\ pc' = "enforce" /\ UNCHANGED todo
                 ELSE todo' = todo \ {id} /\ UNCHANGED <<matched, pc>>
      BY <2>2 DEF TestRule
    <3>2. CASE id \in event.matches
      <4>1. First(id)
        BY <1>1, <3>1, <3>2 DEF CascadeOK, First
      <4>2. id # NoRule
        BY DecideAssumption DEF TypeOK
      <4> QED
        BY <1>2, <3>1, <3>2, <4>1, <4>2 DEF CascadeOK
    <3>3. CASE id \notin event.matches
      BY <1>1, <1>2, <3>1, <3>3 DEF CascadeOK
    <3> QED
      BY <3>2, <3>3
  <2> QED
    BY <2>1, <2>2
<1>5. ParsedOK'
  BY <1>1 DEF ParsedOK
<1>6. VerdictOK' /\ OutOK'
  BY <1>1 DEF VerdictOK, OutOK, NoVerdict
<1> QED
  BY <1>3, <1>4, <1>5, <1>6

LEMMA EnforceKeepsIInv ==
    ASSUME IInv, Enforce
    PROVE  IInv'
<1> USE DEF IInv
<1> DEFINE rule == chain.rules[matched]
           retain == matched # NoRule /\ rule.retain_payload
<1>1. /\ UNCHANGED <<chain, event, syslog_ok, cef_ok, todo, matched, out>>
      /\ pc = "enforce" /\ pc' = "route"
      /\ ss'.decision = Chosen[1] /\ ss'.rule_id = matched
      /\ ss'.retain = retain
      /\ ss' = [decision |-> Chosen[1], reason |-> Chosen[2],
                rule_id |-> matched, retain |-> retain]
  BY DEF Enforce
<1>2. Active' = Active /\ \A id : First(id)' <=> First(id)
  BY <1>1, FirstUnchanged
<1>3. /\ chain \in Chain /\ matched \in Ids \cup {NoRule}
      /\ matched # NoRule => rule \in Rule
  BY DecideAssumption DEF TypeOK, Chain
<1>4. /\ Chosen[1] \in Actions \cup {"forward_parse_error"}
      /\ Chosen[2] \in Reasons
      /\ Chosen[1] = "drop" =>
           /\ ParseOk
           /\ \/ matched = NoRule /\ chain.default_action = "drop"
              \/ matched # NoRule /\ rule.action = "drop" /\ ~Shadowed
  <2>1. CASE ~ParseOk
    BY <2>1 DEF Chosen, Reasons
  <2>2. CASE ParseOk /\ matched = NoRule
    BY <1>3, <2>2 DEF Chosen, Reasons, Chain
  <2>3. CASE ParseOk /\ matched # NoRule /\ Shadowed
    BY <2>3 DEF Chosen, Reasons, Actions
  <2>4. CASE ParseOk /\ matched # NoRule /\ ~Shadowed
    BY <1>3, <2>4 DEF Chosen, Reasons, Rule
  <2> QED
    BY <2>1, <2>2, <2>3, <2>4
<1>5. retain \in BOOLEAN
  BY <1>3 DEF Rule
<1>6. TypeOK'
  BY <1>1, <1>3, <1>4, <1>5 DEF TypeOK, Verdict
<1>7. CascadeOK' /\ ParsedOK' /\ OutOK'
  BY <1>1 DEF CascadeOK, ParsedOK, OutOK
<1>8. IF matched = NoRule THEN Active \cap event.matches = {}
                          ELSE First(matched)
  BY <1>1 DEF CascadeOK
<1>9. ParseOk => event.syslog \/ event.cef \in {"body", "marker"}
  BY <1>1 DEF ParseOk, ParsedOK
<1>10. VerdictOK'
  <2>1. ss'.decision = "drop" =>
          /\ event.syslog \/ event.cef \in {"body", "marker"}
          /\ \/ /\ matched = NoRule /\ ~retain
                /\ Active \cap event.matches = {}
                /\ chain.default_action = "drop"
             \/ /\ matched \in Ids /\ First(matched)
                /\ rule.action = "drop"
                /\ ~rule.shadow /\ ~chain.shadow_mode
                /\ retain = rule.retain_payload
    BY <1>1, <1>3, <1>4, <1>8, <1>9 DEF Shadowed, Rule
  <2> HIDE DEF retain
  <2>2. Active' \cap event'.matches = Active \cap event.matches
    BY <1>1, <1>2
  <2>3. First(ss.rule_id)' <=> First(matched)
    BY <1>1, FirstUnchanged DEF First, Active, Precedes
  <2>4. IF ss'.rule_id = NoRule THEN Active' \cap event'.matches = {}
                                ELSE First(ss.rule_id)'
    BY <1>1, <1>8, <2>2, <2>3
  <2> QED
    BY <1>1, <2>1, <2>2, <2>3, <2>4 DEF VerdictOK
<1> QED
  BY <1>6, <1>7, <1>10

LEMMA RouteKeepsIInv ==
    ASSUME IInv, Route
    PROVE  IInv'
<1> USE DEF IInv
<1>1. /\ UNCHANGED <<chain, event, syslog_ok, cef_ok, todo, matched, ss>>
      /\ pc = "route" /\ pc' = "done"
  BY DEF Route
<1>2. PICK chosen \in BOOLEAN :
        out' = [elk   |-> GoesToElk,
                audit |-> IF ~GoesToAudit THEN "none"
                          ELSE IF ss.retain THEN "full" ELSE "metadata",
                tail  |-> Sampled(chosen)]
  BY DEF Route
<1>3. Active' = Active /\ \A id : First(id)' <=> First(id)
  BY <1>1, FirstUnchanged
<1>4. TypeOK'
  <2>1. out' \in Outputs
    BY <1>2 DEF Outputs, GoesToElk, GoesToAudit, Sampled
  <2> QED
    BY <1>1, <2>1 DEF TypeOK
<1>5. CascadeOK' /\ ParsedOK'
  BY <1>1 DEF CascadeOK, ParsedOK
<1>6. VerdictOK'
  BY <1>1, <1>3 DEF VerdictOK
<1>7. OutOK'
  BY <1>1, <1>2 DEF OutOK, GoesToElk, GoesToAudit, Sampled
<1> QED
  BY <1>4, <1>5, <1>6, <1>7

LEMMA NextKeepsIInv == IInv /\ [Next]_vars => IInv'
<1> SUFFICES ASSUME IInv, [Next]_vars PROVE IInv'
  OBVIOUS
<1>1. CASE ParseSyslog \/ ParseCef \/ Abort
  BY <1>1, ParseKeepsIInv
<1>2. CASE TestRule \/ NoMatch
  BY <1>2, RulesKeepIInv
<1>3. CASE Enforce
  BY <1>3, EnforceKeepsIInv
<1>4. CASE Route
  BY <1>4, RouteKeepsIInv
<1>5. CASE UNCHANGED vars
  <2>1. UNCHANGED vars =>
          UNCHANGED <<chain, event, pc, syslog_ok, cef_ok, todo, matched, ss,
                      out>>
    BY DEF vars
  <2>2. Active' = Active /\ \A id : First(id)' <=> First(id)
    BY <1>5, <2>1, FirstUnchanged
  <2> QED
    BY <1>5, <2>1, <2>2
    DEF IInv, TypeOK, CascadeOK, ParsedOK, VerdictOK, OutOK
<1> QED
  BY <1>1, <1>2, <1>3, <1>4, <1>5 DEF Next

-----------------------------------------------------------------------------

\* The strengthened invariant holds in every reachable state.
THEOREM Invariance == Spec => []IInv
BY InitIInv, NextKeepsIInv, PTL DEF Spec

\* Every variable has its type.
THEOREM TypeCorrect == Spec => []TypeOK
<1>1. IInv => TypeOK
  BY DEF IInv
<1> QED
  BY <1>1, Invariance, PTL

\* For every chain and every event, the compiled cascade finds the first
\* enabled rule the event satisfies, by order and then by id.
THEOREM FirstMatch == Spec => []FirstMatchDecides
<1>1. IInv => FirstMatchDecides
  BY DEF IInv, VerdictOK, FirstMatchDecides
<1> QED
  BY <1>1, Invariance, PTL

\* Every event ends in ELK or in the drop audit, and in one of them only.
THEOREM Conserved == Spec => []NothingLost
<1>1. IInv => NothingLost
  BY DEF IInv, OutOK, NothingLost
<1> QED
  BY <1>1, Invariance, PTL

-----------------------------------------------------------------------------
\* Of two rules that are both first for an event, each precedes the other.
LEMMA FirstIsUnique ==
    ASSUME TypeOK, NEW a \in Ids, NEW b \in Ids, First(a), First(b)
    PROVE  a = b
<1> SUFFICES ASSUME a # b PROVE FALSE
  OBVIOUS
<1>1. Precedes(a, b) /\ Precedes(b, a)
  BY DEF First
<1>2. chain.rules[a].order \in Nat /\ chain.rules[b].order \in Nat
  BY DecideAssumption DEF TypeOK, Chain, Rule
<1>3. a \in Nat /\ b \in Nat
  BY DecideAssumption
<1> QED
  BY <1>1, <1>2, <1>3 DEF Precedes

\* A drop that is due.
Due == /\ Readable
       /\ DroppedByDefault \/ \E id \in Ids : DroppedBy(id)

\* A program that leaves a verdict drops what is due.
DueOK == ss # NoVerdict /\ Due => ss.decision = "drop"

LEMMA DueUnchanged ==
    ASSUME UNCHANGED <<chain, event>> PROVE Due' <=> Due
BY FirstUnchanged DEF Due, Readable, DroppedByDefault, DroppedBy

LEMMA NextKeepsDue == IInv /\ DueOK /\ [Next]_vars => DueOK'
<1> SUFFICES ASSUME IInv, DueOK, [Next]_vars PROVE DueOK'
  OBVIOUS
<1>1. UNCHANGED <<chain, event>>
  BY DEF Next, ParseSyslog, ParseCef, TestRule, NoMatch, Enforce, Abort, Route,
     vars
<1>2. CASE Enforce
  <2> SUFFICES ASSUME Due PROVE ss'.decision = "drop"
    BY <1>1, DueUnchanged DEF DueOK
  <2>1. /\ ss'.decision = Chosen[1] /\ pc = "enforce"
        /\ IF matched = NoRule THEN Active \cap event.matches = {}
                               ELSE First(matched)
        /\ matched \in Ids \cup {NoRule} /\ NoRule \notin Ids
    BY <1>2, DecideAssumption DEF Enforce, IInv, TypeOK, CascadeOK
  <2>2. ParseOk
    BY <2>1 DEF ParseOk, Due, Readable, IInv, ParsedOK
  <2>3. CASE matched = NoRule
    <3>1. DroppedByDefault
      BY <2>1, <2>3 DEF Due, DroppedBy, First
    <3> QED
      BY <2>1, <2>2, <2>3, <3>1 DEF Chosen, DroppedByDefault
  <2>4. CASE matched # NoRule
    <3>1. First(matched) /\ matched \in Ids
      BY <2>1, <2>4
    <3>2. PICK id \in Ids : DroppedBy(id)
      BY <3>1 DEF Due, DroppedByDefault, First
    <3>3. id = matched
      BY <3>1, <3>2, FirstIsUnique DEF DroppedBy, IInv
    <3>4. chain.rules[matched].action = "drop" /\ ~Shadowed
      BY <3>2, <3>3 DEF DroppedBy, Shadowed
    <3> QED
      BY <2>1, <2>2, <2>4, <3>4 DEF Chosen
  <2> QED
    BY <2>3, <2>4
<1>3. CASE ~Enforce
  <2>1. UNCHANGED ss
    BY <1>3 DEF Next, ParseSyslog, ParseCef, TestRule, NoMatch, Abort, Route,
       vars
  <2> QED
    BY <1>1, <2>1, DueUnchanged DEF DueOK
<1> QED
  BY <1>2, <1>3

\* No event is dropped unless a rule in force or the default says so, and every
\* event is for which they do and on which the program does not abort.
THEOREM DropsJustified == Spec => []DropsAreDue
<1>1. Init => DueOK
  BY DEF Init, DueOK
<1>2. IInv /\ DueOK => DropsAreDue
  <2> SUFFICES ASSUME IInv, DueOK, pc = "done" PROVE DropsAreDue
    BY DEF DropsAreDue
  <2>1. /\ out.elk = (ss.decision # "drop")
        /\ out.audit = IF ss.decision # "drop" THEN "none"
                       ELSE IF ss.retain THEN "full" ELSE "metadata"
        /\ ss.decision = "drop" => out.tail
    BY DEF IInv, OutOK
  <2>2. ASSUME ~out.elk
        PROVE  /\ Readable
               /\ out.tail
               /\ \/ DroppedByDefault /\ out.audit = "metadata"
                  \/ \E id \in Ids :
                        /\ DroppedBy(id)
                        /\ out.audit = IF chain.rules[id].retain_payload
                                         THEN "full" ELSE "metadata"
    <3>1. ss.decision = "drop"
      BY <2>1, <2>2
    <3> QED
      BY <2>1, <3>1
         DEF IInv, VerdictOK, Readable, DroppedByDefault, DroppedBy
  <2>3. ss # NoVerdict /\ Due => ~out.elk
    BY <2>1 DEF DueOK
  <2> QED
    BY <2>2, <2>3 DEF DropsAreDue, Due
<1> QED
  BY <1>1, <1>2, NextKeepsDue, InitIInv, NextKeepsIInv, PTL DEF Spec

\* What chain-wide shadow mode keeps from ELK all the same are the events that
\* satisfy no rule, in a chain whose default is to drop.
ShadowLeavesDefault ==
    pc = "done" /\ chain.shadow_mode /\ ~out.elk => DroppedByDefault

\* Nothing but the default is enforced in shadow mode: the exception that the
\* run against ShadowEnforcesNothing finds is the only one.
THEOREM ShadowEnforcesDefaultOnly == Spec => []ShadowLeavesDefault
<1>1. DropsAreDue => ShadowLeavesDefault
  BY DEF DropsAreDue, DroppedBy, ShadowLeavesDefault
<1> QED
  BY <1>1, DropsJustified, PTL

================================================================================
