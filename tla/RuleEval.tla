------------------------------ MODULE RuleEval ------------------------------
(* The rule of a role link: how the editor's body becomes the stored rule  *)
(* tree (services/rule_validator.rs), and the two evaluators of that tree. *)
(* sync_for_player evaluates it in Rust over one row of                    *)
(* stripe_member_facts (services/condition_eval.rs); sync_for_role_link    *)
(* turns it into a WHERE clause over all rows (services/rule_sql.rs).      *)
(*                                                                         *)
(* JSON values are tagged tuples; a number with a fraction is <<"dec", n>>,*)
(* n its whole part.  Texts are atoms, and the constants say what the      *)
(* standard library reads in them.  Object values are left out: they are   *)
(* rejected like null, and kept in a list like a number.                   *)
EXTENDS Integers, Sequences

CONSTANTS
    Target,        \* the condition targets in use
    Text,          \* the texts in bodies and in facts
    Empty,         \* the text ""
    Blank,         \* the texts that are empty once trimmed
    BoolOf,        \* the texts that read as a boolean, and as which
    IntOf,         \* the texts that parse as an i64, and as which
    Parts,         \* the comma-separated parts of a text, trimmed, not empty
    Written,       \* the text a number or a boolean is written as
    Within,        \* the pairs <<s, a>> with s a substring of a
    Compiles,      \* the texts the regex crate compiles
    Matches,       \* the pairs <<p, a>> with a match of p in a: regex crate
    PgMatches,     \* the same for the operator ~ of Postgres
    MaxGroups,     \* MAX_GROUPS
    MaxConditions, \* MAX_CONDITIONS_PER_GROUP
    RawCondition,  \* the conditions the editor sends
    Body,          \* the bodies it sends, made of them
    Row,           \* the rows recompute_member_facts writes
    NULL           \* SQL's NULL, Rust's None

VARIABLES
    saved, \* role_links.rule_tree
    facts  \* the member's row of stripe_member_facts; NULL: no row

vars == <<saved, facts>>

(* ------------------------------- targets ------------------------------- *)

BoolTargets == {"has_active_subscription", "is_trialing", "is_past_due",
                "cancels_at_period_end", "is_customer", "is_delinquent"}
SinceTargets == {"subscription_age_days", "customer_age_days"}
DateTargets == SinceTargets \cup {"days_until_renewal"}
IntTargets == DateTargets \cup {"active_subscription_count", "plan_amount", "total_mrr",
                                "lifetime_spend", "successful_payments"}
StringTargets == {"subscription_status", "billing_interval", "country_code", "currency",
                  "email_domain"}
ListTargets == {"subscribed_to_product", "subscribed_to_price"}

Operators(t) ==
    CASE t \in BoolTargets   -> {"eq"}
      [] t \in IntTargets    -> {"eq", "neq", "gt", "gte", "lt", "lte", "between"}
      [] t \in StringTargets -> {"eq", "neq", "contains", "regex", "in", "not_in"}
      [] t \in ListTargets   -> {"eq", "in", "not_in"}

(* ----------------------------- JSON values ----------------------------- *)

Null == <<"null">>
Bool(b) == <<"bool", b>>
Num(n)  == <<"num", n>>
Str(s)  == <<"str", s>>
Arr(A)  == <<"arr", A>>

ScalarOK(v) ==
    \/ v = Null
    \/ v = Bool(v[2]) /\ v[2] \in BOOLEAN
    \/ v = Num(v[2]) /\ v[2] \in Int
    \/ v = <<"dec", v[2]>> /\ v[2] \in Int
    \/ v = Str(v[2]) /\ v[2] \in Text
ValueOK(v) == \/ ScalarOK(v)
              \/ v = Arr(v[2]) /\ \A x \in v[2] : ScalarOK(x)

IsBool(v) == v[1] = "bool"
IsNum(v)  == v[1] = "num"
IsStr(v)  == v[1] = "str"
IsArr(v)  == v[1] = "arr"

Condition(t, op, v, e) == [target |-> t, operator |-> op, value |-> v, end |-> e]

(* The strings of a list; whatever else the list has is skipped.           *)
Strings(v) == IF IsArr(v) THEN {s \in Text : Str(s) \in v[2]} ELSE {}

ASSUME TextAssumption ==
    /\ Target \subseteq BoolTargets \cup IntTargets \cup StringTargets \cup ListTargets
    /\ Empty \in Blank /\ Blank \subseteq Text
    /\ DOMAIN BoolOf \subseteq Text /\ \A s \in DOMAIN BoolOf : BoolOf[s] \in BOOLEAN
    /\ DOMAIN IntOf \subseteq Text /\ \A s \in DOMAIN IntOf : IntOf[s] \in Int
    /\ \A s \in Text : Parts[s] \subseteq Text \ Blank
    /\ \A v \in DOMAIN Written : Written[v] \in Text \ Blank
    /\ MaxGroups \in Nat /\ MaxConditions \in Nat

ASSUME BodyAssumption ==
    /\ Body \subseteq [any : BOOLEAN, groups : Seq(Seq(RawCondition))]
    /\ \A raw \in RawCondition :
         raw = Condition(raw.target, raw.operator, raw.value, raw.end)
         /\ ValueOK(raw.value) /\ ValueOK(raw.end)

ASSUME RowAssumption ==
    /\ NULL \notin Row /\ NULL \notin Int \cup Text \cup BOOLEAN
    /\ \A f \in Row : \A t \in Target :
         CASE t \in BoolTargets -> f[t] \in BOOLEAN
           [] t \in DateTargets -> f[t] \in Int \cup {NULL}
           [] t \in IntTargets \ DateTargets -> f[t] \in Int
           [] t \in StringTargets -> f[t] \in Text \cup {NULL}
           [] t \in ListTargets -> f[t] \subseteq Text

(* ------------------------------ validation ----------------------------- *)

(* normalize_value: what a raw value is stored as, one case per kind of    *)
(* target; Bad when it is refused.                                         *)
Bad == <<"bad">>

NormBool(raw) ==
    IF IsBool(raw) THEN raw
    ELSE IF IsStr(raw) /\ raw[2] \in DOMAIN BoolOf THEN Bool(BoolOf[raw[2]])
    ELSE Bad

NormInt(raw) ==
    IF raw[1] \in {"num", "dec"} THEN Num(raw[2])
    ELSE IF IsStr(raw) /\ raw[2] \in DOMAIN IntOf THEN Num(IntOf[raw[2]])
    ELSE Bad

(* Mutant: an array is wrapped like any other value.                       *)
NormListWrapped(raw) ==
    LET items == IF IsStr(raw) THEN {Str(s) : s \in Parts[raw[2]]} ELSE {raw} \ {Null}
    IN IF items = {} THEN Bad ELSE Arr(items)

NormList(raw) ==
    LET items == CASE IsArr(raw) -> raw[2] \ {Null, Str(Empty)}
                   [] IsStr(raw) -> {Str(s) : s \in Parts[raw[2]]}
                   [] raw = Null -> {}
                   [] OTHER      -> {raw}
    IN IF items = {} THEN Bad ELSE Arr(items)

NormMember(raw) == IF IsStr(raw) /\ raw[2] \notin Blank THEN raw ELSE Bad

NormString(raw) ==
    IF IsStr(raw) THEN (IF raw[2] \in Blank THEN Bad ELSE raw)
    ELSE IF raw \in DOMAIN Written THEN Str(Written[raw])
    ELSE Bad

Normalize(t, op, raw) ==
    CASE t \in BoolTargets   -> NormBool(raw)
      [] t \in IntTargets    -> NormInt(raw)
      [] t \in StringTargets -> IF op \in {"in", "not_in"} THEN NormList(raw) ELSE NormString(raw)
      [] t \in ListTargets   -> IF op \in {"in", "not_in"} THEN NormList(raw) ELSE NormMember(raw)

(* validate_condition: the stored form, and when there is one.  An absent  *)
(* value_end is Null.                                                      *)
Stored(raw) ==
    Condition(raw.target, raw.operator, Normalize(raw.target, raw.operator, raw.value),
              IF raw.operator = "between"
              THEN Normalize(raw.target, raw.operator, raw.end) ELSE Null)

ValidCondition(raw) ==
    /\ raw.target \in Target
    /\ raw.operator \in Operators(raw.target)
    /\ Normalize(raw.target, raw.operator, raw.value) # Bad
    /\ raw.operator = "between" =>
         raw.end # Null /\ Normalize(raw.target, raw.operator, raw.end) # Bad
    /\ raw.operator = "regex" =>
         Normalize(raw.target, raw.operator, raw.value)[2] \in Compiles

(* Mutant: the number of groups is not looked at.                          *)
ValidRuleAnySize(body) ==
    body.any \/ \A g \in DOMAIN body.groups :
                  /\ Len(body.groups[g]) \in 1..MaxConditions
                  /\ \A i \in DOMAIN body.groups[g] : ValidCondition(body.groups[g][i])

(* parse_rule_tree: "any customer" drops the groups unseen.                *)
ValidRule(body) ==
    body.any \/ /\ Len(body.groups) \in 1..MaxGroups
                /\ \A g \in DOMAIN body.groups :
                     /\ Len(body.groups[g]) \in 1..MaxConditions
                     /\ \A i \in DOMAIN body.groups[g] : ValidCondition(body.groups[g][i])

StoredGroup(group) == [i \in DOMAIN group |-> Stored(group[i])]

ParseRuleTree(body) ==
    [any |-> body.any,
     groups |-> IF body.any THEN <<>>
                ELSE [g \in DOMAIN body.groups |-> StoredGroup(body.groups[g])]]

(* ----------------------------- in Rust --------------------------------- *)

(* Dates are hours from now.  num_days rounds towards zero.                *)
Hours(t, f) == IF t \in SinceTargets THEN -f[t] ELSE f[t]
NumDays(h)  == IF h >= 0 THEN h \div 24 ELSE -((-h) \div 24)
Int64(t, f) == IF t \in DateTargets THEN NumDays(Hours(t, f)) ELSE f[t]

BoolMatch(c, a) == c.operator = "eq" /\ IsBool(c.value) /\ c.value[2] = a

Compare(op, a, n) ==
    CASE op = "eq"  -> a = n
      [] op = "neq" -> a # n
      [] op = "gt"  -> a > n
      [] op = "gte" -> a >= n
      [] op = "lt"  -> a < n
      [] op = "lte" -> a <= n

IntMatch(c, a) ==
    /\ IsNum(c.value)
    /\ IF c.operator = "between"
       THEN IsNum(c.end) /\ a >= c.value[2] /\ a <= c.end[2]
       ELSE Compare(c.operator, a, c.value[2])

StringMatch(c, a) ==
    CASE c.operator = "eq"       -> IsStr(c.value) /\ a = c.value[2]
      [] c.operator = "neq"      -> IsStr(c.value) /\ a # c.value[2]
      [] c.operator = "contains" -> IsStr(c.value) /\ <<c.value[2], a>> \in Within
      [] c.operator = "regex"    -> IsStr(c.value) /\ <<c.value[2], a>> \in Matches
      [] c.operator = "in"       -> a \in Strings(c.value)
      [] c.operator = "not_in"   -> a \notin Strings(c.value)

ListMatch(c, A) ==
    CASE c.operator = "eq"     -> IsStr(c.value) /\ c.value[2] \in A
      [] c.operator = "in"     -> Strings(c.value) \cap A # {}
      [] c.operator = "not_in" -> Strings(c.value) \cap A = {}

EvaluateSingle(c, f) ==
    CASE c.target \in BoolTargets -> BoolMatch(c, f[c.target])
      [] c.target \in IntTargets ->
           f[c.target] # NULL /\ IntMatch(c, Int64(c.target, f))
      [] c.target \in StringTargets ->
           IF f[c.target] = NULL THEN c.operator = "neq" ELSE StringMatch(c, f[c.target])
      [] c.target \in ListTargets -> ListMatch(c, f[c.target])

(* Mutant: one condition of a group is enough.                             *)
EvaluateAnyOf(tree, f) ==
    tree.any \/ \E g \in DOMAIN tree.groups : \E i \in DOMAIN tree.groups[g] :
                   EvaluateSingle(tree.groups[g][i], f)

Evaluate(tree, f) ==
    \/ tree.any
    \/ \E g \in DOMAIN tree.groups :
         /\ tree.groups[g] # <<>>
         /\ \A i \in DOMAIN tree.groups[g] : EvaluateSingle(tree.groups[g][i], f)

(* ------------------------------- in SQL -------------------------------- *)

(* SQL's truth values.  A comparison with NULL is NULL; a WHERE keeps the  *)
(* rows for which the clause is true.                                      *)
Truth(p)      == IF p THEN "true" ELSE "false"
Ternary(x, p) == IF x = NULL THEN "null" ELSE Truth(p)
SqlAnd(S) == IF "false" \in S THEN "false" ELSE IF "null" \in S THEN "null" ELSE "true"
SqlOr(S)  == IF "true" \in S THEN "true" ELSE IF "null" \in S THEN "null" ELSE "false"

(* target_expr: FLOOR rounds down; so does \div.                           *)
TargetExpr(t, f) ==
    IF t \in DateTargets /\ f[t] # NULL THEN Hours(t, f) \div 24 ELSE f[t]

(* as_i64().unwrap_or(d), as_str().unwrap_or("").                          *)
IntOr(v, d) == IF IsNum(v) THEN v[2] ELSE d
StrOr(v)    == IF IsStr(v) THEN v[2] ELSE Empty

SqlList(c, A) ==
    CASE c.operator = "eq"     -> Truth(StrOr(c.value) \in A)
      [] c.operator = "in"     -> Truth(Strings(c.value) \cap A # {})
      [] c.operator = "not_in" -> Truth(Strings(c.value) \cap A = {})

SqlScalar(c, x) ==
    CASE c.operator = "eq" ->
           Ternary(x, x = IF IsBool(c.value) \/ IsNum(c.value) THEN c.value[2] ELSE StrOr(c.value))
      [] c.operator = "neq" ->
           IF IsNum(c.value) THEN Ternary(x, x # c.value[2]) ELSE Truth(x # StrOr(c.value))
      [] c.operator \in {"gt", "gte", "lt", "lte"} ->
           Ternary(x, Compare(c.operator, x, IntOr(c.value, 0)))
      [] c.operator = "between" ->
           LET lo == IntOr(c.value, 0)
           IN Ternary(x, x >= lo /\ x <= IntOr(c.end, lo))
      [] c.operator = "contains" -> Ternary(x, <<StrOr(c.value), x>> \in Within)
      [] c.operator = "regex"    -> Ternary(x, <<StrOr(c.value), x>> \in PgMatches)
      [] c.operator = "in" ->
           IF Strings(c.value) = {} THEN "false" ELSE Ternary(x, x \in Strings(c.value))
      [] c.operator = "not_in" ->
           IF Strings(c.value) = {} THEN "true"
           ELSE Truth(x # NULL /\ x \notin Strings(c.value))

BuildCondition(c, f) ==
    IF c.target \in ListTargets THEN SqlList(c, f[c.target])
    ELSE SqlScalar(c, TargetExpr(c.target, f))

BuildGroup(group, f) ==
    IF group = <<>> THEN "false"
    ELSE SqlAnd({BuildCondition(group[i], f) : i \in DOMAIN group})

BuildRuleWhere(tree, f) ==
    IF tree.any THEN "true"
    ELSE IF tree.groups = <<>> THEN "false"
    ELSE SqlOr({BuildGroup(tree.groups[g], f) : g \in DOMAIN tree.groups})

(* ------------------------------- actions ------------------------------- *)

NoRule == [any |-> FALSE, groups |-> <<>>]  \* the default of the column

Init == saved = NoRule /\ facts = NULL

(* role_config_save stores what the validator made of the body, or refuses *)
(* the whole body.                                                         *)
Save(body) ==
    /\ ValidRule(body)
    /\ saved' = ParseRuleTree(body)
    /\ UNCHANGED facts

Refuse(body) == ~ValidRule(body) /\ UNCHANGED vars

(* A recompute writes the member's row or deletes it, and time passes.     *)
Recompute == facts' \in Row \cup {NULL} /\ UNCHANGED saved

Next == (\E body \in Body : Save(body) \/ Refuse(body)) \/ Recompute

Spec == Init /\ [][Next]_vars

(* ------------------------------ properties ----------------------------- *)

(* A stored value has the JSON type its target and operator take.          *)
WellTyped(c) ==
    /\ c.operator \in Operators(c.target)
    /\ c.target \in BoolTargets => c.value = Bool(c.value[2]) /\ c.value[2] \in BOOLEAN
    /\ c.target \in IntTargets =>
         /\ c.value = Num(c.value[2]) /\ c.value[2] \in Int
         /\ c.operator = "between" => c.end = Num(c.end[2]) /\ c.end[2] \in Int
    /\ c.target \in StringTargets \cup ListTargets =>
         IF c.operator \in {"in", "not_in"} THEN c.value = Arr(c.value[2]) /\ c.value[2] # {}
         ELSE c.value = Str(c.value[2]) /\ c.value[2] \in Text

(* The stored tree has groups and conditions within the limits, of the     *)
(* types both evaluators expect: neither ever takes an unwrap_or.          *)
TypeOK ==
    /\ facts \in Row \cup {NULL}
    /\ saved.any \in BOOLEAN
    /\ saved.any => saved.groups = <<>>
    /\ Len(saved.groups) =< MaxGroups
    /\ \A g \in DOMAIN saved.groups :
         /\ Len(saved.groups[g]) \in 1..MaxConditions
         /\ \A i \in DOMAIN saved.groups[g] :
              saved.groups[g][i].target \in Target /\ WellTyped(saved.groups[g][i])

(* Where the two evaluators are known to differ: a date less than a whole  *)
(* number of days on the wrong side of now, a list without strings against *)
(* a NULL column, and a pattern the two regex dialects read differently.   *)
Differs(c, f) ==
    \/ c.target \in DateTargets /\ f[c.target] # NULL
       /\ Hours(c.target, f) < 0 /\ Hours(c.target, f) % 24 # 0
    \/ c.target \in StringTargets /\ c.operator = "not_in"
       /\ f[c.target] = NULL /\ Strings(c.value) = {}
    \/ c.target \in StringTargets /\ c.operator = "regex" /\ f[c.target] # NULL
       /\ ~(<<c.value[2], f[c.target]>> \in Matches <=> <<c.value[2], f[c.target]>> \in PgMatches)

(* rule_sql.rs "pushes the same DNF semantics": a member's own sync and    *)
(* the sync of the whole link decide alike, with three exceptions.         *)
EvaluatorsAgree ==
    facts # NULL =>
      \/ \E g \in DOMAIN saved.groups : \E i \in DOMAIN saved.groups[g] :
            Differs(saved.groups[g][i], facts)
      \/ Evaluate(saved, facts) <=> BuildRuleWhere(saved, facts) = "true"

(* What the editor loads (role_config_data) and saves unchanged is         *)
(* accepted and stored unchanged.                                          *)
ResaveKeepsRule ==
    saved # NoRule => ValidRule(saved) /\ ParseRuleTree(saved) = saved
=============================================================================
