--------------------------- MODULE RuleEvalProofs ---------------------------
(* What RuleEval promises for every vocabulary, set of bodies and set of   *)
(* rows: the stored tree is well formed, storing it again changes nothing, *)
(* and the two evaluators agree where the model says they do.              *)
EXTENDS RuleEval, SequenceTheorems, TLAPS

USE DEF Null, Bool, Num, Str, Arr, Bad, IsBool, IsNum, IsStr, IsArr

(* A target has one kind.                                                  *)
LEMMA Kinds ==
    /\ BoolTargets \cap (IntTargets \cup StringTargets \cup ListTargets) = {}
    /\ IntTargets \cap (StringTargets \cup ListTargets) = {}
    /\ StringTargets \cap ListTargets = {}
BY DEF BoolTargets, IntTargets, DateTargets, SinceTargets, StringTargets, ListTargets

(* What normalize_value accepts it would accept again, unchanged.          *)
LEMMA NormalizeTwice ==
    ASSUME NEW t \in Target, NEW op, NEW raw, ValueOK(raw), Normalize(t, op, raw) # Bad
    PROVE  /\ ValueOK(Normalize(t, op, raw))
           /\ Normalize(t, op, Normalize(t, op, raw)) = Normalize(t, op, raw)
<1> DEFINE v == Normalize(t, op, raw)
<1>1. CASE t \in BoolTargets
  <2>1. \A x : Normalize(t, op, x) = NormBool(x)
    BY <1>1, Kinds DEF Normalize
  <2>2. v = Bool(v[2]) /\ v[2] \in BOOLEAN
    BY <2>1, TextAssumption DEF NormBool, ValueOK, ScalarOK
  <2> QED BY <2>1, <2>2 DEF NormBool, ValueOK, ScalarOK
<1>2. CASE t \in IntTargets
  <2>1. \A x : Normalize(t, op, x) = NormInt(x)
    BY <1>2, Kinds DEF Normalize
  <2>2. v = Num(v[2]) /\ v[2] \in Int
    BY <2>1, TextAssumption DEF NormInt, ValueOK, ScalarOK
  <2> QED BY <2>1, <2>2 DEF NormInt, ValueOK, ScalarOK
<1>3. CASE t \in StringTargets \cup ListTargets /\ op \in {"in", "not_in"}
  <2>1. \A x : Normalize(t, op, x) = NormList(x)
    BY <1>3, Kinds DEF Normalize
  <2>2. v = Arr(v[2]) /\ v[2] # {} /\ v[2] \ {Null, Str(Empty)} = v[2]
        /\ \A x \in v[2] : ScalarOK(x)
    BY <2>1, TextAssumption DEF NormList, ValueOK, ScalarOK
  <2>3. NormList(v) = v
    BY <2>2 DEF NormList
  <2> QED BY <2>1, <2>2, <2>3 DEF ValueOK
<1>4. CASE t \in StringTargets /\ op \notin {"in", "not_in"}
  <2>1. \A x : Normalize(t, op, x) = NormString(x)
    BY <1>4, Kinds DEF Normalize
  <2>2. v = Str(v[2]) /\ v[2] \in Text \ Blank
    BY <2>1, TextAssumption DEF NormString, ValueOK, ScalarOK
  <2> QED BY <2>1, <2>2 DEF NormString, ValueOK, ScalarOK
<1>5. CASE t \in ListTargets /\ op \notin {"in", "not_in"}
  <2>1. \A x : Normalize(t, op, x) = NormMember(x)
    BY <1>5, Kinds DEF Normalize
  <2>2. v = Str(v[2]) /\ v[2] \in Text \ Blank
    BY <2>1, TextAssumption DEF NormMember, ValueOK, ScalarOK
  <2> QED BY <2>1, <2>2 DEF NormMember, ValueOK, ScalarOK
<1> QED BY <1>1, <1>2, <1>3, <1>4, <1>5, TextAssumption

(* A stored condition: what the validator returns, and would return again. *)
StoredOK(c) ==
    /\ ValidCondition(c) /\ Stored(c) = c
    /\ ValueOK(c.value) /\ ValueOK(c.end)

LEMMA StoredTwice ==
    ASSUME NEW raw \in RawCondition, ValidCondition(raw)
    PROVE  StoredOK(Stored(raw))
<1> DEFINE c == Stored(raw)
           between == raw.operator = "between"
<1>1. c = Condition(raw.target, raw.operator, c.value, c.end)
      /\ c.target = raw.target /\ c.operator = raw.operator
  BY DEF Stored, Condition
<1>2. c.value = Normalize(raw.target, raw.operator, raw.value) /\ c.value # Bad
  BY DEF Stored, Condition, ValidCondition
<1>3. c.end = IF between THEN Normalize(raw.target, raw.operator, raw.end) ELSE Null
  BY DEF Stored, Condition
<1>4. raw.target \in Target /\ raw.operator \in Operators(raw.target)
  BY DEF ValidCondition
<1>5. ValueOK(raw.value) /\ ValueOK(raw.end)
  BY BodyAssumption
<1>6. /\ ValueOK(c.value)
      /\ Normalize(c.target, c.operator, c.value) = c.value
  BY <1>1, <1>2, <1>4, <1>5, NormalizeTwice
<1>7. CASE between
  <2>1. Normalize(raw.target, raw.operator, raw.end) # Bad
    BY <1>7 DEF ValidCondition
  <2>2. ValueOK(c.end) /\ Normalize(c.target, c.operator, c.end) = c.end /\ c.end # Bad
    BY <1>1, <1>3, <1>4, <1>5, <1>7, <2>1, NormalizeTwice
  <2>3. c.end # Null
    <3>1. raw.target \in IntTargets
      BY <1>4, <1>7, TextAssumption, Kinds DEF Operators
    <3>2. c.end = NormInt(raw.end)
      BY <1>3, <1>7, <3>1, Kinds DEF Normalize
    <3> QED BY <2>2, <3>2 DEF NormInt
  <2>4. Stored(c) = c
    BY <1>1, <1>6, <1>7, <2>2 DEF Stored
  <2>5. ValidCondition(c)
    BY <1>1, <1>2, <1>4, <1>6, <1>7, <2>2, <2>3 DEF ValidCondition
  <2> QED BY <1>6, <2>2, <2>4, <2>5 DEF StoredOK
<1>8. CASE ~between
  <2>1. c.end = Null /\ ValueOK(c.end)
    BY <1>3, <1>8 DEF ValueOK, ScalarOK
  <2>2. Stored(c) = c
    BY <1>1, <1>6, <1>8, <2>1 DEF Stored
  <2>3. ValidCondition(c)
    BY <1>1, <1>2, <1>4, <1>6, <1>8 DEF ValidCondition
  <2> QED BY <1>6, <2>1, <2>2, <2>3 DEF StoredOK
<1> QED BY <1>7, <1>8

LEMMA StoredIsWellTyped ==
    ASSUME NEW c, StoredOK(c)
    PROVE  c.target \in Target /\ WellTyped(c)
<1>1. /\ c.target \in Target /\ c.operator \in Operators(c.target)
      /\ ValueOK(c.value) /\ ValueOK(c.end)
      /\ c.value = Normalize(c.target, c.operator, c.value) /\ c.value # Bad
  BY DEF StoredOK, ValidCondition, Stored, Condition
<1>2. CASE c.target \in BoolTargets
  <2>1. c.value = NormBool(c.value)
    BY <1>1, <1>2, Kinds DEF Normalize
  <2>2. c.value = Bool(c.value[2]) /\ c.value[2] \in BOOLEAN
    BY <1>1, <2>1, TextAssumption DEF NormBool, ValueOK, ScalarOK
  <2> QED BY <1>1, <1>2, <2>2, Kinds DEF WellTyped
<1>3. CASE c.target \in IntTargets
  <2>1. c.value = NormInt(c.value)
    BY <1>1, <1>3, Kinds DEF Normalize
  <2>2. c.value = Num(c.value[2]) /\ c.value[2] \in Int
    BY <1>1, <2>1, TextAssumption DEF NormInt, ValueOK, ScalarOK
  <2>3. ASSUME c.operator = "between"
        PROVE  c.end = Num(c.end[2]) /\ c.end[2] \in Int
    <3>1. c.end = Normalize(c.target, c.operator, c.end) /\ c.end # Bad
      BY <2>3 DEF StoredOK, ValidCondition, Stored, Condition
    <3>2. c.end = NormInt(c.end)
      BY <1>3, <3>1, Kinds DEF Normalize
    <3> QED BY <1>1, <3>1, <3>2, TextAssumption DEF NormInt, ValueOK, ScalarOK
  <2> QED BY <1>1, <1>3, <2>2, <2>3, Kinds DEF WellTyped
<1>4. CASE c.target \in StringTargets \cup ListTargets /\ c.operator \in {"in", "not_in"}
  <2>1. c.value = NormList(c.value)
    BY <1>1, <1>4, Kinds DEF Normalize
  <2>2. c.value = Arr(c.value[2]) /\ c.value[2] # {}
    BY <1>1, <2>1 DEF NormList
  <2> QED BY <1>1, <1>4, <2>2, Kinds DEF WellTyped
<1>5. CASE c.target \in StringTargets \cup ListTargets /\ c.operator \notin {"in", "not_in"}
  <2>1. c.value = NormString(c.value) \/ c.value = NormMember(c.value)
    BY <1>1, <1>5, Kinds DEF Normalize
  <2>2. c.value = Str(c.value[2]) /\ c.value[2] \in Text
    BY <1>1, <2>1, TextAssumption DEF NormString, NormMember, ValueOK, ScalarOK
  <2> QED BY <1>1, <1>5, <2>2, Kinds DEF WellTyped
<1> QED BY <1>1, <1>2, <1>3, <1>4, <1>5, TextAssumption

(* Rounding towards zero and rounding down differ only below zero, and     *)
(* there only between two whole days.                                      *)
LEMMA DaysAgree ==
    ASSUME NEW h \in Int, h >= 0 \/ h % 24 = 0
    PROVE  NumDays(h) = h \div 24 /\ NumDays(h) \in Int
BY DEF NumDays

(* One stored condition, one row: the two evaluators agree unless Differs. *)
LEMMA ConditionsAgree ==
    ASSUME NEW c, StoredOK(c), NEW f \in Row, ~Differs(c, f)
    PROVE  EvaluateSingle(c, f) <=> BuildCondition(c, f) = "true"
<1> DEFINE t == c.target
           x == TargetExpr(t, f)
<1>1. t \in Target /\ WellTyped(c)
  BY StoredIsWellTyped
<1>2. CASE t \in BoolTargets
  <2>1. c.operator = "eq" /\ c.value = Bool(c.value[2]) /\ c.value[2] \in BOOLEAN
    BY <1>1, <1>2, Kinds DEF WellTyped, Operators
  <2>2. f[t] \in BOOLEAN /\ f[t] # NULL
    BY <1>1, <1>2, RowAssumption, Kinds DEF IntTargets
  <2>3. x = f[t] /\ BuildCondition(c, f) = SqlScalar(c, f[t])
    BY <1>2, Kinds DEF TargetExpr, BuildCondition, IntTargets
  <2>4. EvaluateSingle(c, f) <=> f[t] = c.value[2]
    <3>1. EvaluateSingle(c, f) <=> BoolMatch(c, f[t])
      BY <1>2, Kinds DEF EvaluateSingle
    <3>2. c.value[1] = "bool"
      BY <2>1
    <3> QED BY <2>1, <3>1, <3>2 DEF BoolMatch
  <2>5. SqlScalar(c, f[t]) = Truth(f[t] = c.value[2])
    BY <2>1, <2>2 DEF SqlScalar, Ternary
  <2> QED BY <2>3, <2>4, <2>5 DEF Truth
<1>3. CASE t \in IntTargets
  <2>1. /\ c.operator \in {"eq", "neq", "gt", "gte", "lt", "lte", "between"}
        /\ c.value = Num(c.value[2]) /\ c.value[2] \in Int
        /\ c.operator = "between" => c.end = Num(c.end[2]) /\ c.end[2] \in Int
    BY <1>1, <1>3, Kinds DEF WellTyped, Operators
  <2>2. BuildCondition(c, f) = SqlScalar(c, x)
    BY <1>3, Kinds DEF BuildCondition
  <2>3. EvaluateSingle(c, f) <=> f[t] # NULL /\ IntMatch(c, Int64(t, f))
    BY <1>3, Kinds DEF EvaluateSingle
  <2>4. CASE f[t] = NULL
    BY <2>1, <2>2, <2>3, <2>4 DEF TargetExpr, SqlScalar, Ternary, Truth
  <2>5. CASE f[t] # NULL
    <3>1. f[t] \in Int
      BY <1>1, <1>3, <2>5, RowAssumption, Kinds
    <3>2. x = Int64(t, f) /\ x \in Int
      <4>1. CASE t \in DateTargets
        <5>1. Hours(t, f) \in Int /\ (Hours(t, f) >= 0 \/ Hours(t, f) % 24 = 0)
          BY <2>5, <3>1, <4>1 DEF Hours, Differs
        <5> QED BY <2>5, <4>1, <5>1, DaysAgree DEF TargetExpr, Int64
      <4>2. CASE t \notin DateTargets
        BY <3>1, <4>2 DEF TargetExpr, Int64
      <4> QED BY <4>1, <4>2
    <3>3. x # NULL
      BY <3>2, RowAssumption
    <3>4. CASE c.operator = "between"
      BY <2>1, <2>2, <2>3, <2>5, <3>2, <3>3, <3>4
      DEF IntMatch, SqlScalar, Ternary, Truth, IntOr
    <3>5. CASE c.operator # "between"
      <4>1. EvaluateSingle(c, f) <=> Compare(c.operator, x, c.value[2])
        BY <2>1, <2>3, <2>5, <3>2, <3>5 DEF IntMatch
      <4>2. SqlScalar(c, x) = Truth(Compare(c.operator, x, c.value[2]))
        <5>1. IsNum(c.value) /\ IntOr(c.value, 0) = c.value[2]
          BY <2>1 DEF IntOr
        <5>2. CASE c.operator = "eq"
          BY <3>3, <5>1, <5>2 DEF SqlScalar, Ternary, Truth, Compare
        <5>3. CASE c.operator = "neq"
          BY <3>3, <5>1, <5>3 DEF SqlScalar, Ternary, Truth, Compare
        <5>4. CASE c.operator \in {"gt", "gte", "lt", "lte"}
          BY <3>3, <5>1, <5>4 DEF SqlScalar, Ternary
        <5> QED BY <2>1, <3>5, <5>2, <5>3, <5>4
      <4> QED BY <2>2, <4>1, <4>2 DEF Truth
    <3> QED BY <3>4, <3>5
  <2> QED BY <2>4, <2>5
<1>4. CASE t \in StringTargets
  <2>1. /\ c.operator \in {"eq", "neq", "contains", "regex", "in", "not_in"}
        /\ c.operator \notin {"in", "not_in"} => c.value = Str(c.value[2]) /\ c.value[2] \in Text
    BY <1>1, <1>4, Kinds DEF WellTyped, Operators
  <2>2. x = f[t] /\ BuildCondition(c, f) = SqlScalar(c, f[t])
    BY <1>4, Kinds DEF TargetExpr, BuildCondition, IntTargets
  <2>3. NULL \notin Text
    BY RowAssumption
  <2>4. CASE f[t] = NULL
    <3>1. EvaluateSingle(c, f) <=> c.operator = "neq"
      BY <1>4, <2>4, Kinds DEF EvaluateSingle
    <3>2. c.operator = "not_in" => Strings(c.value) # {}
      BY <1>4, <2>4 DEF Differs
    <3> QED BY <2>1, <2>2, <2>3, <2>4, <3>1, <3>2 DEF SqlScalar, Ternary, Truth, StrOr
  <2>5. CASE f[t] # NULL
    <3>1. EvaluateSingle(c, f) <=> StringMatch(c, f[t])
      BY <1>4, <2>5, Kinds DEF EvaluateSingle
    <3>2. c.operator = "regex" =>
            (<<c.value[2], f[t]>> \in Matches <=> <<c.value[2], f[t]>> \in PgMatches)
      BY <1>4, <2>5 DEF Differs
    <3>3. CASE c.operator \in {"eq", "neq", "contains", "regex"}
      <4>1. IsStr(c.value) /\ ~IsBool(c.value) /\ ~IsNum(c.value) /\ StrOr(c.value) = c.value[2]
        BY <2>1, <3>3 DEF StrOr
      <4> QED BY <2>2, <2>5, <3>1, <3>2, <3>3, <4>1 DEF StringMatch, SqlScalar, Ternary, Truth
    <3>4. CASE c.operator = "in"
      BY <2>2, <2>5, <3>1, <3>4 DEF StringMatch, SqlScalar, Ternary, Truth
    <3>5. CASE c.operator = "not_in"
      BY <2>2, <2>5, <3>1, <3>5 DEF StringMatch, SqlScalar, Ternary, Truth
    <3> QED BY <2>1, <3>3, <3>4, <3>5
  <2> QED BY <2>4, <2>5
<1>5. CASE t \in ListTargets
  <2>1. /\ c.operator \in {"eq", "in", "not_in"}
        /\ c.operator = "eq" => c.value = Str(c.value[2])
    BY <1>1, <1>5, Kinds DEF WellTyped, Operators
  <2>2. /\ BuildCondition(c, f) = SqlList(c, f[t])
        /\ EvaluateSingle(c, f) <=> ListMatch(c, f[t])
    BY <1>5, Kinds DEF BuildCondition, EvaluateSingle
  <2>3. CASE c.operator = "eq"
    <3>1. IsStr(c.value) /\ StrOr(c.value) = c.value[2]
      BY <2>1, <2>3 DEF StrOr
    <3> QED BY <2>2, <2>3, <3>1 DEF SqlList, ListMatch, Truth
  <2>4. CASE c.operator = "in"
    BY <2>2, <2>4 DEF SqlList, ListMatch, Truth
  <2>5. CASE c.operator = "not_in"
    BY <2>2, <2>5 DEF SqlList, ListMatch, Truth
  <2> QED BY <2>1, <2>3, <2>4, <2>5
<1> QED BY <1>1, <1>2, <1>3, <1>4, <1>5, TextAssumption

LEMMA ConditionIsTernary ==
    ASSUME NEW c, StoredOK(c), NEW f
    PROVE  BuildCondition(c, f) \in {"true", "false", "null"}
<1>1. c.target \in Target /\ c.operator \in Operators(c.target)
  BY StoredIsWellTyped DEF WellTyped
<1>2. c.target \in ListTargets => c.operator \in {"eq", "in", "not_in"}
  BY <1>1, Kinds DEF Operators
<1>3. c.target \notin ListTargets =>
        c.operator \in {"eq", "neq", "gt", "gte", "lt", "lte", "between", "contains", "regex",
                       "in", "not_in"}
  BY <1>1, Kinds, TextAssumption DEF Operators
<1>4. CASE c.target \in ListTargets
  BY <1>2, <1>4 DEF BuildCondition, SqlList, Truth
<1>5. CASE c.target \notin ListTargets
  BY <1>3, <1>5 DEF BuildCondition, SqlScalar, Ternary, Truth
<1> QED BY <1>4, <1>5

(* The stored tree: the sequences that parse_rule_tree builds.             *)
StoredCondition == {Stored(raw) : raw \in RawCondition}

IInv ==
    /\ facts \in Row \cup {NULL}
    /\ saved \in [any : BOOLEAN, groups : Seq(Seq(StoredCondition))]
    /\ saved.any => saved.groups = <<>>
    /\ Len(saved.groups) =< MaxGroups
    /\ \A g \in DOMAIN saved.groups :
         /\ Len(saved.groups[g]) \in 1..MaxConditions
         /\ \A i \in DOMAIN saved.groups[g] : StoredOK(saved.groups[g][i])

LEMMA InitInv == Init => IInv
<1> SUFFICES ASSUME Init PROVE IInv
  OBVIOUS
<1>1. saved = [any |-> FALSE, groups |-> <<>>] /\ facts = NULL
  BY DEF Init, NoRule
<1>2. <<>> \in Seq(Seq(StoredCondition)) /\ Len(<<>>) = 0 /\ DOMAIN <<>> = {}
  OBVIOUS
<1> QED BY <1>1, <1>2, TextAssumption DEF IInv

LEMMA SaveInv ==
    ASSUME IInv, NEW body \in Body, Save(body)
    PROVE  IInv'
<1>1. /\ body.any \in BOOLEAN /\ body.groups \in Seq(Seq(RawCondition))
      /\ saved' = ParseRuleTree(body) /\ facts' = facts /\ ValidRule(body)
  BY BodyAssumption DEF Save
<1>2. CASE body.any
  <2>1. saved' = [any |-> TRUE, groups |-> <<>>]
    BY <1>1, <1>2 DEF ParseRuleTree
  <2>2. <<>> \in Seq(Seq(StoredCondition)) /\ Len(<<>>) = 0 /\ DOMAIN <<>> = {}
    OBVIOUS
  <2> QED BY <1>1, <2>1, <2>2, TextAssumption DEF IInv
<1>3. CASE ~body.any
  <2> DEFINE gs == body.groups
             group(g) == StoredGroup(gs[g])
             stored == [g \in DOMAIN gs |-> group(g)]
  <2>1. saved' = [any |-> FALSE, groups |-> stored]
    BY <1>1, <1>3 DEF ParseRuleTree
  <2>2. Len(gs) \in 1..MaxGroups /\ DOMAIN gs = 1..Len(gs)
    BY <1>1, <1>3 DEF ValidRule
  <2>3. ASSUME NEW g \in DOMAIN gs
        PROVE  /\ group(g) \in Seq(StoredCondition)
               /\ Len(group(g)) \in 1..MaxConditions
               /\ DOMAIN group(g) = DOMAIN gs[g]
               /\ \A i \in DOMAIN gs[g] : StoredOK(group(g)[i])
    <3>1. gs[g] \in Seq(RawCondition) /\ Len(gs[g]) \in 1..MaxConditions
          /\ DOMAIN gs[g] = 1..Len(gs[g])
      BY <1>1, <1>3, <2>3 DEF ValidRule
    <3>2. group(g) = [i \in 1..Len(gs[g]) |-> Stored(gs[g][i])]
      BY <3>1 DEF StoredGroup
    <3>3. \A i \in 1..Len(gs[g]) : Stored(gs[g][i]) \in StoredCondition
      BY <3>1 DEF StoredCondition
    <3>4. group(g) \in Seq(StoredCondition) /\ Len(group(g)) = Len(gs[g])
      BY <3>1, <3>2, <3>3
    <3>5. \A i \in DOMAIN gs[g] : StoredOK(Stored(gs[g][i]))
      BY <1>1, <1>3, <2>3, <3>1, StoredTwice DEF ValidRule
    <3> QED BY <3>1, <3>2, <3>4, <3>5
  <2>4. stored \in Seq(Seq(StoredCondition)) /\ Len(stored) = Len(gs) /\ DOMAIN stored = DOMAIN gs
    <3> HIDE DEF group
    <3> QED BY <2>2, <2>3
  <2> HIDE DEF stored
  <2>5. \A g \in DOMAIN gs : stored[g] = group(g)
    BY DEF stored
  <2> HIDE DEF group
  <2>6. saved'.any = FALSE /\ saved'.groups = stored
    BY <2>1
  <2>7. saved' \in [any : BOOLEAN, groups : Seq(Seq(StoredCondition))]
    BY <2>1, <2>4
  <2>8. ASSUME NEW g \in DOMAIN stored
        PROVE  /\ Len(stored[g]) \in 1..MaxConditions
               /\ \A i \in DOMAIN stored[g] : StoredOK(stored[g][i])
    BY <2>3, <2>4, <2>5
  <2>9. Len(stored) =< MaxGroups
    BY <2>2, <2>4, TextAssumption
  <2>10. facts' \in Row \cup {NULL}
    BY <1>1 DEF IInv
  <2> QED BY <2>6, <2>7, <2>8, <2>9, <2>10 DEF IInv
<1> QED BY <1>1, <1>2, <1>3

LEMMA NextInv == IInv /\ [Next]_vars => IInv'
<1> SUFFICES ASSUME IInv, [Next]_vars PROVE IInv'
  OBVIOUS
<1>1. CASE \E body \in Body : Save(body)
  BY <1>1, SaveInv
<1>2. CASE \E body \in Body : Refuse(body)
  BY <1>2 DEF Refuse, vars, IInv
<1>3. CASE Recompute
  BY <1>3 DEF Recompute, IInv
<1>4. CASE UNCHANGED vars
  BY <1>4 DEF vars, IInv
<1> QED BY <1>1, <1>2, <1>3, <1>4 DEF Next

LEMMA Invariance == Spec => []IInv
BY InitInv, NextInv, PTL DEF Spec

(* The validator stores only trees within the limits whose values have the *)
(* types both evaluators expect.                                           *)
THEOREM TypeCorrect == Spec => []TypeOK
<1>1. IInv => TypeOK
  BY StoredIsWellTyped DEF IInv, TypeOK
<1> QED BY <1>1, Invariance, PTL

(* Loading a rule into the editor and saving it again changes nothing.     *)
THEOREM Resave == Spec => []ResaveKeepsRule
<1>1. IInv => ResaveKeepsRule
  <2> SUFFICES ASSUME IInv, saved # NoRule
               PROVE  ValidRule(saved) /\ ParseRuleTree(saved) = saved
    BY DEF ResaveKeepsRule
  <2>1. saved = [any |-> saved.any, groups |-> saved.groups] /\ saved.any \in BOOLEAN
    BY DEF IInv
  <2>2. CASE saved.any
    BY <2>1, <2>2 DEF IInv, ValidRule, ParseRuleTree
  <2>3. CASE ~saved.any
    <3>1. saved.groups # <<>>
      BY <2>1, <2>3 DEF NoRule
    <3>2. saved.groups \in Seq(Seq(StoredCondition)) /\ Len(saved.groups) \in 1..MaxGroups
      BY <3>1, TextAssumption DEF IInv
    <3>3. ValidRule(saved)
      BY <3>2 DEF IInv, ValidRule, StoredOK
    <3>4. \A g \in DOMAIN saved.groups : StoredGroup(saved.groups[g]) = saved.groups[g]
      BY <3>2 DEF IInv, StoredOK, StoredGroup
    <3>5. [g \in DOMAIN saved.groups |-> StoredGroup(saved.groups[g])] = saved.groups
      BY <3>2, <3>4
    <3> QED BY <2>1, <2>3, <3>3, <3>5 DEF ParseRuleTree
  <2> QED BY <2>1, <2>2, <2>3
<1> QED BY <1>1, Invariance, PTL

(* sync_for_player and sync_for_role_link decide alike for every rule the  *)
(* validator accepts and every row, except where Differs says otherwise.   *)
THEOREM Agreement == Spec => []EvaluatorsAgree
<1>1. IInv => EvaluatorsAgree
  <2> DEFINE same(c) == EvaluateSingle(c, facts) <=> BuildCondition(c, facts) = "true"
             gs == saved.groups
  <2> SUFFICES ASSUME IInv, facts # NULL,
                      \A g \in DOMAIN gs : \A i \in DOMAIN gs[g] : ~Differs(gs[g][i], facts)
               PROVE  Evaluate(saved, facts) <=> BuildRuleWhere(saved, facts) = "true"
    BY DEF EvaluatorsAgree
  <2>1. facts \in Row /\ gs \in Seq(Seq(StoredCondition)) /\ saved.any \in BOOLEAN
    BY DEF IInv
  <2>2. \A g \in DOMAIN gs : \A i \in DOMAIN gs[g] :
          /\ EvaluateSingle(gs[g][i], facts) <=> BuildCondition(gs[g][i], facts) = "true"
          /\ BuildCondition(gs[g][i], facts) \in {"true", "false", "null"}
    BY <2>1, ConditionsAgree, ConditionIsTernary DEF IInv
  <2>3. ASSUME NEW g \in DOMAIN gs
        PROVE  /\ gs[g] # <<>>
               /\ BuildGroup(gs[g], facts) = "true"
                    <=> \A i \in DOMAIN gs[g] : EvaluateSingle(gs[g][i], facts)
    <3>1. gs[g] # <<>>
      BY <2>1, <2>3 DEF IInv
    <3> DEFINE S == {BuildCondition(gs[g][i], facts) : i \in DOMAIN gs[g]}
    <3>2. S \subseteq {"true", "false", "null"}
      BY <2>2, <2>3
    <3>3. SqlAnd(S) = "true" <=> \A v \in S : v = "true"
      BY <3>2 DEF SqlAnd
    <3> QED BY <2>2, <2>3, <3>1, <3>3 DEF BuildGroup
  <2>4. CASE saved.any
    BY <2>4 DEF Evaluate, BuildRuleWhere
  <2>5. CASE ~saved.any /\ gs = <<>>
    BY <2>5 DEF Evaluate, BuildRuleWhere
  <2>6. CASE ~saved.any /\ gs # <<>>
    <3> DEFINE S == {BuildGroup(gs[g], facts) : g \in DOMAIN gs}
    <3>1. BuildRuleWhere(saved, facts) = "true" <=> "true" \in S
      BY <2>6 DEF BuildRuleWhere, SqlOr
    <3>2. "true" \in S <=> \E g \in DOMAIN gs : BuildGroup(gs[g], facts) = "true"
      OBVIOUS
    <3> QED BY <2>3, <2>6, <3>1, <3>2 DEF Evaluate
  <2> QED BY <2>1, <2>4, <2>5, <2>6
<1> QED BY <1>1, Invariance, PTL
=============================================================================
