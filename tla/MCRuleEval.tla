----------------------------- MODULE MCRuleEval -----------------------------
(* A small vocabulary, one target of each kind, and the bodies and rows    *)
(* that tell the cases of the validator and the evaluators apart.          *)
EXTENDS RuleEval, TLC

MCTarget == {"has_active_subscription", "plan_amount", "customer_age_days",
             "days_until_renewal", "country_code", "subscribed_to_product"}
MCText   == {"", " ", "1", "1.5", "yes", "true", "d", "de", "fr", "de,fr", "d+"}
MCBlank  == {"", " "}
MCBoolOf == "1" :> TRUE @@ "yes" :> TRUE @@ "true" :> TRUE
MCIntOf  == "1" :> 1
MCParts  == [s \in MCText |-> CASE s \in MCBlank -> {}
                                [] s = "de,fr"   -> {"de", "fr"}
                                [] OTHER         -> {s}]
MCWritten == Num(1) :> "1" @@ <<"dec", 1>> :> "1.5" @@ Bool(TRUE) :> "true"
MCWithin  == {<<s, s>> : s \in MCText} \cup {<<"d", "de">>, <<"de", "de,fr">>}
\* "+" alone repeats in one dialect only.
MCMatches   == MCWithin \cup {<<"d+", "de">>}
MCPgMatches == MCWithin
MCCompiles  == MCText \ {"de,fr"}

Arrays == {Arr({}), Arr({Null, Str("")}), Arr({Str(" ")}), Arr({Num(1)}), Arr({Str("de")}),
           Arr({Str("de"), Str("fr")}), Arr({Str("de"), Num(1), Null})}
Raws == {Null, Bool(TRUE), Num(1), Num(0), <<"dec", 1>>} \cup {Str(s) : s \in MCText} \cup Arrays

AllOperators == {"eq", "neq", "gt", "gte", "lt", "lte", "between", "contains", "regex", "in",
                 "not_in"}
\* Conditions that meet in one group, or in two.
Few == {Condition("has_active_subscription", "eq", Bool(TRUE), Null),
        Condition("customer_age_days", "gte", Num(1), Null),
        Condition("country_code", "neq", Str("de"), Null),
        Condition("country_code", "not_in", Arr({Str("de")}), Null),
        Condition("subscribed_to_product", "in", Str("de,fr"), Null),
        Condition("plan_amount", "gt", Str("de"), Null)}

MCRawCondition ==
    {Condition(t, op, v, Null) : t \in MCTarget \cup {"no_such_target"}, op \in AllOperators, v \in Raws}
    \cup {Condition("plan_amount", "between", v, e) : v \in {Num(0), Num(1), Str("1")}, e \in Raws}
    \cup {Condition("days_until_renewal", "between", Num(0), Num(1))} \cup Few

Tree(gs) == [any |-> FALSE, groups |-> gs]
MCBody ==
    {[any |-> TRUE, groups |-> <<>>], [any |-> TRUE, groups |-> <<<<>>>>], Tree(<<>>), Tree(<<<<>>>>)}
    \cup {Tree(<<<<c>>>>) : c \in MCRawCondition}
    \cup {Tree(<<<<c, d>>>>) : c, d \in Few} \cup {Tree(<<<<c>>, <<d>>>>) : c, d \in Few}
    \cup {Tree(<<<<c, c>>, <<d>>>>) : c, d \in Few}
    \cup {Tree(<<<<c>>, <<c>>, <<c>>>>) : c \in Few} \cup {Tree(<<<<c, c, c>>>>) : c \in Few}
    \cup {Tree(<<<<c>>, <<>>>>) : c \in Few}

\* Dates: none, past, future, and a whole day either way.
MCRow == {[t \in MCTarget |->
            CASE t = "has_active_subscription" -> n = 1 [] t = "plan_amount" -> n
              [] t = "country_code" -> s
              [] t = "subscribed_to_product" -> IF n = 1 THEN {} ELSE {"fr", "d"}
              [] t = "customer_age_days" -> d[1] [] t = "days_until_renewal" -> d[2]] :
          n \in {0, 1}, s \in {NULL, "de", "fr"},
          d \in {<<NULL, NULL>>, <<-36, -12>>, <<12, 36>>, <<24, -24>>}}
=============================================================================
