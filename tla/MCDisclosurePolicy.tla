------------------------- MODULE MCDisclosurePolicy -------------------------
(***************************************************************************)
(* The plugin's decision over a table of bounded inputs: every posture, two *)
(* personas, up to two facts with a legacy spelling among their keys and    *)
(* labels that agree or not, and a rule that may be dead, stricter, limited *)
(* to some fields or for another purpose.                                   *)
(***************************************************************************)
EXTENDS DisclosureCall, TLC

Pants  == <<"apparel", "pants">>
Waist  == <<"waist_size">>       \* a legacy spelling of Pants
Budget == <<"budget">>
Shirt  == <<"apparel", "shirt">>

MCKeys         == {Pants, Waist, Budget, Shirt, <<"apparel">>}
MCLegacyKeyMap == [k \in {Waist} |-> Pants]
MCSelects      == [s \in {"shopping"} |-> {"p1", "p2"}] @@ [s \in {"travel"} |-> {"p2"}]
MCPersonaOrder == <<"p1", "p2">>

TableFacts     == [key : {Pants, Waist, Budget}, value : Values, sensitivity : {"low", "high"}]
TableFactLists == {<<>>} \cup [1..1 -> TableFacts] \cup [1..2 -> TableFacts]
TableFields == {{}, {[path |-> <<"apparel">>, wild |-> TRUE]},
                {[path |-> Waist, wild |-> FALSE]},
                {[path |-> Budget, wild |-> TRUE], [path |-> Waist, wild |-> TRUE]},
                {[path |-> <<"apparel">>, wild |-> FALSE]}}
TablePurposes == {[category |-> "shopping", action |-> "find_item"],
                  [category |-> "shopping", action |-> "checkout"]}

\* The clock reads 1: a rule that expires at 0 is dead, one at 1 is not.
TableRules ==
  [id : {1}, domain : {"d"}, purpose : TablePurposes, maxSensitivity : {"low", "unlabelled", "high"},
   allowedFields : {{}, {[path |-> <<"apparel">>, wild |-> TRUE]}},
   expires : {NoDate, 0, 1}, enabled : BOOLEAN]

Shopper(visible, auto, facts) ==
  [settings |-> [visible |-> visible, autoRelease |-> auto], facts |-> facts]

Traveller == Shopper(TRUE, "follow_posture",
                     <<[key |-> Shirt, value |-> CHOOSE v \in Values : TRUE,
                        sensitivity |-> "low"]>>)

MCVaults ==
  {[posture |-> p, rules |-> {},
    personas |-> [x \in Personas |-> IF x = "p1" THEN Shopper(visible, auto, facts) ELSE Traveller]] :
     p \in Postures, visible \in BOOLEAN, auto \in AutoRelease, facts \in TableFactLists}

MCRules    == {{}} \cup {{r} : r \in TableRules}
MCRequests ==
  {[selector |-> "shopping", domain |-> "d", fields |-> fields,
    purpose |-> [category |-> "shopping", action |-> "find_item"]] : fields \in TableFields}
=============================================================================
