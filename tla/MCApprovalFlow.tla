--------------------------- MODULE MCApprovalFlow ---------------------------
(***************************************************************************)
(* A small instance of ApprovalFlow: one persona with a low and a high      *)
(* fact, one recipient, and one request for the high one.                   *)
(***************************************************************************)
EXTENDS ApprovalFlow, TLC

Pants  == <<"pants">>
Budget == <<"budget">>

MCKeys         == {Pants, Budget}
MCLegacyKeyMap == [k \in {} |-> k]
MCPersonaOrder == <<"shopper">>
MCSelects      == [s \in {"shopping"} |-> {"shopper"}]

LowPants   == [key |-> Pants, value |-> "32", sensitivity |-> "low"]
HighBudget == [key |-> Budget, value |-> "500", sensitivity |-> "high"]

FindItem == [category |-> "shopping", action |-> "find_item"]
Wants(k) == [selector |-> "shopping", domain |-> "shop.example", purpose |-> FindItem,
             fields |-> {[path |-> k, wild |-> FALSE]}]
MCRequests == {Wants(Budget)}
MCRuleOffers == {[domain |-> "shop.example", purpose |-> FindItem,
                  maxSensitivity |-> "high", allowedFields |-> {}]}
MCFactLists == {<<LowPants, HighBudget>>, <<[HighBudget EXCEPT !.sensitivity = "low"]>>}

MCInitialVaults ==
  {[posture |-> "simple_lock", rules |-> {}, queue |-> {}, audit |-> {},
    personas |-> [p \in Personas |->
      [settings |-> [visible |-> TRUE, autoRelease |-> "follow_posture"],
       facts |-> <<LowPants, HighBudget>>]]]}
=============================================================================
