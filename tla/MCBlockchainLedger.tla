------------------------- MODULE MCBlockchainLedger -------------------------
(* Instances of BlockchainLedger for TLC *)
EXTENDS BlockchainLedger

MCPayloads == { [source |-> "cash",  dest |-> "sales", amount |-> 5],
                [source |-> "sales", dest |-> "cash",  amount |-> 5],
                [source |-> "cash",  dest |-> "sales", amount |-> NotFinite] }

MCOnePayload == { [source |-> "cash", dest |-> "sales", amount |-> 5] }

MCNewRules == { [ruleId |-> "RULE_002", priority |-> 95],
                [ruleId |-> "RULE_004", priority |-> 10] }

MCNoRules == {}
=============================================================================
