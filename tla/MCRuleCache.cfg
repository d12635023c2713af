CONSTANTS
    r1 = r1
    t1 = t1
    t2 = t2
    l1 = l1
    e1 = e1
    e2 = e2
    Global = Global
    Nil = Nil
    Rules <- OneRule
    Tenants <- TwoTenants
    Loaders <- OneLoader
    Editors <- TwoEditors
    Timeout = 2
    MaxEdits = 2
SPECIFICATION FairSpec
INVARIANTS
    RulesSeen
PROPERTY RulesExpire
CHECK_DEADLOCK FALSE
