SPECIFICATION ControlSpec
CONSTANTS
    Request = {1, 2, 3, 4}
    LimitRead = {1, 2}
    WorkflowId = {"w1", "w2", "w3", "w4"}
    WorkflowName = {"n1", "n2", "copy"}
    CopyOf <- MCCopyOf
    Definition = {"d0", "d1", "d2", "d3"}
    InitialWorkflow <- MCInitialWorkflow
    InitialVersion <- MCInitialVersion
    WorkflowMix <- MCWorkflowMix
    ResourceId = {1, 2, 3, 4, 5}
    Org = {"o1", "o2"}
    ResourceName = {"n1", "n2", "n3"}
    Earlier = 0
    InitialResource <- MCInitialResource
    ResourceMix <- MCResourceMix
    PluginId = {1, 2, 3, 4, 5}
    EntryId = {1, 2}
    Owner = {"o1", "o2"}
    PluginName = {"n1", "n2", "n3"}
    Object = {"f1", "f2"}
    Elsewhere = "elsewhere"
    InitialPlugin <- MCInitialPlugin
    InitialEntry <- MCInitialEntry
    InitialBucket = {"f1"}
    PluginMix <- MCPluginMix
    Person = {"a", "b"}
    InitialRole <- MCInitialRole
    CacheTtl = 1
    MaxTicks = 2
    MaxChanges = 1
    Becomes = {"none", "admin"}
    AccessMix <- MCAccessMix
    Service = {"github"}
    Flow = {1, 2}
    Nobody = 0
    OauthMix <- MCOauthMix
    Workflow = {"w1", "w2"}
    Home = {"w1"}
    Nowhere = "nowhere"
    MaxRecords = 2
    QuotaMix <- MCQuotaMix
INVARIANT RevertNonDestructive
\* The requests are all served in the end.
CHECK_DEADLOCK FALSE
