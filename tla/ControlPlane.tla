---------------------------- MODULE ControlPlane ----------------------------
(***************************************************************************)
(* What an organization configures, served by one API: its workflows, its  *)
(* other resources, its plugins, its OAuth connections and its executions  *)
(* under one plan, and who may do so.  The parts share the plan but no     *)
(* variable (a deleted workflow is an action of the executions' part too), *)
(* so the composition lets the requests of one part meet at a time.  The   *)
(* order authorize, then serve, is in each part: a request that is refused *)
(* changes nothing.                                                        *)
(***************************************************************************)
EXTENDS WorkflowStore, ResourceStore, PluginRegistry, AccessControl,
        OAuthConnection, ExecutionQuota

\* What the mix of a part holds while another part is busy.
Idle(mix) == {asks \in mix : \A r \in Request : asks[r].op = "none"}
IdleWorkflow == Idle(WorkflowMix)
IdleResource == Idle(ResourceMix)
IdlePlugin == Idle(PluginMix)
IdleAccess == Idle(AccessMix)
IdleOauth == Idle(OauthMix)
IdleQuota == Idle(QuotaMix)

ControlInit ==
    /\ \E busy \in {"workflow", "resource", "plugin", "access", "oauth",
                 "quota"} :
         /\ wreq \in IF busy = "workflow" THEN WorkflowMix ELSE IdleWorkflow
         /\ rreq \in IF busy = "resource" THEN ResourceMix ELSE IdleResource
         /\ preq \in IF busy = "plugin" THEN PluginMix ELSE IdlePlugin
         /\ areq \in IF busy = "access" THEN AccessMix ELSE IdleAccess
         /\ oreq \in IF busy = "oauth" THEN OauthMix ELSE IdleOauth
         /\ qreq \in IF busy = "quota" THEN QuotaMix ELSE IdleQuota
    /\ WorkflowStart /\ ResourceStart /\ PluginStart /\ AccessStart /\ OauthStart
    /\ QuotaStart

\* Roles change and decisions age while somebody asks for one.
ControlNext ==
    \/ /\ WorkflowNext
       /\ UNCHANGED <<resourceVars, pluginVars, accessVars, oauthVars,
                      quotaVars>>
    \/ /\ ResourceNext
       /\ UNCHANGED <<storeVars, pluginVars, accessVars, oauthVars,
                      quotaVars>>
    \/ /\ PluginNext
       /\ UNCHANGED <<storeVars, resourceVars, accessVars, oauthVars,
                      quotaVars>>
    \/ /\ \E r \in Request : areq[r].op # "none"
       /\ AccessNext
       /\ UNCHANGED <<storeVars, resourceVars, pluginVars, oauthVars,
                      quotaVars>>
    \/ /\ OauthNext
       /\ UNCHANGED <<storeVars, resourceVars, pluginVars, accessVars,
                      quotaVars>>
    \/ /\ \E r \in Request : qreq[r].op # "none"
       /\ QuotaNext
       /\ UNCHANGED <<storeVars, resourceVars, pluginVars, accessVars,
                      oauthVars>>

ControlSpec ==
    ControlInit /\ [][ControlNext]_<<storeVars, resourceVars, pluginVars,
                                     accessVars, oauthVars, quotaVars>>

ControlTypeOK ==
    /\ WorkflowTypeOK
    /\ ResourceTypeOK
    /\ PluginTypeOK
    /\ AccessTypeOK
    /\ OauthTypeOK
    /\ QuotaTypeOK
=============================================================================
