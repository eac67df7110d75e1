-------------------------------- MODULE Services --------------------------------
(***************************************************************************)
(* The services of an organisation and of its projects beside the sign-on  *)
(* of its members, one part at a time.                                     *)
(***************************************************************************)
EXTENDS Onboarding, Workbench, Safeguards

allVars ==
  <<part, vars, retentionVars, keyVars, auditVars, accessVars, secretVars, promptVars,
    annotationVars, statVars, comparisonVars, dataVars, traceVars, ruleVars>>

\* Of the components, p alone moves.
Only(p) ==
  /\ part = p
  /\ UNCHANGED part
  /\ IF p = "members" THEN TRUE ELSE UNCHANGED vars
  /\ IF p = "retention" THEN TRUE ELSE UNCHANGED retentionVars
  /\ IF p = "keys" THEN TRUE ELSE UNCHANGED keyVars
  /\ IF p = "audit" THEN TRUE ELSE UNCHANGED auditVars
  /\ IF p = "access" THEN TRUE ELSE UNCHANGED accessVars
  /\ IF p = "secrets" THEN TRUE ELSE UNCHANGED secretVars
  /\ IF p = "prompts" THEN TRUE ELSE UNCHANGED promptVars
  /\ IF p = "annotations" THEN TRUE ELSE UNCHANGED annotationVars
  /\ IF p = "statistics" THEN TRUE ELSE UNCHANGED statVars
  /\ IF p = "comparison" THEN TRUE ELSE UNCHANGED comparisonVars
  /\ IF p = "datasets" THEN TRUE ELSE UNCHANGED dataVars
  /\ IF p = "traces" THEN TRUE ELSE UNCHANGED traceVars
  /\ IF p = "rules" THEN TRUE ELSE UNCHANGED ruleVars

\* The components whose initial states are several start in one of them, and
\* only where they are run.
AtRest ==
  /\ part = "rules" \/ (rules = {} /\ ~inProject)
  /\ part = "traces" \/
       /\ source = CHOOSE s \in Backends : TRUE
       /\ stitching = <<"chat">>

ServicesInit ==
  /\ part \in Parts /\ Init /\ Policies!Init /\ Keys!Init /\ Audit!Init
  /\ Access!Init /\ Secrets!Init /\ Prompts!Init /\ Annotations!Init /\ Statistics!Init
  /\ Paired!Init /\ Data!Init /\ Search!Init /\ Rules!Init
  /\ AtRest

ServicesNext ==
  \/ Only("members") /\ Next
  \/ Only("retention") /\ Policies!Next
  \/ Only("keys") /\ Keys!Next
  \/ Only("audit") /\ Audit!Next
  \/ Only("access") /\ Access!Next
  \/ Only("secrets") /\ Secrets!Next
  \/ Only("prompts") /\ Prompts!Next
  \/ Only("annotations") /\ Annotations!Next
  \/ Only("statistics") /\ Statistics!Next
  \/ Only("comparison") /\ Paired!Next
  \/ Only("datasets") /\ Data!Next
  \/ Only("traces") /\ Search!Next
  \/ Only("rules") /\ Rules!Next

ServicesSpec == ServicesInit /\ [][ServicesNext]_allVars
=============================================================================
