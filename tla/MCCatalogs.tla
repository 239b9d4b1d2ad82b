------------------------------ MODULE MCCatalogs ------------------------------
(***************************************************************************)
(* Building, interpreting and verifying a catalog, each from its own       *)
(* initial states and at rest while another is running.                    *)
(***************************************************************************)
EXTENDS MCCatalogBuild, MCPolicies, MCVerify

VARIABLE part   \* the component this behaviour is about

allvars == <<part, vars, policyVars, verifyVars>>

NoPolicy == PolicyInit /\ job = Job(Plainly("supplied"), <<>>, {})

NoVerification ==
    /\ artifact = Empty
    /\ phase = "done" /\ verdict = "pending"
    /\ tasks = <<>> /\ workers = [w \in Slots |-> Idle] /\ exits = {} /\ deaths = 0
    /\ awaited = <<>> /\ derived = Pending /\ damaged = {} /\ given = <<>>

MCInit ==
    \/ part = "build" /\ Init /\ NoPolicy /\ NoVerification
    \/ part = "policy" /\ Init /\ PolicyInit /\ NoVerification
    \/ part = "verification" /\ Init /\ NoPolicy /\ VerifyInit

MCNext ==
    \/ part = "build" /\ Next /\ UNCHANGED <<part, policyVars, verifyVars>>
    \/ part = "policy" /\ PolicyNext /\ UNCHANGED <<part, vars, verifyVars>>
    \/ part = "verification" /\ VerifyNext /\ UNCHANGED <<part, vars, policyVars>>

MCSpec ==
    /\ MCInit /\ [][MCNext]_allvars
    /\ WF_allvars(part = "build" /\ Step /\ UNCHANGED <<part, policyVars, verifyVars>>)
    /\ WF_allvars(part = "build" /\ disk.build # None /\ Start(disk.build) /\ UNCHANGED <<part, policyVars, verifyVars>>)
    /\ WF_allvars(part = "verification" /\ Parent /\ UNCHANGED <<part, vars, policyVars>>)
=============================================================================
