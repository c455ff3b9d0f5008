----------------------------- MODULE MCServices -----------------------------
(* The components that share no state with each other, checked side by      *)
(* side: a behaviour is one of a single component, and the others stay as   *)
(* they began, in one of their initial states. Nothing is lost by it, since *)
(* no step of one reads or writes a variable of another.                    *)
EXTENDS ApiRateLimit, RequestGuard, CliSession, MemoryApproval, Rbac, RustChunks, TextChunks,
    SearchIndex, Sandbox, ChatGateway, Backups, Plugins, LocalApply, TLC

VARIABLE part

parts ==
    {"rate", "guard", "session", "memory", "rbac", "rust", "text",
     "index", "sandbox", "gateway", "backups", "plugins", "apply"}

servicesVars ==
    <<part, rateVars, guardVars, sessionVars, memoryVars, rbacVars, rustVars, textVars,
      indexVars, sandboxVars, gatewayVars, backupVars, pluginVars, localApplyVars>>

(* Two rules for one path, of which the second never counts there; and      *)
(* "docs" has none.                                                         *)
MCRules ==
    <<[paths |-> {"chat"}, limit |-> 1, window |-> 2],
      [paths |-> {"chat"}, limit |-> 1, window |-> 1]>>

MCWithin == {<<ip, ip>> : ip \in Ips}

(* One group of each level that allows something.                           *)
MCGroupLevels ==
    (<<"g1", "r1">> :> "admin") @@ (<<"g2", "r1">> :> "read") @@ (<<"g3", "r1">> :> "write")

MCFilesOf == [code |-> {"f1"}, skill_doc |-> {}]

(* The second content has a long line, two short ones, a long one and two   *)
(* short again; both chunks of short lines are said to begin at line 0.     *)
MCSpansOf == [x1 |-> <<"1-1">>, x2 |-> <<"1-1", "0-1", "6-6", "0-1">>]

(* By the index the second version of each plugin requires the other; by    *)
(* their manifests both versions of the first do, and none of the second.   *)
MCRequires == [p1 |-> <<{}, {"p2"}>>, p2 |-> <<{}, {"p1"}>>]
MCDeclares == [p1 |-> <<{"p2"}, {"p2"}>>, p2 |-> <<{}, {}>>]

ServicesInit ==
    /\ part \in parts
    /\ RateInit
    /\ GuardInit
    /\ SessionInit
    /\ MemoryInit
    /\ RbacInit
    /\ RustInit /\ (part # "rust" => rust = <<>>)
    /\ TextInit /\ (part # "text" => ahead = <<>>)
    /\ IndexInit /\ (part # "index" => repo = [f \in Files |-> None])
    /\ SandboxInit /\ (part # "sandbox" => settings = [url |-> TRUE, token |-> TRUE])
    /\ GatewayInit /\ (part # "gateway" => platform = "slack" /\ session = CHOOSE s \in Sessions : TRUE)
    /\ BackupsInit /\ disk = [config |-> Names, vault |-> {CHOOSE n \in Names : TRUE}, rest |-> {}]
    /\ PluginsInit /\ (part # "plugins" => index = [n \in PluginNames |-> {}])
    /\ LocalApplyInit

ServicesNext ==
    /\ UNCHANGED part
    /\ IF part = "rate" THEN RateNext ELSE UNCHANGED rateVars
    /\ IF part = "guard" THEN GuardNext ELSE UNCHANGED guardVars
    /\ IF part = "session" THEN SessionNext ELSE UNCHANGED sessionVars
    /\ IF part = "memory" THEN MemoryNext ELSE UNCHANGED memoryVars
    /\ IF part = "rbac" THEN RbacNext ELSE UNCHANGED rbacVars
    /\ IF part = "rust" THEN RustNext ELSE UNCHANGED rustVars
    /\ IF part = "text" THEN TextNext ELSE UNCHANGED textVars
    /\ IF part = "index" THEN IndexNext ELSE UNCHANGED indexVars
    /\ IF part = "sandbox" THEN SandboxNext ELSE UNCHANGED sandboxVars
    /\ IF part = "gateway" THEN GatewayNext ELSE UNCHANGED gatewayVars
    /\ IF part = "backups" THEN BackupsNext ELSE UNCHANGED backupVars
    /\ IF part = "plugins" THEN PluginsNext ELSE UNCHANGED pluginVars
    /\ IF part = "apply" THEN LocalApplyNext ELSE UNCHANGED localApplyVars

ServicesSpec == ServicesInit /\ [][ServicesNext]_servicesVars

(* The types of all of them; among them that no scan for items runs past    *)
(* the end of its file. (indexer.py 185)                                    *)
ServicesTypeOK ==
    /\ RateTypeOK
    /\ GuardTypeOK
    /\ SessionTypeOK
    /\ MemoryTypeOK
    /\ RbacTypeOK
    /\ RustTypeOK
    /\ TextTypeOK
    /\ IndexTypeOK
    /\ SandboxTypeOK
    /\ GatewayTypeOK
    /\ BackupsTypeOK
    /\ PluginsTypeOK
    /\ LocalApplyTypeOK
=============================================================================
