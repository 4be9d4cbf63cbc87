------------------------------ MODULE MCAclChains ------------------------------
(***************************************************************************)
(* Small configurations for AclChains.  The rules are taken from those of  *)
(* the example configuration (docs/cfg/ubhd-ex01/acl_chains), with two     *)
(* privileges, a role that is checked in turn, and a user; and every small *)
(* combination of them is a configuration.                                 *)
(***************************************************************************)
EXTENDS AclPolicy

MCPrivs == {"read", "create"}
MCSlots == {"user", "role"}
MCVals  == {Empty, "alice", "author"}
MCChainNames == {"main", "users", "author_perms", "no_such_chain"}

MCMetas == {m \in [MCSlots -> MCVals] : m["user"] # "author" /\ m["role"] = Empty}

Says(f)  == [p \in PrivSlots |-> IF p \in DOMAIN f THEN f[p] ELSE "none"]
Silent   == Says(<<>>)
Reads(v)    == Says([p \in {"read"} |-> v])
Creates(v)  == Says([p \in {"create"} |-> v])
Fallback(v) == Says([p \in {Star} |-> v])

To(chain, optional) == [m \in Meta |-> [chain |-> chain, optional |-> optional]]
ToRolePerms == [m \in Meta |-> [chain |-> IF m["role"] = "author" THEN "author_perms" ELSE Empty,
                                optional |-> FALSE]]

(* Criteria: a user is logged in; a slot is empty; the user is in a group  *)
(* named by a slot, without and with the empty template's odd result.      *)
Test(P(_)) == [m \in Meta |-> IF P(m) THEN "met" ELSE "unmet"]
LoggedIn   == Test(LAMBDA m : m["user"] # Empty)
RoleEmpty  == Test(LAMBDA m : m["role"] = Empty)
InRole     == [m \in Meta |-> IF m["role"] = Empty THEN "invalid"
                              ELSE IF m["user"] = "alice" THEN "met" ELSE "unmet"]

If(criterion)   == <<[key |-> "if", criteria |-> <<criterion>>]>>
Always          == <<[key |-> "always", criteria |-> <<>>]>>

Plain == [repeat |-> FALSE, slot |-> "role", items |-> <<>>,
          conds |-> Always, sideEffect |-> [m \in Meta |-> m],
          decide |-> Silent, tendency |-> Silent, subChains |-> <<>>]

ForEachRole(items) == [Plain EXCEPT !.repeat = TRUE, !.items = items]

MCRules == <<
    [Plain EXCEPT !.tendency = Reads("allow")],
    [Plain EXCEPT !.tendency = Says([p \in {Star, "read"} |->
                                       IF p = Star THEN "allow" ELSE "deny"])],
    [Plain EXCEPT !.conds = If(LoggedIn), !.decide = Creates("allow"),
                  !.tendency = Reads("deny")],
    [Plain EXCEPT !.conds = <<[key |-> "unlessAll", criteria |-> <<LoggedIn, RoleEmpty>>]>>,
                  !.decide = Fallback("deny")],
    [Plain EXCEPT !.conds = <<[key |-> "ifAny", criteria |-> <<RoleEmpty, InRole>>],
                              [key |-> "unlessAny", criteria |-> <<LoggedIn, InRole>>]>>,
                  !.decide = Reads("stop")],
    [Plain EXCEPT !.conds = <<[key |-> "ifAll", criteria |-> <<LoggedIn, InRole>>]>>,
                  !.tendency = Creates("allow")],
    [Plain EXCEPT !.sideEffect = [m \in Meta |-> [m EXCEPT !["role"] = "author"]],
                  !.subChains = <<ToRolePerms>>],
    [Plain EXCEPT !.conds = <<[key |-> "unless", criteria |-> <<RoleEmpty>>]>>,
                  !.subChains = <<To("no_such_chain", TRUE), To("users", TRUE),
                                  To("author_perms", FALSE)>>],
    [ForEachRole(<<"author", Empty>>) EXCEPT !.subChains = <<ToRolePerms>>],
    [ForEachRole(<<Empty, "author">>) EXCEPT !.conds = If(RoleEmpty), !.decide = Creates("stop"),
                  !.sideEffect = [m \in Meta |-> [m EXCEPT !["user"] = "alice"]]],
    [Plain EXCEPT !.conds = If(LoggedIn), !.subChains = <<To("users", FALSE)>>],
    [Plain EXCEPT !.conds = <<>>, !.decide = Fallback("stop")] >>

(* Three rules in two chains, two of them in "main" or two in the other    *)
(* chain, which may also be empty (0); and a configuration without chains. *)
RuleList(i) == IF i = 0 THEN <<>> ELSE <<MCRules[i]>>
R == DOMAIN MCRules

MCConfigs ==
    [k \in ({"role"} \X R \X R \X (R \cup {0})) \cup ({"users"} \X R \X R \X R)
           \cup {<<"empty">>} |->
        CASE k[1] = "role"  -> [name \in {"main", "author_perms"} |->
                                  IF name = "main" THEN RuleList(k[2]) \o RuleList(k[3])
                                  ELSE RuleList(k[4])]
          [] k[1] = "users" -> [name \in {"main", "users"} |->
                                  IF name = "main" THEN RuleList(k[2])
                                  ELSE RuleList(k[3]) \o RuleList(k[4])]
          [] OTHER          -> <<>>]
===============================================================================
