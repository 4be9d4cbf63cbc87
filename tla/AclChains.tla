-------------------------------- MODULE AclChains --------------------------------
(***************************************************************************)
(* One access check (whyDeny): the rules of the chain "main" and of the    *)
(* sub-chains they run are taken in order, until one of them decides.      *)
(* Rules are data: they come from the configuration files.                 *)
(***************************************************************************)
EXTENDS Naturals, Sequences, FiniteSets

CONSTANTS
    Privs,          \* privilege names
    Slots, Vals,    \* slots of the metadata, and what they may hold
    ChainNames,     \* names that chains, and references to chains, may have
    Configs,        \* the configurations to evaluate, each of them chains by name
    StartMetas      \* what is known of user and target before the check

Star  == "*"
Empty == ""
Meta  == [Slots -> Vals]
PrivSlots  == Privs \cup {Star}
Tendencies == {"none", "deny", "allow"}
Decisions  == Tendencies \cup {"stop"}

(* A criterion is a pure function of the metadata; one with a template for *)
(* its only argument may yield an empty string instead of a truth value.   *)
CritResults == {"met", "unmet", "invalid"}
Criterion   == [Meta -> CritResults]

CondKeys == {"always", "if", "ifAny", "ifAll", "unless", "unlessAny", "unlessAll"}

(* A sub-chain's name is a template, hence a function of the metadata.  A  *)
(* leading question mark makes the reference optional.                     *)
ChainRef == [chain : ChainNames \cup {Empty}, optional : BOOLEAN]
ChainTemplate == [Meta -> ChainRef]

(* What all the side effects of a rule together do to the metadata.        *)
SideEffect == [Meta -> Meta]

Rule == [repeat     : BOOLEAN, slot : Slots, items : Seq(Vals),
         conds      : Seq([key : CondKeys, criteria : Seq(Criterion)]),
         sideEffect : SideEffect,
         decide     : [PrivSlots -> Decisions],
         tendency   : [PrivSlots -> Tendencies],
         subChains  : Seq(ChainTemplate)]

(* What the parser accepts; it reports other rules at start-up.            *)
ValidRule(r) ==
    /\ r \in Rule
    /\ \A i \in DOMAIN r.conds :
         r.conds[i].key = "always" => r.conds[i].criteria = <<>>
    /\ (\E p \in PrivSlots : r.decide[p] # "none") => r.subChains = <<>>

IsConfig(c) ==
    /\ c = [name \in DOMAIN c |-> c[name]]
    /\ IsFiniteSet(DOMAIN c)
    /\ DOMAIN c \subseteq ChainNames
    /\ \A name \in DOMAIN c :
         c[name] \in Seq(Rule) /\ \A i \in DOMAIN c[name] : ValidRule(c[name][i])

ASSUME ChainsAssumption ==
    /\ Star \notin Privs
    /\ "main" \in ChainNames /\ Empty \notin ChainNames
    /\ StartMetas \subseteq Meta
    /\ \A k \in DOMAIN Configs : IsConfig(Configs[k])

VARIABLES
    config, priv,   \* what the check is about: these two never change
    stack,          \* the calls of aclSubChain(), innermost last
    tendencies, decision,
    outcome         \* "pending", "allow", "deny", or "error"

chains == Configs[config]

vars == <<config, priv, stack, tendencies, decision, outcome>>

(* A call's meta is the object allMeta it was called with; scope is the    *)
(* one its current rule sees: the same object, or, for a repeated rule,    *)
(* a copy that lasts for one item.                                         *)
Frame == [chain : ChainNames \cup {Empty}, rule : Nat, item : Nat,
          step : {"next", "rule", "subs"},
          meta : Meta, scope : Meta, refs : Seq(ChainRef)]

Call(name, m) ==
    [chain |-> name, rule |-> 1, item |-> 0, step |-> "next",
     meta |-> m, scope |-> m, refs |-> <<>>]

BaseInit ==
    /\ config \in DOMAIN Configs
    /\ priv \in Privs
    /\ \E m \in StartMetas :
         stack = << [Call(Empty, m) EXCEPT
                       !.step = "subs",
                       !.refs = <<[chain |-> "main", optional |-> FALSE]>>] >>
    /\ decision = "none"
    /\ outcome = "pending"

(* A seeded bug: the built-in policy is to allow.                          *)
InitAllowing ==
    /\ BaseInit
    /\ tendencies = [p \in PrivSlots |-> IF p = Star THEN "allow" ELSE "none"]

Init ==
    /\ BaseInit
    /\ tendencies = [p \in PrivSlots |-> IF p = Star THEN "deny" ELSE "none"]

-------------------------------------------------------------------------------
(* Conditions.                                                             *)

(* A group's result stands until a criterion disagrees; negated groups     *)
(* skip the rule when they are met.                                        *)
InitiallyMet(key) == IF key \in {"always", "ifAll", "unlessAll"} THEN "met" ELSE "unmet"
Negate(key) == key \in {"unless", "unlessAny", "unlessAll"}

MeetsAll(cond, m) ==
    LET Disagrees == {i \in DOMAIN cond.criteria :
                        cond.criteria[i][m] # InitiallyMet(cond.key)}
        first == CHOOSE i \in Disagrees : \A j \in Disagrees : i <= j
    IN  IF Disagrees = {} THEN InitiallyMet(cond.key) ELSE cond.criteria[first][m]

CondVerdict(cond, m) ==
    CASE MeetsAll(cond, m) = "invalid" -> "invalid"
      [] MeetsAll(cond, m) = "met"     -> IF Negate(cond.key) THEN "skip" ELSE "apply"
      [] MeetsAll(cond, m) = "unmet"   -> IF Negate(cond.key) THEN "apply" ELSE "skip"

RuleVerdict(rule, m) ==
    LET Stops == {i \in DOMAIN rule.conds : CondVerdict(rule.conds[i], m) # "apply"}
        first == CHOOSE i \in Stops : \A j \in Stops : i <= j
    IN  IF Stops = {} THEN "apply" ELSE CondVerdict(rule.conds[first], m)

-------------------------------------------------------------------------------
(* The evaluation, one action per call or rule.                            *)

Depth == Len(stack)
Top   == stack[Depth]
Rules == chains[Top.chain]
rule  == Rules[Top.rule]
SetTop(frame) == stack' = [stack EXCEPT ![Depth] = frame]

(* Within a chain; the bottom of the stack is whyDeny() itself.            *)
Evaluating(step) == outcome = "pending" /\ Depth > 1 /\ Top.step = step

(* A seeded bug: a repeated rule starts over with its first item.          *)
FinishedFromStart(frame) ==
    IF rule.repeat
    THEN [frame EXCEPT !.step = "next", !.refs = <<>>, !.item = 0]
    ELSE [frame EXCEPT !.step = "next", !.refs = <<>>,
                       !.meta = frame.scope, !.rule = frame.rule + 1]

(* A rule has been dealt with, once or for one of its items.  Only a copy  *)
(* of the metadata is dropped with the item.                               *)
Finished(frame) ==
    IF rule.repeat
    THEN [frame EXCEPT !.step = "next", !.refs = <<>>]
    ELSE [frame EXCEPT !.step = "next", !.refs = <<>>,
                       !.meta = frame.scope, !.rule = frame.rule + 1]

Throw ==
    /\ outcome' = "error"
    /\ UNCHANGED <<config, priv, stack, tendencies, decision>>

BeginRule ==
    /\ Evaluating("next")
    /\ decision = "none" /\ Top.rule <= Len(Rules) /\ ~rule.repeat
    /\ SetTop([Top EXCEPT !.step = "rule", !.scope = Top.meta])
    /\ UNCHANGED <<config, priv, tendencies, decision, outcome>>

BeginItem ==
    /\ Evaluating("next")
    /\ decision = "none" /\ Top.rule <= Len(Rules) /\ rule.repeat
    /\ SetTop(IF Top.item < Len(rule.items)
              THEN [Top EXCEPT
                      !.step = "rule", !.item = Top.item + 1,
                      !.scope = [Top.meta EXCEPT ![rule.slot] = rule.items[Top.item + 1]]]
              ELSE [Top EXCEPT !.item = 0, !.rule = Top.rule + 1])
    /\ UNCHANGED <<config, priv, tendencies, decision, outcome>>

SkipRule ==
    /\ Evaluating("rule")
    /\ RuleVerdict(rule, Top.scope) = "skip"
    /\ SetTop(Finished(Top))
    /\ UNCHANGED <<config, priv, tendencies, decision, outcome>>

InvalidCondition ==
    /\ Evaluating("rule")
    /\ RuleVerdict(rule, Top.scope) = "invalid"
    /\ Throw

(* The decision of a rule for the check's privilege, if it has one.        *)
DecisionOf(r) == IF r.decide[priv] # "none" THEN r.decide[priv] ELSE r.decide[Star]

Decide ==
    /\ Evaluating("rule")
    /\ RuleVerdict(rule, Top.scope) = "apply"
    /\ DecisionOf(rule) # "none"
    /\ decision' = DecisionOf(rule)
    /\ tendencies' = [tendencies EXCEPT ![priv] = "none"]
    /\ SetTop(Finished([Top EXCEPT !.scope = rule.sideEffect[@]]))
    /\ UNCHANGED <<config, priv, outcome>>

(* A seeded bug: the first tendency counts.                                *)
TendFirst(old, new) == [p \in PrivSlots |-> IF old[p] # "none" THEN old[p] ELSE new[p]]

Tend(old, new) == [p \in PrivSlots |-> IF new[p] # "none" THEN new[p] ELSE old[p]]

(* The names of all the sub-chains are built before the first one runs.    *)
ApplyRule ==
    /\ Evaluating("rule")
    /\ RuleVerdict(rule, Top.scope) = "apply"
    /\ DecisionOf(rule) = "none"
    /\ tendencies' = Tend(tendencies, rule.tendency)
    /\ LET m == rule.sideEffect[Top.scope] IN
       SetTop([Top EXCEPT !.step = "subs", !.scope = m,
                          !.refs = [i \in DOMAIN rule.subChains |-> rule.subChains[i][m]]])
    /\ UNCHANGED <<config, priv, decision, outcome>>

Referring == outcome = "pending" /\ Top.step = "subs" /\ Top.refs # <<>>
Ref == Head(Top.refs)
Refer(frames) == [stack EXCEPT ![Depth].refs = Tail(@)] \o frames

Circular == \E i \in 1..Depth : stack[i].chain = Ref.chain

(* An empty name, a check that has been decided, or an optional chain that *)
(* does not exist.                                                         *)
SkipSubChain ==
    /\ Referring
    /\ \/ Ref.chain = Empty
       \/ decision # "none"
       \/ ~Circular /\ Ref.chain \notin DOMAIN chains /\ Ref.optional
    /\ stack' = Refer(<<>>)
    /\ UNCHANGED <<config, priv, tendencies, decision, outcome>>

(* A seeded bug: an optional chain is run without looking for it.          *)
EnterSubChainUnchecked ==
    /\ Referring
    /\ Ref.chain # Empty /\ decision = "none"
    /\ ~Circular /\ (Ref.chain \in DOMAIN chains \/ Ref.optional)
    /\ stack' = Refer(<<Call(Ref.chain, Top.scope)>>)
    /\ UNCHANGED <<config, priv, tendencies, decision, outcome>>

EnterSubChain ==
    /\ Referring
    /\ Ref.chain # Empty /\ decision = "none"
    /\ ~Circular /\ Ref.chain \in DOMAIN chains
    /\ stack' = Refer(<<Call(Ref.chain, Top.scope)>>)
    /\ UNCHANGED <<config, priv, tendencies, decision, outcome>>

BadSubChain ==
    /\ Referring
    /\ Ref.chain # Empty /\ decision = "none"
    /\ Circular \/ (Ref.chain \notin DOMAIN chains /\ ~Ref.optional)
    /\ Throw

RuleDone ==
    /\ Evaluating("subs") /\ Top.refs = <<>>
    /\ SetTop(Finished(Top))
    /\ UNCHANGED <<config, priv, tendencies, decision, outcome>>

(* The end of a chain, or a decision: the remaining rules return at once.  *)
(* The caller's rule shares the metadata with the chain.                   *)
LeaveChain ==
    /\ Evaluating("next")
    /\ decision # "none" \/ Top.rule > Len(Rules)
    /\ stack' = [SubSeq(stack, 1, Depth - 1) EXCEPT ![Depth - 1].scope = Top.meta]
    /\ UNCHANGED <<config, priv, tendencies, decision, outcome>>

(* Without a decision, and for "stop", the tendencies settle it.           *)
Settled ==
    IF decision \notin {"none", "stop"} THEN decision
    ELSE IF tendencies[priv] # "none" THEN tendencies[priv] ELSE tendencies[Star]

Conclude ==
    /\ outcome = "pending" /\ Depth = 1 /\ Top.refs = <<>>
    /\ outcome' = IF Settled = "allow" THEN "allow" ELSE "deny"
    /\ UNCHANGED <<config, priv, stack, tendencies, decision>>

Next ==
    \/ BeginRule \/ BeginItem \/ SkipRule \/ InvalidCondition \/ Decide \/ ApplyRule
    \/ SkipSubChain \/ EnterSubChain \/ BadSubChain \/ RuleDone \/ LeaveChain
    \/ Conclude

Spec == Init /\ [][Next]_vars

(* Nothing in a check waits for anything but its own next step.            *)
FairSpec == Spec /\ WF_vars(Next)

-------------------------------------------------------------------------------
(* Every variable keeps its type, and each call is at a rule of its chain, *)
(* or at the chain's end.                                                  *)
FrameOK(f, i) ==
    IF i = 1 THEN f.chain = Empty /\ f.step = "subs"
    ELSE /\ f.chain \in DOMAIN chains
         /\ f.rule \in 1..(Len(chains[f.chain]) + 1)
         /\ f.step # "next" => f.rule <= Len(chains[f.chain])

AclTypeOK ==
    /\ config \in DOMAIN Configs /\ priv \in Privs
    /\ stack \in Seq(Frame) /\ stack # <<>>
    /\ \A i \in DOMAIN stack : FrameOK(stack[i], i)
    /\ tendencies \in [PrivSlots -> Tendencies]
    /\ decision \in Decisions
    /\ outcome \in {"pending", "allow", "deny", "error"}

(* Deny unless told otherwise: a check allows only what a rule allows, in  *)
(* a decision or a tendency for this privilege or for all, and that rule's *)
(* conditions can be met.                                                  *)
Applicable(r) == \E m \in Meta : RuleVerdict(r, m) = "apply"

DecidedBy(p, value) ==
    \E c \in DOMAIN chains : \E i \in DOMAIN chains[c] :
        Applicable(chains[c][i]) /\ chains[c][i].decide[p] = value

TendedBy(p, value) ==
    \E c \in DOMAIN chains : \E i \in DOMAIN chains[c] :
        Applicable(chains[c][i]) /\ chains[c][i].tendency[p] = value

AllowedByARule ==
    outcome = "allow" =>
        \E p \in {priv, Star} : DecidedBy(p, "allow") \/ TendedBy(p, "allow")

(* Every check comes to an end, however chains refer to each other: it     *)
(* allows, denies, or reports the configuration's mistake.                 *)
EveryCheckEnds == <>(outcome # "pending")

-------------------------------------------------------------------------------
(* What the proof needs to know in the middle of a check: a decision and   *)
(* every tendency to allow come from a rule that applied.                  *)
Justified ==
    /\ decision = "allow" => \E p \in {priv, Star} : DecidedBy(p, "allow")
    /\ \A p \in PrivSlots : tendencies[p] = "allow" => TendedBy(p, "allow")
    /\ AllowedByARule
===============================================================================
