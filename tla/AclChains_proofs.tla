---------------------------- MODULE AclChains_proofs ----------------------------
(***************************************************************************)
(* Proofs about AclChains, for every set of configurations.                *)
(***************************************************************************)
EXTENDS AclChains, TLAPS

(* The rules of a configuration are rules.                                 *)
LEMMA ConfiguredRules ==
    ASSUME config \in DOMAIN Configs, NEW name \in DOMAIN chains
    PROVE  /\ chains[name] \in Seq(Rule)
           /\ name \in ChainNames
           /\ \A i \in 1..Len(chains[name]) : chains[name][i] \in Rule
  <1>1. IsConfig(chains)
    BY ChainsAssumption DEF chains
  <1>2. chains[name] \in Seq(Rule) /\ name \in ChainNames
    BY <1>1 DEF IsConfig
  <1> QED
    BY <1>2

(* What the innermost call looks like.                                     *)
LEMMA TopFrame ==
    ASSUME AclTypeOK
    PROVE  /\ Depth \in Nat /\ Depth >= 1
           /\ Top \in Frame
           /\ FrameOK(Top, Depth)
  <1>1. stack \in Seq(Frame) /\ stack # <<>>
    BY DEF AclTypeOK
  <1>2. Len(stack) \in Nat /\ Len(stack) >= 1 /\ Len(stack) \in DOMAIN stack
    BY <1>1
  <1>3. stack[Len(stack)] \in Frame
    BY <1>1, <1>2
  <1> QED
    BY <1>2, <1>3 DEF AclTypeOK, Depth, Top

(* In a chain, and before its end, there is a rule.                        *)
LEMMA TopRule ==
    ASSUME AclTypeOK, Depth > 1, Top.rule <= Len(Rules)
    PROVE  /\ rule \in Rule
           /\ Top.chain \in DOMAIN chains
           /\ Rules \in Seq(Rule)
           /\ Top.rule \in 1..Len(Rules)
  <1>1. /\ Top.chain \in DOMAIN chains
        /\ Top.rule \in 1..(Len(Rules) + 1)
    BY TopFrame DEF FrameOK, Rules
  <1>2. config \in DOMAIN Configs
    BY DEF AclTypeOK
  <1>3. /\ Rules \in Seq(Rule)
        /\ \A i \in 1..Len(Rules) : Rules[i] \in Rule
    BY <1>1, <1>2, ConfiguredRules DEF Rules
  <1>4. Top.rule \in 1..Len(Rules)
    BY <1>1, <1>3
  <1> QED
    BY <1>1, <1>3, <1>4 DEF rule

StackOK == /\ stack \in Seq(Frame) /\ stack # <<>>
           /\ \A i \in DOMAIN stack : FrameOK(stack[i], i)

(* Replacing the innermost call by one that is in order.                   *)
LEMMA UpdateTop ==
    ASSUME AclTypeOK, NEW f \in Frame, FrameOK(f, Depth), SetTop(f),
           config' = config
    PROVE  StackOK'
  <1>1. stack \in Seq(Frame) /\ Depth \in DOMAIN stack
    BY TopFrame DEF AclTypeOK, Depth
  <1>2. /\ stack' \in Seq(Frame) /\ Len(stack') = Len(stack)
        /\ stack'[Depth] = f
        /\ \A i \in DOMAIN stack : i # Depth => stack'[i] = stack[i]
        /\ DOMAIN stack' = DOMAIN stack
    BY <1>1 DEF SetTop
  <1>3. stack' # <<>>
    BY <1>1, <1>2
  <1>4. chains' = chains
    BY DEF chains
  <1>5. ASSUME NEW i \in DOMAIN stack' PROVE FrameOK(stack[i], i)'
    <2>1. CASE i = Depth
      BY <2>1, <1>2, <1>4 DEF FrameOK
    <2>2. CASE i # Depth
      <3>1. FrameOK(stack[i], i) /\ stack'[i] = stack[i]
        BY <2>2, <1>2 DEF AclTypeOK
      <3> QED
        BY <3>1, <1>4 DEF FrameOK
    <2> QED
      BY <2>1, <2>2
  <1> QED
    BY <1>2, <1>3, <1>5 DEF StackOK

(* The call after a rule has been dealt with.                              *)
LEMMA FinishedFrame ==
    ASSUME AclTypeOK, Depth > 1, Top.step # "next",
           NEW m \in Meta
    PROVE  LET f == Finished([Top EXCEPT !.scope = m]) IN
           f \in Frame /\ FrameOK(f, Depth)
  <1>1. Top \in Frame /\ FrameOK(Top, Depth) /\ Top.rule <= Len(Rules)
    BY TopFrame DEF FrameOK, Rules
  <1>2. Top.rule \in 1..Len(Rules)
    BY <1>1, TopRule
  <1>3. <<>> \in Seq(ChainRef)
    OBVIOUS
  <1> DEFINE g == [Top EXCEPT !.scope = m]
  <1>4. /\ g \in Frame
        /\ g.chain = Top.chain /\ g.rule = Top.rule /\ g.scope = m
    BY <1>1 DEF Frame
  <1>5. Depth # 1 /\ Top.chain \in DOMAIN chains /\ Len(Rules) \in Nat
    BY <1>1, <1>2, TopRule
  <1> HIDE DEF g
  <1>6. CASE rule.repeat
    <2> DEFINE f == [g EXCEPT !.step = "next", !.refs = <<>>]
    <2>1. f \in Frame /\ f.chain = g.chain /\ f.rule = g.rule /\ f.step = "next"
      BY <1>3, <1>4 DEF Frame
    <2>2. FrameOK(f, Depth)
      BY <2>1, <1>2, <1>4, <1>5 DEF FrameOK, Rules
    <2> QED
      BY <2>1, <2>2, <1>6 DEF Finished, g
  <1>7. CASE ~rule.repeat
    <2> DEFINE n == g.rule + 1
               f == [g EXCEPT !.step = "next", !.refs = <<>>,
                              !.meta = g.scope, !.rule = n]
    <2>0. n \in Nat /\ g.scope \in Meta
      BY <1>4 DEF Frame
    <2> HIDE DEF n
    <2>1. f \in Frame /\ f.chain = g.chain /\ f.rule = n /\ f.step = "next"
      BY <1>3, <1>4, <2>0 DEF Frame
    <2>2. FrameOK(f, Depth)
      BY <2>1, <1>2, <1>4, <1>5 DEF FrameOK, Rules, n
    <2> QED
      BY <2>1, <2>2, <1>7 DEF Finished, g, n
  <1> QED
    BY <1>6, <1>7

-------------------------------------------------------------------------------
LEMMA InitTyped == Init => AclTypeOK /\ Justified
  <1> SUFFICES ASSUME Init PROVE AclTypeOK /\ Justified
    OBVIOUS
  <1> USE DEF Init, BaseInit
  <1>1. PICK m \in StartMetas :
          stack = << [Call(Empty, m) EXCEPT
                        !.step = "subs",
                        !.refs = <<[chain |-> "main", optional |-> FALSE]>>] >>
    OBVIOUS
  <1>2. m \in Meta /\ "main" \in ChainNames
    BY ChainsAssumption
  <1>3. [chain |-> "main", optional |-> FALSE] \in ChainRef
    BY <1>2 DEF ChainRef
  <1> DEFINE f == [Call(Empty, m) EXCEPT
                     !.step = "subs",
                     !.refs = <<[chain |-> "main", optional |-> FALSE]>>]
  <1>4. Call(Empty, m) \in Frame /\ Call(Empty, m).chain = Empty
    BY <1>2 DEF Call, Frame
  <1>5. <<[chain |-> "main", optional |-> FALSE]>> \in Seq(ChainRef)
    BY <1>3
  <1>6. f \in Frame /\ f.chain = Empty /\ f.step = "subs"
    BY <1>4, <1>5 DEF Frame
  <1> HIDE DEF f
  <1>7. stack = <<f>>
    BY <1>1 DEF f
  <1>8. stack \in Seq(Frame) /\ stack # <<>> /\ stack[1] = f /\ DOMAIN stack = {1}
    BY <1>6, <1>7
  <1>9. \A i \in DOMAIN stack : FrameOK(stack[i], i)
    BY <1>6, <1>8 DEF FrameOK
  <1>10. tendencies \in [PrivSlots -> Tendencies]
    BY DEF Tendencies
  <1>11. AclTypeOK
    BY <1>8, <1>9, <1>10 DEF AclTypeOK, Decisions, Tendencies
  <1>12. Justified
    BY ChainsAssumption DEF PrivSlots, Justified, AllowedByARule
  <1> QED
    BY <1>11, <1>12

(* Steps that decide nothing.                                              *)
LEMMA NothingDecided ==
    ASSUME AclTypeOK, Justified, StackOK',
           UNCHANGED <<config, priv, tendencies, decision, outcome>>
    PROVE  AclTypeOK' /\ Justified'
  <1>1. chains' = chains
    BY DEF chains
  <1>2. AclTypeOK'
    BY <1>1 DEF AclTypeOK, StackOK
  <1>3. Justified'
    BY <1>1 DEF Justified, AllowedByARule, DecidedBy, TendedBy
  <1> QED
    BY <1>2, <1>3

LEMMA FinishedStep ==
    ASSUME AclTypeOK, Depth > 1, Top.step # "next",
           NEW m \in Meta, SetTop(Finished([Top EXCEPT !.scope = m])),
           config' = config
    PROVE  StackOK'
  BY FinishedFrame, UpdateTop

LEMMA FinishedSame ==
    ASSUME AclTypeOK
    PROVE  Top.scope \in Meta /\ Top.meta \in Meta /\ [Top EXCEPT !.scope = Top.scope] = Top
  BY TopFrame DEF Frame

LEMMA SkipRuleStep ==
    ASSUME AclTypeOK, Justified, SkipRule PROVE AclTypeOK' /\ Justified'
  <1>1. SetTop(Finished([Top EXCEPT !.scope = Top.scope]))
    BY FinishedSame DEF SkipRule
  <1>2. StackOK'
    BY <1>1, FinishedSame, FinishedStep DEF SkipRule, Evaluating
  <1> QED
    BY <1>2, NothingDecided DEF SkipRule

LEMMA RuleDoneStep ==
    ASSUME AclTypeOK, Justified, RuleDone PROVE AclTypeOK' /\ Justified'
  <1>1. SetTop(Finished([Top EXCEPT !.scope = Top.scope]))
    BY FinishedSame DEF RuleDone
  <1>2. StackOK'
    BY <1>1, FinishedSame, FinishedStep DEF RuleDone, Evaluating
  <1> QED
    BY <1>2, NothingDecided DEF RuleDone

LEMMA ThrowStep ==
    ASSUME AclTypeOK, Justified, Throw PROVE AclTypeOK' /\ Justified'
  <1>1. chains' = chains
    BY DEF Throw, chains
  <1>2. AclTypeOK'
    BY <1>1 DEF Throw, AclTypeOK, FrameOK
  <1>3. Justified'
    BY <1>1 DEF Throw, Justified, AllowedByARule, DecidedBy, TendedBy
  <1> QED
    BY <1>2, <1>3

LEMMA BeginRuleStep ==
    ASSUME AclTypeOK, Justified, BeginRule PROVE AclTypeOK' /\ Justified'
  <1> DEFINE f == [Top EXCEPT !.step = "rule", !.scope = Top.meta]
  <1>0. Top \in Frame /\ Depth # 1
    BY TopFrame DEF BeginRule, Evaluating
  <1>1. f \in Frame /\ f.chain = Top.chain /\ f.rule = Top.rule
    BY <1>0 DEF Frame
  <1>2. Top.rule \in 1..Len(Rules) /\ Top.chain \in DOMAIN chains
    BY TopRule DEF BeginRule, Evaluating
  <1>3. FrameOK(f, Depth)
    BY <1>0, <1>1, <1>2 DEF FrameOK, Rules
  <1>4. StackOK'
    BY <1>1, <1>3, UpdateTop DEF BeginRule
  <1> QED
    BY <1>4, NothingDecided DEF BeginRule

LEMMA BeginItemStep ==
    ASSUME AclTypeOK, Justified, BeginItem PROVE AclTypeOK' /\ Justified'
  <1> DEFINE n == Top.item + 1
             m == [Top.meta EXCEPT ![rule.slot] = rule.items[Top.item + 1]]
             k == Top.rule + 1
             f == [Top EXCEPT !.step = "rule", !.item = n, !.scope = m]
             g == [Top EXCEPT !.item = 0, !.rule = k]
  <1>1. /\ Depth # 1 /\ Top \in Frame /\ Top.step = "next"
        /\ Top.rule \in 1..Len(Rules) /\ Len(Rules) \in Nat
        /\ Top.chain \in DOMAIN chains /\ rule \in Rule
    BY TopFrame, TopRule DEF BeginItem, Evaluating
  <1>2. CASE Top.item < Len(rule.items)
    <2>1. rule.items[Top.item + 1] \in Vals /\ rule.slot \in Slots
      BY <1>1, <1>2 DEF Frame, Rule
    <2>2. m \in Meta
      BY <1>1, <2>1 DEF Frame, Meta
    <2>0. n \in Nat
      BY <1>1 DEF Frame
    <2> HIDE DEF n, m
    <2>3. f \in Frame /\ f.chain = Top.chain /\ f.rule = Top.rule
      BY <1>1, <2>0, <2>2 DEF Frame
    <2>4. FrameOK(f, Depth)
      BY <1>1, <2>3 DEF FrameOK, Rules
    <2> HIDE DEF f
    <2>5. SetTop(f)
      BY <1>2 DEF BeginItem, f, n, m
    <2> QED
      BY <2>3, <2>4, <2>5, UpdateTop, NothingDecided DEF BeginItem
  <1>3. CASE ~(Top.item < Len(rule.items))
    <2>0. k \in Nat
      BY <1>1
    <2> HIDE DEF k
    <2>1. g \in Frame /\ g.chain = Top.chain /\ g.rule = k /\ g.step = "next"
      BY <1>1, <2>0 DEF Frame
    <2>2. FrameOK(g, Depth)
      BY <1>1, <2>1 DEF FrameOK, Rules, k
    <2> HIDE DEF g
    <2>3. SetTop(g)
      BY <1>3 DEF BeginItem, g, k
    <2> QED
      BY <2>1, <2>2, <2>3, UpdateTop, NothingDecided DEF BeginItem
  <1> QED
    BY <1>2, <1>3

(* The rule that is being applied, and the configuration it is part of.    *)
LEMMA AppliedRule ==
    ASSUME AclTypeOK, Evaluating("rule"), RuleVerdict(rule, Top.scope) = "apply"
    PROVE  /\ Depth > 1 /\ Top.step # "next"
           /\ rule \in Rule /\ rule.sideEffect[Top.scope] \in Meta
           /\ \A p : rule.decide[p] = "allow" => DecidedBy(p, "allow")
           /\ \A p : rule.tendency[p] = "allow" => TendedBy(p, "allow")
  <1>1. Depth > 1 /\ Top.step = "rule" /\ Depth # 1
    BY TopFrame DEF Evaluating
  <1>2. Top.rule <= Len(Rules)
    BY <1>1, TopFrame DEF FrameOK, Rules
  <1>3. /\ rule \in Rule /\ Top.chain \in DOMAIN chains
        /\ Top.rule \in DOMAIN chains[Top.chain]
        /\ rule = chains[Top.chain][Top.rule]
    BY <1>1, <1>2, TopRule DEF rule, Rules
  <1>4. Top.scope \in Meta
    BY FinishedSame
  <1>5. rule.sideEffect[Top.scope] \in Meta
    BY <1>3, <1>4 DEF Rule, SideEffect
  <1>6. Applicable(rule)
    BY <1>4 DEF Applicable
  <1> QED
    BY <1>1, <1>3, <1>5, <1>6 DEF DecidedBy, TendedBy

LEMMA DecideStep ==
    ASSUME AclTypeOK, Justified, Decide PROVE AclTypeOK' /\ Justified'
  <1>1. /\ Depth > 1 /\ Top.step # "next" /\ rule \in Rule
        /\ rule.sideEffect[Top.scope] \in Meta
        /\ \A p : rule.decide[p] = "allow" => DecidedBy(p, "allow")
    BY AppliedRule DEF Decide
  <1>2. SetTop(Finished([Top EXCEPT !.scope = rule.sideEffect[Top.scope]]))
    BY DEF Decide
  <1>3. StackOK'
    BY <1>1, <1>2, FinishedStep DEF Decide
  <1>4. chains' = chains
    BY DEF Decide, chains
  <1>5. priv \in PrivSlots /\ Star \in PrivSlots
    BY DEF AclTypeOK, PrivSlots
  <1>6. decision' \in Decisions
    BY <1>1, <1>5 DEF Decide, DecisionOf, Rule
  <1>7. tendencies' \in [PrivSlots -> Tendencies]
    BY DEF Decide, AclTypeOK, Tendencies
  <1>8. AclTypeOK'
    BY <1>3, <1>4, <1>6, <1>7 DEF AclTypeOK, StackOK, Decide
  <1>9. \A p \in PrivSlots : tendencies'[p] = "allow" => tendencies[p] = "allow"
    BY DEF Decide, AclTypeOK
  <1>10. decision' = "allow" => \E p \in {priv, Star} : DecidedBy(p, "allow")
    BY <1>1 DEF Decide, DecisionOf
  <1>11. Justified'
    BY <1>4, <1>9, <1>10 DEF Justified, AllowedByARule, DecidedBy, TendedBy, Decide,
                             Evaluating
  <1> QED
    BY <1>8, <1>11

LEMMA ApplyRuleStep ==
    ASSUME AclTypeOK, Justified, ApplyRule PROVE AclTypeOK' /\ Justified'
  <1> DEFINE m == rule.sideEffect[Top.scope]
             refs == [i \in DOMAIN rule.subChains |-> rule.subChains[i][m]]
             f == [Top EXCEPT !.step = "subs", !.scope = m, !.refs = refs]
  <1>1. /\ Depth > 1 /\ Top.step # "next" /\ rule \in Rule /\ m \in Meta
        /\ \A p : rule.tendency[p] = "allow" => TendedBy(p, "allow")
    BY AppliedRule DEF ApplyRule
  <1>2. refs \in Seq(ChainRef)
    <2>1. rule.subChains \in Seq([Meta -> ChainRef])
      BY <1>1 DEF Rule, ChainTemplate
    <2> HIDE DEF m
    <2>2. \A i \in DOMAIN rule.subChains : rule.subChains[i][m] \in ChainRef
      BY <1>1, <2>1
    <2> QED
      BY <2>1, <2>2
  <1>3. /\ Top \in Frame /\ FrameOK(Top, Depth) /\ Depth # 1
    BY <1>1, TopFrame
  <1> HIDE DEF m, refs
  <1>4. f \in Frame /\ f.chain = Top.chain /\ f.rule = Top.rule
    BY <1>1, <1>2, <1>3 DEF Frame
  <1>5. FrameOK(f, Depth)
    BY <1>1, <1>3, <1>4 DEF FrameOK
  <1> HIDE DEF f
  <1>6. SetTop(f)
    BY DEF ApplyRule, f, m, refs
  <1>7. StackOK'
    BY <1>4, <1>5, <1>6, UpdateTop DEF ApplyRule
  <1>8. chains' = chains
    BY DEF ApplyRule, chains
  <1>9. tendencies' \in [PrivSlots -> Tendencies]
    BY <1>1 DEF ApplyRule, Tend, AclTypeOK, Rule
  <1>10. AclTypeOK'
    BY <1>7, <1>8, <1>9 DEF AclTypeOK, StackOK, ApplyRule
  <1>11. \A p \in PrivSlots : tendencies'[p] = "allow" => TendedBy(p, "allow")
    BY <1>1 DEF ApplyRule, Tend, Justified
  <1>12. Justified'
    BY <1>8, <1>11 DEF Justified, AllowedByARule, DecidedBy, TendedBy, ApplyRule,
                       Evaluating
  <1> QED
    BY <1>10, <1>12

(* Taking a reference off the innermost call's list.                       *)
LEMMA Referred ==
    ASSUME AclTypeOK, Referring
    PROVE  LET f == [Top EXCEPT !.refs = Tail(@)] IN
           /\ f \in Frame /\ FrameOK(f, Depth)
           /\ [stack EXCEPT ![Depth].refs = Tail(@)] = [stack EXCEPT ![Depth] = f]
           /\ Ref \in ChainRef
  <1>1. Top \in Frame /\ FrameOK(Top, Depth) /\ Top.refs \in Seq(ChainRef) /\ Top.refs # <<>>
    BY TopFrame DEF Frame, Referring
  <1>2. Tail(Top.refs) \in Seq(ChainRef) /\ Head(Top.refs) \in ChainRef
    BY <1>1
  <1>3. [Top EXCEPT !.refs = Tail(@)] \in Frame
    BY <1>1, <1>2 DEF Frame
  <1>4. FrameOK([Top EXCEPT !.refs = Tail(@)], Depth)
    BY <1>1 DEF FrameOK, Frame
  <1> QED
    BY <1>2, <1>3, <1>4 DEF Top, Ref

LEMMA SkipSubChainStep ==
    ASSUME AclTypeOK, Justified, SkipSubChain PROVE AclTypeOK' /\ Justified'
  <1> DEFINE f == [Top EXCEPT !.refs = Tail(@)]
  <1>1. /\ f \in Frame /\ FrameOK(f, Depth)
        /\ [stack EXCEPT ![Depth].refs = Tail(@)] = [stack EXCEPT ![Depth] = f]
    BY Referred DEF SkipSubChain
  <1> HIDE DEF f
  <1>2. [stack EXCEPT ![Depth] = f] \in Seq(Frame)
    BY <1>1, TopFrame DEF AclTypeOK, Depth
  <1>3. SetTop(f)
    BY <1>1, <1>2 DEF SkipSubChain, Refer, SetTop
  <1> QED
    BY <1>1, <1>3, UpdateTop, NothingDecided DEF SkipSubChain

LEMMA EnterSubChainStep ==
    ASSUME AclTypeOK, Justified, EnterSubChain PROVE AclTypeOK' /\ Justified'
  <1> DEFINE f == [Top EXCEPT !.refs = Tail(@)]
             s == [stack EXCEPT ![Depth] = f]
             g == Call(Ref.chain, Top.scope)
  <1>1. /\ f \in Frame /\ FrameOK(f, Depth)
        /\ [stack EXCEPT ![Depth].refs = Tail(@)] = s
    BY Referred DEF EnterSubChain
  <1>2. Top.scope \in Meta
    BY FinishedSame
  <1>3. Ref.chain \in ChainNames /\ Ref.chain \in DOMAIN chains
    BY Referred DEF EnterSubChain, ChainRef
  <1>4. <<>> \in Seq(ChainRef)
    OBVIOUS
  <1>5. g \in Frame /\ g.chain = Ref.chain /\ g.rule = 1 /\ g.step = "next"
    BY <1>2, <1>3, <1>4 DEF Call, Frame
  <1>6. Len(chains[Ref.chain]) \in Nat
    BY <1>3, ConfiguredRules DEF AclTypeOK
  <1>7. stack \in Seq(Frame) /\ Depth = Len(stack) /\ Depth \in Nat /\ Depth >= 1
    BY TopFrame DEF AclTypeOK, Depth
  <1>8. FrameOK(g, Depth + 1)
    BY <1>3, <1>5, <1>6, <1>7 DEF FrameOK
  <1> HIDE DEF f, g
  <1>9. s \in Seq(Frame) /\ Len(s) = Depth
    BY <1>1, <1>7
  <1>10. stack' = s \o <<g>>
    BY <1>1 DEF EnterSubChain, Refer, g
  <1>11. stack' \in Seq(Frame) /\ Len(stack') = Depth + 1
    BY <1>5, <1>7, <1>9, <1>10
  <1>12. /\ stack'[Depth + 1] = g
         /\ stack'[Depth] = f
         /\ \A i \in 1..Depth : i # Depth => stack'[i] = stack[i]
    BY <1>1, <1>5, <1>7, <1>9, <1>10
  <1>13. chains' = chains
    BY DEF EnterSubChain, chains
  <1>14. ASSUME NEW i \in DOMAIN stack' PROVE FrameOK(stack[i], i)'
    <2>1. i \in 1..(Depth + 1)
      BY <1>7, <1>11
    <2>2. CASE i = Depth + 1
      BY <2>2, <1>8, <1>12, <1>13 DEF FrameOK
    <2>3. CASE i = Depth
      BY <2>3, <1>1, <1>12, <1>13 DEF FrameOK
    <2>4. CASE i # Depth + 1 /\ i # Depth
      <3>1. i \in DOMAIN stack /\ stack'[i] = stack[i]
        BY <2>1, <2>4, <1>7, <1>12
      <3>2. FrameOK(stack[i], i)
        BY <3>1 DEF AclTypeOK
      <3> QED
        BY <3>1, <3>2, <1>13 DEF FrameOK
    <2> QED
      BY <2>2, <2>3, <2>4
  <1>15. StackOK'
    BY <1>7, <1>11, <1>14 DEF StackOK
  <1> QED
    BY <1>15, NothingDecided DEF EnterSubChain

LEMMA LeaveChainStep ==
    ASSUME AclTypeOK, Justified, LeaveChain PROVE AclTypeOK' /\ Justified'
  <1> DEFINE s == SubSeq(stack, 1, Depth - 1)
             m == Top.meta
             f == [s[Depth - 1] EXCEPT !.scope = m]
  <1>1. /\ stack \in Seq(Frame) /\ Depth = Len(stack) /\ Depth \in Nat /\ Depth > 1
        /\ m \in Meta
    BY TopFrame, FinishedSame DEF AclTypeOK, Depth, LeaveChain, Evaluating
  <1>2. /\ s \in Seq(Frame) /\ Len(s) = Depth - 1
        /\ \A i \in 1..(Depth - 1) : s[i] = stack[i]
    BY <1>1
  <1>3. Depth - 1 \in DOMAIN s /\ s[Depth - 1] \in Frame
    BY <1>1, <1>2
  <1>4. FrameOK(s[Depth - 1], Depth - 1)
    BY <1>1, <1>2, <1>3 DEF AclTypeOK
  <1> HIDE DEF s, m
  <1>5. f \in Frame /\ f.chain = s[Depth - 1].chain /\ f.rule = s[Depth - 1].rule
                    /\ f.step = s[Depth - 1].step
    BY <1>1, <1>3 DEF Frame
  <1>6. FrameOK(f, Depth - 1)
    BY <1>4, <1>5 DEF FrameOK
  <1>7. stack' = [s EXCEPT ![Depth - 1] = f]
    BY <1>1, <1>3 DEF LeaveChain, s, m
  <1> HIDE DEF f
  <1>8. /\ stack' \in Seq(Frame) /\ stack' # <<>> /\ DOMAIN stack' = 1..(Depth - 1)
        /\ stack'[Depth - 1] = f
        /\ \A i \in 1..(Depth - 1) : i # Depth - 1 => stack'[i] = stack[i]
    BY <1>1, <1>2, <1>3, <1>5, <1>7
  <1>9. chains' = chains
    BY DEF LeaveChain, chains
  <1>10. ASSUME NEW i \in DOMAIN stack' PROVE FrameOK(stack[i], i)'
    <2>1. CASE i = Depth - 1
      BY <2>1, <1>6, <1>8, <1>9 DEF FrameOK
    <2>2. CASE i # Depth - 1
      <3>1. i \in DOMAIN stack /\ stack'[i] = stack[i]
        BY <2>2, <1>1, <1>8
      <3>2. FrameOK(stack[i], i)
        BY <3>1 DEF AclTypeOK
      <3> QED
        BY <3>1, <3>2, <1>9 DEF FrameOK
    <2> QED
      BY <2>1, <2>2
  <1>11. StackOK'
    BY <1>8, <1>10 DEF StackOK
  <1> QED
    BY <1>11, NothingDecided DEF LeaveChain

LEMMA ConcludeStep ==
    ASSUME AclTypeOK, Justified, Conclude PROVE AclTypeOK' /\ Justified'
  <1>1. chains' = chains
    BY DEF Conclude, chains
  <1>2. AclTypeOK'
    BY <1>1 DEF Conclude, AclTypeOK, FrameOK
  <1>3. priv \in PrivSlots /\ Star \in PrivSlots
    BY DEF AclTypeOK, PrivSlots
  <1>4. Settled = "allow" =>
            \E p \in {priv, Star} : DecidedBy(p, "allow") \/ TendedBy(p, "allow")
    BY <1>3 DEF Settled, Justified
  <1>5. outcome' = "allow" => Settled = "allow"
    BY DEF Conclude
  <1>6. Justified'
    BY <1>1, <1>4, <1>5 DEF Conclude, Justified, AllowedByARule, DecidedBy, TendedBy
  <1> QED
    BY <1>2, <1>6

LEMMA StepKeeps ==
    ASSUME AclTypeOK, Justified, [Next]_vars PROVE AclTypeOK' /\ Justified'
  <1>1. CASE BeginRule        BY <1>1, BeginRuleStep
  <1>2. CASE BeginItem        BY <1>2, BeginItemStep
  <1>3. CASE SkipRule         BY <1>3, SkipRuleStep
  <1>4. CASE InvalidCondition BY <1>4, ThrowStep DEF InvalidCondition
  <1>5. CASE Decide           BY <1>5, DecideStep
  <1>6. CASE ApplyRule        BY <1>6, ApplyRuleStep
  <1>7. CASE SkipSubChain     BY <1>7, SkipSubChainStep
  <1>8. CASE EnterSubChain    BY <1>8, EnterSubChainStep
  <1>9. CASE BadSubChain      BY <1>9, ThrowStep DEF BadSubChain
  <1>10. CASE RuleDone        BY <1>10, RuleDoneStep
  <1>11. CASE LeaveChain      BY <1>11, LeaveChainStep
  <1>12. CASE Conclude        BY <1>12, ConcludeStep
  <1>13. CASE UNCHANGED vars
    <2>1. StackOK'
      BY <1>13 DEF StackOK, AclTypeOK, FrameOK, vars, chains
    <2> QED
      BY <2>1, <1>13, NothingDecided DEF vars
  <1> QED
    BY <1>1, <1>2, <1>3, <1>4, <1>5, <1>6, <1>7, <1>8, <1>9, <1>10, <1>11, <1>12, <1>13
       DEF Next

(* Every check of every configuration is well typed: no rule is looked up  *)
(* past the end of a chain or in a chain that does not exist.              *)
THEOREM AclTypeCorrect == Spec => []AclTypeOK
  <1>1. AclTypeOK /\ Justified /\ [Next]_vars => (AclTypeOK /\ Justified)'
    BY StepKeeps
  <1> QED
    BY <1>1, InitTyped, PTL DEF Spec

(* No configuration allows what none of its applicable rules allows.       *)
THEOREM OnlyRulesAllow == Spec => []AllowedByARule
  <1>1. AclTypeOK /\ Justified /\ [Next]_vars => (AclTypeOK /\ Justified)'
    BY StepKeeps
  <1>2. Justified => AllowedByARule
    BY DEF Justified
  <1> QED
    BY <1>1, <1>2, InitTyped, PTL DEF Spec
===============================================================================
