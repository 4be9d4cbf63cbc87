-------------------------------- MODULE AclPolicy --------------------------------
(***************************************************************************)
(* What a configuration of chains means, said without an order of          *)
(* evaluation: the chains are unrolled into the list of all the rules that *)
(* would apply if none of them decided, and the verdict is read off it.    *)
(***************************************************************************)
EXTENDS AclChains

(* The table of condition keys in acl_chains/README.md.                    *)
CriteriaThat(cond, m, result) ==
    {i \in DOMAIN cond.criteria : cond.criteria[i][m] = result}

KeepsRule(cond, m) ==
    LET Met == CriteriaThat(cond, m, "met")  Unmet == CriteriaThat(cond, m, "unmet") IN
    CASE cond.key \in {"if", "ifAny"}         -> Met # {}
      [] cond.key \in {"always", "ifAll"}     -> Unmet = {}
      [] cond.key \in {"unless", "unlessAny"} -> Met = {}
      [] cond.key = "unlessAll"               -> Unmet # {}

(* A criterion without a truth value counts if the ones before it leave    *)
(* the condition open.                                                     *)
Breaks(cond, m) ==
    LET Settles == CriteriaThat(cond, m,
            IF cond.key \in {"ifAll", "unlessAll"} THEN "unmet" ELSE "met")
    IN  \E i \in CriteriaThat(cond, m, "invalid") : \A j \in Settles : i < j

Broken(r, m) ==
    \E i \in DOMAIN r.conds :
        /\ Breaks(r.conds[i], m)
        /\ \A j \in 1..(i - 1) : KeepsRule(r.conds[j], m)

Applies(r, m) == \A i \in DOMAIN r.conds : KeepsRule(r.conds[i], m)

-------------------------------------------------------------------------------
NoEffects == [p \in PrivSlots |-> "none"]
Mistake   == [mistake |-> TRUE, decide |-> NoEffects, tendency |-> NoEffects]
Effects(r) == [mistake |-> FALSE, decide |-> r.decide, tendency |-> r.tendency]

(* So far: the list of what applied, and the metadata after it.            *)
Entry == [mistake : BOOLEAN, decide : [PrivSlots -> Decisions],
          tendency : [PrivSlots -> Tendencies]]
Sofar == [list : Seq(Entry), meta : Meta]
Add(sofar, entry) == [sofar EXCEPT !.list = Append(@, entry)]

(* What there is after the last k of several steps, each a function of     *)
(* what there is so far.                                                   *)
Last(steps) ==
    LET last[k \in Nat] ==
            [s \in Sofar |->
                IF k \in DOMAIN steps
                THEN last[k - 1][steps[Len(steps) + 1 - k][s]] ELSE s]
    IN  last
Through(steps) == Last(steps)[Len(steps)]

(* A rule for one item, or without items.  run is what references do.      *)
Once(r, run) ==
    [s \in Sofar |->
        IF Broken(r, s.meta) THEN Add(s, Mistake)
        ELSE IF ~Applies(r, s.meta) THEN s
        ELSE LET m == r.sideEffect[s.meta] IN
             Through([i \in DOMAIN r.subChains |-> run[r.subChains[i][m]]])
                    [[list |-> Append(s.list, Effects(r)), meta |-> m]]]

ForItem(r, item, run) ==
    [s \in Sofar |-> [Once(r, run)[[s EXCEPT !.meta[r.slot] = item]]
                        EXCEPT !.meta = s.meta]]

UnrollRule(r, run) ==
    IF r.repeat THEN Through([i \in DOMAIN r.items |-> ForItem(r, r.items[i], run)])
    ELSE Once(r, run)

UnrollChain(rules, run) ==
    Through([i \in DOMAIN rules |-> UnrollRule(rules[i], run)])

(* What a reference does, given how many chains may still be opened, and   *)
(* those that are open: a chain is not run within itself.                  *)
UnrollRef(cs) ==
    LET run[n \in Nat] == [open \in SUBSET ChainNames |-> [ref \in ChainRef |->
            [s \in Sofar |->
                IF ref.chain = Empty THEN s
                ELSE IF ref.chain \notin DOMAIN cs
                     THEN IF ref.optional THEN s ELSE Add(s, Mistake)
                ELSE IF ref.chain \in open \/ n = 0 THEN Add(s, Mistake)
                ELSE UnrollChain(cs[ref.chain], run[n - 1][open \cup {ref.chain}])[s]]]]
    IN  run

(* The bottom of the stack keeps what was known before the check.          *)
Unrolled ==
    UnrollRef(chains)[Cardinality(DOMAIN chains)][{}]
        [[chain |-> "main", optional |-> FALSE]]
        [[list |-> <<>>, meta |-> stack[1].meta]].list

-------------------------------------------------------------------------------
(* The first matching decision, else the last matching tendency, else the  *)
(* last fallback tendency, else deny.  "stop" delegates to one of these.   *)
Ends(list) == {i \in DOMAIN list : \/ list[i].mistake
                                   \/ \E p \in {priv, Star} : list[i].decide[p] # "none"}

LastSaid(list, p, otherwise) ==
    LET Said == {i \in DOMAIN list : list[i].tendency[p] # "none"} IN
    IF Said = {} THEN otherwise
    ELSE list[CHOOSE i \in Said : \A j \in Said : j <= i].tendency[p]

FirstEnd(list) == IF Ends(list) = {} THEN Len(list) + 1
                  ELSE CHOOSE i \in Ends(list) : \A j \in Ends(list) : i <= j

Verdict(list, delegate) ==
    LET first    == FirstEnd(list)
        before   == SubSeq(list, 1, first - 1)
        Fallback == LastSaid(before, Star, "deny")
        Tendency == LastSaid(before, priv, Fallback)
    IN  IF Ends(list) = {} THEN Tendency
        ELSE IF list[first].mistake THEN "error"
        ELSE LET d == DecisionOf(list[first]) IN
             IF d # "stop" THEN d
             ELSE IF delegate = "matching" THEN Tendency ELSE Fallback

(* A finished check has come to the verdict that the rules mean, repeats,  *)
(* sub-chains, side effects and mistakes in the configuration included.    *)
VerdictIsPolicy ==
    outcome # "pending" => outcome = Verdict(Unrolled, "fallback")

(* "stop" delegates to the tendencies (acl_chains/README.md): the matching *)
(* one first, as in a check that ends without a decision.                  *)
StopDelegates ==
    outcome # "pending" => outcome = Verdict(Unrolled, "matching")
===============================================================================
