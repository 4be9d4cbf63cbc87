----------------------------- MODULE AclPolicy_proofs -----------------------------
(***************************************************************************)
(* Every finished check of every configuration has come to the verdict     *)
(* that AclPolicy reads off the unrolled list of its rules.                *)
(*                                                                         *)
(* The unrolled list is a recursive function.  The proof keeps, for each   *)
(* call on the stack, what that call has left to do, as a function of what *)
(* there is so far (Rest, Resume); one after another, these functions lead *)
(* from the entries of the rules that have been applied to the whole list  *)
(* (Leads, Ahead).  A step of the evaluation changes both ends alike.      *)
(***************************************************************************)
EXTENDS AclChains_proofs, AclPolicy, WellFoundedInduction, FiniteSetTheorems

(* Induction over numbers, and the functions it defines.                   *)
LEMMA NatInduct ==
    ASSUME NEW T, 0 \in T, \A n \in Nat : n \in T => n + 1 \in T
    PROVE  \A n \in Nat : n \in T
  <1> DEFINE S == Nat \ T
  <1> SUFFICES ASSUME S # {} PROVE FALSE
    OBVIOUS
  <1>1. IsWellFoundedOn(OpToRel(<, Nat), Nat)
    BY NatLessThanWellFounded
  <1>2. PICK x \in S : \A y \in S : ~(<<y, x>> \in OpToRel(<, Nat))
    BY <1>1, WFMin
  <1>3. x \in Nat /\ x # 0 /\ x \notin T
    OBVIOUS
  <1>4. x - 1 \in Nat /\ x - 1 < x /\ (x - 1) + 1 = x
    BY <1>3
  <1>5. <<x - 1, x>> \in OpToRel(<, Nat)
    BY <1>3, <1>4 DEF OpToRel
  <1>6. x - 1 \in T
    BY <1>2, <1>4, <1>5
  <1> QED
    BY <1>3, <1>4, <1>6

(* What one round of a recursion does, and a function that follows it.     *)
StepsIn(A) == [Nat \X A -> A]
Recurs(f, a, step) == f[0] = a /\ \A n \in Nat : f[n + 1] = step[<<n, f[n]>>]

(* A recursively defined function exists.                                  *)
LEMMA Recursion ==
    ASSUME NEW A, NEW a \in A, NEW step \in StepsIn(A)
    PROVE  \E f \in [Nat -> A] : Recurs(f, a, step)
  <1> DEFINE Upto(n) == {g \in [0..n -> A] :
                 /\ g[0] = a
                 /\ \A m \in Nat : m < n => g[m + 1] = step[<<m, g[m]>>]}
             f == [n \in Nat |-> (CHOOSE g : g \in Upto(n))[n]]
  <1>0. step \in [Nat \X A -> A]
    BY DEF StepsIn
  <1>1. ASSUME NEW n \in Nat, NEW k \in Nat, n <= k,
               NEW g \in Upto(n), NEW h \in Upto(k), NEW i \in Nat, i <= n
        PROVE  g[i] = h[i]
    <2> DEFINE T == {m \in Nat : m <= n => g[m] = h[m]}
    <2>1. 0 \in T
      OBVIOUS
    <2>2. ASSUME NEW m \in Nat, m \in T PROVE m + 1 \in T
      <3> SUFFICES ASSUME m + 1 <= n PROVE g[m + 1] = h[m + 1]
        OBVIOUS
      <3>1. m < n /\ m < k /\ m <= n
        BY <1>1
      <3> QED
        BY <2>2, <3>1
    <2> HIDE DEF T
    <2>3. i \in T
      BY <2>1, <2>2, NatInduct
    <2> QED
      BY <1>1, <2>3 DEF T
  <1>2. \A n \in Nat : Upto(n) # {}
    <2> DEFINE T == {n \in Nat : Upto(n) # {}}
    <2>1. 0 \in T
      <3>1. [i \in 0..0 |-> a] \in Upto(0)
        OBVIOUS
      <3> QED
        BY <3>1
    <2>2. ASSUME NEW n \in Nat, n \in T PROVE n + 1 \in T
      <3>1. PICK g : g \in Upto(n)
        BY <2>2
      <3> DEFINE h == [i \in 0..(n + 1) |-> IF i = n + 1 THEN step[<<n, g[n]>>] ELSE g[i]]
      <3>2. h \in [0..(n + 1) -> A]
        BY <3>1, <1>0
      <3>3. h[0] = a
        BY <3>1
      <3>4. ASSUME NEW m \in Nat, m < n + 1 PROVE h[m + 1] = step[<<m, h[m]>>]
        <4>1. CASE m = n
          <5>1. h[n + 1] = step[<<n, g[n]>>] /\ h[n] = g[n]
            OBVIOUS
          <5> HIDE DEF h
          <5> QED
            BY <4>1, <5>1
        <4>2. CASE m < n
          BY <4>2, <3>1
        <4> QED
          BY <4>1, <4>2, <3>4
      <3> HIDE DEF h
      <3>5. h \in Upto(n + 1)
        BY <3>2, <3>3, <3>4
      <3> QED
        BY <3>5
    <2> HIDE DEF T
    <2>3. \A n \in Nat : n \in T
      BY <2>1, <2>2, NatInduct
    <2> QED
      BY <2>3 DEF T
  <1>3. ASSUME NEW n \in Nat PROVE f[n] \in A /\ (CHOOSE g : g \in Upto(n)) \in Upto(n)
    <2>1. (CHOOSE g : g \in Upto(n)) \in Upto(n)
      BY <1>2
    <2>2. PICK h : h = CHOOSE g : g \in Upto(n)
      OBVIOUS
    <2>3. f[n] = h[n] /\ h \in [0..n -> A]
      BY <2>1, <2>2
    <2>4. f[n] \in A
      BY <2>3
    <2> QED
      BY <2>1, <2>4
  <1>4. f \in [Nat -> A]
    BY <1>3
  <1>5. ASSUME NEW n \in Nat, NEW k \in Nat, n <= k, NEW g \in Upto(k)
        PROVE  f[n] = g[n]
    <2>1. PICK h \in Upto(n) : h = CHOOSE g_1 : g_1 \in Upto(n)
      BY <1>3
    <2>2. f[n] = h[n]
      BY <2>1
    <2> HIDE DEF Upto, f
    <2> QED
      BY <1>1, <1>5, <2>1, <2>2
  <1>6. f[0] = a
    <2>1. PICK g : g \in Upto(0)
      BY <1>2
    <2>2. f[0] = g[0]
      BY <1>5, <2>1
    <2> QED
      BY <2>1, <2>2
  <1>7. ASSUME NEW n \in Nat PROVE f[n + 1] = step[<<n, f[n]>>]
    <2>1. PICK g : g \in Upto(n + 1)
      <3> HIDE DEF Upto, f
      <3>1. n + 1 \in Nat
        OBVIOUS
      <3> QED
        BY <1>2, <3>1
    <2>2. f[n] = g[n] /\ f[n + 1] = g[n + 1]
      <3> HIDE DEF Upto, f
      <3>1. n <= n + 1 /\ n + 1 <= n + 1 /\ n + 1 \in Nat
        OBVIOUS
      <3> QED
        BY <1>5, <2>1, <3>1
    <2>3. g[n + 1] = step[<<n, g[n]>>]
      BY <2>1
    <2> HIDE DEF Upto, f
    <2> QED
      BY <2>2, <2>3
  <1> HIDE DEF f
  <1> QED
    BY <1>4, <1>6, <1>7 DEF Recurs

(* One list is the beginning of another.                                   *)
Begins(l, k) == Len(l) <= Len(k) /\ \A i \in DOMAIN l : k[i] = l[i]

(* What only ever adds to the list.                                        *)
Growing == {t \in [Sofar -> Sofar] : \A s \in Sofar : Begins(s.list, t[s].list)}

(* Beginnings of beginnings are beginnings.                                *)
LEMMA BeginsTransitive ==
    ASSUME NEW A, NEW a \in Seq(A), NEW b \in Seq(A), NEW c \in Seq(A),
           Begins(a, b), Begins(b, c)
    PROVE  Begins(a, c)
  BY DEF Begins

(* A list is a beginning of itself.                                        *)
LEMMA BeginsSelf == \A a : a \in Seq(Entry) => Begins(a, a)
  BY DEF Begins

(* To do nothing.                                                          *)
Stay == [s \in Sofar |-> s]

LEMMA StayGrows == Stay \in Growing
  BY BeginsSelf DEF Stay, Growing, Sofar

(* The equations of Last: it exists, and it undoes one step at a time.     *)
LEMMA LastEquation ==
    ASSUME NEW steps \in Seq(Growing)
    PROVE  /\ Last(steps) \in [Nat -> Growing]
           /\ Last(steps)[0] = Stay
           /\ \A k \in DOMAIN steps : \A s \in Sofar :
                Last(steps)[k][s] = Last(steps)[k - 1][steps[Len(steps) + 1 - k][s]]
  <1> DEFINE D(g) == [k \in Nat |->
                 [s \in Sofar |->
                     IF k \in DOMAIN steps
                     THEN g[k - 1][steps[Len(steps) + 1 - k][s]] ELSE s]]
             step == [p \in Nat \X Growing |->
                 [s \in Sofar |->
                     IF p[1] + 1 \in DOMAIN steps
                     THEN p[2][steps[Len(steps) + 1 - (p[1] + 1)][s]] ELSE s]]
             L == Last(steps)
  <1>1. ASSUME NEW k \in Nat, k + 1 \in DOMAIN steps
        PROVE  steps[Len(steps) + 1 - (k + 1)] \in Growing
    <2>1. Len(steps) + 1 - (k + 1) \in 1..Len(steps)
      BY <1>1
    <2> QED
      BY <2>1
  <1>2. ASSUME NEW t \in Growing, NEW u \in Growing
        PROVE  [s \in Sofar |-> t[u[s]]] \in Growing
    <2>1. ASSUME NEW s \in Sofar
          PROVE  t[u[s]] \in Sofar /\ Begins(s.list, t[u[s]].list)
      <3>1. u[s] \in Sofar /\ t[u[s]] \in Sofar
        BY DEF Growing
      <3>2. Begins(s.list, u[s].list) /\ Begins(u[s].list, t[u[s]].list)
        BY <3>1 DEF Growing
      <3>3. s.list \in Seq(Entry) /\ u[s].list \in Seq(Entry) /\ t[u[s]].list \in Seq(Entry)
        BY <3>1 DEF Sofar
      <3> QED
        BY <3>1, <3>2, <3>3, BeginsTransitive
    <2> QED
      BY <2>1 DEF Growing
  <1>3. step \in [Nat \X Growing -> Growing]
    <2>1. ASSUME NEW k \in Nat, NEW t \in Growing
          PROVE  step[<<k, t>>] \in Growing
      <3>1. CASE k + 1 \in DOMAIN steps
        <4>1. step[<<k, t>>] = [s \in Sofar |-> t[steps[Len(steps) + 1 - (k + 1)][s]]]
          BY <3>1
        <4> QED
          BY <4>1, <3>1, <1>1, <1>2
      <3>2. CASE k + 1 \notin DOMAIN steps
        <4>1. step[<<k, t>>] = Stay
          BY <3>2 DEF Stay
        <4> QED
          BY <4>1, StayGrows
      <3> QED
        BY <3>1, <3>2
    <2>2. step = [p \in Nat \X Growing |-> step[p]]
      OBVIOUS
    <2> HIDE DEF step
    <2>3. ASSUME NEW p \in Nat \X Growing PROVE step[p] \in Growing
      <3>1. p = <<p[1], p[2]>> /\ p[1] \in Nat /\ p[2] \in Growing
        OBVIOUS
      <3> QED
        BY <2>1, <3>1
    <2> QED
      BY <2>2, <2>3
  <1>4. \E f : f = D(f)
    <2>1. PICK f \in [Nat -> Growing] :
            f[0] = Stay /\ \A n \in Nat : f[n + 1] = step[<<n, f[n]>>]
      <3> HIDE DEF step
      <3>1. PICK A, a, st : A = Growing /\ a = Stay /\ st = step
        OBVIOUS
      <3>2. a \in A /\ st \in StepsIn(A)
        BY <1>3, <3>1, StayGrows DEF StepsIn
      <3>3. \E f \in [Nat -> A] : Recurs(f, a, st)
        BY <3>2, Recursion
      <3> QED
        BY <3>1, <3>3 DEF Recurs
    <2>2. ASSUME NEW k \in Nat PROVE f[k] = D(f)[k]
      <3>1. CASE k = 0
        BY <3>1, <2>1 DEF Stay
      <3>2. CASE k # 0
        <4>1. PICK n \in Nat : k = n + 1
          BY <3>2
        <4>2. f[k] = step[<<n, f[n]>>] /\ f[n] \in Growing /\ k - 1 = n
          <5> HIDE DEF step
          <5> QED
            BY <4>1, <2>1
        <4>3. step[<<n, f[n]>>] =
                [s \in Sofar |->
                     IF n + 1 \in DOMAIN steps
                     THEN f[n][steps[Len(steps) + 1 - (n + 1)][s]] ELSE s]
          BY <4>2
        <4> QED
          BY <4>1, <4>2, <4>3
      <3> QED
        BY <3>1, <3>2
    <2>3. f = [k \in Nat |-> f[k]]
      BY <2>1
    <2>4. D(f) = [k \in Nat |-> D(f)[k]]
      OBVIOUS
    <2> HIDE DEF D
    <2>5. f = D(f)
      BY <2>2, <2>3, <2>4
    <2> QED
      BY <2>5
  <1>5. L = CHOOSE g : g = D(g)
    BY DEF Last
  <1>6. L = D(L)
    BY <1>4, <1>5
  <1> HIDE DEF L
  <1>12. ASSUME NEW k \in Nat
         PROVE  L[k] = [s \in Sofar |->
                     IF k \in DOMAIN steps
                     THEN L[k - 1][steps[Len(steps) + 1 - k][s]] ELSE s]
    <2>1. L[k] = D(L)[k]
      <3> HIDE DEF D
      <3> QED
        BY <1>6
    <2> QED
      BY <2>1
  <1>7. L[0] = Stay
    BY <1>12 DEF Stay
  <1>8. ASSUME NEW k \in DOMAIN steps, NEW s \in Sofar
        PROVE  L[k][s] = L[k - 1][steps[Len(steps) + 1 - k][s]]
    <2>1. k \in Nat
      OBVIOUS
    <2>2. L[k] = [s_1 \in Sofar |->
                     IF k \in DOMAIN steps
                     THEN L[k - 1][steps[Len(steps) + 1 - k][s_1]] ELSE s_1]
      BY <2>1, <1>12
    <2> QED
      BY <2>2
  <1>9. ASSUME NEW k \in Nat, L[k] \in Growing PROVE L[k + 1] \in Growing
    <2>1. CASE k + 1 \in DOMAIN steps
      <3>1. L[k + 1] = [s \in Sofar |-> L[k][steps[Len(steps) + 1 - (k + 1)][s]]]
        BY <2>1, <1>12
      <3> QED
        BY <3>1, <2>1, <1>1, <1>2, <1>9
    <2>2. CASE k + 1 \notin DOMAIN steps
      <3>1. L[k + 1] = Stay
        BY <2>2, <1>12 DEF Stay
      <3> QED
        BY <3>1, StayGrows
    <2> QED
      BY <2>1, <2>2
  <1>10. \A k \in Nat : L[k] \in Growing
    <2> DEFINE T == {k \in Nat : L[k] \in Growing}
    <2>1. 0 \in T /\ \A n \in Nat : n \in T => n + 1 \in T
      BY <1>7, <1>9, StayGrows
    <2> HIDE DEF T
    <2>2. \A n \in Nat : n \in T
      BY <2>1, NatInduct
    <2> QED
      BY <2>2 DEF T
  <1>11. L \in [Nat -> Growing]
    BY <1>6, <1>10
  <1> QED
    BY <1>7, <1>8, <1>11 DEF L

(* Several steps add to the list, one after another.                       *)
LEMMA ThroughGrows ==
    ASSUME NEW steps \in Seq(Growing)
    PROVE  Through(steps) \in Growing
  BY LastEquation DEF Through

(* What there is so far, put together from its parts.                      *)
LEMMA SofarMade ==
    ASSUME NEW l \in Seq(Entry), NEW m \in Meta
    PROVE  /\ [list |-> l, meta |-> m] \in Sofar
           /\ [list |-> l, meta |-> m].list = l
           /\ [list |-> l, meta |-> m].meta = m
  BY DEF Sofar

(* A mistake, and what a rule does, are entries of the list.               *)
LEMMA MistakeIsEntry == Mistake \in Entry
  BY DEF Mistake, Entry, NoEffects, Decisions, Tendencies

LEMMA EffectsAreEntry ==
    ASSUME NEW r \in Rule PROVE Effects(r) \in Entry
  BY DEF Effects, Entry, Rule

(* The list before an entry was added begins the one after.                *)
LEMMA AppendBegins ==
    ASSUME NEW l \in Seq(Entry), NEW e \in Entry
    PROVE  Append(l, e) \in Seq(Entry) /\ Begins(l, Append(l, e))
  BY DEF Begins

(* What a mistake or a rule adds is at the end of the list.                *)
LEMMA AddGrows ==
    ASSUME NEW s \in Sofar, NEW e \in Entry
    PROVE  /\ Add(s, e) \in Sofar
           /\ Add(s, e).list = Append(s.list, e) /\ Add(s, e).meta = s.meta
           /\ Begins(s.list, Add(s, e).list)
  <1>1. s.list \in Seq(Entry) /\ s.meta \in Meta
    BY DEF Sofar
  <1>2. PICK l : l = Append(s.list, e)
    OBVIOUS
  <1>3. l \in Seq(Entry) /\ Begins(s.list, l)
    BY <1>1, <1>2, AppendBegins
  <1>4. Add(s, e) = [s EXCEPT !.list = l]
    BY <1>2 DEF Add
  <1>5. Add(s, e) \in Sofar /\ Add(s, e).list = l /\ Add(s, e).meta = s.meta
    BY <1>3, <1>4 DEF Sofar
  <1> QED
    BY <1>2, <1>3, <1>5

Runs == [ChainRef -> Growing]

(* The references of a rule, run one after the other.                      *)
Run(refs, run) == [i \in DOMAIN refs |-> run[refs[i]]]

(* References are steps.                                                   *)
LEMMA RunSteps ==
    ASSUME NEW refs \in Seq(ChainRef), NEW run \in Runs
    PROVE  /\ Run(refs, run) \in Seq(Growing)
           /\ Len(Run(refs, run)) = Len(refs)
  BY DEF Run, Runs

(* A rule only adds to the list, whatever its references do.               *)
LEMMA OnceGrows ==
    ASSUME NEW r \in Rule, NEW run \in Runs
    PROVE  Once(r, run) \in Growing
  <1> DEFINE refs(m) == [i \in DOMAIN r.subChains |-> r.subChains[i][m]]
  <1>1. ASSUME NEW s \in Sofar
        PROVE  Once(r, run)[s] \in Sofar /\ Begins(s.list, Once(r, run)[s].list)
    <2>1. s.list \in Seq(Entry) /\ s.meta \in Meta
      BY DEF Sofar
    <2>2. CASE Broken(r, s.meta)
      <3>1. Once(r, run)[s] = Add(s, Mistake)
        BY <2>2 DEF Once
      <3> QED
        BY <3>1, AddGrows, MistakeIsEntry
    <2>3. CASE ~Broken(r, s.meta) /\ ~Applies(r, s.meta)
      <3>1. Once(r, run)[s] = s
        BY <2>3 DEF Once
      <3> QED
        BY <2>1, <3>1, BeginsSelf
    <2>4. CASE ~Broken(r, s.meta) /\ Applies(r, s.meta)
      <3>1. PICK m : m = r.sideEffect[s.meta]
        OBVIOUS
      <3>2. m \in Meta
        BY <2>1, <3>1 DEF Rule, SideEffect
      <3>3. PICK l : l = Append(s.list, Effects(r))
        OBVIOUS
      <3>4. l \in Seq(Entry) /\ Begins(s.list, l)
        BY <2>1, <3>3, AppendBegins, EffectsAreEntry
      <3>5. [list |-> l, meta |-> m] \in Sofar /\ [list |-> l, meta |-> m].list = l
        BY <3>2, <3>4, SofarMade
      <3>6. PICK steps : steps = [i \in DOMAIN r.subChains |-> run[r.subChains[i][m]]]
        OBVIOUS
      <3>7. steps \in Seq(Growing)
        <4>1. r.subChains \in Seq([Meta -> ChainRef])
          BY DEF Rule, ChainTemplate
        <4>2. \A i \in DOMAIN r.subChains : run[r.subChains[i][m]] \in Growing
          BY <3>2, <4>1 DEF Runs
        <4> QED
          BY <3>6, <4>1, <4>2
      <3>8. Once(r, run)[s] = Through(steps)[[list |-> l, meta |-> m]]
        BY <2>4, <3>1, <3>3, <3>6 DEF Once
      <3>9. PICK x : x = [list |-> l, meta |-> m]
        OBVIOUS
      <3>10. Through(steps)[x] \in Sofar /\ Begins(x.list, Through(steps)[x].list)
        BY <3>5, <3>7, <3>9, ThroughGrows DEF Growing
      <3>11. Through(steps)[x].list \in Seq(Entry)
        BY <3>10 DEF Sofar
      <3> QED
        BY <2>1, <3>4, <3>5, <3>8, <3>9, <3>10, <3>11, BeginsTransitive
    <2> QED
      BY <2>2, <2>3, <2>4
  <1>2. Once(r, run) = [s \in Sofar |-> Once(r, run)[s]]
    BY DEF Once
  <1> QED
    BY <1>1, <1>2 DEF Growing

(* The metadata for one item, and as it was before the items.              *)
Itemized(r, s, item) == [s EXCEPT !.meta[r.slot] = item]
Restored(s, m) == [s EXCEPT !.meta = m]

(* An item changes the metadata only.                                      *)
LEMMA ItemizedSofar ==
    ASSUME NEW r \in Rule, NEW item \in Vals, NEW s \in Sofar
    PROVE  /\ Itemized(r, s, item) \in Sofar
           /\ Itemized(r, s, item).list = s.list
           /\ Itemized(r, s, item).meta = [s.meta EXCEPT ![r.slot] = item]
  <1>1. [s.meta EXCEPT ![r.slot] = item] \in Meta
    BY DEF Sofar, Meta, Rule
  <1>2. PICK m : m = [s.meta EXCEPT ![r.slot] = item]
    OBVIOUS
  <1>3. Itemized(r, s, item) = [s EXCEPT !.meta = m]
    BY <1>2 DEF Itemized
  <1> QED
    BY <1>1, <1>2, <1>3 DEF Sofar

(* So does taking the item back.                                           *)
LEMMA RestoredSofar ==
    ASSUME NEW s \in Sofar, NEW m \in Meta
    PROVE  /\ Restored(s, m) \in Sofar
           /\ Restored(s, m).list = s.list /\ Restored(s, m).meta = m
  BY DEF Sofar, Restored

(* A rule for one item: set it, apply the rule, take it back.              *)
LEMMA ForItemValue ==
    ASSUME NEW r \in Rule, NEW run \in Runs, NEW item \in Vals, NEW s \in Sofar
    PROVE  ForItem(r, item, run)[s]
              = Restored(Once(r, run)[Itemized(r, s, item)], s.meta)
  BY DEF ForItem, Restored, Itemized

(* A rule for one item only adds to the list.                              *)
LEMMA ForItemGrows ==
    ASSUME NEW r \in Rule, NEW run \in Runs, NEW item \in Vals
    PROVE  ForItem(r, item, run) \in Growing
  <1>1. ASSUME NEW s \in Sofar
        PROVE  /\ ForItem(r, item, run)[s] \in Sofar
               /\ Begins(s.list, ForItem(r, item, run)[s].list)
    <2>1. PICK x : x = Itemized(r, s, item)
      OBVIOUS
    <2>2. x \in Sofar /\ x.list = s.list
      BY <2>1, ItemizedSofar
    <2>3. PICK y : y = Once(r, run)[x]
      OBVIOUS
    <2>4. y \in Sofar /\ Begins(x.list, y.list)
      BY <2>2, <2>3, OnceGrows DEF Growing
    <2>5. s.meta \in Meta
      BY DEF Sofar
    <2>6. ForItem(r, item, run)[s] = Restored(y, s.meta)
      BY <2>1, <2>3, ForItemValue
    <2> QED
      BY <2>2, <2>4, <2>5, <2>6, RestoredSofar
  <1>2. ForItem(r, item, run) = [s \in Sofar |-> ForItem(r, item, run)[s]]
    BY DEF ForItem
  <1> QED
    BY <1>1, <1>2 DEF Growing

(* The items of a repeated rule, one after another.                        *)
Items(r, run) == [i \in DOMAIN r.items |-> ForItem(r, r.items[i], run)]

(* Items are steps.                                                        *)
LEMMA ItemSteps ==
    ASSUME NEW r \in Rule, NEW run \in Runs
    PROVE  /\ Items(r, run) \in Seq(Growing)
           /\ Len(Items(r, run)) = Len(r.items)
           /\ \A i \in DOMAIN r.items :
                Items(r, run)[i] = ForItem(r, r.items[i], run)
  <1>1. r.items \in Seq(Vals)
    BY DEF Rule
  <1>2. \A i \in DOMAIN r.items : ForItem(r, r.items[i], run) \in Growing
    BY <1>1, ForItemGrows
  <1> QED
    BY <1>1, <1>2 DEF Items

(* A rule, repeated or not, only adds to the list.                         *)
LEMMA RuleGrows ==
    ASSUME NEW r \in Rule, NEW run \in Runs
    PROVE  UnrollRule(r, run) \in Growing
  <1>1. UnrollRule(r, run) = IF r.repeat THEN Through(Items(r, run)) ELSE Once(r, run)
    BY DEF UnrollRule, Items
  <1> QED
    BY <1>1, ItemSteps, ThroughGrows, OnceGrows

(* The rules of a chain, one after another.                                *)
RuleSteps(rules, run) == [i \in DOMAIN rules |-> UnrollRule(rules[i], run)]

(* Rules are steps.                                                        *)
LEMMA ChainSteps ==
    ASSUME NEW rules \in Seq(Rule), NEW run \in Runs
    PROVE  /\ RuleSteps(rules, run) \in Seq(Growing)
           /\ Len(RuleSteps(rules, run)) = Len(rules)
           /\ \A i \in DOMAIN rules :
                RuleSteps(rules, run)[i] = UnrollRule(rules[i], run)
           /\ UnrollChain(rules, run) = Last(RuleSteps(rules, run))[Len(rules)]
           /\ UnrollChain(rules, run) \in Growing
  <1>1. \A i \in DOMAIN rules : UnrollRule(rules[i], run) \in Growing
    BY RuleGrows
  <1>2. /\ RuleSteps(rules, run) \in Seq(Growing)
        /\ Len(RuleSteps(rules, run)) = Len(rules)
        /\ \A i \in DOMAIN rules :
                RuleSteps(rules, run)[i] = UnrollRule(rules[i], run)
    BY <1>1 DEF RuleSteps
  <1>3. UnrollChain(rules, run) = Through(RuleSteps(rules, run))
    BY DEF UnrollChain, RuleSteps
  <1> QED
    BY <1>2, <1>3, ThroughGrows DEF Through
-------------------------------------------------------------------------------
(* What the references do, for each set of open chains.                    *)
Deeper == [SUBSET ChainNames -> Runs]

(* What a reference does, in terms of what the references of the chain do. *)
RefStep(cs, ref, open, n, deeper) ==
    [s \in Sofar |->
        IF ref.chain = Empty THEN s
        ELSE IF ref.chain \notin DOMAIN cs
             THEN IF ref.optional THEN s ELSE Add(s, Mistake)
        ELSE IF ref.chain \in open \/ n = 0 THEN Add(s, Mistake)
        ELSE UnrollChain(cs[ref.chain], deeper[open \cup {ref.chain}])[s]]

(* A reference only adds to the list.                                      *)
LEMMA RefStepGrows ==
    ASSUME NEW cs, IsConfig(cs), NEW ref \in ChainRef, NEW open \in SUBSET ChainNames,
           NEW n \in Nat, NEW deeper, n # 0 => deeper \in Deeper
    PROVE  RefStep(cs, ref, open, n, deeper) \in Growing
  <1>1. ASSUME NEW s \in Sofar
        PROVE  /\ RefStep(cs, ref, open, n, deeper)[s] \in Sofar
               /\ Begins(s.list, RefStep(cs, ref, open, n, deeper)[s].list)
    <2>1. PICK x : x = RefStep(cs, ref, open, n, deeper)[s]
      OBVIOUS
    <2>2. CASE x = s
      <3>1. s.list \in Seq(Entry)
        BY DEF Sofar
      <3> QED
        BY <2>1, <2>2, <3>1, BeginsSelf
    <2>3. CASE x = Add(s, Mistake)
      BY <2>1, <2>3, AddGrows, MistakeIsEntry
    <2>4. CASE /\ ref.chain # Empty /\ ref.chain \in DOMAIN cs /\ n # 0
               /\ x = UnrollChain(cs[ref.chain], deeper[open \cup {ref.chain}])[s]
      <3>1. ref.chain \in ChainNames /\ cs[ref.chain] \in Seq(Rule)
        BY <2>4 DEF IsConfig, ChainRef
      <3>2. deeper[open \cup {ref.chain}] \in Runs
        BY <2>4, <3>1 DEF Deeper
      <3>3. PICK t : t = UnrollChain(cs[ref.chain], deeper[open \cup {ref.chain}])
        OBVIOUS
      <3>4. t \in Growing
        BY <3>1, <3>2, <3>3, ChainSteps
      <3> QED
        BY <2>1, <2>4, <3>3, <3>4 DEF Growing
    <2> QED
      BY <2>1, <2>2, <2>3, <2>4, Zenon DEF RefStep
  <1>2. RefStep(cs, ref, open, n, deeper)
          = [s \in Sofar |-> RefStep(cs, ref, open, n, deeper)[s]]
    BY DEF RefStep
  <1> QED
    BY <1>1, <1>2 DEF Growing

(* Where no chain may be opened, it does not matter what one would do.     *)
LEMMA RefStepZero ==
    ASSUME NEW cs, NEW ref, NEW open, NEW d, NEW e
    PROVE  RefStep(cs, ref, open, 0, d) = RefStep(cs, ref, open, 0, e)
  BY DEF RefStep

(* All the references, for all sets of open chains.                        *)
RefSteps(cs, n, deeper) ==
    [open \in SUBSET ChainNames |-> [ref \in ChainRef |->
        RefStep(cs, ref, open, n, deeper)]]

(* They have the type of what the references do.                           *)
LEMMA RefStepsDeeper ==
    ASSUME NEW cs, IsConfig(cs), NEW n \in Nat, NEW deeper, n # 0 => deeper \in Deeper
    PROVE  RefSteps(cs, n, deeper) \in Deeper
  <1>1. ASSUME NEW open \in SUBSET ChainNames, NEW ref \in ChainRef
        PROVE  RefStep(cs, ref, open, n, deeper) \in Growing
    BY RefStepGrows
  <1> QED
    BY <1>1 DEF RefSteps, Deeper, Runs

(* The equation of UnrollRef, whose recursion goes one chain deeper.       *)
LEMMA RefEquation ==
    ASSUME NEW cs, IsConfig(cs)
    PROVE  /\ UnrollRef(cs) \in [Nat -> Deeper]
           /\ \A n \in Nat : UnrollRef(cs)[n] = RefSteps(cs, n, UnrollRef(cs)[n - 1])
  <1> DEFINE D(g) == [n \in Nat |-> RefSteps(cs, n, g[n - 1])]
             U == UnrollRef(cs)
  <1>1. U = CHOOSE g : g = D(g)
    BY DEF UnrollRef, RefSteps, RefStep
  <1>2. \E f : f = D(f)
    <2> DEFINE step == [p \in Nat \X Deeper |-> RefSteps(cs, p[1] + 1, p[2])]
    <2>1. PICK a : a = RefSteps(cs, 0, 0)
      OBVIOUS
    <2>2. a \in Deeper
      BY <2>1, RefStepsDeeper
    <2>3. ASSUME NEW n \in Nat, NEW d \in Deeper
          PROVE  step[<<n, d>>] = RefSteps(cs, n + 1, d) /\ RefSteps(cs, n + 1, d) \in Deeper
      <3>1. n + 1 \in Nat /\ n + 1 # 0
        OBVIOUS
      <3> QED
        BY <3>1, RefStepsDeeper
    <2>4. step \in StepsIn(Deeper)
      <3>1. step = [p \in Nat \X Deeper |-> step[p]]
        OBVIOUS
      <3> HIDE DEF step
      <3>2. ASSUME NEW p \in Nat \X Deeper PROVE step[p] \in Deeper
        <4>1. p = <<p[1], p[2]>> /\ p[1] \in Nat /\ p[2] \in Deeper
          OBVIOUS
        <4>2. PICK m, d : m = p[1] /\ d = p[2]
          OBVIOUS
        <4> QED
          BY <2>3, <4>1, <4>2
      <3> QED
        BY <3>1, <3>2 DEF StepsIn
    <2>5. PICK f \in [Nat -> Deeper] : Recurs(f, a, step)
      <3> HIDE DEF step
      <3>1. PICK A, st : A = Deeper /\ st = step
        OBVIOUS
      <3>2. a \in A /\ st \in StepsIn(A)
        BY <2>2, <2>4, <3>1
      <3>3. \E f \in [Nat -> A] : Recurs(f, a, st)
        BY <3>2, Recursion
      <3> QED
        BY <3>1, <3>3
    <2>6. ASSUME NEW n \in Nat PROVE f[n] = RefSteps(cs, n, f[n - 1])
      <3>1. CASE n = 0
        <4>1. f[0] = RefSteps(cs, 0, 0)
          BY <2>1, <2>5 DEF Recurs
        <4>2. PICK d : d = f[n - 1]
          OBVIOUS
        <4>3. RefSteps(cs, 0, 0) = RefSteps(cs, 0, d)
          BY RefStepZero DEF RefSteps
        <4> QED
          BY <3>1, <4>1, <4>2, <4>3
      <3>2. CASE n # 0
        <4>1. PICK m \in Nat : n = m + 1 /\ n - 1 = m
          BY <3>2
        <4>2. f[m + 1] = step[<<m, f[m]>>] /\ f[m] \in Deeper
          <5> HIDE DEF step
          <5> QED
            BY <2>5 DEF Recurs
        <4>3. PICK d \in Deeper : d = f[m]
          BY <4>2
        <4>4. f[n] = RefSteps(cs, m + 1, d)
          <5>1. step[<<m, d>>] = RefSteps(cs, m + 1, d)
            BY <2>3
          <5> HIDE DEF step
          <5> QED
            BY <4>1, <4>2, <4>3, <5>1
        <4> QED
          BY <4>1, <4>3, <4>4
      <3> QED
        BY <3>1, <3>2
    <2>7. f = [n \in Nat |-> f[n]]
      OBVIOUS
    <2>8. f = D(f)
      BY <2>6, <2>7
    <2> QED
      BY <2>8
  <1>3. U = D(U)
    <2> HIDE DEF D, U
    <2> QED
      BY <1>1, <1>2
  <1> HIDE DEF U
  <1>4. ASSUME NEW n \in Nat PROVE U[n] = RefSteps(cs, n, U[n - 1])
    <2>1. U[n] = D(U)[n]
      <3> HIDE DEF D
      <3> QED
        BY <1>3
    <2> QED
      BY <2>1
  <1>5. \A n \in Nat : U[n] \in Deeper
    <2> DEFINE T == {n \in Nat : U[n] \in Deeper}
    <2>1. 0 \in T
      <3>1. PICK d : d = U[0 - 1]
        OBVIOUS
      <3>2. U[0] = RefSteps(cs, 0, d)
        BY <1>4, <3>1
      <3>3. RefSteps(cs, 0, d) \in Deeper
        BY RefStepsDeeper
      <3> QED
        BY <3>2, <3>3
    <2>2. ASSUME NEW n \in Nat, n \in T PROVE n + 1 \in T
      <3>1. PICK d \in Deeper : d = U[n]
        BY <2>2
      <3>2. n + 1 \in Nat /\ n + 1 # 0 /\ (n + 1) - 1 = n
        OBVIOUS
      <3>3. PICK k \in Nat : k = n + 1
        OBVIOUS
      <3>4. U[k] = RefSteps(cs, k, d)
        <4>1. U[k] = RefSteps(cs, k, U[k - 1])
          BY <1>4
        <4>2. k - 1 = n
          BY <3>3
        <4> QED
          BY <3>1, <4>1, <4>2
      <3>5. RefSteps(cs, k, d) \in Deeper
        BY RefStepsDeeper
      <3> QED
        BY <3>3, <3>4, <3>5
    <2> HIDE DEF T
    <2>3. \A n \in Nat : n \in T
      BY <2>1, <2>2, NatInduct
    <2> QED
      BY <2>3 DEF T
  <1>6. U \in [Nat -> Deeper]
    <2>1. U = [n \in Nat |-> RefSteps(cs, n, U[n - 1])]
      BY <1>3
    <2>2. U = [n \in Nat |-> U[n]]
      BY <2>1
    <2> QED
      BY <1>5, <2>2
  <1> QED
    BY <1>4, <1>6 DEF U

(* What references do in a chain opened by a reference.                    *)
Within(cs, n, open, name) == UnrollRef(cs)[n - 1][open \cup {name}]

(* What becomes of a reference: skipped, a mistake, or a chain that is     *)
(* run.                                                                    *)
LEMMA RefCases ==
    ASSUME NEW cs, IsConfig(cs), NEW n \in Nat, NEW open \in SUBSET ChainNames,
           NEW ref \in ChainRef, NEW s \in Sofar,
           NEW run, run = UnrollRef(cs)[n][open]
    PROVE  /\ run \in Runs
           /\ \/ ref.chain = Empty
              \/ ref.chain \notin DOMAIN cs /\ ref.optional
              => run[ref][s] = s
           /\ /\ ref.chain # Empty
              /\ ref.chain \in open \/ (ref.chain \notin DOMAIN cs /\ ~ref.optional)
              /\ open \subseteq DOMAIN cs
              => run[ref][s] = Add(s, Mistake)
           /\ /\ ref.chain # Empty
              /\ ref.chain \in DOMAIN cs \ open /\ n # 0
              => run[ref][s] =
                   UnrollChain(cs[ref.chain], Within(cs, n, open, ref.chain))[s]
  <1>1. UnrollRef(cs)[n] \in Deeper
    BY RefEquation
  <1>2. run \in Runs
    BY <1>1 DEF Deeper
  <1>3. PICK d : d = UnrollRef(cs)[n - 1]
    OBVIOUS
  <1>4. UnrollRef(cs)[n] = RefSteps(cs, n, d)
    BY <1>3, RefEquation
  <1>5. run[ref] = RefStep(cs, ref, open, n, d)
    BY <1>4 DEF RefSteps
  <1>6. run[ref][s] =
        IF ref.chain = Empty THEN s
        ELSE IF ref.chain \notin DOMAIN cs
             THEN IF ref.optional THEN s ELSE Add(s, Mistake)
        ELSE IF ref.chain \in open \/ n = 0 THEN Add(s, Mistake)
        ELSE UnrollChain(cs[ref.chain], d[open \cup {ref.chain}])[s]
    BY <1>5 DEF RefStep
  <1>7. PICK x, y : x = run[ref][s] /\ y = UnrollChain(cs[ref.chain], d[open \cup {ref.chain}])[s]
    OBVIOUS
  <1> QED
    BY <1>2, <1>3, <1>6, Zenon DEF Within

(* The first of several steps, and what is left.                           *)
LEMMA LastOfTail ==
    ASSUME NEW steps \in Seq(Growing), steps # <<>>,
           NEW k \in Nat, k < Len(steps)
    PROVE  Last(Tail(steps))[k] = Last(steps)[k]
  <1> DEFINE T == {n \in Nat : n < Len(steps) => Last(Tail(steps))[n] = Last(steps)[n]}
  <1>1. PICK tail : tail = Tail(steps)
    OBVIOUS
  <1>2. tail \in Seq(Growing) /\ Len(tail) = Len(steps) - 1 /\ Len(steps) \in Nat
    BY <1>1
  <1>3. 0 \in T
    BY <1>1, <1>2, LastEquation
  <1>4. ASSUME NEW n \in Nat, n \in T PROVE n + 1 \in T
    <2> SUFFICES ASSUME n + 1 < Len(steps)
                 PROVE  Last(tail)[n + 1] = Last(steps)[n + 1]
      BY <1>1
    <2>1. Last(tail)[n] = Last(steps)[n]
      BY <1>1, <1>2, <1>4
    <2>2. PICK i : i = Len(steps) + 1 - (n + 1)
      OBVIOUS
    <2>3. /\ n + 1 \in DOMAIN steps /\ n + 1 \in DOMAIN tail
          /\ (n + 1) - 1 = n /\ i = (Len(tail) + 1 - (n + 1)) + 1
          /\ Len(tail) + 1 - (n + 1) \in 1..Len(tail)
      BY <1>2, <2>2
    <2>4. tail[Len(tail) + 1 - (n + 1)] = steps[i]
      BY <1>1, <2>3
    <2>5. ASSUME NEW s \in Sofar PROVE Last(tail)[n + 1][s] = Last(steps)[n + 1][s]
      <3>1. Last(tail)[n + 1][s] = Last(tail)[n][steps[i][s]]
        BY <1>2, <2>3, <2>4, LastEquation
      <3>2. Last(steps)[n + 1][s] = Last(steps)[n][steps[i][s]]
        BY <2>2, <2>3, LastEquation
      <3> QED
        BY <2>1, <3>1, <3>2
    <2>6. Last(tail)[n + 1] \in [Sofar -> Sofar] /\ Last(steps)[n + 1] \in [Sofar -> Sofar]
      <3>1. n + 1 \in Nat
        OBVIOUS
      <3>2. Last(tail)[n + 1] \in Growing /\ Last(steps)[n + 1] \in Growing
        BY <1>2, <3>1, LastEquation
      <3> QED
        BY <3>2 DEF Growing
    <2> QED
      BY <2>5, <2>6
  <1> HIDE DEF T
  <1>5. \A n \in Nat : n \in T
    BY <1>3, <1>4, NatInduct
  <1> QED
    BY <1>5 DEF T

(* The first step of several, and no steps.                                *)
LEMMA FirstStep ==
    ASSUME NEW steps \in Seq(Growing), steps # <<>>, NEW s \in Sofar
    PROVE  Through(steps)[s] = Through(Tail(steps))[Head(steps)[s]]
  <1>1. /\ Len(steps) \in DOMAIN steps /\ Len(steps) + 1 - Len(steps) = 1
        /\ Len(Tail(steps)) = Len(steps) - 1 /\ Len(steps) - 1 \in Nat
        /\ Len(steps) - 1 < Len(steps) /\ Head(steps) = steps[1]
    OBVIOUS
  <1>2. Last(steps)[Len(steps)][s] = Last(steps)[Len(steps) - 1][steps[1][s]]
    BY <1>1, LastEquation
  <1>3. Last(Tail(steps))[Len(steps) - 1] = Last(steps)[Len(steps) - 1]
    BY <1>1, LastOfTail
  <1> QED
    BY <1>1, <1>2, <1>3 DEF Through

LEMMA NoSteps ==
    ASSUME NEW steps \in Seq(Growing), Len(steps) = 0, NEW s \in Sofar
    PROVE  Through(steps)[s] = s
  BY LastEquation DEF Through, Stay

(* The first reference of several, and no references.                      *)
LEMMA RunFirst ==
    ASSUME NEW refs \in Seq(ChainRef), NEW run \in Runs, NEW s \in Sofar
    PROVE  /\ refs = <<>> => Through(Run(refs, run))[s] = s
           /\ refs # <<>> =>
                Through(Run(refs, run))[s] = Through(Run(Tail(refs), run))[run[Head(refs)][s]]
  <1>1. PICK steps : steps = Run(refs, run)
    OBVIOUS
  <1>2. steps \in Seq(Growing) /\ Len(steps) = Len(refs)
    BY <1>1, RunSteps
  <1>3. CASE refs = <<>>
    BY <1>1, <1>2, <1>3, NoSteps
  <1>4. CASE refs # <<>>
    <2>1. steps # <<>> /\ Head(steps) = run[Head(refs)]
      BY <1>1, <1>2, <1>4 DEF Run
    <2>2. Tail(steps) = Run(Tail(refs), run)
      <3>1. Tail(refs) \in Seq(ChainRef) /\ Len(Tail(refs)) = Len(refs) - 1
        BY <1>4
      <3>2. /\ Run(Tail(refs), run) \in Seq(Growing)
            /\ Len(Run(Tail(refs), run)) = Len(refs) - 1
        BY <3>1, RunSteps
      <3>3. Tail(steps) \in Seq(Growing) /\ Len(Tail(steps)) = Len(refs) - 1
        BY <1>2, <2>1
      <3>4. ASSUME NEW i \in 1..(Len(refs) - 1)
            PROVE  Tail(steps)[i] = Run(Tail(refs), run)[i]
        <4>1. Tail(steps)[i] = steps[i + 1] /\ Tail(refs)[i] = refs[i + 1]
          BY <1>2, <1>4, <2>1
        <4>2. steps[i + 1] = run[refs[i + 1]]
          BY <1>1 DEF Run
        <4>3. Run(Tail(refs), run)[i] = run[Tail(refs)[i]]
          BY <3>1 DEF Run
        <4> QED
          BY <4>1, <4>2, <4>3
      <3> QED
        BY <3>2, <3>3, <3>4
    <2> QED
      BY <1>1, <1>2, <1>4, <2>1, <2>2, FirstStep
  <1> QED
    BY <1>3, <1>4

(* A set of numbers has a least one.                                       *)
LEMMA LeastOf ==
    ASSUME NEW S \in SUBSET Nat, S # {}
    PROVE  \E m \in S : /\ \A k \in S : m <= k
                        /\ m = CHOOSE k \in S : \A j \in S : k <= j
  <1>1. IsWellFoundedOn(OpToRel(<, Nat), Nat)
    BY NatLessThanWellFounded
  <1>2. PICK x \in S : \A y \in S : ~(<<y, x>> \in OpToRel(<, Nat))
    BY <1>1, WFMin
  <1>3. ASSUME NEW y \in S PROVE x <= y
    <2>1. SUFFICES ASSUME y < x PROVE FALSE
      OBVIOUS
    <2>2. <<y, x>> \in OpToRel(<, Nat)
      BY <2>1 DEF OpToRel
    <2> QED
      BY <1>2, <2>2
  <1>4. PICK z : z = CHOOSE k \in S : \A j \in S : k <= j
    OBVIOUS
  <1>5. z \in S /\ \A j \in S : z <= j
    BY <1>3, <1>4
  <1> QED
    BY <1>4, <1>5

Condition == [key : CondKeys, criteria : Seq(Criterion)]

(* The loop over the criteria of a condition, and the documented table.    *)
LEMMA ConditionMeans ==
    ASSUME NEW cond \in Condition, cond.key = "always" => cond.criteria = <<>>,
           NEW m \in Meta
    PROVE  /\ CondVerdict(cond, m) \in {"apply", "skip", "invalid"}
           /\ CondVerdict(cond, m) = "invalid" <=> Breaks(cond, m)
           /\ ~Breaks(cond, m) =>
                (CondVerdict(cond, m) = "apply" <=> KeepsRule(cond, m))
  <1> DEFINE res(i) == cond.criteria[i][m]
             I == DOMAIN cond.criteria
             D == {i \in I : res(i) # InitiallyMet(cond.key)}
  <1>1. /\ I = 1..Len(cond.criteria) /\ Len(cond.criteria) \in Nat
        /\ \A i \in I : res(i) \in {"met", "unmet", "invalid"}
        /\ cond.key \in CondKeys
    BY DEF Condition, Criterion, CritResults
  <1>2. PICK v : v = MeetsAll(cond, m)
    OBVIOUS
  <1>3. CASE D = {}
    <2>1. v = InitiallyMet(cond.key)
      BY <1>2, <1>3 DEF MeetsAll
    <2>2. v \in {"met", "unmet"}
      BY <2>1 DEF InitiallyMet
    <2>3. /\ CondVerdict(cond, m) = IF v = "met"
                                    THEN IF Negate(cond.key) THEN "skip" ELSE "apply"
                                    ELSE IF Negate(cond.key) THEN "apply" ELSE "skip"
      BY <1>2, <2>2 DEF CondVerdict
    <2>4. ~Breaks(cond, m)
      BY <1>3, <2>1, <2>2 DEF Breaks, CriteriaThat
    <2>5. CondVerdict(cond, m) = "apply" <=> KeepsRule(cond, m)
      <3>1. \A i \in I : res(i) = v
        BY <1>3, <2>1
      <3>2. CASE cond.key \in {"if", "ifAny"}
        BY <2>1, <2>3, <3>1, <3>2 DEF KeepsRule, CriteriaThat, InitiallyMet, Negate
      <3>3. CASE cond.key = "ifAll"
        BY <2>1, <2>3, <3>1, <3>3 DEF KeepsRule, CriteriaThat, InitiallyMet, Negate
      <3>4. CASE cond.key = "always"
        BY <2>1, <2>3, <3>1, <3>4 DEF KeepsRule, CriteriaThat, InitiallyMet, Negate
      <3>5. CASE cond.key \in {"unless", "unlessAny"}
        BY <2>1, <2>3, <3>1, <3>5 DEF KeepsRule, CriteriaThat, InitiallyMet, Negate
      <3>6. CASE cond.key = "unlessAll"
        BY <2>1, <2>3, <3>1, <3>6 DEF KeepsRule, CriteriaThat, InitiallyMet, Negate
      <3> QED
        BY <1>1, <3>2, <3>3, <3>4, <3>5, <3>6 DEF CondKeys
    <2> QED
      BY <2>2, <2>3, <2>4, <2>5
  <1>4. CASE D # {}
    <2>1. PICK x \in D : /\ \A k \in D : x <= k
                         /\ x = CHOOSE k \in D : \A j \in D : k <= j
      <3>1. D \in SUBSET Nat
        BY <1>1
      <3> HIDE DEF D
      <3> QED
        BY <1>4, <3>1, LeastOf
    <2>2. v = res(x)
      BY <1>2, <1>4, <2>1 DEF MeetsAll
    <2>3. \A i \in I : i < x => res(i) = InitiallyMet(cond.key)
      BY <1>1, <2>1
    <2>4. res(x) # InitiallyMet(cond.key) /\ cond.key # "always"
      BY <2>1
    <2>5. CASE v = "invalid"
      <3>1. CondVerdict(cond, m) = "invalid"
        BY <1>2, <2>5 DEF CondVerdict
      <3>2. Breaks(cond, m)
        <4> DEFINE settles == IF cond.key \in {"ifAll", "unlessAll"} THEN "unmet" ELSE "met"
        <4>1. settles # InitiallyMet(cond.key) /\ settles # "invalid"
          BY <1>1, <2>4 DEF InitiallyMet, CondKeys
        <4>2. ASSUME NEW j \in I, res(j) = settles PROVE x < j
          <5>1. ~(j < x) /\ j # x
            BY <2>2, <2>3, <2>5, <4>1, <4>2
          <5> QED
            BY <1>1, <2>1, <5>1
        <4>3. x \in CriteriaThat(cond, m, "invalid")
          BY <2>1, <2>2, <2>5 DEF CriteriaThat
        <4>4. \A j \in CriteriaThat(cond, m, settles) : x < j
          BY <4>2 DEF CriteriaThat
        <4> HIDE DEF settles
        <4> QED
          BY <4>3, <4>4 DEF Breaks, settles
      <3> QED
        BY <3>1, <3>2
    <2>6. CASE v # "invalid"
      <3>1. v \in {"met", "unmet"} /\ x \in I
        BY <1>1, <2>1, <2>2, <2>6
      <3>2. CondVerdict(cond, m) = IF v = "met"
                                    THEN IF Negate(cond.key) THEN "skip" ELSE "apply"
                                    ELSE IF Negate(cond.key) THEN "apply" ELSE "skip"
        BY <1>2, <3>1 DEF CondVerdict
      <3>3. ~Breaks(cond, m)
        <4>1. SUFFICES ASSUME NEW i \in I, res(i) = "invalid",
                              i < x
                       PROVE  FALSE
          BY <1>1, <2>2, <2>4, <3>1 DEF Breaks, CriteriaThat, InitiallyMet, CondKeys
        <4> QED
          BY <2>3, <4>1 DEF InitiallyMet
      <3>4. CondVerdict(cond, m) = "apply" <=> KeepsRule(cond, m)
        <4>2. CASE cond.key \in {"if", "ifAny"}
          BY <2>2, <2>4, <3>1, <3>2, <4>2 DEF KeepsRule, CriteriaThat, InitiallyMet, Negate
        <4>3. CASE cond.key = "ifAll"
          BY <2>2, <2>4, <3>1, <3>2, <4>3 DEF KeepsRule, CriteriaThat, InitiallyMet, Negate
        <4>5. CASE cond.key \in {"unless", "unlessAny"}
          BY <2>2, <2>4, <3>1, <3>2, <4>5 DEF KeepsRule, CriteriaThat, InitiallyMet, Negate
        <4>6. CASE cond.key = "unlessAll"
          BY <2>2, <2>4, <3>1, <3>2, <4>6 DEF KeepsRule, CriteriaThat, InitiallyMet, Negate
        <4> QED
          BY <1>1, <2>4, <4>2, <4>3, <4>5, <4>6 DEF CondKeys
      <3> QED
        BY <3>1, <3>2, <3>3, <3>4
    <2> QED
      BY <2>5, <2>6
  <1> QED
    BY <1>3, <1>4

(* The loop over the conditions of a rule, and what they mean.             *)
LEMMA RuleMeans ==
    ASSUME NEW r, ValidRule(r), NEW m \in Meta
    PROVE  /\ RuleVerdict(r, m) \in {"apply", "skip", "invalid"}
           /\ RuleVerdict(r, m) = "invalid" => Broken(r, m)
           /\ RuleVerdict(r, m) = "apply" => ~Broken(r, m) /\ Applies(r, m)
           /\ RuleVerdict(r, m) = "skip" => ~Broken(r, m) /\ ~Applies(r, m)
  <1> DEFINE I == DOMAIN r.conds
             verdict(i) == CondVerdict(r.conds[i], m)
             Stops == {i \in I : verdict(i) # "apply"}
  <1>1. I = 1..Len(r.conds) /\ Len(r.conds) \in Nat /\ r.conds \in Seq(Condition)
    BY DEF ValidRule, Rule, Condition
  <1>2. ASSUME NEW i \in I
        PROVE  /\ verdict(i) \in {"apply", "skip", "invalid"}
               /\ verdict(i) = "invalid" <=> Breaks(r.conds[i], m)
               /\ ~Breaks(r.conds[i], m) =>
                    (verdict(i) = "apply" <=> KeepsRule(r.conds[i], m))
    <2>1. PICK cond : cond = r.conds[i]
      OBVIOUS
    <2>2. cond \in Condition /\ (cond.key = "always" => cond.criteria = <<>>)
      BY <1>1, <2>1 DEF ValidRule
    <2>3. /\ CondVerdict(cond, m) \in {"apply", "skip", "invalid"}
          /\ CondVerdict(cond, m) = "invalid" <=> Breaks(cond, m)
          /\ ~Breaks(cond, m) =>
                (CondVerdict(cond, m) = "apply" <=> KeepsRule(cond, m))
      BY <2>2, ConditionMeans
    <2> QED
      BY <2>1, <2>3
  <1> HIDE DEF verdict
  <1>3. CASE Stops = {}
    <2>1. RuleVerdict(r, m) = "apply"
      BY <1>3 DEF RuleVerdict, verdict
    <2>2. \A i \in I : ~Breaks(r.conds[i], m) /\ KeepsRule(r.conds[i], m)
      BY <1>2, <1>3
    <2> QED
      BY <2>1, <2>2 DEF Broken, Applies
  <1>4. CASE Stops # {}
    <2>1. PICK x \in Stops : /\ \A k \in Stops : x <= k
                             /\ x = CHOOSE k \in Stops : \A j \in Stops : k <= j
      <3>1. Stops \in SUBSET Nat
        BY <1>1
      <3> HIDE DEF Stops
      <3> QED
        BY <1>4, <3>1, LeastOf
    <2>2. RuleVerdict(r, m) = verdict(x)
      BY <1>4, <2>1 DEF RuleVerdict, verdict
    <2>3. \A i \in I : i < x => ~Breaks(r.conds[i], m) /\ KeepsRule(r.conds[i], m)
      <3>1. \A i \in I : i < x => verdict(i) = "apply"
        BY <1>1, <2>1
      <3> QED
        BY <1>2, <3>1
    <2>4. verdict(x) \in {"skip", "invalid"} /\ x \in I
      BY <1>2, <2>1
    <2>5. CASE verdict(x) = "invalid"
      <3>1. Breaks(r.conds[x], m)
        BY <1>2, <2>4, <2>5
      <3>2. \A j \in 1..(x - 1) : KeepsRule(r.conds[j], m)
        BY <1>1, <2>3, <2>4
      <3>3. Broken(r, m)
        BY <2>4, <3>1, <3>2 DEF Broken
      <3> QED
        BY <2>2, <2>5, <3>3
    <2>6. CASE verdict(x) = "skip"
      <3>1. ~Breaks(r.conds[x], m) /\ ~KeepsRule(r.conds[x], m)
        BY <1>2, <2>4, <2>6
      <3>2. ~Applies(r, m)
        BY <2>4, <3>1 DEF Applies
      <3>3. ~Broken(r, m)
        <4>1. SUFFICES ASSUME NEW i \in I, Breaks(r.conds[i], m),
                              \A j \in 1..(i - 1) : KeepsRule(r.conds[j], m)
                       PROVE  FALSE
          BY DEF Broken
        <4>2. ~(i < x) /\ i # x
          BY <2>3, <3>1, <4>1
        <4>3. x \in 1..(i - 1)
          BY <1>1, <2>4, <4>2
        <4> QED
          BY <3>1, <4>1, <4>3
      <3> QED
        BY <2>2, <2>6, <3>2, <3>3
    <2> QED
      BY <2>4, <2>5, <2>6
  <1> QED
    BY <1>3, <1>4

(* A bounded set of numbers has a greatest one.                            *)
LEMMA GreatestOf ==
    ASSUME NEW n \in Nat, NEW S \in SUBSET (1..n), S # {}
    PROVE  \E m \in S : /\ \A k \in S : k <= m
                        /\ m = CHOOSE k \in S : \A j \in S : j <= k
  <1> DEFINE T == {n - k : k \in S}
  <1>1. T \in SUBSET Nat /\ T # {}
    OBVIOUS
  <1>2. PICK x \in T : \A k \in T : x <= k
    <2> HIDE DEF T
    <2> QED
      BY <1>1, LeastOf
  <1>3. PICK y \in S : x = n - y
    OBVIOUS
  <1>4. ASSUME NEW k \in S PROVE k <= y
    <2>1. n - y <= n - k
      BY <1>2, <1>3
    <2> QED
      BY <2>1
  <1>5. PICK z : z = CHOOSE k \in S : \A j \in S : j <= k
    OBVIOUS
  <1>6. z \in S /\ \A j \in S : j <= z
    BY <1>4, <1>5
  <1> QED
    BY <1>5, <1>6

(* The last tendency for a privilege in a list.                            *)
SaysSome(list, p) == {i \in DOMAIN list : list[i].tendency[p] # "none"}

(* LastSaid is said by the last entry that says something.                 *)
LEMMA LastSaidIs ==
    ASSUME NEW list \in Seq(Entry), NEW p \in PrivSlots, NEW d
    PROVE  IF SaysSome(list, p) = {} THEN LastSaid(list, p, d) = d
           ELSE \E i \in SaysSome(list, p) :
                  /\ \A j \in SaysSome(list, p) : j <= i
                  /\ LastSaid(list, p, d) = list[i].tendency[p]
  <1>1. CASE SaysSome(list, p) = {}
    BY <1>1 DEF LastSaid, SaysSome
  <1>2. CASE SaysSome(list, p) # {}
    <2>1. PICK S : S = SaysSome(list, p)
      OBVIOUS
    <2>2. PICK n \in Nat : n = Len(list)
      OBVIOUS
    <2>3. S \in SUBSET (1..n)
      BY <2>1, <2>2 DEF SaysSome
    <2>4. PICK m \in S : /\ \A k \in S : k <= m
                         /\ m = CHOOSE k \in S : \A j \in S : j <= k
      BY <1>2, <2>1, <2>3, GreatestOf
    <2>5. LastSaid(list, p, d) = list[m].tendency[p]
      BY <1>2, <2>1, <2>4 DEF LastSaid, SaysSome
    <2> QED
      BY <1>2, <2>1, <2>4, <2>5
  <1> QED
    BY <1>1, <1>2

(* The types in a list of entries.                                         *)
LEMMA EntryTypes ==
    ASSUME NEW list \in Seq(Entry), NEW i \in DOMAIN list, NEW p \in PrivSlots
    PROVE  /\ list[i].tendency[p] \in Tendencies /\ list[i].decide[p] \in Decisions
           /\ list[i].mistake \in BOOLEAN
  <1>1. list[i] \in Entry
    OBVIOUS
  <1> QED
    BY <1>1 DEF Entry

(* A further entry overrides what was said, if it says something.          *)
LEMMA LastSaidAppend ==
    ASSUME NEW list \in Seq(Entry), NEW e \in Entry, NEW p \in PrivSlots, NEW d
    PROVE  LastSaid(Append(list, e), p, d)
              = IF e.tendency[p] # "none" THEN e.tendency[p] ELSE LastSaid(list, p, d)
  <1>1. PICK all : all = Append(list, e)
    OBVIOUS
  <1>2. PICK n \in Nat : n = Len(list)
    OBVIOUS
  <1>3. /\ all \in Seq(Entry) /\ DOMAIN all = 1..(n + 1) /\ DOMAIN list = 1..n
        /\ all[n + 1] = e /\ \A i \in 1..n : all[i] = list[i]
    BY <1>1, <1>2
  <1>4. CASE e.tendency[p] # "none"
    <2>1. n + 1 \in SaysSome(all, p)
      BY <1>3, <1>4 DEF SaysSome
    <2>2. PICK i \in SaysSome(all, p) :
                  /\ \A j \in SaysSome(all, p) : j <= i
                  /\ LastSaid(all, p, d) = all[i].tendency[p]
      BY <1>3, <2>1, LastSaidIs
    <2>3. i = n + 1
      BY <1>3, <2>1, <2>2 DEF SaysSome
    <2> QED
      BY <1>1, <1>3, <1>4, <2>2, <2>3
  <1>5. CASE e.tendency[p] = "none"
    <2>1. SaysSome(all, p) = SaysSome(list, p)
      BY <1>3, <1>5 DEF SaysSome
    <2>2. CASE SaysSome(list, p) = {}
      <3>1. LastSaid(all, p, d) = d /\ LastSaid(list, p, d) = d
        BY <1>3, <2>1, <2>2, LastSaidIs
      <3> QED
        BY <1>1, <1>5, <3>1
    <2>3. CASE SaysSome(list, p) # {}
      <3>1. PICK i \in SaysSome(all, p) :
                  /\ \A j \in SaysSome(all, p) : j <= i
                  /\ LastSaid(all, p, d) = all[i].tendency[p]
        BY <1>3, <2>1, <2>3, LastSaidIs
      <3>2. PICK k \in SaysSome(list, p) :
                  /\ \A j \in SaysSome(list, p) : j <= k
                  /\ LastSaid(list, p, d) = list[k].tendency[p]
        BY <2>3, LastSaidIs
      <3>3. i = k /\ i \in 1..n
        BY <1>3, <2>1, <3>1, <3>2 DEF SaysSome
      <3> QED
        BY <1>1, <1>3, <1>5, <3>1, <3>2, <3>3
    <2> QED
      BY <2>2, <2>3
  <1> QED
    BY <1>4, <1>5

(* What is taken if nothing was said.                                      *)
LEMMA LastSaidDefault ==
    ASSUME NEW list \in Seq(Entry), NEW p \in PrivSlots, NEW d
    PROVE  /\ LastSaid(list, p, "none") \in Tendencies
           /\ LastSaid(list, p, d) = IF LastSaid(list, p, "none") = "none" THEN d
                                     ELSE LastSaid(list, p, "none")
  <1>1. CASE SaysSome(list, p) = {}
    <2>1. LastSaid(list, p, d) = d /\ LastSaid(list, p, "none") = "none"
      BY <1>1, LastSaidIs
    <2> QED
      BY <2>1 DEF Tendencies
  <1>2. CASE SaysSome(list, p) # {}
    <2>1. PICK i \in SaysSome(list, p) :
                  /\ \A j \in SaysSome(list, p) : j <= i
                  /\ LastSaid(list, p, d) = list[i].tendency[p]
      BY <1>2, LastSaidIs
    <2>2. PICK k \in SaysSome(list, p) :
                  /\ \A j \in SaysSome(list, p) : j <= k
                  /\ LastSaid(list, p, "none") = list[k].tendency[p]
      BY <1>2, LastSaidIs
    <2>3. i = k /\ list[k].tendency[p] # "none" /\ list[k].tendency[p] \in Tendencies
      <3>1. i \in Nat /\ k \in Nat /\ i <= k /\ k <= i
        BY <2>1, <2>2 DEF SaysSome
      <3>2. list[k].tendency[p] \in Tendencies
        BY EntryTypes DEF SaysSome
      <3> QED
        BY <3>1, <3>2 DEF SaysSome
    <2> QED
      BY <2>1, <2>2, <2>3
  <1> QED
    BY <1>1, <1>2
-------------------------------------------------------------------------------
(* A list in which nothing ends the check.                                 *)
Undecided(list, p) ==
    \A i \in DOMAIN list : /\ ~list[i].mistake
                           /\ list[i].decide[p] = "none" /\ list[i].decide[Star] = "none"

(* The verdict when nothing ends the check: the last tendency.             *)
LEMMA VerdictWithoutEnd ==
    ASSUME priv \in Privs, NEW list \in Seq(Entry), Undecided(list, priv)
    PROVE  Verdict(list, "fallback")
             = LastSaid(list, priv, LastSaid(list, Star, "deny"))
  <1>1. Ends(list) = {}
    BY DEF Ends, Undecided
  <1>2. SubSeq(list, 1, FirstEnd(list) - 1) = list
    <2>1. FirstEnd(list) = Len(list) + 1
      BY <1>1 DEF FirstEnd
    <2>2. FirstEnd(list) - 1 = Len(list)
      BY <2>1
    <2> QED
      BY <2>2
  <1>3. Verdict(list, "fallback")
          = LastSaid(SubSeq(list, 1, FirstEnd(list) - 1), priv,
                     LastSaid(SubSeq(list, 1, FirstEnd(list) - 1), Star, "deny"))
    BY <1>1, Zenon DEF Verdict
  <1> QED
    BY <1>2, <1>3

(* The verdict when an entry ends it: the rest of the list is irrelevant.  *)
LEMMA VerdictAtEnd ==
    ASSUME priv \in Privs, NEW list \in Seq(Entry), Undecided(list, priv),
           NEW e \in Entry, e.mistake \/ DecisionOf(e) # "none",
           NEW all \in Seq(Entry), Begins(Append(list, e), all)
    PROVE  Verdict(all, "fallback")
             = IF e.mistake THEN "error"
               ELSE IF DecisionOf(e) # "stop" THEN DecisionOf(e)
               ELSE LastSaid(list, Star, "deny")
  <1>1. PICK n \in Nat : n = Len(list)
    OBVIOUS
  <1>2. /\ n + 1 <= Len(all) /\ all[n + 1] = e
        /\ \A i \in 1..n : all[i] = list[i]
        /\ DOMAIN all = 1..Len(all) /\ DOMAIN list = 1..n
    BY <1>1 DEF Begins
  <1>3. n + 1 \in Ends(all)
    BY <1>2 DEF Ends, DecisionOf
  <1>4. \A i \in Ends(all) : n + 1 <= i
    BY <1>2 DEF Ends, Undecided
  <1>5. (CHOOSE i \in Ends(all) : \A j \in Ends(all) : i <= j) = n + 1
    <2>1. PICK z : z = CHOOSE i \in Ends(all) : \A j \in Ends(all) : i <= j
      OBVIOUS
    <2>2. z \in Ends(all) /\ \A j \in Ends(all) : z <= j
      BY <1>3, <1>4, <2>1
    <2>3. z \in 1..Len(all) /\ n + 1 <= z /\ z <= n + 1
      BY <1>2, <1>3, <1>4, <2>2 DEF Ends
    <2> QED
      BY <2>1, <2>3
  <1>6. FirstEnd(all) = n + 1
    BY <1>3, <1>5 DEF FirstEnd
  <1>7. SubSeq(all, 1, FirstEnd(all) - 1) = list
    <2>1. FirstEnd(all) - 1 = n
      BY <1>6
    <2>2. SubSeq(all, 1, n) = list
      BY <1>1, <1>2
    <2> QED
      BY <2>1, <2>2
  <1>8. Ends(all) # {}
    BY <1>3
  <1>9. all[FirstEnd(all)] = e
    BY <1>2, <1>6
  <1>10. Verdict(all, "fallback")
           = IF all[FirstEnd(all)].mistake THEN "error"
             ELSE IF DecisionOf(all[FirstEnd(all)]) # "stop"
             THEN DecisionOf(all[FirstEnd(all)])
             ELSE LastSaid(SubSeq(all, 1, FirstEnd(all) - 1), Star, "deny")
    BY <1>8, Zenon DEF Verdict
  <1> QED
    BY <1>7, <1>9, <1>10

(* What is left to do in a chain from one of its rules on, and of a        *)
(* repeated rule after one of its items.                                   *)
RulesLeft(rules, run, k) == Last(RuleSteps(rules, run))[Len(rules) + 1 - k]
ItemsLeft(r, run, k) == Last(Items(r, run))[Len(r.items) - k]

(* One more rule of a chain has been dealt with.                           *)
LEMMA RulesLeftIs ==
    ASSUME NEW rules \in Seq(Rule), NEW run \in Runs,
           NEW k \in 1..(Len(rules) + 1),
           NEW t, t = RulesLeft(rules, run, k)
    PROVE  /\ t \in Growing
           /\ k = Len(rules) + 1 => \A s \in Sofar : t[s] = s
           /\ k <= Len(rules) => \A s \in Sofar :
                t[s] = RulesLeft(rules, run, k + 1)[UnrollRule(rules[k], run)[s]]
  <1>1. PICK steps : steps = RuleSteps(rules, run)
    OBVIOUS
  <1>2. /\ steps \in Seq(Growing) /\ Len(steps) = Len(rules)
        /\ \A i \in DOMAIN rules : steps[i] = UnrollRule(rules[i], run)
    BY <1>1, ChainSteps
  <1>3. PICK j : j = Len(rules) + 1 - k
    OBVIOUS
  <1>4. j \in Nat /\ Len(rules) \in Nat
    BY <1>3
  <1>5. t = Last(steps)[j]
    BY <1>1, <1>3 DEF RulesLeft
  <1>6. /\ Last(steps) \in [Nat -> Growing]
        /\ Last(steps)[0] = Stay
        /\ \A i \in DOMAIN steps : \A x \in Sofar :
                Last(steps)[i][x] = Last(steps)[i - 1][steps[Len(steps) + 1 - i][x]]
    BY <1>2, LastEquation
  <1>7. t \in Growing
    BY <1>4, <1>5, <1>6
  <1>8. ASSUME k = Len(rules) + 1, NEW s \in Sofar PROVE t[s] = s
    <2>1. j = 0
      BY <1>3, <1>4, <1>8
    <2> QED
      BY <1>5, <1>6, <2>1 DEF Stay
  <1>9. ASSUME k <= Len(rules), NEW s \in Sofar
        PROVE  t[s] = RulesLeft(rules, run, k + 1)[UnrollRule(rules[k], run)[s]]
    <2>1. j \in DOMAIN steps /\ Len(steps) + 1 - j = k /\ j - 1 = Len(rules) + 1 - (k + 1)
      BY <1>2, <1>3, <1>4, <1>9
    <2>2. t[s] = Last(steps)[j - 1][steps[k][s]]
      BY <1>5, <1>6, <2>1
    <2>3. Last(steps)[j - 1] = RulesLeft(rules, run, k + 1)
      BY <1>1, <2>1 DEF RulesLeft
    <2>4. steps[k] = UnrollRule(rules[k], run)
      BY <1>2, <1>9
    <2> QED
      BY <2>2, <2>3, <2>4
  <1> QED
    BY <1>7, <1>8, <1>9

(* One more item of a rule has been dealt with.                            *)
LEMMA ItemsLeftIs ==
    ASSUME NEW r \in Rule, NEW run \in Runs,
           NEW k \in 0..Len(r.items),
           NEW t, t = ItemsLeft(r, run, k)
    PROVE  /\ t \in Growing
           /\ k = Len(r.items) => \A s \in Sofar : t[s] = s
           /\ k < Len(r.items) => \A s \in Sofar :
                t[s] = ItemsLeft(r, run, k + 1)[ForItem(r, r.items[k + 1], run)[s]]
  <1>1. PICK steps : steps = Items(r, run)
    OBVIOUS
  <1>2. /\ steps \in Seq(Growing) /\ Len(steps) = Len(r.items)
        /\ \A i \in DOMAIN r.items : steps[i] = ForItem(r, r.items[i], run)
    BY <1>1, ItemSteps
  <1>3. PICK j : j = Len(r.items) - k
    OBVIOUS
  <1>0. r.items \in Seq(Vals)
    BY DEF Rule
  <1>4. j \in Nat /\ Len(r.items) \in Nat
    BY <1>0, <1>3
  <1>5. t = Last(steps)[j]
    BY <1>1, <1>3 DEF ItemsLeft
  <1>6. /\ Last(steps) \in [Nat -> Growing]
        /\ Last(steps)[0] = Stay
        /\ \A i \in DOMAIN steps : \A x \in Sofar :
                Last(steps)[i][x] = Last(steps)[i - 1][steps[Len(steps) + 1 - i][x]]
    BY <1>2, LastEquation
  <1>7. t \in Growing
    BY <1>4, <1>5, <1>6
  <1>8. ASSUME k = Len(r.items), NEW s \in Sofar PROVE t[s] = s
    <2>1. j = 0
      BY <1>3, <1>4, <1>8
    <2> QED
      BY <1>5, <1>6, <2>1 DEF Stay
  <1>9. ASSUME k < Len(r.items), NEW s \in Sofar
        PROVE  t[s] = ItemsLeft(r, run, k + 1)[ForItem(r, r.items[k + 1], run)[s]]
    <2>1. j \in DOMAIN steps /\ Len(steps) + 1 - j = k + 1 /\ j - 1 = Len(r.items) - (k + 1)
      BY <1>2, <1>3, <1>4, <1>9
    <2>2. t[s] = Last(steps)[j - 1][steps[k + 1][s]]
      BY <1>5, <1>6, <2>1
    <2>3. Last(steps)[j - 1] = ItemsLeft(r, run, k + 1)
      BY <1>1, <2>1 DEF ItemsLeft
    <2>4. steps[k + 1] = ForItem(r, r.items[k + 1], run)
      BY <1>0, <1>2, <1>4, <1>9
    <2> QED
      BY <2>2, <2>3, <2>4
  <1> QED
    BY <1>7, <1>8, <1>9

LEMMA RepeatedRule ==
    ASSUME NEW r \in Rule, NEW run \in Runs
    PROVE  UnrollRule(r, run) = IF r.repeat THEN ItemsLeft(r, run, 0) ELSE Once(r, run)
  <1>1. UnrollRule(r, run) = IF r.repeat THEN Through(Items(r, run)) ELSE Once(r, run)
    BY DEF UnrollRule, Items
  <1>2. PICK steps : steps = Items(r, run)
    OBVIOUS
  <1>3. Len(steps) = Len(r.items) /\ Len(r.items) \in Nat
    <2>1. Len(steps) = Len(r.items)
      BY <1>2, ItemSteps
    <2>2. r.items \in Seq(Vals)
      BY DEF Rule
    <2> QED
      BY <2>1, <2>2
  <1>4. Through(steps) = ItemsLeft(r, run, 0)
    BY <1>2, <1>3 DEF Through, ItemsLeft
  <1> QED
    BY <1>1, <1>2, <1>4
-------------------------------------------------------------------------------
(* A call at one of the rules of its chain, and what it has left to do.    *)
Fits(rules, f) ==
    /\ f \in Frame
    /\ f.rule \in 1..(Len(rules) + 1)
    /\ f.step # "next" => f.rule <= Len(rules)
    /\ f.item > 0 => /\ f.rule <= Len(rules) /\ rules[f.rule].repeat
                     /\ f.item <= Len(rules[f.rule].items)

(* What is left of the call after the items so far.                        *)
AfterItem(rules, f, run) ==
    [s \in Sofar |-> RulesLeft(rules, run, f.rule + 1)
                               [ItemsLeft(rules[f.rule], run, f.item)[s]]]

(* What is left of the call after its rule, or after one item of it.       *)
AfterRule(rules, f, run) ==
    [s \in Sofar |-> IF rules[f.rule].repeat
                     THEN AfterItem(rules, f, run)[Restored(s, f.meta)]
                     ELSE RulesLeft(rules, run, f.rule + 1)[s]]

(* The call is at a repeated rule.                                         *)
Repeating(rules, f) == f.rule <= Len(rules) /\ rules[f.rule].repeat

(* What is left of the call, at each point of it.                          *)
Rest(rules, f, run) ==
    CASE f.step = "next" -> IF Repeating(rules, f) THEN AfterItem(rules, f, run)
                            ELSE RulesLeft(rules, run, f.rule)
      [] f.step = "rule" -> [s \in Sofar |-> AfterRule(rules, f, run)[Once(rules[f.rule], run)[s]]]
      [] f.step = "subs" -> [s \in Sofar |-> AfterRule(rules, f, run)[Through(Run(f.refs, run))[s]]]

(* One step after another only adds to the list.                           *)
LEMMA Compose ==
    ASSUME NEW t \in Growing, NEW u \in Growing
    PROVE  [s \in Sofar |-> u[t[s]]] \in Growing
  <1>1. ASSUME NEW s \in Sofar
        PROVE  u[t[s]] \in Sofar /\ Begins(s.list, u[t[s]].list)
    <2>1. t[s] \in Sofar /\ u[t[s]] \in Sofar
      BY DEF Growing
    <2>2. Begins(s.list, t[s].list) /\ Begins(t[s].list, u[t[s]].list)
      BY <2>1 DEF Growing
    <2>3. s.list \in Seq(Entry) /\ t[s].list \in Seq(Entry) /\ u[t[s]].list \in Seq(Entry)
      BY <2>1 DEF Sofar
    <2> QED
      BY <2>1, <2>2, <2>3, BeginsTransitive
  <1> QED
    BY <1>1 DEF Growing

(* What is left of a call only adds to the list.                           *)
LEMMA AfterItemGrows ==
    ASSUME NEW rules \in Seq(Rule), NEW run \in Runs, NEW f, Fits(rules, f),
           f.rule <= Len(rules)
    PROVE  AfterItem(rules, f, run) \in Growing
  <1>1. PICK r \in Rule : r = rules[f.rule]
    BY DEF Fits
  <1>2. PICK i : i = f.item
    OBVIOUS
  <1>3. i \in 0..Len(r.items)
    BY <1>1, <1>2 DEF Fits, Frame, Rule
  <1>4. PICK k : k = f.rule + 1
    OBVIOUS
  <1>5. k \in 1..(Len(rules) + 1)
    BY <1>4 DEF Fits
  <1>6. PICK t, u : t = ItemsLeft(r, run, i) /\ u = RulesLeft(rules, run, k)
    OBVIOUS
  <1>7. t \in Growing /\ u \in Growing
    BY <1>3, <1>5, <1>6, ItemsLeftIs, RulesLeftIs
  <1>9. AfterItem(rules, f, run) = [s \in Sofar |-> u[t[s]]]
    BY <1>1, <1>2, <1>4, <1>6 DEF AfterItem
  <1> QED
    BY <1>7, <1>9, Compose

LEMMA AfterRuleGrows ==
    ASSUME NEW rules \in Seq(Rule), NEW run \in Runs, NEW f, Fits(rules, f),
           f.rule <= Len(rules)
    PROVE  AfterRule(rules, f, run) \in Growing
  <1>1. PICK t, u : /\ t = AfterItem(rules, f, run)
                    /\ u = RulesLeft(rules, run, f.rule + 1)
    OBVIOUS
  <1>2. f.rule + 1 \in 1..(Len(rules) + 1) /\ f.meta \in Meta
    BY DEF Fits, Frame
  <1>3. t \in Growing /\ u \in Growing
    <2>1. PICK k : k = f.rule + 1
      OBVIOUS
    <2>2. u \in Growing
      BY <1>1, <1>2, <2>1, RulesLeftIs
    <2> QED
      BY <1>1, <2>2, AfterItemGrows
  <1>4. CASE rules[f.rule].repeat
    <2>1. AfterRule(rules, f, run) = [s \in Sofar |-> t[Restored(s, f.meta)]]
      BY <1>1, <1>4 DEF AfterRule
    <2>2. ASSUME NEW s \in Sofar
          PROVE  t[Restored(s, f.meta)] \in Sofar /\ Begins(s.list, t[Restored(s, f.meta)].list)
      <3>1. PICK x : x = Restored(s, f.meta)
        OBVIOUS
      <3>2. x \in Sofar /\ x.list = s.list
        BY <1>2, <3>1, RestoredSofar
      <3> QED
        BY <1>3, <3>1, <3>2 DEF Growing
    <2> QED
      BY <2>1, <2>2 DEF Growing
  <1>5. CASE ~rules[f.rule].repeat
    <2>1. AfterRule(rules, f, run) = [s \in Sofar |-> u[s]]
      BY <1>1, <1>5 DEF AfterRule
    <2>2. u = [s \in Sofar |-> u[s]]
      BY <1>3 DEF Growing
    <2> QED
      BY <1>3, <2>1, <2>2
  <1> QED
    BY <1>4, <1>5

LEMMA RestGrows ==
    ASSUME NEW rules \in Seq(Rule), NEW run \in Runs, NEW f, Fits(rules, f)
    PROVE  Rest(rules, f, run) \in Growing
  <1>1. f.step \in {"next", "rule", "subs"} /\ f.refs \in Seq(ChainRef) /\ f.rule \in Nat
    BY DEF Fits, Frame
  <1>2. CASE f.step = "next"
    <2>1. CASE Repeating(rules, f)
      <3>1. Rest(rules, f, run) = AfterItem(rules, f, run)
        BY <1>2, <2>1, Zenon DEF Rest
      <3>2. f.rule <= Len(rules)
        BY <2>1 DEF Repeating
      <3> QED
        BY <3>1, <3>2, AfterItemGrows
    <2>2. CASE ~Repeating(rules, f)
      <3>1. Rest(rules, f, run) = RulesLeft(rules, run, f.rule)
        BY <1>2, <2>2, Zenon DEF Rest
      <3>2. PICK k : k = f.rule
        OBVIOUS
      <3>3. k \in 1..(Len(rules) + 1)
        BY <3>2 DEF Fits
      <3> QED
        BY <3>1, <3>2, <3>3, RulesLeftIs
    <2> QED
      BY <2>1, <2>2
  <1>3. ASSUME f.step # "next" PROVE AfterRule(rules, f, run) \in Growing
    BY <1>3, AfterRuleGrows DEF Fits
  <1>4. CASE f.step = "rule"
    <2>1. PICK t, u : t = Once(rules[f.rule], run) /\ u = AfterRule(rules, f, run)
      OBVIOUS
    <2>2. rules[f.rule] \in Rule
      BY <1>4 DEF Fits
    <2>3. t \in Growing /\ u \in Growing
      BY <1>3, <1>4, <2>1, <2>2, OnceGrows
    <2>4. Rest(rules, f, run) = [s \in Sofar |-> AfterRule(rules, f, run)[Once(rules[f.rule], run)[s]]]
      BY <1>4, Zenon DEF Rest
    <2> QED
      BY <2>1, <2>3, <2>4, Compose
  <1>5. CASE f.step = "subs"
    <2>1. PICK steps : steps = Run(f.refs, run)
      OBVIOUS
    <2>2. PICK t, u : t = Through(steps) /\ u = AfterRule(rules, f, run)
      OBVIOUS
    <2>3. steps \in Seq(Growing)
      BY <1>1, <2>1, RunSteps
    <2>4. t \in Growing /\ u \in Growing
      BY <1>3, <1>5, <2>2, <2>3, ThroughGrows
    <2>5. Rest(rules, f, run) = [s \in Sofar |-> AfterRule(rules, f, run)[Through(Run(f.refs, run))[s]]]
      BY <1>5, Zenon DEF Rest
    <2> QED
      BY <2>1, <2>2, <2>4, <2>5, Compose
  <1> QED
    BY <1>1, <1>2, <1>4, <1>5

LEMMA RestValue ==
    ASSUME NEW rules, NEW run, NEW f, NEW s \in Sofar
    PROVE  /\ f.step = "next" /\ Repeating(rules, f) =>
                Rest(rules, f, run)[s] = RulesLeft(rules, run, f.rule + 1)
                                            [ItemsLeft(rules[f.rule], run, f.item)[s]]
           /\ f.step = "next" /\ ~Repeating(rules, f) =>
                Rest(rules, f, run)[s] = RulesLeft(rules, run, f.rule)[s]
           /\ f.step = "rule" =>
                Rest(rules, f, run)[s] = AfterRule(rules, f, run)[Once(rules[f.rule], run)[s]]
           /\ f.step = "subs" =>
                Rest(rules, f, run)[s] = AfterRule(rules, f, run)[Through(Run(f.refs, run))[s]]
  <1>1. ASSUME f.step = "next", Repeating(rules, f)
        PROVE  Rest(rules, f, run)[s] = RulesLeft(rules, run, f.rule + 1)
                                            [ItemsLeft(rules[f.rule], run, f.item)[s]]
    <2>1. Rest(rules, f, run) = AfterItem(rules, f, run)
      BY <1>1, Zenon DEF Rest
    <2> QED
      BY <2>1, Zenon DEF AfterItem
  <1>2. ASSUME f.step = "next", ~Repeating(rules, f)
        PROVE  Rest(rules, f, run)[s] = RulesLeft(rules, run, f.rule)[s]
    BY <1>2, Zenon DEF Rest
  <1>3. ASSUME f.step = "rule"
        PROVE  Rest(rules, f, run)[s] = AfterRule(rules, f, run)[Once(rules[f.rule], run)[s]]
    <2>1. Rest(rules, f, run)
            = [x \in Sofar |-> AfterRule(rules, f, run)[Once(rules[f.rule], run)[x]]]
      BY <1>3, Zenon DEF Rest
    <2> QED
      BY <2>1, Zenon
  <1>4. ASSUME f.step = "subs"
        PROVE  Rest(rules, f, run)[s] = AfterRule(rules, f, run)[Through(Run(f.refs, run))[s]]
    <2>1. Rest(rules, f, run)
            = [x \in Sofar |-> AfterRule(rules, f, run)[Through(Run(f.refs, run))[x]]]
      BY <1>4, Zenon DEF Rest
    <2> QED
      BY <2>1, Zenon
  <1> QED
    BY <1>1, <1>2, <1>3, <1>4

(* At the beginning of a rule, repeated or not.                            *)
LEMMA RestAtRule ==
    ASSUME NEW rules \in Seq(Rule), NEW run \in Runs, NEW f, Fits(rules, f),
           f.step = "next", f.item = 0, NEW s \in Sofar
    PROVE  Rest(rules, f, run)[s] = RulesLeft(rules, run, f.rule)[s]
  <1>1. CASE ~Repeating(rules, f)
    BY <1>1, RestValue
  <1>2. CASE Repeating(rules, f)
    <2>1. PICK r, k : r = rules[f.rule] /\ k = f.rule
      OBVIOUS
    <2>2. r \in Rule /\ r.repeat /\ k \in 1..(Len(rules) + 1) /\ k <= Len(rules)
      BY <1>2, <2>1 DEF Repeating, Fits
    <2>3. PICK t, u : t = RulesLeft(rules, run, k) /\ u = RulesLeft(rules, run, k + 1)
      OBVIOUS
    <2>4. PICK v : v = ItemsLeft(r, run, 0)
      OBVIOUS
    <2>5. t[s] = u[UnrollRule(r, run)[s]]
      BY <2>1, <2>2, <2>3, RulesLeftIs
    <2>6. UnrollRule(r, run) = v
      BY <2>2, <2>4, RepeatedRule
    <2>7. Rest(rules, f, run)[s] = RulesLeft(rules, run, f.rule + 1)
                                            [ItemsLeft(rules[f.rule], run, f.item)[s]]
      BY <1>2, RestValue
    <2>8. Rest(rules, f, run)[s] = u[v[s]]
      BY <2>1, <2>3, <2>4, <2>7
    <2> QED
      BY <2>1, <2>3, <2>5, <2>6, <2>8
  <1> QED
    BY <1>1, <1>2

LEMMA AfterRuleValue ==
    ASSUME NEW rules, NEW run, NEW f, NEW s \in Sofar
    PROVE  AfterRule(rules, f, run)[s]
             = IF rules[f.rule].repeat
               THEN AfterItem(rules, f, run)[Restored(s, f.meta)]
               ELSE RulesLeft(rules, run, f.rule + 1)[s]
  BY Zenon DEF AfterRule

(* What the call looks like after a rule, or one item of it.               *)
Advanced(rules, f) ==
    IF rules[f.rule].repeat
    THEN [f EXCEPT !.step = "next", !.refs = <<>>]
    ELSE [f EXCEPT !.step = "next", !.refs = <<>>, !.meta = f.scope, !.rule = f.rule + 1]

LEMMA RestAdvanced ==
    ASSUME NEW rules \in Seq(Rule), NEW run \in Runs, NEW f, Fits(rules, f),
           f.step # "next", NEW s \in Sofar, s.meta = f.scope,
           NEW g, g = Advanced(rules, f)
    PROVE  /\ Fits(rules, g)
           /\ \E x \in Sofar : /\ x.list = s.list /\ x.meta = g.meta
                               /\ Rest(rules, g, run)[x] = AfterRule(rules, f, run)[s]
  <1>1. /\ f \in Frame /\ f.rule \in 1..Len(rules) /\ f.meta \in Meta /\ f.scope \in Meta
        /\ <<>> \in Seq(ChainRef)
    BY DEF Fits, Frame
  <1>2. CASE rules[f.rule].repeat
    <2>1. g = [f EXCEPT !.step = "next", !.refs = <<>>]
      BY <1>2 DEF Advanced
    <2>2. /\ g \in Frame /\ g.step = "next" /\ g.rule = f.rule /\ g.item = f.item
          /\ g.meta = f.meta
      BY <1>1, <2>1 DEF Frame
    <2>3. Fits(rules, g)
      BY <2>2 DEF Fits
    <2>4. Repeating(rules, g)
      BY <1>1, <1>2, <2>2 DEF Repeating
    <2>5. PICK x : x = Restored(s, f.meta)
      OBVIOUS
    <2>6. x \in Sofar /\ x.list = s.list /\ x.meta = g.meta
      BY <1>1, <2>2, <2>5, RestoredSofar
    <2>7. AfterRule(rules, f, run)[s] = AfterItem(rules, f, run)[x]
      BY <1>2, <2>5, AfterRuleValue
    <2>8. AfterItem(rules, f, run)[x] = RulesLeft(rules, run, f.rule + 1)
                                            [ItemsLeft(rules[f.rule], run, f.item)[x]]
      BY <2>6, Zenon DEF AfterItem
    <2>9. Rest(rules, g, run)[x] = RulesLeft(rules, run, g.rule + 1)
                                            [ItemsLeft(rules[g.rule], run, g.item)[x]]
      BY <2>2, <2>4, <2>6, RestValue
    <2>10. Rest(rules, g, run)[x] = AfterRule(rules, f, run)[s]
      BY <2>2, <2>7, <2>8, <2>9, Zenon
    <2> QED
      BY <2>3, <2>6, <2>10, Zenon
  <1>3. CASE ~rules[f.rule].repeat
    <2>1. PICK k \in Nat : k = f.rule + 1
      BY <1>1
    <2>2. g = [f EXCEPT !.step = "next", !.refs = <<>>, !.meta = f.scope, !.rule = k]
      BY <1>3, <2>1 DEF Advanced
    <2>3. f.item = 0
      BY <1>3 DEF Fits, Frame
    <2>4. /\ g \in Frame /\ g.step = "next" /\ g.rule = k /\ g.item = 0 /\ g.meta = f.scope
      BY <1>1, <2>1, <2>2, <2>3 DEF Frame
    <2>5. k \in 1..(Len(rules) + 1)
      BY <1>1, <2>1
    <2>6. Fits(rules, g)
      BY <2>4, <2>5 DEF Fits
    <2>7. AfterRule(rules, f, run)[s] = RulesLeft(rules, run, f.rule + 1)[s]
      BY <1>3, AfterRuleValue
    <2>8. Rest(rules, g, run)[s] = RulesLeft(rules, run, g.rule)[s]
      BY <2>4, <2>6, RestAtRule
    <2>9. Rest(rules, g, run)[s] = AfterRule(rules, f, run)[s]
      BY <2>1, <2>4, <2>7, <2>8, Zenon
    <2> QED
      BY <2>4, <2>6, <2>9, Zenon
  <1> QED
    BY <1>2, <1>3

(* The steps of a call, each leaving as much to do as there was before.    *)
LEMMA RestBeginRule ==
    ASSUME NEW rules \in Seq(Rule), NEW run \in Runs, NEW f, Fits(rules, f),
           f.step = "next", f.rule <= Len(rules), ~rules[f.rule].repeat,
           NEW s \in Sofar,
           NEW g, g = [f EXCEPT !.step = "rule", !.scope = f.meta]
    PROVE  Fits(rules, g) /\ Rest(rules, g, run)[s] = Rest(rules, f, run)[s]
  <1>1. /\ f \in Frame /\ f.rule \in 1..Len(rules) /\ f.meta \in Meta
        /\ f.item = 0
    BY DEF Fits, Frame
  <1>2. /\ g \in Frame /\ g.step = "rule" /\ g.rule = f.rule /\ g.item = 0
    BY <1>1 DEF Frame
  <1>3. Fits(rules, g)
    BY <1>1, <1>2 DEF Fits
  <1>4. PICK r, k : r = rules[f.rule] /\ k = f.rule
    OBVIOUS
  <1>5. r \in Rule /\ ~r.repeat /\ k \in 1..(Len(rules) + 1) /\ k <= Len(rules)
    BY <1>1, <1>4
  <1>6. PICK t, u, o : /\ t = RulesLeft(rules, run, k) /\ u = RulesLeft(rules, run, k + 1)
                       /\ o = Once(r, run)
    OBVIOUS
  <1>7. t[s] = u[UnrollRule(r, run)[s]]
    BY <1>4, <1>5, <1>6, RulesLeftIs
  <1>8. UnrollRule(r, run) = o
    BY <1>5, <1>6, RepeatedRule
  <1>9. Rest(rules, f, run)[s] = t[s]
    BY <1>1, <1>4, <1>6, RestAtRule
  <1>10. PICK x : x = o[s]
    OBVIOUS
  <1>11. x \in Sofar
    <2>1. o \in Growing
      BY <1>5, <1>6, OnceGrows
    <2> QED
      BY <1>10, <2>1 DEF Growing
  <1>12. Rest(rules, g, run)[s] = AfterRule(rules, g, run)[Once(rules[g.rule], run)[s]]
    BY ONLY <1>2, s \in Sofar, RestValue
  <1>13. Rest(rules, g, run)[s] = AfterRule(rules, g, run)[x]
    BY <1>2, <1>4, <1>6, <1>10, <1>12
  <1>14. AfterRule(rules, g, run)[x] = RulesLeft(rules, run, g.rule + 1)[x]
    BY ONLY <1>2, <1>4, <1>5, <1>11, AfterRuleValue
  <1>15. AfterRule(rules, g, run)[x] = u[x]
    BY <1>2, <1>4, <1>6, <1>14
  <1> QED
    BY <1>3, <1>7, <1>8, <1>9, <1>10, <1>13, <1>15

(* The next item of a repeated rule, or the rule after it.                 *)
AtItem(r, f) ==
    [f EXCEPT !.step = "rule", !.item = f.item + 1,
              !.scope = [f.meta EXCEPT ![r.slot] = r.items[f.item + 1]]]

AfterItems(f) == [f EXCEPT !.item = 0, !.rule = f.rule + 1]

(* To begin with an item leaves the same to do.                            *)
LEMMA RestBeginItem ==
    ASSUME NEW rules \in Seq(Rule), NEW run \in Runs, NEW f, Fits(rules, f),
           f.step = "next", f.rule <= Len(rules),
           NEW r, r = rules[f.rule], r.repeat, f.item < Len(r.items),
           NEW s \in Sofar, s.meta = f.meta,
           NEW g, g = AtItem(r, f)
    PROVE  /\ Fits(rules, g) /\ g.step = "rule" /\ g.chain = f.chain
           /\ \E x \in Sofar : /\ x.list = s.list /\ x.meta = g.scope
                               /\ Rest(rules, g, run)[x] = Rest(rules, f, run)[s]
  <1>0. PICK x : x = Itemized(r, s, r.items[f.item + 1])
    OBVIOUS
  <1>1. /\ f \in Frame /\ f.rule \in 1..Len(rules) /\ f.meta \in Meta
        /\ f.item \in Nat /\ r \in Rule
    BY DEF Fits, Frame
  <1>2. r.items \in Seq(Vals)
    BY <1>1 DEF Rule
  <1>3. PICK i : i = f.item + 1
    OBVIOUS
  <1>4. i \in 1..Len(r.items) /\ i \in Nat /\ i - 1 = f.item /\ r.items[i] \in Vals
    BY <1>1, <1>2, <1>3
  <1>5. /\ x \in Sofar /\ x.list = s.list
        /\ x.meta = [f.meta EXCEPT ![r.slot] = r.items[f.item + 1]]
    <2>1. PICK item \in Vals : item = r.items[f.item + 1]
      BY <1>3, <1>4
    <2>2. /\ Itemized(r, s, item) \in Sofar /\ Itemized(r, s, item).list = s.list
          /\ Itemized(r, s, item).meta = [s.meta EXCEPT ![r.slot] = item]
      BY <1>1, ItemizedSofar
    <2> QED
      BY <1>0, <2>1, <2>2
  <1>6. x.meta \in Meta
    BY <1>5 DEF Sofar
  <1>m. PICK m \in Meta : m = x.meta
    BY <1>6
  <1>7. g = [f EXCEPT !.step = "rule", !.item = i, !.scope = m]
    BY <1>3, <1>5, <1>m DEF AtItem
  <1>8. /\ g \in Frame /\ g.step = "rule" /\ g.rule = f.rule /\ g.item = i
        /\ g.meta = f.meta /\ g.scope = m /\ g.chain = f.chain
    BY ONLY <1>1, <1>4, <1>7, m \in Meta DEF Frame
  <1>9. Fits(rules, g)
    BY <1>1, <1>4, <1>8 DEF Fits
  <1>10. PICK t, u, v : /\ t = ItemsLeft(r, run, f.item) /\ u = ItemsLeft(r, run, i)
                        /\ v = RulesLeft(rules, run, f.rule + 1)
    OBVIOUS
  <1>11. PICK k : k = f.item
    OBVIOUS
  <1>12. k \in 0..Len(r.items) /\ k < Len(r.items) /\ k + 1 = i
    BY <1>1, <1>2, <1>3, <1>11
  <1>13. t[s] = u[ForItem(r, r.items[i], run)[s]]
    BY <1>1, <1>10, <1>11, <1>12, ItemsLeftIs
  <1>14. PICK y, z : y = Once(r, run)[x] /\ z = Restored(y, f.meta)
    OBVIOUS
  <1>15. y \in Sofar
    <2>1. PICK o \in Growing : o = Once(r, run)
      BY <1>1, OnceGrows
    <2> QED
      BY <1>5, <1>14, <2>1 DEF Growing
  <1>16. ForItem(r, r.items[i], run)[s] = z
    <2>1. PICK item \in Vals : item = r.items[i]
      BY <1>4
    <2>2. ForItem(r, item, run)[s] = Restored(Once(r, run)[Itemized(r, s, item)], s.meta)
      BY <1>1, ForItemValue
    <2> QED
      BY <1>0, <1>3, <1>14, <2>1, <2>2
  <1>17. Rest(rules, f, run)[s] = v[t[s]]
    <2>1. Repeating(rules, f)
      BY DEF Repeating
    <2>2. Rest(rules, f, run)[s] = RulesLeft(rules, run, f.rule + 1)
                                            [ItemsLeft(rules[f.rule], run, f.item)[s]]
      BY <2>1, RestValue
    <2> QED
      BY <1>10, <2>2
  <1>18. Rest(rules, g, run)[x] = AfterRule(rules, g, run)[y]
    <2>1. Rest(rules, g, run)[x] = AfterRule(rules, g, run)[Once(rules[g.rule], run)[x]]
      BY ONLY <1>5, <1>8, RestValue
    <2> QED
      BY <1>8, <1>14, <2>1
  <1>19. AfterRule(rules, g, run)[y] = AfterItem(rules, g, run)[z]
    <2>1. rules[g.rule].repeat
      BY <1>8
    <2>2. AfterRule(rules, g, run)[y] = AfterItem(rules, g, run)[Restored(y, g.meta)]
      BY ONLY <1>15, <2>1, AfterRuleValue
    <2> QED
      BY <1>8, <1>14, <2>2
  <1>20. z \in Sofar
    BY <1>1, <1>14, <1>15, RestoredSofar
  <1>21. AfterItem(rules, g, run)[z] = RulesLeft(rules, run, g.rule + 1)
                                            [ItemsLeft(rules[g.rule], run, g.item)[z]]
    BY <1>20, Zenon DEF AfterItem
  <1>22. AfterItem(rules, g, run)[z] = v[u[z]]
    BY <1>8, <1>10, <1>21
  <1>23. Rest(rules, g, run)[x] = Rest(rules, f, run)[s]
    BY <1>13, <1>16, <1>17, <1>18, <1>19, <1>22
  <1> QED
    BY <1>5, <1>m, <1>8, <1>9, <1>23

(* To go on after the last item leaves the same to do.                     *)
LEMMA RestItemsDone ==
    ASSUME NEW rules \in Seq(Rule), NEW run \in Runs, NEW f, Fits(rules, f),
           f.step = "next", f.rule <= Len(rules),
           rules[f.rule].repeat, ~(f.item < Len(rules[f.rule].items)),
           NEW s \in Sofar,
           NEW g, g = AfterItems(f)
    PROVE  /\ Fits(rules, g) /\ Rest(rules, g, run)[s] = Rest(rules, f, run)[s]
           /\ g.step = "next" /\ g.chain = f.chain /\ g.meta = f.meta
  <1>1. /\ f \in Frame /\ f.rule \in 1..Len(rules) /\ f.item \in Nat
    BY DEF Fits, Frame
  <1>2. PICK r \in Rule, k \in Nat : r = rules[f.rule] /\ k = f.rule + 1
    BY <1>1
  <1>3. r.items \in Seq(Vals) /\ Len(r.items) \in Nat
    BY DEF Rule
  <1>4. f.item = Len(r.items)
    BY <1>1, <1>2, <1>3 DEF Fits
  <1>5. g = [f EXCEPT !.item = 0, !.rule = k]
    BY <1>2 DEF AfterItems
  <1>6. /\ g \in Frame /\ g.step = "next" /\ g.rule = k /\ g.item = 0
        /\ g.chain = f.chain /\ g.meta = f.meta
    BY ONLY <1>1, <1>5, k \in Nat, f.step = "next" DEF Frame
  <1>7. Fits(rules, g)
    BY <1>1, <1>2, <1>6 DEF Fits
  <1>8. PICK t, u : t = ItemsLeft(r, run, f.item) /\ u = RulesLeft(rules, run, k)
    OBVIOUS
  <1>9. t[s] = s
    <2>1. PICK i : i = f.item
      OBVIOUS
    <2>2. i \in 0..Len(r.items) /\ i = Len(r.items)
      BY <1>3, <1>4, <2>1
    <2> QED
      BY <1>8, <2>1, <2>2, ItemsLeftIs
  <1>10. Rest(rules, g, run)[s] = u[s]
    BY <1>6, <1>7, <1>8, RestAtRule
  <1>11. Rest(rules, f, run)[s] = u[t[s]]
    <2>1. Repeating(rules, f)
      BY DEF Repeating
    <2>2. Rest(rules, f, run)[s] = RulesLeft(rules, run, f.rule + 1)
                                            [ItemsLeft(rules[f.rule], run, f.item)[s]]
      BY <2>1, RestValue
    <2> QED
      BY <1>2, <1>8, <2>2
  <1> QED
    BY <1>6, <1>7, <1>9, <1>10, <1>11

(* At the end of a chain, nothing is left to do.                           *)
LEMMA RestAtEnd ==
    ASSUME NEW rules \in Seq(Rule), NEW run \in Runs, NEW f, Fits(rules, f),
           f.step = "next", f.rule > Len(rules), NEW s \in Sofar
    PROVE  Rest(rules, f, run)[s] = s
  <1>1. f.rule = Len(rules) + 1 /\ f.item = 0
    BY DEF Fits, Frame
  <1>2. PICK k, u : k = f.rule /\ u = RulesLeft(rules, run, k)
    OBVIOUS
  <1>3. u[s] = s
    <2>1. k \in 1..(Len(rules) + 1) /\ k = Len(rules) + 1
      BY <1>1, <1>2
    <2> QED
      BY <1>2, <2>1, RulesLeftIs
  <1>4. Rest(rules, f, run)[s] = u[s]
    BY <1>1, <1>2, RestAtRule
  <1> QED
    BY <1>3, <1>4

LEMMA RestOfCall ==
    ASSUME NEW rules \in Seq(Rule), NEW run \in Runs, NEW s \in Sofar,
           NEW name \in ChainNames, NEW f, f = Call(name, s.meta)
    PROVE  /\ Fits(rules, f) /\ f.meta = s.meta
           /\ Rest(rules, f, run)[s] = UnrollChain(rules, run)[s]
  <1>1. s.meta \in Meta /\ <<>> \in Seq(ChainRef)
    BY DEF Sofar
  <1>2. /\ f \in Frame /\ f.step = "next" /\ f.rule = 1 /\ f.item = 0 /\ f.meta = s.meta
    BY <1>1 DEF Call, Frame
  <1>3. Fits(rules, f)
    BY <1>2 DEF Fits
  <1>4. Rest(rules, f, run)[s] = RulesLeft(rules, run, 1)[s]
    BY <1>2, <1>3, RestAtRule
  <1>5. RulesLeft(rules, run, 1) = UnrollChain(rules, run)
    <2>1. Len(rules) + 1 - 1 = Len(rules)
      OBVIOUS
    <2>2. PICK n : n = Len(rules)
      OBVIOUS
    <2>3. UnrollChain(rules, run) = Last(RuleSteps(rules, run))[n]
      BY <2>2, ChainSteps
    <2> QED
      BY <2>1, <2>2, <2>3 DEF RulesLeft
  <1> QED
    BY <1>2, <1>3, <1>4, <1>5

(* The references of a rule, once the metadata is known.                   *)
RefsOf(r, m) == [i \in DOMAIN r.subChains |-> r.subChains[i][m]]

(* They are references.                                                    *)
LEMMA RefsOfRule ==
    ASSUME NEW r \in Rule, NEW m \in Meta
    PROVE  /\ RefsOf(r, m) \in Seq(ChainRef)
           /\ r.subChains = <<>> => RefsOf(r, m) = <<>>
  <1>1. r.subChains \in Seq([Meta -> ChainRef])
    BY DEF Rule, ChainTemplate
  <1>2. \A i \in DOMAIN r.subChains : r.subChains[i][m] \in ChainRef
    BY <1>1
  <1> QED
    BY <1>1, <1>2 DEF RefsOf

(* A rule that is skipped, breaks the check, or applies.                   *)
LEMMA OnceValue ==
    ASSUME NEW r, ValidRule(r), NEW run \in Runs, NEW s \in Sofar,
           NEW m, m = r.sideEffect[s.meta],
           NEW x, x = [list |-> Append(s.list, Effects(r)), meta |-> m]
    PROVE  /\ x \in Sofar /\ x.list = Append(s.list, Effects(r)) /\ x.meta = m
           /\ RuleVerdict(r, s.meta) = "skip" => Once(r, run)[s] = s
           /\ RuleVerdict(r, s.meta) = "invalid" => Once(r, run)[s] = Add(s, Mistake)
           /\ RuleVerdict(r, s.meta) = "apply" =>
                Once(r, run)[s] = Through(Run(RefsOf(r, m), run))[x]
  <1>1. r \in Rule /\ s.meta \in Meta /\ s.list \in Seq(Entry)
    BY DEF ValidRule, Sofar
  <1>2. m \in Meta
    BY <1>1 DEF Rule, SideEffect
  <1>3. x \in Sofar /\ x.list = Append(s.list, Effects(r)) /\ x.meta = m
    <2>1. Append(s.list, Effects(r)) \in Seq(Entry)
      BY <1>1, EffectsAreEntry, AppendBegins
    <2> QED
      BY <1>2, <2>1, SofarMade
  <1>4. PICK v : v = RuleVerdict(r, s.meta)
    OBVIOUS
  <1>5. /\ v = "invalid" => Broken(r, s.meta)
        /\ v = "apply" => ~Broken(r, s.meta) /\ Applies(r, s.meta)
        /\ v = "skip" => ~Broken(r, s.meta) /\ ~Applies(r, s.meta)
    BY <1>1, <1>4, RuleMeans
  <1>6. ASSUME v = "skip" PROVE Once(r, run)[s] = s
    BY <1>5, <1>6, Zenon DEF Once
  <1>7. ASSUME v = "invalid" PROVE Once(r, run)[s] = Add(s, Mistake)
    BY <1>5, <1>7, Zenon DEF Once
  <1>8. ASSUME v = "apply"
        PROVE  Once(r, run)[s] = Through(Run(RefsOf(r, m), run))[x]
    <2>1. Once(r, run)[s]
            = Through([i \in DOMAIN r.subChains |-> run[r.subChains[i][m]]])[x]
      BY <1>5, <1>8, Zenon DEF Once
    <2>2. [i \in DOMAIN r.subChains |-> run[r.subChains[i][m]]] = Run(RefsOf(r, m), run)
      BY DEF Run, RefsOf
    <2> QED
      BY <2>1, <2>2
  <1> QED
    BY <1>3, <1>4, <1>6, <1>7, <1>8

LEMMA RestSkipRule ==
    ASSUME NEW rules \in Seq(Rule), NEW run \in Runs, NEW f, Fits(rules, f),
           f.step = "rule", NEW s \in Sofar, s.meta = f.scope,
           ValidRule(rules[f.rule]), RuleVerdict(rules[f.rule], f.scope) = "skip",
           NEW g, g = Advanced(rules, f)
    PROVE  /\ Fits(rules, g)
           /\ \E x \in Sofar : /\ x.list = s.list /\ x.meta = g.meta
                               /\ Rest(rules, g, run)[x] = Rest(rules, f, run)[s]
  <1>1. PICK r : r = rules[f.rule]
    OBVIOUS
  <1>2. Once(r, run)[s] = s
    <2>1. PICK m, x : /\ m = r.sideEffect[s.meta]
                      /\ x = [list |-> Append(s.list, Effects(r)), meta |-> m]
      OBVIOUS
    <2> QED
      BY <1>1, <2>1, OnceValue
  <1>3. Rest(rules, f, run)[s] = AfterRule(rules, f, run)[Once(rules[f.rule], run)[s]]
    BY RestValue
  <1>4. Rest(rules, f, run)[s] = AfterRule(rules, f, run)[s]
    BY <1>1, <1>2, <1>3
  <1> QED
    BY <1>4, RestAdvanced

(* The call after a rule that applied.                                     *)
AtReferences(r, f) ==
    [f EXCEPT !.step = "subs", !.scope = r.sideEffect[f.scope],
              !.refs = RefsOf(r, r.sideEffect[f.scope])]

LEMMA RestApplyRule ==
    ASSUME NEW rules \in Seq(Rule), NEW run \in Runs, NEW f, Fits(rules, f),
           f.step = "rule", NEW s \in Sofar, s.meta = f.scope,
           NEW r, r = rules[f.rule], ValidRule(r), RuleVerdict(r, f.scope) = "apply",
           NEW e, e = Effects(r),
           NEW g, g = AtReferences(r, f)
    PROVE  /\ Fits(rules, g) /\ g.step = "subs" /\ g.chain = f.chain
           /\ \E x \in Sofar : /\ x.list = Append(s.list, e) /\ x.meta = g.scope
                               /\ Rest(rules, g, run)[x] = Rest(rules, f, run)[s]
  <1>0. PICK m, x : /\ m = r.sideEffect[f.scope]
                    /\ x = [list |-> Append(s.list, Effects(r)), meta |-> m]
    OBVIOUS
  <1>1. /\ f \in Frame /\ f.scope \in Meta /\ r \in Rule /\ f.rule <= Len(rules)
    BY DEF Fits, Frame, ValidRule
  <1>2. m \in Meta
    BY <1>0, <1>1 DEF Rule, SideEffect
  <1>3. PICK refs \in Seq(ChainRef) : refs = RefsOf(r, m)
    BY <1>1, <1>2, RefsOfRule
  <1>4. g = [f EXCEPT !.step = "subs", !.scope = m, !.refs = refs]
    BY <1>0, <1>3 DEF AtReferences
  <1>5. /\ g \in Frame /\ g.step = "subs" /\ g.rule = f.rule /\ g.item = f.item
        /\ g.scope = m /\ g.refs = refs /\ g.meta = f.meta /\ g.chain = f.chain
    BY ONLY <1>1, <1>2, <1>3, <1>4, refs \in Seq(ChainRef) DEF Frame
  <1>6. Fits(rules, g)
    BY <1>1, <1>5 DEF Fits
  <1>7. /\ x \in Sofar /\ x.list = Append(s.list, Effects(r)) /\ x.meta = m
        /\ Once(r, run)[s] = Through(Run(refs, run))[x]
    BY <1>0, <1>3, OnceValue
  <1>8. PICK y : y = Once(r, run)[s]
    OBVIOUS
  <1>9. y \in Sofar
    <2>1. PICK o \in Growing : o = Once(r, run)
      BY <1>1, OnceGrows
    <2> QED
      BY <1>8, <2>1 DEF Growing
  <1>10. Rest(rules, f, run)[s] = AfterRule(rules, f, run)[y]
    <2>1. Rest(rules, f, run)[s] = AfterRule(rules, f, run)[Once(rules[f.rule], run)[s]]
      BY ONLY RestValue, f.step = "rule", s \in Sofar
    <2> QED
      BY <1>8, <2>1
  <1>11. Rest(rules, g, run)[x] = AfterRule(rules, g, run)[y]
    <2>1. Rest(rules, g, run)[x] = AfterRule(rules, g, run)[Through(Run(g.refs, run))[x]]
      BY ONLY RestValue, <1>5, <1>7
    <2> QED
      BY <1>5, <1>7, <1>8, <2>1
  <1>12. AfterRule(rules, g, run) = AfterRule(rules, f, run)
    BY ONLY <1>5 DEF AfterRule, AfterItem
  <1>13. Rest(rules, g, run)[x] = Rest(rules, f, run)[s]
    BY <1>10, <1>11, <1>12
  <1> QED
    BY <1>5, <1>6, <1>7, <1>13

(* A rule that decides, or a mistake, ends up in the list.                 *)
LEMMA RestStops ==
    ASSUME NEW rules \in Seq(Rule), NEW run \in Runs, NEW f, Fits(rules, f),
           f.step = "rule", NEW s \in Sofar, s.meta = f.scope,
           NEW r, r = rules[f.rule], ValidRule(r),
           NEW e, \/ RuleVerdict(r, f.scope) = "invalid" /\ e = Mistake
                  \/ RuleVerdict(r, f.scope) = "apply" /\ e = Effects(r)
    PROVE  Begins(Append(s.list, e), Rest(rules, f, run)[s].list)
  <1>1. r \in Rule /\ s.list \in Seq(Entry) /\ s.meta \in Meta /\ f.rule <= Len(rules)
    BY DEF ValidRule, Sofar, Fits
  <1>2. e \in Entry
    BY <1>1, MistakeIsEntry, EffectsAreEntry
  <1>3. PICK l \in Seq(Entry) : l = Append(s.list, e)
    BY <1>1, <1>2, AppendBegins
  <1>4. PICK m, x : /\ m = r.sideEffect[s.meta]
                    /\ x = [list |-> Append(s.list, Effects(r)), meta |-> m]
    OBVIOUS
  <1>5. PICK y : y = Once(r, run)[s]
    OBVIOUS
  <1>6. y \in Sofar /\ Begins(l, y.list)
    <2>1. CASE RuleVerdict(r, f.scope) = "invalid" /\ e = Mistake
      <3>1. y = Add(s, Mistake)
        BY <1>4, <1>5, <2>1, OnceValue
      <3>2. y \in Sofar /\ y.list = l
        BY <1>3, <2>1, <3>1, AddGrows, MistakeIsEntry
      <3> QED
        BY <1>3, <3>2, BeginsSelf
    <2>2. CASE RuleVerdict(r, f.scope) = "apply" /\ e = Effects(r)
      <3>1. PICK refs \in Seq(ChainRef) : refs = RefsOf(r, m)
        <4>1. m \in Meta
          BY <1>1, <1>4 DEF Rule, SideEffect
        <4> QED
          BY <1>1, <4>1, RefsOfRule
      <3>2. PICK steps : steps = Run(refs, run)
        OBVIOUS
      <3>3. PICK t \in Growing : t = Through(steps)
        BY <3>2, RunSteps, ThroughGrows
      <3>4. x \in Sofar /\ x.list = l /\ y = Through(Run(refs, run))[x]
        <4>1. /\ x \in Sofar /\ x.list = Append(s.list, Effects(r))
              /\ Once(r, run)[s] = Through(Run(RefsOf(r, m), run))[x]
          BY <1>4, <2>2, OnceValue
        <4> QED
          BY <1>3, <1>5, <2>2, <3>1, <4>1
      <3>5. y = t[x]
        BY <3>2, <3>3, <3>4
      <3> QED
        BY <3>3, <3>4, <3>5 DEF Growing
    <2> QED
      BY <2>1, <2>2
  <1>7. PICK t \in Growing : t = AfterRule(rules, f, run)
    BY <1>1, AfterRuleGrows
  <1>8. Rest(rules, f, run)[s] = AfterRule(rules, f, run)[Once(rules[f.rule], run)[s]]
    BY ONLY RestValue, f.step = "rule", s \in Sofar
  <1>9. PICK z : z = Rest(rules, f, run)[s]
    OBVIOUS
  <1>10. z = t[y]
    BY <1>5, <1>7, <1>8, <1>9
  <1>11. z \in Sofar /\ Begins(y.list, z.list)
    BY <1>6, <1>7, <1>10 DEF Growing
  <1>12. y.list \in Seq(Entry) /\ z.list \in Seq(Entry)
    BY <1>6, <1>11 DEF Sofar
  <1>13. Begins(l, z.list)
    BY <1>3, <1>6, <1>11, <1>12, BeginsTransitive
  <1> QED
    BY <1>3, <1>9, <1>13

(* What is left to do in a call, the check itself included, which has the  *)
(* name Empty.                                                             *)
Resume(cs, f, run) ==
    IF f.chain = Empty THEN Through(Run(f.refs, run)) ELSE Rest(cs[f.chain], f, run)

(* A call is in order.                                                     *)
CallOK(cs, f) ==
    /\ f \in Frame
    /\ IF f.chain = Empty THEN f.step = "subs"
       ELSE f.chain \in DOMAIN cs /\ Fits(cs[f.chain], f)

(* A call without its next reference, and with other metadata; a sequence  *)
(* with another last element, and without it.                              *)
DropRef(f) == [f EXCEPT !.refs = Tail(f.refs)]
Scoped(f, m) == [f EXCEPT !.scope = m]
Topped(seq, g) == [seq EXCEPT ![Len(seq)] = g]
Below(seq) == SubSeq(seq, 1, Len(seq) - 1)

(* What is left of a call only adds to the list.                           *)
LEMMA ResumeGrows ==
    ASSUME NEW cs, IsConfig(cs), NEW run \in Runs, NEW f, CallOK(cs, f)
    PROVE  Resume(cs, f, run) \in Growing
  <1>1. CASE f.chain = Empty
    <2>1. PICK steps : steps = Run(f.refs, run)
      OBVIOUS
    <2>2. f.refs \in Seq(ChainRef)
      BY DEF CallOK, Frame
    <2>3. Resume(cs, f, run) = Through(steps)
      BY <1>1, <2>1 DEF Resume
    <2> QED
      BY <2>1, <2>2, <2>3, RunSteps, ThroughGrows
  <1>2. CASE f.chain # Empty
    <2>1. PICK rules : rules = cs[f.chain]
      OBVIOUS
    <2>2. rules \in Seq(Rule) /\ Fits(rules, f)
      BY <1>2, <2>1 DEF CallOK, IsConfig
    <2>3. Resume(cs, f, run) = Rest(rules, f, run)
      BY <1>2, <2>1 DEF Resume
    <2> QED
      BY <2>2, <2>3, RestGrows
  <1> QED
    BY <1>1, <1>2

(* A reference is run.                                                     *)
LEMMA ResumeReference ==
    ASSUME NEW cs, IsConfig(cs), NEW run \in Runs, NEW f, CallOK(cs, f),
           f.step = "subs", f.refs # <<>>, NEW s \in Sofar,
           NEW x, x = run[Head(f.refs)][s],
           NEW g, g = DropRef(f)
    PROVE  /\ CallOK(cs, g) /\ x \in Sofar
           /\ Resume(cs, g, run)[x] = Resume(cs, f, run)[s]
  <1>1. PICK refs, tail : refs = f.refs /\ tail = Tail(refs)
    OBVIOUS
  <1>2. refs \in Seq(ChainRef) /\ f \in Frame
    BY <1>1 DEF CallOK, Frame
  <1>3. tail \in Seq(ChainRef) /\ Head(refs) \in ChainRef
    BY <1>1, <1>2
  <1>4. g = [f EXCEPT !.refs = tail]
    BY <1>1 DEF DropRef
  <1>5. /\ g \in Frame /\ g.chain = f.chain /\ g.rule = f.rule /\ g.item = f.item
        /\ g.step = "subs" /\ g.meta = f.meta /\ g.refs = tail
    BY ONLY <1>2, <1>3, <1>4, f.step = "subs" DEF Frame
  <1>6. CallOK(cs, g)
    BY <1>5 DEF CallOK, Fits
  <1>7. x \in Sofar
    BY <1>1, <1>3 DEF Runs, Growing
  <1>8. Through(Run(refs, run))[s] = Through(Run(tail, run))[x]
    BY <1>1, <1>2, RunFirst
  <1>9. CASE f.chain = Empty
    <2>1. Resume(cs, f, run)[s] = Through(Run(refs, run))[s]
      BY <1>1, <1>9 DEF Resume
    <2>2. Resume(cs, g, run)[x] = Through(Run(tail, run))[x]
      BY <1>5, <1>9 DEF Resume
    <2> QED
      BY <1>6, <1>7, <1>8, <2>1, <2>2
  <1>10. CASE f.chain # Empty
    <2>1. PICK rules : rules = cs[f.chain]
      OBVIOUS
    <2>2. PICK y : y = Through(Run(refs, run))[s]
      OBVIOUS
    <2>3. Rest(rules, f, run)[s] = AfterRule(rules, f, run)[Through(Run(f.refs, run))[s]]
      BY ONLY RestValue, f.step = "subs", s \in Sofar
    <2>4. Rest(rules, g, run)[x] = AfterRule(rules, g, run)[Through(Run(g.refs, run))[x]]
      BY ONLY RestValue, <1>5, <1>7
    <2>5. AfterRule(rules, g, run) = AfterRule(rules, f, run)
      BY ONLY <1>5 DEF AfterRule, AfterItem
    <2>6. Rest(rules, f, run)[s] = Rest(rules, g, run)[x]
      BY <1>1, <1>5, <1>8, <2>3, <2>4, <2>5
    <2>7. Resume(cs, f, run) = Rest(rules, f, run) /\ Resume(cs, g, run) = Rest(rules, g, run)
      BY <1>5, <1>10, <2>1 DEF Resume
    <2> QED
      BY <1>6, <1>7, <2>6, <2>7
  <1> QED
    BY <1>9, <1>10

(* After its last reference, the call goes on after its rule.              *)
LEMMA RestReferencesDone ==
    ASSUME NEW rules \in Seq(Rule), NEW run \in Runs, NEW f, Fits(rules, f),
           f.step = "subs", f.refs = <<>>, NEW s \in Sofar, s.meta = f.scope,
           NEW g, g = Advanced(rules, f)
    PROVE  /\ Fits(rules, g)
           /\ \E x \in Sofar : /\ x.list = s.list /\ x.meta = g.meta
                               /\ Rest(rules, g, run)[x] = Rest(rules, f, run)[s]
  <1>0. <<>> \in Seq(ChainRef)
    OBVIOUS
  <1>1. PICK refs \in Seq(ChainRef) : refs = <<>> /\ refs = f.refs
    BY <1>0
  <1>2. Through(Run(refs, run))[s] = s
    BY <1>1, RunFirst
  <1>3. Rest(rules, f, run)[s] = AfterRule(rules, f, run)[Through(Run(f.refs, run))[s]]
    BY ONLY RestValue, f.step = "subs", s \in Sofar
  <1>4. Rest(rules, f, run)[s] = AfterRule(rules, f, run)[s]
    BY <1>1, <1>2, <1>3
  <1> QED
    BY <1>4, RestAdvanced

(* The metadata that a call's rule sees matters only to come.              *)
LEMMA ResumeScope ==
    ASSUME NEW cs, NEW run, NEW f, CallOK(cs, f), f.step = "subs", NEW m \in Meta,
           NEW g, g = Scoped(f, m)
    PROVE  CallOK(cs, g) /\ Resume(cs, g, run) = Resume(cs, f, run)
  <1>1. f \in Frame
    BY DEF CallOK
  <1>2. /\ g \in Frame /\ g.chain = f.chain /\ g.rule = f.rule /\ g.item = f.item
        /\ g.step = "subs" /\ g.meta = f.meta /\ g.refs = f.refs /\ g.scope = m
    BY ONLY <1>1, f.step = "subs", m \in Meta, g = Scoped(f, m) DEF Frame, Scoped
  <1>3. CallOK(cs, g)
    BY <1>2 DEF CallOK, Fits
  <1>4. PICK rules : rules = cs[f.chain]
    OBVIOUS
  <1>5. Rest(rules, g, run) = Rest(rules, f, run)
    <2>1. AfterRule(rules, g, run) = AfterRule(rules, f, run)
      BY ONLY <1>2 DEF AfterRule, AfterItem
    <2>2. Rest(rules, g, run)
            = [x \in Sofar |-> AfterRule(rules, g, run)[Through(Run(g.refs, run))[x]]]
      BY <1>2, Zenon DEF Rest
    <2>3. Rest(rules, f, run)
            = [x \in Sofar |-> AfterRule(rules, f, run)[Through(Run(f.refs, run))[x]]]
      BY Zenon DEF Rest
    <2> QED
      BY <1>2, <2>1, <2>2, <2>3, Zenon
  <1>6. Resume(cs, g, run) = Resume(cs, f, run)
    <2>1. CASE f.chain = Empty
      BY <1>2, <2>1 DEF Resume
    <2>2. CASE f.chain # Empty
      BY <1>2, <1>4, <1>5, <2>2 DEF Resume
    <2> QED
      BY <2>1, <2>2
  <1> QED
    BY <1>3, <1>6
-------------------------------------------------------------------------------
(* From what there is so far to the list in the end, through what each of  *)
(* the open calls has left to do, innermost first.                         *)
Leads(rs, s, end) ==
    \E t \in [0..Len(rs) -> Sofar] :
        /\ t[Len(rs)] = s /\ t[0].list = end
        /\ \A i \in 1..Len(rs) : t[i - 1] = rs[i][t[i]]

(* What there is so far, once the innermost call is done, begins the end.  *)
LEMMA LeadsOn ==
    ASSUME NEW rs \in Seq(Growing), rs # <<>>, NEW s \in Sofar, NEW end,
           Leads(rs, s, end), NEW u, u = rs[Len(rs)][s]
    PROVE  u \in Sofar /\ end \in Seq(Entry) /\ Begins(u.list, end)
  <1>1. PICK t \in [0..Len(rs) -> Sofar] :
          /\ t[Len(rs)] = s /\ t[0].list = end
          /\ \A i \in 1..Len(rs) : t[i - 1] = rs[i][t[i]]
    BY DEF Leads
  <1>2. PICK n \in Nat : n = Len(rs) /\ n >= 1
    OBVIOUS
  <1> DEFINE T == {k \in Nat : k < n => Begins(t[k].list, end)}
  <1>3. \A k \in 0..n : t[k] \in Sofar /\ t[k].list \in Seq(Entry)
    BY <1>2 DEF Sofar
  <1>4. end \in Seq(Entry)
    BY <1>1, <1>2, <1>3
  <1>5. 0 \in T
    BY <1>1, <1>4, BeginsSelf
  <1>6. ASSUME NEW k \in Nat, k \in T PROVE k + 1 \in T
    <2> SUFFICES ASSUME k + 1 < n PROVE Begins(t[k + 1].list, end)
      OBVIOUS
    <2>1. PICK i : i = k + 1
      OBVIOUS
    <2>2. i \in 1..n /\ i \in 0..n /\ k \in 0..n /\ i - 1 = k /\ k < n
      BY <1>2, <2>1
    <2>3. t[k] = rs[i][t[i]] /\ rs[i] \in Growing
      BY <1>1, <1>2, <2>2
    <2>4. PICK a, b : a = t[i] /\ b = t[k]
      OBVIOUS
    <2>5. a \in Sofar /\ b \in Sofar /\ Begins(a.list, b.list)
      BY <1>3, <2>2, <2>3, <2>4 DEF Growing
    <2>6. a.list \in Seq(Entry) /\ b.list \in Seq(Entry) /\ Begins(b.list, end)
      BY <1>3, <1>6, <2>2, <2>4
    <2>7. Begins(a.list, end)
      BY <1>4, <2>5, <2>6, BeginsTransitive
    <2> QED
      BY <2>1, <2>4, <2>7
  <1> HIDE DEF T
  <1>7. \A k \in Nat : k \in T
    BY <1>5, <1>6, NatInduct
  <1>8. u = t[n - 1] /\ n - 1 \in Nat /\ n - 1 < n /\ n - 1 \in 0..n
    BY <1>1, <1>2
  <1>9. Begins(t[n - 1].list, end)
    BY <1>7, <1>8 DEF T
  <1> QED
    BY <1>3, <1>4, <1>8, <1>9

(* A step within the innermost call.                                       *)
LEMMA LeadsReplaced ==
    ASSUME NEW rs \in Seq(Growing), rs # <<>>, NEW s \in Sofar, NEW end,
           Leads(rs, s, end),
           NEW u \in Growing, NEW x \in Sofar, u[x] = rs[Len(rs)][s],
           NEW rs2, rs2 = Topped(rs, u)
    PROVE  rs2 \in Seq(Growing) /\ Len(rs2) = Len(rs) /\ Leads(rs2, x, end)
  <1>1. PICK t \in [0..Len(rs) -> Sofar] :
          /\ t[Len(rs)] = s /\ t[0].list = end
          /\ \A i \in 1..Len(rs) : t[i - 1] = rs[i][t[i]]
    BY DEF Leads
  <1>2. PICK n \in Nat : n = Len(rs) /\ n >= 1
    OBVIOUS
  <1>3. /\ rs2 \in Seq(Growing) /\ Len(rs2) = n /\ rs2[n] = u
        /\ \A i \in 1..n : i # n => rs2[i] = rs[i]
    BY <1>2 DEF Topped
  <1>4. PICK t2 : t2 = [t EXCEPT ![n] = x]
    OBVIOUS
  <1>5. /\ t2 \in [0..n -> Sofar] /\ t2[n] = x
        /\ \A i \in 0..n : i # n => t2[i] = t[i]
    BY <1>2, <1>4
  <1>6. t2[0].list = end
    BY <1>1, <1>2, <1>5
  <1>7. ASSUME NEW i \in 1..n PROVE t2[i - 1] = rs2[i][t2[i]]
    <2>1. t2[i - 1] = t[i - 1] /\ t[i - 1] = rs[i][t[i]]
      BY <1>1, <1>2, <1>5
    <2>2. CASE i = n
      BY <1>1, <1>2, <1>3, <1>5, <2>1, <2>2
    <2>3. CASE i # n
      BY <1>3, <1>5, <2>1, <2>3
    <2> QED
      BY <2>2, <2>3
  <1> QED
    BY <1>2, <1>3, <1>5, <1>6, <1>7 DEF Leads

(* The innermost call is over.                                             *)
LEMMA LeadsReturned ==
    ASSUME NEW rs \in Seq(Growing), Len(rs) > 1, NEW s \in Sofar, NEW end,
           Leads(rs, s, end), rs[Len(rs)][s] = s,
           NEW rs2, rs2 = Below(rs)
    PROVE  rs2 \in Seq(Growing) /\ Len(rs2) = Len(rs) - 1 /\ Leads(rs2, s, end)
  <1>1. PICK t \in [0..Len(rs) -> Sofar] :
          /\ t[Len(rs)] = s /\ t[0].list = end
          /\ \A i \in 1..Len(rs) : t[i - 1] = rs[i][t[i]]
    BY DEF Leads
  <1>0. PICK n : n = Len(rs) - 1
    OBVIOUS
  <1>2. n \in Nat /\ n = Len(rs) - 1 /\ n >= 1 /\ n < Len(rs)
    BY <1>0
  <1>3. /\ rs2 \in Seq(Growing) /\ Len(rs2) = n
        /\ \A i \in 1..n : rs2[i] = rs[i]
    BY <1>2 DEF Below
  <1>4. PICK t2 : t2 = [i \in 0..n |-> t[i]]
    OBVIOUS
  <1>5. /\ t2 \in [0..n -> Sofar]
        /\ \A i \in 0..n : t2[i] = t[i]
    BY <1>2, <1>4
  <1>6. t2[0].list = end /\ t2[n] = s
    BY <1>1, <1>2, <1>5
  <1>7. ASSUME NEW i \in 1..n PROVE t2[i - 1] = rs2[i][t2[i]]
    BY <1>1, <1>2, <1>3, <1>5
  <1>8. \E t3 \in [0..n -> Sofar] :
           /\ t3[n] = s /\ t3[0].list = end
           /\ \A i \in 1..n : t3[i - 1] = rs2[i][t3[i]]
    BY <1>5, <1>6, <1>7
  <1>9. Leads(rs2, s, end)
    BY <1>3, <1>8 DEF Leads
  <1> QED
    BY <1>2, <1>3, <1>9

(* A further call is made.                                                 *)
LEMMA LeadsCalled ==
    ASSUME NEW rs \in Seq(Growing), NEW s \in Sofar, NEW end, NEW u \in Growing,
           Leads(rs, u[s], end),
           NEW rs2, rs2 = Append(rs, u)
    PROVE  rs2 \in Seq(Growing) /\ Len(rs2) = Len(rs) + 1 /\ Leads(rs2, s, end)
  <1>1. PICK t \in [0..Len(rs) -> Sofar] :
          /\ t[Len(rs)] = u[s] /\ t[0].list = end
          /\ \A i \in 1..Len(rs) : t[i - 1] = rs[i][t[i]]
    BY DEF Leads
  <1>2. PICK n \in Nat : n = Len(rs) + 1 /\ n >= 1
    OBVIOUS
  <1>3. /\ rs2 \in Seq(Growing) /\ Len(rs2) = n /\ rs2[n] = u
        /\ \A i \in 1..n : i # n => rs2[i] = rs[i]
    BY <1>2
  <1>4. PICK t2 : t2 = [i \in 0..n |-> IF i = n THEN s ELSE t[i]]
    OBVIOUS
  <1>5. /\ t2 \in [0..n -> Sofar] /\ t2[n] = s
        /\ \A i \in 0..n : i # n => t2[i] = t[i]
    BY <1>2, <1>4
  <1>6. t2[0].list = end
    BY <1>1, <1>2, <1>5
  <1>7. ASSUME NEW i \in 1..n PROVE t2[i - 1] = rs2[i][t2[i]]
    <2>1. t2[i - 1] = t[i - 1]
      BY <1>2, <1>5
    <2>2. CASE i = n
      BY <1>1, <1>2, <1>3, <1>5, <2>1, <2>2
    <2>3. CASE i # n
      <3>1. i \in 1..Len(rs) /\ i \in 0..n
        BY <1>2, <2>3
      <3> QED
        BY <1>1, <1>3, <1>5, <2>1, <2>3, <3>1
    <2> QED
      BY <2>2, <2>3
  <1>8. \E t3 \in [0..n -> Sofar] :
           /\ t3[n] = s /\ t3[0].list = end
           /\ \A i \in 1..n : t3[i - 1] = rs2[i][t3[i]]
    BY <1>5, <1>6, <1>7
  <1>9. Leads(rs2, s, end)
    BY <1>3, <1>8 DEF Leads
  <1> QED
    BY <1>2, <1>3, <1>9

(* The chains that are open, up to one of the calls.                       *)
OpenAt(st, i) == {st[j].chain : j \in 2..i}
(* What the references of a call do, and what all the calls have left.     *)
RunAt(cs, st, i) == UnrollRef(cs)[Cardinality(DOMAIN cs) + 1 - i][OpenAt(st, i)]
Resumes(cs, st) == [i \in DOMAIN st |-> Resume(cs, st[i], RunAt(cs, st, i))]

(* The calls are in order, each waits for the next, and no chain is open   *)
(* twice.                                                                  *)
Orderly(cs, st) ==
    /\ st \in Seq(Frame) /\ st # <<>>
    /\ \A i \in DOMAIN st :
         /\ CallOK(cs, st[i])
         /\ st[i].chain = Empty <=> i = 1
         /\ i < Len(st) => st[i].step = "subs"
         /\ Cardinality(OpenAt(st, i)) = i - 1

(* Open chains exist, and at most as many of them as chains are            *)
(* configured.                                                             *)
LEMMA OpenChains ==
    ASSUME ChainsAssumption, NEW cs, IsConfig(cs), NEW st, Orderly(cs, st),
           NEW i \in DOMAIN st
    PROVE  /\ OpenAt(st, i) \subseteq DOMAIN cs /\ OpenAt(st, i) \subseteq ChainNames
           /\ IsFiniteSet(OpenAt(st, i))
           /\ Cardinality(DOMAIN cs) \in Nat
           /\ Cardinality(DOMAIN cs) + 1 - i \in Nat
           /\ RunAt(cs, st, i) \in Runs
  <1>1. st \in Seq(Frame) /\ i \in Nat /\ i >= 1 /\ i <= Len(st)
    BY DEF Orderly
  <1>2. OpenAt(st, i) \subseteq DOMAIN cs
    <2>1. SUFFICES ASSUME NEW j \in 2..i PROVE st[j].chain \in DOMAIN cs
      BY DEF OpenAt
    <2>2. j \in DOMAIN st /\ j # 1
      BY <1>1
    <2> QED
      BY <2>2 DEF Orderly, CallOK
  <1>3. IsFiniteSet(DOMAIN cs) /\ DOMAIN cs \subseteq ChainNames
    BY DEF IsConfig
  <1>4. PICK O, C : O = OpenAt(st, i) /\ C = DOMAIN cs
    OBVIOUS
  <1>5. /\ IsFiniteSet(O) /\ Cardinality(O) <= Cardinality(C)
        /\ Cardinality(C) \in Nat /\ Cardinality(O) \in Nat
    BY <1>2, <1>3, <1>4, FS_Subset, FS_CardinalityType
  <1>6. Cardinality(O) = i - 1
    BY <1>4 DEF Orderly
  <1>7. Cardinality(C) + 1 - i \in Nat
    BY <1>1, <1>5, <1>6
  <1>8. RunAt(cs, st, i) \in Runs
    <2>1. PICK n \in Nat : n = Cardinality(DOMAIN cs) + 1 - i
      BY <1>4, <1>7
    <2>2. PICK U \in [Nat -> Deeper] : U = UnrollRef(cs)
      BY RefEquation
    <2>3. RunAt(cs, st, i) = U[n][O]
      BY <1>4, <2>1, <2>2 DEF RunAt
    <2>4. O \in SUBSET ChainNames
      BY <1>2, <1>3, <1>4
    <2>5. U[n] \in Deeper
      OBVIOUS
    <2> QED
      BY <2>3, <2>4, <2>5 DEF Deeper
  <1> QED
    BY <1>2, <1>3, <1>4, <1>5, <1>7, <1>8

(* What the calls have left to do only adds to the list.                   *)
LEMMA ResumesGrow ==
    ASSUME ChainsAssumption, NEW cs, IsConfig(cs), NEW st, Orderly(cs, st)
    PROVE  /\ Resumes(cs, st) \in Seq(Growing)
           /\ Len(Resumes(cs, st)) = Len(st) /\ Len(st) \in Nat /\ Len(st) >= 1
           /\ \A i \in DOMAIN st :
                Resumes(cs, st)[i] = Resume(cs, st[i], RunAt(cs, st, i))
  <1>1. st \in Seq(Frame) /\ st # <<>>
    BY DEF Orderly
  <1>2. ASSUME NEW i \in DOMAIN st
        PROVE  Resume(cs, st[i], RunAt(cs, st, i)) \in Growing
    <2>1. PICK f, run : f = st[i] /\ run = RunAt(cs, st, i)
      OBVIOUS
    <2>2. CallOK(cs, f)
      BY <2>1 DEF Orderly
    <2>3. run \in Runs
      BY <2>1, OpenChains
    <2> QED
      BY <2>1, <2>2, <2>3, ResumeGrows
  <1> QED
    BY <1>1, <1>2 DEF Resumes

(* The stack after a step within the innermost call.                       *)
LEMMA StackReplaced ==
    ASSUME ChainsAssumption, NEW cs, IsConfig(cs), NEW st, Orderly(cs, st),
           NEW n, n = Len(st),
           NEW g, CallOK(cs, g), g.chain = st[n].chain,
           NEW st2, st2 = Topped(st, g)
    PROVE  /\ Orderly(cs, st2) /\ Len(st2) = n /\ st2[n] = g
           /\ OpenAt(st2, n) = OpenAt(st, n)
           /\ Resumes(cs, st2)
                = Topped(Resumes(cs, st), Resume(cs, g, RunAt(cs, st, n)))
  <1>1. st \in Seq(Frame) /\ n \in Nat /\ n >= 1 /\ DOMAIN st = 1..n /\ g \in Frame
    BY DEF Orderly, CallOK
  <1>2. /\ st2 \in Seq(Frame) /\ Len(st2) = n /\ DOMAIN st2 = 1..n /\ st2[n] = g
        /\ \A i \in 1..n : i # n => st2[i] = st[i]
        /\ \A i \in 1..n : st2[i].chain = st[i].chain
    BY <1>1 DEF Topped
  <1>3. ASSUME NEW i \in 1..n PROVE OpenAt(st2, i) = OpenAt(st, i)
    <2>1. 2..i \subseteq 1..n
      BY <1>1
    <2> QED
      BY <1>2, <2>1 DEF OpenAt
  <1>4. Orderly(cs, st2)
    <2>1. ASSUME NEW i \in 1..n
          PROVE  /\ CallOK(cs, st2[i])
                 /\ st2[i].chain = Empty <=> i = 1
                 /\ i < n => st2[i].step = "subs"
                 /\ Cardinality(OpenAt(st2, i)) = i - 1
      <3>1. /\ CallOK(cs, st[i])
            /\ st[i].chain = Empty <=> i = 1
            /\ i < n => st[i].step = "subs"
            /\ Cardinality(OpenAt(st, i)) = i - 1
        BY <1>1 DEF Orderly
      <3>2. OpenAt(st2, i) = OpenAt(st, i)
        BY <1>3
      <3>3. CASE i = n
        BY <1>1, <1>2, <3>1, <3>2, <3>3
      <3>4. CASE i # n
        <4>1. st2[i] = st[i]
          BY <1>2, <3>4
        <4> QED
          BY <3>1, <3>2, <4>1
      <3> QED
        BY <3>3, <3>4
    <2>2. st2 # <<>>
      BY ONLY <1>1, <1>2
    <2> QED
      BY <1>1, <1>2, <2>1, <2>2 DEF Orderly
  <1>5. ASSUME NEW i \in 1..n PROVE RunAt(cs, st2, i) = RunAt(cs, st, i)
    BY <1>3 DEF RunAt
  <1>6. PICK rs : rs = Resumes(cs, st)
    OBVIOUS
  <1>7. PICK u : u = Resume(cs, g, RunAt(cs, st, n))
    OBVIOUS
  <1>8. ASSUME NEW i \in 1..n
        PROVE  Resume(cs, st2[i], RunAt(cs, st2, i)) = [rs EXCEPT ![n] = u][i]
    <2>1. DOMAIN rs = 1..n
      BY <1>1, <1>6 DEF Resumes
    <2>2. CASE i = n
      <3>1. Resume(cs, st2[i], RunAt(cs, st2, i)) = u
        BY <1>2, <1>5, <1>7, <2>2
      <3> QED
        BY <2>1, <2>2, <3>1
    <2>3. CASE i # n
      <3>1. Resume(cs, st2[i], RunAt(cs, st2, i)) = Resume(cs, st[i], RunAt(cs, st, i))
        BY <1>2, <1>5, <2>3
      <3>2. rs[i] = Resume(cs, st[i], RunAt(cs, st, i))
        BY <1>1, <1>6 DEF Resumes
      <3> QED
        BY <2>1, <2>3, <3>1, <3>2
    <2> QED
      BY <2>2, <2>3
  <1>9. Resumes(cs, st2) = [rs EXCEPT ![n] = u]
    <2>1. Resumes(cs, st2) = [i \in 1..n |-> Resume(cs, st2[i], RunAt(cs, st2, i))]
      BY <1>2 DEF Resumes
    <2>2. [rs EXCEPT ![n] = u] = [i \in 1..n |-> [rs EXCEPT ![n] = u][i]]
      BY <1>1, <1>6 DEF Resumes
    <2> QED
      BY <1>8, <2>1, <2>2
  <1>10. OpenAt(st2, n) = OpenAt(st, n)
    <2>1. n \in 1..n
      BY <1>1
    <2> QED
      BY <1>3, <2>1
  <1>11. Resumes(cs, st2) = Topped(rs, u)
    <2>1. Len(rs) = n
      BY <1>6, ResumesGrow
    <2> QED
      BY <1>9, <2>1 DEF Topped
  <1> QED
    BY <1>2, <1>4, <1>6, <1>7, <1>10, <1>11

(* The stack after a call has returned.                                    *)
LEMMA StackReturned ==
    ASSUME ChainsAssumption, NEW cs, IsConfig(cs), NEW st, Orderly(cs, st),
           NEW n, n = Len(st) - 1, n >= 1,
           NEW st2, st2 = Below(st)
    PROVE  /\ Orderly(cs, st2) /\ Len(st2) = n /\ st2[n] = st[n]
           /\ Resumes(cs, st2) = Below(Resumes(cs, st))
  <1>1. st \in Seq(Frame) /\ n \in Nat /\ n < Len(st) /\ DOMAIN st = 1..(n + 1)
    BY DEF Orderly
  <1>2. /\ st2 \in Seq(Frame) /\ Len(st2) = n /\ DOMAIN st2 = 1..n
        /\ \A i \in 1..n : st2[i] = st[i]
    BY <1>1 DEF Below
  <1>3. ASSUME NEW i \in 1..n PROVE OpenAt(st2, i) = OpenAt(st, i)
    <2>1. 2..i \subseteq 1..n
      BY <1>1
    <2> QED
      BY <1>2, <2>1 DEF OpenAt
  <1>4. Orderly(cs, st2)
    <2>1. ASSUME NEW i \in 1..n
          PROVE  /\ CallOK(cs, st2[i])
                 /\ st2[i].chain = Empty <=> i = 1
                 /\ st2[i].step = "subs"
                 /\ Cardinality(OpenAt(st2, i)) = i - 1
      <3>1. i \in DOMAIN st /\ i < Len(st)
        BY <1>1
      <3> QED
        BY <1>2, <1>3, <3>1 DEF Orderly
    <2>2. st2 # <<>>
      BY ONLY <1>1, <1>2, n >= 1
    <2> QED
      BY <1>2, <2>1, <2>2 DEF Orderly
  <1>5. ASSUME NEW i \in 1..n PROVE RunAt(cs, st2, i) = RunAt(cs, st, i)
    BY <1>3 DEF RunAt
  <1>6. PICK rs \in Seq(Growing) : rs = Resumes(cs, st) /\ Len(rs) = n + 1
    <2>1. Len(st) = n + 1
      BY <1>1
    <2> QED
      BY <2>1, ResumesGrow
  <1>7. ASSUME NEW i \in 1..n
        PROVE  Resume(cs, st2[i], RunAt(cs, st2, i)) = SubSeq(rs, 1, n)[i]
    <2>1. Resume(cs, st2[i], RunAt(cs, st2, i)) = Resume(cs, st[i], RunAt(cs, st, i))
      BY <1>2, <1>5
    <2>2. rs[i] = Resume(cs, st[i], RunAt(cs, st, i))
      BY <1>1, <1>6 DEF Resumes
    <2>3. SubSeq(rs, 1, n)[i] = rs[i]
      BY <1>1, <1>6
    <2> QED
      BY <2>1, <2>2, <2>3
  <1>8. Resumes(cs, st2) = SubSeq(rs, 1, n)
    <2>1. Resumes(cs, st2) = [i \in 1..n |-> Resume(cs, st2[i], RunAt(cs, st2, i))]
      BY <1>2 DEF Resumes
    <2>2. SubSeq(rs, 1, n) = [i \in 1..n |-> SubSeq(rs, 1, n)[i]]
      BY <1>1, <1>6
    <2> QED
      BY <1>7, <2>1, <2>2
  <1>9. st2[n] = st[n]
    BY <1>1, <1>2
  <1>10. SubSeq(rs, 1, n) = Below(rs)
    <2>1. Len(rs) - 1 = n
      BY <1>1, <1>6
    <2> QED
      BY <2>1 DEF Below
  <1> QED
    BY <1>2, <1>4, <1>6, <1>8, <1>9, <1>10

(* The call f may be made; and what the stack is then.                     *)
MayCall(cs, st, f) ==
    /\ Orderly(cs, st) /\ st[Len(st)].step = "subs"
    /\ CallOK(cs, f) /\ f.chain \in DOMAIN cs \ OpenAt(st, Len(st))

Called(cs, st, f, st2) ==
    LET k == Cardinality(DOMAIN cs) + 1 - Len(st) IN
    /\ Orderly(cs, st2)
    /\ k \in Nat /\ k # 0
    /\ Resumes(cs, st2)
         = Append(Resumes(cs, st),
                  Resume(cs, f, Within(cs, k, OpenAt(st, Len(st)), f.chain)))

(* The stack after a call has been made.                                   *)
LEMMA StackCalled ==
    ASSUME ChainsAssumption, NEW cs, IsConfig(cs), NEW st, NEW f, MayCall(cs, st, f),
           NEW st2, st2 = Append(st, f)
    PROVE  Called(cs, st, f, st2)
  <1>0. PICK n, k : n = Len(st) /\ k = Cardinality(DOMAIN cs) + 1 - n
    OBVIOUS
  <1> Orderly(cs, st) /\ st[n].step = "subs" /\ CallOK(cs, f)
      /\ f.chain \in DOMAIN cs \ OpenAt(st, n)
    BY <1>0 DEF MayCall
  <1>1. /\ st \in Seq(Frame) /\ n \in Nat /\ n >= 1 /\ DOMAIN st = 1..n /\ f \in Frame
        /\ f.chain \in ChainNames /\ f.chain # Empty
    BY <1>0 DEF Orderly, CallOK, IsConfig, ChainsAssumption
  <1>2. /\ st2 \in Seq(Frame) /\ Len(st2) = n + 1 /\ DOMAIN st2 = 1..(n + 1)
        /\ st2[n + 1] = f
        /\ \A i \in 1..n : st2[i] = st[i]
    BY <1>1
  <1>3. ASSUME NEW i \in 1..n PROVE OpenAt(st2, i) = OpenAt(st, i)
    <2>1. 2..i \subseteq 1..n
      BY <1>1
    <2> QED
      BY <1>2, <2>1 DEF OpenAt
  <1>4. OpenAt(st2, n + 1) = OpenAt(st, n) \cup {f.chain}
    <2>1. 2..(n + 1) = (2..n) \cup {n + 1} /\ 2..n \subseteq 1..n
      BY <1>1
    <2> QED
      BY <1>2, <2>1 DEF OpenAt
  <1>5. PICK O, C : O = OpenAt(st, n) /\ C = DOMAIN cs
    OBVIOUS
  <1>6. /\ O \subseteq C /\ IsFiniteSet(O) /\ Cardinality(C) \in Nat /\ Cardinality(O) = n - 1
    <2>1. n \in DOMAIN st
      BY <1>1
    <2>2. Cardinality(O) = n - 1
      BY <1>0, <1>5, <2>1 DEF Orderly
    <2> QED
      BY <1>5, <2>1, <2>2, OpenChains
  <1>7. Cardinality(O \cup {f.chain}) = n
    <2>1. PICK c : c = f.chain /\ c \notin O
      BY <1>5
    <2>2. Cardinality(O \cup {c}) = Cardinality(O) + 1
      BY ONLY <1>6, <2>1, FS_AddElement
    <2> QED
      BY <1>1, <1>6, <2>1, <2>2
  <1>8. Cardinality(O \cup {f.chain}) <= Cardinality(C)
    <2>1. IsFiniteSet(C) /\ O \cup {f.chain} \subseteq C
      BY <1>5, <1>6 DEF IsConfig
    <2> QED
      BY <2>1, FS_Subset
  <1>9. k \in Nat /\ k # 0 /\ k - 1 = Cardinality(C) + 1 - (n + 1)
    BY <1>0, <1>1, <1>5, <1>6, <1>7, <1>8
  <1>10. Orderly(cs, st2)
    <2>1. ASSUME NEW i \in 1..(n + 1)
          PROVE  /\ CallOK(cs, st2[i])
                 /\ st2[i].chain = Empty <=> i = 1
                 /\ i < n + 1 => st2[i].step = "subs"
                 /\ Cardinality(OpenAt(st2, i)) = i - 1
      <3>1. CASE i = n + 1
        <4>1. Cardinality(OpenAt(st2, n + 1)) = n
          BY <1>4, <1>5, <1>7
        <4> QED
          BY <1>1, <1>2, <3>1, <4>1
      <3>2. CASE i # n + 1
        <4>1. i \in 1..n /\ i \in DOMAIN st /\ (i < n \/ i = n)
          BY <1>1, <3>2
        <4>2. st2[i] = st[i] /\ OpenAt(st2, i) = OpenAt(st, i)
          BY <1>2, <1>3, <4>1
        <4> QED
          BY <1>0, <4>1, <4>2 DEF Orderly
      <3> QED
        BY <3>1, <3>2
    <2>2. st2 # <<>>
      BY <1>2
    <2> QED
      BY <1>2, <2>1, <2>2 DEF Orderly
  <1>11. ASSUME NEW i \in 1..n PROVE RunAt(cs, st2, i) = RunAt(cs, st, i)
    BY <1>3 DEF RunAt
  <1>12. RunAt(cs, st2, n + 1) = Within(cs, k, OpenAt(st, n), f.chain)
    BY <1>4, <1>5, <1>9 DEF RunAt, Within
  <1>13. PICK rs \in Seq(Growing) : rs = Resumes(cs, st) /\ Len(rs) = n
    BY <1>0, ResumesGrow
  <1>14. PICK u : u = Resume(cs, f, Within(cs, k, OpenAt(st, n), f.chain))
    OBVIOUS
  <1>19. u \in Growing
    <2>1. n + 1 \in DOMAIN st2
      BY <1>1, <1>2
    <2>2. PICK i \in DOMAIN st2 : i = n + 1
      BY <2>1
    <2>3. PICK rs2 \in Seq(Growing) : rs2 = Resumes(cs, st2) /\ Len(rs2) = n + 1
      BY <1>2, <1>10, ResumesGrow
    <2>4. rs2[i] = u
      BY <1>2, <1>12, <1>14, <2>2, <2>3 DEF Resumes
    <2> QED
      BY <1>1, <2>2, <2>3, <2>4
  <1>15. PICK all : all = Append(rs, u)
    OBVIOUS
  <1>16. /\ all = [i \in 1..(n + 1) |-> all[i]] /\ all[n + 1] = u
         /\ \A i \in 1..n : all[i] = rs[i]
    <2>1. all \in Seq(Growing)
      BY <1>15, <1>19
    <2>2. Len(all) = n + 1
      BY <1>13, <1>15, <1>19
    <2>3. PICK b \in Seq(Growing) : b = all /\ Len(b) = n + 1
      BY <2>1, <2>2
    <2>4. b = [i \in 1..Len(b) |-> b[i]]
      OBVIOUS
    <2>5. all[n + 1] = u
      BY <1>13, <1>15, <1>19
    <2>6. \A i \in 1..n : all[i] = rs[i]
      BY <1>13, <1>15, <1>19
    <2> QED
      BY <2>3, <2>4, <2>5, <2>6
  <1>17. ASSUME NEW i \in 1..(n + 1)
         PROVE  Resume(cs, st2[i], RunAt(cs, st2, i)) = all[i]
    <2>1. CASE i = n + 1
      BY <1>2, <1>12, <1>14, <1>16, <2>1
    <2>2. CASE i # n + 1
      <3>1. i \in 1..n /\ i \in DOMAIN st
        BY <1>1, <2>2
      <3>2. Resume(cs, st2[i], RunAt(cs, st2, i)) = Resume(cs, st[i], RunAt(cs, st, i))
        BY <1>2, <1>11, <3>1
      <3>3. rs[i] = Resume(cs, st[i], RunAt(cs, st, i))
        BY <1>13, <3>1 DEF Resumes
      <3> QED
        BY <1>16, <3>1, <3>2, <3>3
    <2> QED
      BY <2>1, <2>2
  <1>18. Resumes(cs, st2) = all
    <2>1. Resumes(cs, st2) = [i \in 1..(n + 1) |-> Resume(cs, st2[i], RunAt(cs, st2, i))]
      BY <1>2 DEF Resumes
    <2> QED
      BY <1>16, <1>17, <2>1
  <1> QED
    BY <1>0, <1>9, <1>10, <1>13, <1>14, <1>15, <1>18 DEF Called

(* The calls on the stack are in order, and what they have left to do      *)
(* leads from s to the list end.                                           *)
Ahead(cs, st, s, end) == Orderly(cs, st) /\ Leads(Resumes(cs, st), s, end)

(* A step within the innermost call that leaves the same to do.            *)
LEMMA AheadReplaced ==
    ASSUME ChainsAssumption, NEW cs, IsConfig(cs), NEW st, NEW s \in Sofar, NEW end,
           Ahead(cs, st, s, end),
           NEW n, n = Len(st),
           NEW g, CallOK(cs, g), g.chain = st[n].chain, NEW x \in Sofar,
           NEW run, run = RunAt(cs, st, n),
           Resume(cs, g, run)[x] = Resume(cs, st[n], run)[s],
           NEW st2, st2 = Topped(st, g)
    PROVE  Ahead(cs, st2, x, end) /\ Len(st2) = n /\ st2[n] = g
  <1>1. Orderly(cs, st) /\ Leads(Resumes(cs, st), s, end)
    BY DEF Ahead
  <1>2. PICK rs \in Seq(Growing) : /\ rs = Resumes(cs, st) /\ Len(rs) = n /\ n >= 1 /\ n \in Nat
                                   /\ rs[n] = Resume(cs, st[n], run)
    <2>1. Len(st) >= 1 /\ Len(st) \in Nat /\ st \in Seq(Frame)
      BY <1>1, ResumesGrow DEF Orderly
    <2>2. n \in DOMAIN st
      BY <2>1
    <2> QED
      BY <1>1, <2>1, <2>2, ResumesGrow
  <1>3. PICK u : u = Resume(cs, g, run)
    OBVIOUS
  <1>4. u \in Growing
    <2>1. n \in DOMAIN st
      BY <1>1, <1>2 DEF Orderly
    <2>2. run \in Runs
      BY <1>1, <2>1, OpenChains
    <2> QED
      BY <1>3, <2>2, ResumeGrows
  <1>5. PICK rs2 : rs2 = Topped(rs, u)
    OBVIOUS
  <1>6. rs # <<>>
    BY ONLY <1>2
  <1>7. Leads(rs2, x, end)
    <2>1. Leads(rs, s, end) /\ u[x] = rs[Len(rs)][s]
      BY <1>1, <1>2, <1>3
    <2> QED
      BY <1>4, <1>5, <1>6, <2>1, LeadsReplaced
  <1>8. /\ Orderly(cs, st2) /\ Len(st2) = n /\ st2[n] = g
        /\ Resumes(cs, st2)
                = Topped(Resumes(cs, st), Resume(cs, g, RunAt(cs, st, n)))
    BY <1>1, StackReplaced
  <1>9. Resumes(cs, st2) = rs2
    BY <1>2, <1>3, <1>5, <1>8
  <1> QED
    BY <1>7, <1>8, <1>9 DEF Ahead

(* A reference that does not become a call.                                *)
LEMMA AheadReference ==
    ASSUME ChainsAssumption, NEW cs, IsConfig(cs), NEW st, NEW s \in Sofar, NEW end,
           Ahead(cs, st, s, end),
           NEW n, n = Len(st), st[n].step = "subs", st[n].refs # <<>>,
           NEW run, run = RunAt(cs, st, n),
           NEW x, x = run[Head(st[n].refs)][s],
           NEW g, g = DropRef(st[n]),
           NEW st2, st2 = Topped(st, g)
    PROVE  /\ Ahead(cs, st2, x, end) /\ x \in Sofar
           /\ Len(st2) = n /\ st2[n] = g /\ CallOK(cs, g) /\ g.chain = st[n].chain
  <1>1. Orderly(cs, st)
    BY DEF Ahead
  <1>2. n \in DOMAIN st
    BY <1>1 DEF Orderly
  <1>3. PICK f : f = st[n]
    OBVIOUS
  <1>4. CallOK(cs, f) /\ f \in Frame
    BY <1>1, <1>2, <1>3 DEF Orderly, CallOK
  <1>5. run \in Runs
    BY <1>1, <1>2, OpenChains
  <1>6. g = DropRef(f) /\ x = run[Head(f.refs)][s]
    BY <1>3
  <1>7. /\ CallOK(cs, g) /\ x \in Sofar
        /\ Resume(cs, g, run)[x] = Resume(cs, f, run)[s]
    BY <1>3, <1>4, <1>5, <1>6, ResumeReference
  <1>8. g.chain = f.chain
    BY ONLY <1>4, <1>6 DEF Frame, DropRef
  <1> QED
    BY <1>3, <1>7, <1>8, AheadReplaced

(* A call returns when nothing is left of it.                              *)
LEMMA AheadReturned ==
    ASSUME ChainsAssumption, NEW cs, IsConfig(cs), NEW st, NEW s \in Sofar, NEW end,
           Ahead(cs, st, s, end),
           NEW n, n = Len(st) - 1, n >= 1,
           Resume(cs, st[n + 1], RunAt(cs, st, n + 1))[s] = s,
           NEW m, m = s.meta,
           NEW st2, st2 = Topped(Below(st), Scoped(st[n], m))
    PROVE  /\ Ahead(cs, st2, s, end) /\ Len(st2) = n
           /\ st2[n].scope = m /\ st2[n].step = "subs"
  <1>1. Orderly(cs, st) /\ Leads(Resumes(cs, st), s, end)
    BY DEF Ahead
  <1>2. PICK rs \in Seq(Growing) : /\ rs = Resumes(cs, st) /\ Len(rs) = Len(st)
    BY <1>1, ResumesGrow
  <1>3. n \in Nat /\ Len(st) = n + 1 /\ n + 1 \in DOMAIN st /\ n \in DOMAIN st /\ n < Len(st)
    BY <1>1 DEF Orderly
  <1>4. rs[n + 1] = Resume(cs, st[n + 1], RunAt(cs, st, n + 1))
    BY <1>2, <1>3 DEF Resumes
  <1>5. PICK st1, rs1 : st1 = Below(st) /\ rs1 = Below(rs)
    OBVIOUS
  <1>6. /\ Orderly(cs, st1) /\ Len(st1) = n /\ st1[n] = st[n] /\ Resumes(cs, st1) = rs1
    BY <1>1, <1>2, <1>5, StackReturned
  <1>7. Leads(rs1, s, end)
    <2>1. /\ Leads(rs, s, end) /\ Len(rs) > 1 /\ rs[Len(rs)][s] = s
      BY <1>1, <1>2, <1>3, <1>4, <1>5
    <2> QED
      BY <1>5, <2>1, LeadsReturned
  <1>8. Ahead(cs, st1, s, end)
    BY <1>6, <1>7 DEF Ahead
  <1>9. PICK f, g : f = st1[n] /\ g = Scoped(f, m)
    OBVIOUS
  <1>10. CallOK(cs, f) /\ f.step = "subs" /\ f \in Frame
    BY <1>1, <1>3, <1>6, <1>9 DEF Orderly, CallOK
  <1>11. m \in Meta
    BY DEF Sofar
  <1>12. PICK run : run = RunAt(cs, st1, n)
    OBVIOUS
  <1>13. CallOK(cs, g) /\ Resume(cs, g, run) = Resume(cs, f, run)
    BY <1>9, <1>10, <1>11, ResumeScope
  <1>14. g.chain = f.chain /\ g.scope = m /\ g.step = "subs"
    BY ONLY <1>9, <1>10, <1>11 DEF Frame, Scoped
  <1>15. st2 = Topped(st1, g)
    BY <1>5, <1>6, <1>9
  <1>16. Ahead(cs, st2, s, end) /\ Len(st2) = n /\ st2[n] = g
    <2>1. /\ Resume(cs, g, run)[s] = Resume(cs, st1[n], run)[s]
          /\ g.chain = st1[n].chain /\ n = Len(st1)
      BY <1>6, <1>9, <1>13, <1>14
    <2> QED
      BY <1>8, <1>12, <1>13, <1>15, <2>1, AheadReplaced
  <1> QED
    BY <1>14, <1>16

(* The stack when the next reference has become a call.                    *)
WithCall(st, f) == Append(Topped(st, DropRef(st[Len(st)])), f)

(* A reference that becomes a call.                                        *)
LEMMA AheadCalled ==
    ASSUME ChainsAssumption, NEW cs, IsConfig(cs), NEW st, NEW s \in Sofar, NEW end,
           Ahead(cs, st, s, end),
           NEW n, n = Len(st), st[n].step = "subs", st[n].refs # <<>>,
           NEW ref, ref = Head(st[n].refs), ref \in ChainRef,
           ref.chain \in DOMAIN cs, ref.chain \notin OpenAt(st, n),
           NEW f, f = Call(ref.chain, s.meta),
           NEW st2, st2 = WithCall(st, f)
    PROVE  /\ Ahead(cs, st2, s, end) /\ st2[Len(st2)] = f
           /\ f.meta = s.meta /\ f.step = "next"
  <1>1. Orderly(cs, st)
    BY DEF Ahead
  <1>2. n \in DOMAIN st
    BY <1>1 DEF Orderly
  <1>3. PICK run, x, g, st1 :
          /\ run = RunAt(cs, st, n) /\ x = run[ref][s]
          /\ g = DropRef(st[n]) /\ st1 = Topped(st, g)
    OBVIOUS
  <1>4. /\ Ahead(cs, st1, x, end) /\ x \in Sofar
        /\ Len(st1) = n /\ st1[n] = g /\ CallOK(cs, g) /\ g.chain = st[n].chain
    BY <1>3, AheadReference
  <1>5. OpenAt(st1, n) = OpenAt(st, n)
    BY <1>1, <1>3, <1>4, StackReplaced
  <1>6. st2 = Append(st1, f)
    BY <1>3 DEF WithCall
  <1>7. PICK rules, name : rules = cs[name] /\ name = ref.chain
    OBVIOUS
  <1>8. rules \in Seq(Rule) /\ name \in ChainNames /\ name # Empty /\ name \in DOMAIN cs
    BY <1>7 DEF IsConfig, ChainsAssumption
  <1>9. f.chain = name /\ f.step = "next"
    BY <1>7 DEF Call
  <1>10. PICK k, deeper : /\ k = Cardinality(DOMAIN cs) + 1 - n
                          /\ deeper = Within(cs, k, OpenAt(st1, n), f.chain)
    OBVIOUS
  <1>11. st1[n].step = "subs"
    <2>1. st[n] \in Frame
      BY <1>1, <1>2 DEF Orderly, CallOK
    <2> QED
      BY ONLY <1>3, <1>4, <2>1, st[n].step = "subs" DEF Frame, DropRef
  <1>12. Orderly(cs, st1) /\ Leads(Resumes(cs, st1), x, end)
    BY <1>4 DEF Ahead
  <1>13. Fits(rules, f) /\ f.meta = s.meta
    <2>1. PICK r \in Runs : r = run
      BY <1>1, <1>2, <1>3, OpenChains
    <2> QED
      BY <1>7, <1>8, RestOfCall
  <1>14. CallOK(cs, f)
    BY <1>7, <1>8, <1>9, <1>13 DEF CallOK, Fits
  <1>15. /\ Orderly(cs, st2) /\ Len(st2) = n + 1 /\ st2[n + 1] = f
         /\ k \in Nat /\ k # 0
         /\ Resumes(cs, st2) = Append(Resumes(cs, st1), Resume(cs, f, deeper))
    <2>1. f.chain \in DOMAIN cs /\ f.chain \notin OpenAt(st1, n)
      BY <1>5, <1>7, <1>9
    <2>4. MayCall(cs, st1, f)
      BY <1>4, <1>11, <1>12, <1>14, <2>1 DEF MayCall
    <2>5. Called(cs, st1, f, st2)
      BY <1>6, <2>4, StackCalled
    <2>6. /\ Orderly(cs, st2)
          /\ k \in Nat /\ k # 0
          /\ Resumes(cs, st2) = Append(Resumes(cs, st1), Resume(cs, f, deeper))
      BY <1>4, <1>10, <2>5 DEF Called
    <2>7. st1 \in Seq(Frame)
      BY <1>12 DEF Orderly
    <2>8. f \in Frame
      BY <1>14 DEF CallOK
    <2>9. Len(st2) = n + 1 /\ st2[n + 1] = f
      BY ONLY <1>4, <2>7, <2>8, <1>6
    <2> QED
      BY <2>6, <2>9
  <1>16. deeper \in Runs
    <2>1. PICK U \in [Nat -> Deeper] : U = UnrollRef(cs)
      BY RefEquation
    <2>2. PICK j \in Nat : j = k - 1
      BY <1>15
    <2>3. OpenAt(st1, n) \cup {f.chain} \in SUBSET ChainNames
      BY <1>1, <1>2, <1>5, <1>8, <1>9, OpenChains
    <2>4. deeper = U[j][OpenAt(st1, n) \cup {f.chain}] /\ U[j] \in Deeper
      BY <1>10, <2>1, <2>2 DEF Within
    <2> QED
      BY <2>3, <2>4 DEF Deeper
  <1>17. x = UnrollChain(rules, deeper)[s]
    <2>1. PICK open \in SUBSET ChainNames : open = OpenAt(st, n)
      BY <1>1, <1>2, OpenChains
    <2>2. run = UnrollRef(cs)[k][open]
      BY <1>3, <1>10, <2>1 DEF RunAt
    <2>3. deeper = Within(cs, k, open, ref.chain)
      BY <1>5, <1>7, <1>9, <1>10, <2>1
    <2>4. run[ref][s] = UnrollChain(cs[ref.chain], Within(cs, k, open, ref.chain))[s]
      BY <1>7, <1>8, <1>15, <2>1, <2>2, RefCases
    <2> QED
      BY <1>3, <1>7, <2>3, <2>4
  <1>18. PICK u : u = Resume(cs, f, deeper)
    OBVIOUS
  <1>19. u \in Growing
    BY <1>14, <1>16, <1>18, ResumeGrows
  <1>20. u[s] = x
    <2>1. u = Rest(rules, f, deeper)
      BY <1>7, <1>8, <1>9, <1>18 DEF Resume
    <2>2. Rest(rules, f, deeper)[s] = UnrollChain(rules, deeper)[s]
      BY <1>7, <1>8, <1>16, RestOfCall
    <2> QED
      BY <1>17, <2>1, <2>2
  <1>21. PICK rs \in Seq(Growing) : rs = Resumes(cs, st1)
    BY <1>12, ResumesGrow
  <1>22. PICK rs2 : rs2 = Append(rs, u)
    OBVIOUS
  <1>23. Leads(rs2, s, end)
    BY <1>12, <1>19, <1>20, <1>21, <1>22, LeadsCalled
  <1>24. Ahead(cs, st2, s, end)
    BY <1>15, <1>18, <1>21, <1>22, <1>23 DEF Ahead
  <1>25. st2[Len(st2)] = f
    BY <1>15
  <1> QED
    BY <1>9, <1>13, <1>24, <1>25

(* What there is once the innermost call is done begins the end; if there  *)
(* is no other call, it is the end.                                        *)
LEMMA AheadBegins ==
    ASSUME ChainsAssumption, NEW cs, IsConfig(cs), NEW st, NEW s \in Sofar, NEW end,
           Ahead(cs, st, s, end),
           NEW n, n = Len(st), NEW u, u = Resume(cs, st[n], RunAt(cs, st, n))[s]
    PROVE  /\ u \in Sofar /\ end \in Seq(Entry) /\ Begins(u.list, end)
           /\ n = 1 => u.list = end
  <1>1. Orderly(cs, st) /\ Leads(Resumes(cs, st), s, end)
    BY DEF Ahead
  <1>2. PICK rs \in Seq(Growing) : rs = Resumes(cs, st) /\ Len(rs) = n /\ n >= 1 /\ n \in Nat
    BY <1>1, ResumesGrow
  <1>3. n \in DOMAIN st
    BY <1>1, <1>2 DEF Orderly
  <1>4. u = rs[Len(rs)][s]
    BY <1>2, <1>3 DEF Resumes
  <1>5. rs # <<>>
    BY ONLY <1>2
  <1>6. u \in Sofar /\ end \in Seq(Entry) /\ Begins(u.list, end)
    BY <1>1, <1>2, <1>4, <1>5, LeadsOn
  <1>7. ASSUME n = 1 PROVE u.list = end
    <2>1. PICK t \in [0..Len(rs) -> Sofar] :
          /\ t[Len(rs)] = s /\ t[0].list = end
          /\ \A i \in 1..Len(rs) : t[i - 1] = rs[i][t[i]]
      BY <1>1, <1>2 DEF Leads
    <2>2. t[1 - 1] = rs[1][t[1]] /\ 1 - 1 = 0
      BY <1>2, <1>7, <2>1
    <2> QED
      BY <1>2, <1>4, <1>7, <2>1, <2>2
  <1> QED
    BY <1>6, <1>7

(* The innermost call is one of a chain, in order, with valid rules.       *)
LEMMA InChain ==
    ASSUME ChainsAssumption, NEW cs, IsConfig(cs), NEW st, NEW s \in Sofar, NEW end,
           Ahead(cs, st, s, end),
           NEW n, n = Len(st), n > 1, NEW f, f = st[n],
           NEW rules, rules = cs[f.chain],
           NEW run, run = RunAt(cs, st, n)
    PROVE  /\ rules \in Seq(Rule) /\ run \in Runs
           /\ \A i \in 1..Len(rules) : ValidRule(rules[i])
           /\ f.chain \in DOMAIN cs /\ f.chain # Empty /\ Fits(rules, f)
           /\ Resume(cs, f, run) = Rest(rules, f, run)
  <1>1. Orderly(cs, st)
    BY DEF Ahead
  <1>2. n \in DOMAIN st /\ n # 1
    BY <1>1 DEF Orderly
  <1>3. f.chain # Empty /\ CallOK(cs, f)
    BY <1>1, <1>2 DEF Orderly
  <1>4. f.chain \in DOMAIN cs /\ Fits(rules, f)
    BY <1>3 DEF CallOK
  <1>5. rules \in Seq(Rule) /\ \A i \in 1..Len(rules) : ValidRule(rules[i])
    BY <1>4 DEF IsConfig
  <1>6. run \in Runs
    BY <1>1, <1>2, OpenChains
  <1>7. Resume(cs, f, run) = Rest(rules, f, run)
    BY <1>3 DEF Resume
  <1> QED
    BY <1>3, <1>4, <1>5, <1>6, <1>7

(* A step within such a call that leaves the same to do.                   *)
LEMMA InChainStep ==
    ASSUME ChainsAssumption, NEW cs, IsConfig(cs), NEW st, NEW s \in Sofar, NEW end,
           Ahead(cs, st, s, end),
           NEW n, n = Len(st), n > 1, NEW f, f = st[n],
           NEW rules, rules = cs[f.chain],
           NEW run, run = RunAt(cs, st, n),
           NEW g, Fits(rules, g), g.chain = f.chain, NEW x \in Sofar,
           Rest(rules, g, run)[x] = Rest(rules, f, run)[s],
           NEW st2, st2 = Topped(st, g)
    PROVE  /\ Ahead(cs, st2, x, end) /\ Len(st2) = n /\ st2[n] = g /\ st2[1] = st[1]
  <1>1. /\ rules \in Seq(Rule) /\ run \in Runs
        /\ f.chain \in DOMAIN cs /\ f.chain # Empty
        /\ Resume(cs, f, run) = Rest(rules, f, run)
    BY InChain
  <1>2. CallOK(cs, g)
    BY <1>1 DEF CallOK, Fits
  <1>3. Resume(cs, g, run) = Rest(rules, g, run)
    BY <1>1 DEF Resume
  <1>4. Resume(cs, g, run)[x] = Resume(cs, st[n], run)[s]
    BY <1>1, <1>3
  <1>5. Ahead(cs, st2, x, end) /\ Len(st2) = n /\ st2[n] = g
    BY <1>2, <1>4, AheadReplaced
  <1>6. st2[1] = st[1]
    <2>1. st \in Seq(Frame) /\ Len(st) > 1
      BY DEF Ahead, Orderly
    <2> QED
      BY <2>1 DEF Topped
  <1> QED
    BY <1>5, <1>6
-------------------------------------------------------------------------------
(* The metadata that matters next.                                         *)
Seen(f) == IF f.step = "next" THEN f.meta ELSE f.scope

(* Nothing has decided yet, the tendencies are those of the rules that     *)
(* applied, and what is left to do leads to the whole list.                *)
OnTheWay(cs, st, ten, p, end) ==
    \E s \in Sofar :
        /\ Ahead(cs, st, s, end)
        /\ s.meta = Seen(st[Len(st)])
        /\ Undecided(s.list, p)
        /\ ten[p] = LastSaid(s.list, p, "none")
        /\ ten[Star] = LastSaid(s.list, Star, "deny")

(* A rule has decided, and the rest of the list does not matter.           *)
Stopped(dec, ten, p, end) ==
    /\ end \in Seq(Entry)
    /\ \E l \in Seq(Entry), e \in Entry :
        /\ Undecided(l, p) /\ Begins(Append(l, e), end)
        /\ ~e.mistake /\ dec = DecisionOf(e)
        /\ ten[p] = "none" /\ ten[Star] = LastSaid(l, Star, "deny")

(* Only the innermost call is at a rule, and none is after a decision.     *)
Steady ==
    /\ \A i \in DOMAIN stack : i < Depth => stack[i].step = "subs"
    /\ decision # "none" => Top.step # "rule"

(* The inductive invariant: a check that is not decided is on the way to   *)
(* the whole list, a decided one has it settled, and a finished one was    *)
(* right.                                                                  *)
PolicyInv ==
    /\ Steady
    /\ outcome = "pending" =>
         IF decision = "none"
         THEN OnTheWay(chains, stack, tendencies, priv, Unrolled)
         ELSE Stopped(decision, tendencies, priv, Unrolled)
    /\ VerdictIsPolicy

(* The configuration does not change, nor what is known from the start.    *)
LEMMA SameUnrolled ==
    ASSUME config' = config, stack'[1].meta = stack[1].meta
    PROVE  chains' = chains /\ Unrolled' = Unrolled
  BY DEF chains, Unrolled

(* A step that decides nothing.                                            *)
LEMMA KeepsOn ==
    ASSUME config' = config, priv' = priv, outcome' = "pending", decision' = "none",
           stack'[1].meta = stack[1].meta,
           Steady', OnTheWay(chains, stack', tendencies', priv, Unrolled)
    PROVE  PolicyInv'
  <1>1. chains' = chains /\ Unrolled' = Unrolled
    BY SameUnrolled
  <1>2. OnTheWay(chains, stack, tendencies, priv, Unrolled)'
    BY <1>1 DEF OnTheWay, Ahead, Seen
  <1> QED
    BY <1>2 DEF PolicyInv, VerdictIsPolicy

(* What the rules that applied say so far.                                 *)
Says(ten, p, list) ==
    /\ Undecided(list, p)
    /\ ten[p] = LastSaid(list, p, "none")
    /\ ten[Star] = LastSaid(list, Star, "deny")

(* Where a check stands that nothing has decided.                          *)
LEMMA WhereItStands ==
    ASSUME AclTypeOK, PolicyInv, outcome = "pending", decision = "none"
    PROVE  /\ IsConfig(chains) /\ priv \in Privs
           /\ Depth = Len(stack) /\ Top = stack[Depth]
           /\ \E s \in Sofar : /\ Ahead(chains, stack, s, Unrolled)
                               /\ s.meta = Seen(Top) /\ Says(tendencies, priv, s.list)
  <1>1. IsConfig(chains) /\ priv \in Privs
    BY ChainsAssumption DEF AclTypeOK, chains
  <1>2. OnTheWay(chains, stack, tendencies, priv, Unrolled)
    BY DEF PolicyInv
  <1> QED
    BY <1>1, <1>2 DEF OnTheWay, Says, Depth, Top

(* A step within a chain that leaves the same to do.                       *)
LEMMA ChainStep ==
    ASSUME AclTypeOK, PolicyInv, outcome = "pending", decision = "none", Depth > 1,
           UNCHANGED <<config, priv, decision, outcome>>,
           NEW s \in Sofar, Ahead(chains, stack, s, Unrolled),
           NEW run, run = RunAt(chains, stack, Depth),
           NEW rules, rules = Rules,
           NEW f, f = Top,
           NEW g, Fits(rules, g), g.chain = f.chain, SetTop(g),
           NEW x \in Sofar, Rest(rules, g, run)[x] = Rest(rules, f, run)[s],
           x.meta = Seen(g), Says(tendencies', priv, x.list)
    PROVE  PolicyInv'
  <1>1. IsConfig(chains)
    BY WhereItStands
  <1>2. PICK st, cs, end, n : st = stack /\ cs = chains /\ end = Unrolled /\ n = Depth
    OBVIOUS
  <1>3. /\ n = Len(st) /\ n > 1 /\ f = st[n] /\ rules = cs[f.chain]
        /\ run = RunAt(cs, st, n) /\ Ahead(cs, st, s, end) /\ IsConfig(cs)
    BY <1>1, <1>2 DEF Depth, Top, Rules
  <1>4. PICK st2 : st2 = Topped(st, g)
    OBVIOUS
  <1>5. stack' = st2
    BY <1>2, <1>4 DEF SetTop, Topped, Depth
  <1>6. /\ Ahead(cs, st2, x, end) /\ Len(st2) = n /\ st2[n] = g /\ st2[1] = st[1]
    BY <1>3, <1>4, InChainStep, ChainsAssumption
  <1>7. OnTheWay(chains, stack', tendencies', priv, Unrolled)
    <2>1. OnTheWay(cs, st2, tendencies', priv, end)
      BY <1>6 DEF OnTheWay, Says
    <2> QED
      BY <1>2, <1>5, <2>1
  <1>8. \A i \in DOMAIN st2 : i < n => st2[i].step = "subs"
    BY <1>6 DEF Ahead, Orderly
  <1>9. Steady'
    BY <1>5, <1>6, <1>8 DEF Steady, Depth, Top
  <1>10. stack'[1].meta = stack[1].meta
    BY <1>2, <1>5, <1>6
  <1> QED
    BY <1>7, <1>9, <1>10, KeepsOn

(* The innermost call, and its chain.                                      *)
LEMMA ChainFacts ==
    ASSUME AclTypeOK, PolicyInv, outcome = "pending", decision = "none", Depth > 1,
           NEW s \in Sofar, Ahead(chains, stack, s, Unrolled),
           NEW run, run = RunAt(chains, stack, Depth),
           NEW rules, rules = Rules,
           NEW f, f = Top
    PROVE  /\ rules \in Seq(Rule) /\ run \in Runs
           /\ \A i \in 1..Len(rules) : ValidRule(rules[i])
           /\ f.chain \in DOMAIN chains /\ f.chain # Empty /\ Fits(rules, f)
           /\ f \in Frame
           /\ Resume(chains, f, run) = Rest(rules, f, run)
  <1>1. IsConfig(chains)
    BY WhereItStands
  <1>2. PICK st, cs, end, n : st = stack /\ cs = chains /\ end = Unrolled /\ n = Depth
    OBVIOUS
  <1>3. /\ n = Len(st) /\ n > 1 /\ f = st[n] /\ rules = cs[f.chain]
        /\ run = RunAt(cs, st, n) /\ Ahead(cs, st, s, end) /\ IsConfig(cs)
    BY <1>1, <1>2 DEF Depth, Top, Rules
  <1>4. /\ rules \in Seq(Rule) /\ run \in Runs
        /\ \A i \in 1..Len(rules) : ValidRule(rules[i])
        /\ f.chain \in DOMAIN cs /\ f.chain # Empty /\ Fits(rules, f)
        /\ Resume(cs, f, run) = Rest(rules, f, run)
    BY <1>3, InChain, ChainsAssumption
  <1> QED
    BY <1>2, <1>4 DEF Fits

(* The actions, one after another.                                         *)
LEMMA PolicyBeginRule ==
    ASSUME AclTypeOK, PolicyInv, BeginRule PROVE PolicyInv'
  <1>1. /\ outcome = "pending" /\ decision = "none" /\ Depth > 1 /\ Top.step = "next"
        /\ Top.rule <= Len(Rules) /\ ~Rules[Top.rule].repeat
        /\ SetTop([Top EXCEPT !.step = "rule", !.scope = Top.meta])
        /\ UNCHANGED <<config, priv, tendencies, decision, outcome>>
    BY DEF BeginRule, Evaluating, rule
  <1>2. PICK s \in Sofar : /\ Ahead(chains, stack, s, Unrolled)
                           /\ s.meta = Seen(Top) /\ Says(tendencies, priv, s.list)
    BY <1>1, WhereItStands
  <1>3. PICK run, rules, f : run = RunAt(chains, stack, Depth) /\ rules = Rules /\ f = Top
    OBVIOUS
  <1>4. rules \in Seq(Rule) /\ run \in Runs /\ Fits(rules, f) /\ f \in Frame
    BY <1>1, <1>2, <1>3, ChainFacts
  <1>5. PICK g : g = [f EXCEPT !.step = "rule", !.scope = f.meta]
    OBVIOUS
  <1>6. g.chain = f.chain /\ g.scope = f.meta /\ g.step = "rule"
    BY ONLY <1>4, <1>5 DEF Frame
  <1>7. f.step = "next" /\ f.rule <= Len(rules) /\ ~rules[f.rule].repeat
    BY <1>1, <1>3
  <1>8. Fits(rules, g) /\ Rest(rules, g, run)[s] = Rest(rules, f, run)[s]
    BY <1>4, <1>5, <1>7, RestBeginRule
  <1>9. s.meta = Seen(g)
    BY <1>1, <1>2, <1>3, <1>6 DEF Seen
  <1>10. Says(tendencies', priv, s.list) /\ SetTop(g)
    BY <1>1, <1>2, <1>3, <1>5
  <1> QED
    BY <1>1, <1>2, <1>3, <1>6, <1>8, <1>9, <1>10, ChainStep

LEMMA PolicyBeginItem ==
    ASSUME AclTypeOK, PolicyInv, BeginItem PROVE PolicyInv'
  <1>1. /\ outcome = "pending" /\ decision = "none" /\ Depth > 1 /\ Top.step = "next"
        /\ Top.rule <= Len(Rules) /\ Rules[Top.rule].repeat
        /\ UNCHANGED <<config, priv, tendencies, decision, outcome>>
    BY DEF BeginItem, Evaluating, rule
  <1>2. PICK s \in Sofar : /\ Ahead(chains, stack, s, Unrolled)
                           /\ s.meta = Seen(Top) /\ Says(tendencies, priv, s.list)
    BY <1>1, WhereItStands
  <1>3. PICK run, rules, f, r : /\ run = RunAt(chains, stack, Depth) /\ rules = Rules
                                /\ f = Top /\ r = rules[f.rule]
    OBVIOUS
  <1>4. rules \in Seq(Rule) /\ run \in Runs /\ Fits(rules, f) /\ f \in Frame
    BY <1>1, <1>2, <1>3, ChainFacts
  <1>5. f.step = "next" /\ f.rule <= Len(rules) /\ rules[f.rule].repeat /\ r.repeat
    BY <1>1, <1>3
  <1>6. s.meta = f.meta
    BY <1>1, <1>2, <1>3 DEF Seen
  <1>7. CASE f.item < Len(r.items)
    <2>1. PICK g : g = AtItem(r, f)
      OBVIOUS
    <2>2. /\ Fits(rules, g) /\ g.step = "rule" /\ g.chain = f.chain
          /\ \E x \in Sofar : /\ x.list = s.list /\ x.meta = g.scope
                              /\ Rest(rules, g, run)[x] = Rest(rules, f, run)[s]
      BY <1>3, <1>4, <1>5, <1>6, <1>7, <2>1, RestBeginItem
    <2>3. PICK x \in Sofar : /\ x.list = s.list /\ x.meta = g.scope
                             /\ Rest(rules, g, run)[x] = Rest(rules, f, run)[s]
      BY <2>2
    <2>4. x.meta = Seen(g)
      BY <2>2, <2>3 DEF Seen
    <2>5. SetTop(g)
      BY <1>3, <1>7, <2>1 DEF BeginItem, rule, AtItem
    <2>6. Says(tendencies', priv, x.list)
      BY <1>1, <1>2, <2>3
    <2> QED
      BY <1>1, <1>2, <1>3, <2>2, <2>3, <2>4, <2>5, <2>6, ChainStep
  <1>8. CASE ~(f.item < Len(r.items))
    <2>1. PICK g : g = AfterItems(f)
      OBVIOUS
    <2>2. /\ Fits(rules, g) /\ Rest(rules, g, run)[s] = Rest(rules, f, run)[s]
          /\ g.step = "next" /\ g.chain = f.chain /\ g.meta = f.meta
      BY <1>3, <1>4, <1>5, <1>8, <2>1, RestItemsDone
    <2>3. s.meta = Seen(g)
      BY <1>6, <2>2 DEF Seen
    <2>4. SetTop(g)
      BY <1>3, <1>8, <2>1 DEF BeginItem, rule, AfterItems
    <2>5. Says(tendencies', priv, s.list)
      BY <1>1, <1>2
    <2> QED
      BY <1>1, <1>2, <1>3, <2>2, <2>3, <2>4, <2>5, ChainStep
  <1> QED
    BY <1>7, <1>8

(* The call after a rule is between two rules.                             *)
LEMMA AdvancedFrame ==
    ASSUME NEW rules, NEW f \in Frame, NEW g, g = Advanced(rules, f)
    PROVE  g.chain = f.chain /\ g.step = "next"
  <1>1. CASE rules[f.rule].repeat
    <2>1. g = [f EXCEPT !.step = "next", !.refs = <<>>]
      BY <1>1 DEF Advanced
    <2> QED
      BY ONLY <2>1, f \in Frame DEF Frame
  <1>2. CASE ~rules[f.rule].repeat
    <2>1. PICK k, m : k = f.rule + 1 /\ m = f.scope
      OBVIOUS
    <2>2. g = [f EXCEPT !.step = "next", !.refs = <<>>, !.meta = m, !.rule = k]
      BY <1>2, <2>1 DEF Advanced
    <2> QED
      BY ONLY <2>2, f \in Frame DEF Frame
  <1> QED
    BY <1>1, <1>2

LEMMA PolicySkipRule ==
    ASSUME AclTypeOK, PolicyInv, SkipRule PROVE PolicyInv'
  <1>1. /\ outcome = "pending" /\ Depth > 1 /\ Top.step = "rule"
        /\ RuleVerdict(Rules[Top.rule], Top.scope) = "skip"
        /\ SetTop(Finished(Top))
        /\ UNCHANGED <<config, priv, tendencies, decision, outcome>>
    BY DEF SkipRule, Evaluating, rule
  <1>0. decision = "none"
    BY <1>1 DEF PolicyInv, Steady
  <1>2. PICK s \in Sofar : /\ Ahead(chains, stack, s, Unrolled)
                           /\ s.meta = Seen(Top) /\ Says(tendencies, priv, s.list)
    BY <1>0, <1>1, WhereItStands
  <1>3. PICK run, rules, f : run = RunAt(chains, stack, Depth) /\ rules = Rules /\ f = Top
    OBVIOUS
  <1>4. /\ rules \in Seq(Rule) /\ run \in Runs /\ Fits(rules, f) /\ f \in Frame
        /\ \A i \in 1..Len(rules) : ValidRule(rules[i])
    BY <1>0, <1>1, <1>2, <1>3, ChainFacts
  <1>5. f.step = "rule" /\ s.meta = f.scope
    BY <1>1, <1>2, <1>3 DEF Seen
  <1>6. ValidRule(rules[f.rule])
    BY <1>4, <1>5 DEF Fits
  <1>7. PICK g : g = Advanced(rules, f)
    OBVIOUS
  <1>8. RuleVerdict(rules[f.rule], f.scope) = "skip"
    BY <1>1, <1>3
  <1>9. /\ Fits(rules, g)
        /\ \E x \in Sofar : /\ x.list = s.list /\ x.meta = g.meta
                            /\ Rest(rules, g, run)[x] = Rest(rules, f, run)[s]
    BY <1>4, <1>5, <1>6, <1>7, <1>8, RestSkipRule
  <1>10. PICK x \in Sofar : /\ x.list = s.list /\ x.meta = g.meta
                            /\ Rest(rules, g, run)[x] = Rest(rules, f, run)[s]
    BY <1>9
  <1>11. g.chain = f.chain /\ g.step = "next"
    BY <1>4, <1>7, AdvancedFrame
  <1>12. x.meta = Seen(g)
    BY <1>10, <1>11 DEF Seen
  <1>13. SetTop(g)
    BY <1>1, <1>3, <1>7 DEF Finished, Advanced, rule
  <1>14. Says(tendencies', priv, x.list)
    BY <1>1, <1>2, <1>10
  <1> QED
    BY <1>0, <1>1, <1>2, <1>3, <1>9, <1>10, <1>11, <1>12, <1>13, <1>14, ChainStep

LEMMA PolicyRuleDoneUndecided ==
    ASSUME AclTypeOK, PolicyInv, RuleDone, decision = "none" PROVE PolicyInv'
  <1>1. /\ outcome = "pending" /\ Depth > 1 /\ Top.step = "subs" /\ Top.refs = <<>>
        /\ SetTop(Finished(Top))
        /\ UNCHANGED <<config, priv, tendencies, decision, outcome>>
    BY DEF RuleDone, Evaluating, rule
  <1>2. PICK s \in Sofar : /\ Ahead(chains, stack, s, Unrolled)
                           /\ s.meta = Seen(Top) /\ Says(tendencies, priv, s.list)
    BY <1>1, WhereItStands
  <1>3. PICK run, rules, f : run = RunAt(chains, stack, Depth) /\ rules = Rules /\ f = Top
    OBVIOUS
  <1>4. /\ rules \in Seq(Rule) /\ run \in Runs /\ Fits(rules, f) /\ f \in Frame
    BY <1>1, <1>2, <1>3, ChainFacts
  <1>5. f.step = "subs" /\ f.refs = <<>> /\ s.meta = f.scope
    BY <1>1, <1>2, <1>3 DEF Seen
  <1>7. PICK g : g = Advanced(rules, f)
    OBVIOUS
  <1>9. /\ Fits(rules, g)
        /\ \E x \in Sofar : /\ x.list = s.list /\ x.meta = g.meta
                            /\ Rest(rules, g, run)[x] = Rest(rules, f, run)[s]
    BY <1>4, <1>5, <1>7, RestReferencesDone
  <1>10. PICK x \in Sofar : /\ x.list = s.list /\ x.meta = g.meta
                            /\ Rest(rules, g, run)[x] = Rest(rules, f, run)[s]
    BY <1>9
  <1>11. g.chain = f.chain /\ g.step = "next"
    BY <1>4, <1>7, AdvancedFrame
  <1>12. x.meta = Seen(g)
    BY <1>10, <1>11 DEF Seen
  <1>13. SetTop(g)
    BY <1>1, <1>3, <1>7 DEF Finished, Advanced, rule
  <1>14. Says(tendencies', priv, x.list)
    BY <1>1, <1>2, <1>10
  <1> QED
    BY <1>1, <1>2, <1>3, <1>9, <1>10, <1>11, <1>12, <1>13, <1>14, ChainStep

LEMMA PolicyApplyRule ==
    ASSUME AclTypeOK, PolicyInv, ApplyRule PROVE PolicyInv'
  <1>1. /\ outcome = "pending" /\ Depth > 1 /\ Top.step = "rule"
        /\ RuleVerdict(Rules[Top.rule], Top.scope) = "apply"
        /\ UNCHANGED <<config, priv, decision, outcome>>
    BY DEF ApplyRule, Evaluating, rule
  <1>0. decision = "none"
    BY <1>1 DEF PolicyInv, Steady
  <1>2. PICK s \in Sofar : /\ Ahead(chains, stack, s, Unrolled)
                           /\ s.meta = Seen(Top) /\ Says(tendencies, priv, s.list)
    BY <1>0, <1>1, WhereItStands
  <1>3. PICK run, rules, f, r : /\ run = RunAt(chains, stack, Depth) /\ rules = Rules
                                /\ f = Top /\ r = rules[f.rule]
    OBVIOUS
  <1>4. /\ rules \in Seq(Rule) /\ run \in Runs /\ Fits(rules, f) /\ f \in Frame
        /\ \A i \in 1..Len(rules) : ValidRule(rules[i])
    BY <1>0, <1>1, <1>2, <1>3, ChainFacts
  <1>5. f.step = "rule" /\ s.meta = f.scope
    BY <1>1, <1>2, <1>3 DEF Seen
  <1>6. ValidRule(r) /\ r \in Rule
    BY <1>3, <1>4, <1>5 DEF Fits, ValidRule
  <1>7. RuleVerdict(r, f.scope) = "apply"
    BY <1>1, <1>3
  <1>8. PICK e, g : e = Effects(r) /\ g = AtReferences(r, f)
    OBVIOUS
  <1>9. /\ Fits(rules, g) /\ g.step = "subs" /\ g.chain = f.chain
        /\ \E x \in Sofar : /\ x.list = Append(s.list, e) /\ x.meta = g.scope
                            /\ Rest(rules, g, run)[x] = Rest(rules, f, run)[s]
    BY <1>3, <1>4, <1>5, <1>6, <1>7, <1>8, RestApplyRule
  <1>10. PICK x \in Sofar : /\ x.list = Append(s.list, e) /\ x.meta = g.scope
                            /\ Rest(rules, g, run)[x] = Rest(rules, f, run)[s]
    BY <1>9
  <1>12. x.meta = Seen(g)
    BY <1>9, <1>10 DEF Seen
  <1>13. SetTop(g)
    BY <1>3, <1>8 DEF ApplyRule, rule, AtReferences, RefsOf
  <1>14. Says(tendencies', priv, x.list)
    <2>1. PICK l \in Seq(Entry) : l = s.list
      BY DEF Sofar
    <2>2. e \in Entry /\ x.list = Append(l, e)
      BY <1>6, <1>8, <1>10, <2>1, EffectsAreEntry
    <2>3. e.decide = r.decide /\ e.tendency = r.tendency /\ ~e.mistake
      BY <1>8 DEF Effects
    <2>4. priv \in PrivSlots /\ Star \in PrivSlots
      BY DEF AclTypeOK, PrivSlots
    <2>5. DecisionOf(r) = "none" /\ tendencies' = Tend(tendencies, r.tendency)
      BY <1>3 DEF ApplyRule, rule
    <2>6. r.decide[priv] = "none" /\ r.decide[Star] = "none"
      BY <2>5 DEF DecisionOf
    <2>7. Undecided(Append(l, e), priv)
      <3>1. Undecided(l, priv)
        BY <1>2, <2>1 DEF Says
      <3> QED
        BY <2>2, <2>3, <2>6, <3>1 DEF Undecided
    <2>8. ASSUME NEW p \in PrivSlots, NEW d, tendencies[p] = LastSaid(l, p, d)
          PROVE  tendencies'[p] = LastSaid(Append(l, e), p, d)
      <3>1. LastSaid(Append(l, e), p, d)
              = IF e.tendency[p] # "none" THEN e.tendency[p] ELSE LastSaid(l, p, d)
        BY <2>2, LastSaidAppend
      <3>2. tendencies'[p] = IF r.tendency[p] # "none" THEN r.tendency[p] ELSE tendencies[p]
        BY <2>5 DEF Tend
      <3> QED
        BY <2>3, <2>8, <3>1, <3>2
    <2>9. tendencies[priv] = LastSaid(l, priv, "none") /\ tendencies[Star] = LastSaid(l, Star, "deny")
      BY <1>2, <2>1 DEF Says
    <2>10. priv' = priv
      BY <1>1
    <2>11. /\ tendencies'[priv] = LastSaid(Append(l, e), priv, "none")
           /\ tendencies'[Star] = LastSaid(Append(l, e), Star, "deny")
      BY <2>4, <2>8, <2>9
    <2> QED
      BY <2>2, <2>7, <2>11 DEF Says
  <1> QED
    <2>1. Fits(rules, g) /\ g.chain = f.chain /\ Rest(rules, g, run)[x] = Rest(rules, f, run)[s]
      BY <1>9, <1>10
    <2>2. Ahead(chains, stack, s, Unrolled)
      BY <1>2
    <2> QED
      BY <1>0, <1>1, <1>3, <1>12, <1>13, <1>14, <2>1, <2>2, ChainStep

(* What there is so far begins the end.                                    *)
LEMMA AheadSofar ==
    ASSUME ChainsAssumption, NEW cs, IsConfig(cs), NEW st, NEW s \in Sofar, NEW end,
           Ahead(cs, st, s, end)
    PROVE  end \in Seq(Entry) /\ Begins(s.list, end)
  <1>1. Orderly(cs, st)
    BY DEF Ahead
  <1>2. PICK n, f, run : n = Len(st) /\ f = st[n] /\ run = RunAt(cs, st, n)
    OBVIOUS
  <1>3. n \in DOMAIN st
    BY <1>1, <1>2 DEF Orderly
  <1>4. CallOK(cs, f) /\ run \in Runs
    BY <1>1, <1>2, <1>3, OpenChains DEF Orderly
  <1>5. PICK t \in Growing : t = Resume(cs, f, run)
    BY <1>4, ResumeGrows
  <1>6. PICK u : u = t[s]
    OBVIOUS
  <1>7. u \in Sofar /\ end \in Seq(Entry) /\ Begins(u.list, end)
    BY <1>2, <1>5, <1>6, AheadBegins
  <1>8. Begins(s.list, u.list)
    BY <1>5, <1>6 DEF Growing
  <1>9. s.list \in Seq(Entry) /\ u.list \in Seq(Entry)
    BY <1>7 DEF Sofar
  <1> QED
    BY <1>7, <1>8, <1>9, BeginsTransitive

(* What becomes of the next reference that is not run.                     *)
LEMMA ReferenceMeans ==
    ASSUME ChainsAssumption, NEW cs, IsConfig(cs), NEW st, NEW s \in Sofar, NEW end,
           Ahead(cs, st, s, end), NEW n, n = Len(st),
           NEW run, run = RunAt(cs, st, n), NEW ref \in ChainRef
    PROVE  /\ \/ ref.chain = Empty
              \/ ref.chain \notin DOMAIN cs /\ ref.optional
              => run[ref][s] = s
           /\ /\ ref.chain # Empty
              /\ ref.chain \in OpenAt(st, n) \/ (ref.chain \notin DOMAIN cs /\ ~ref.optional)
              => run[ref][s] = Add(s, Mistake)
  <1>1. Orderly(cs, st)
    BY DEF Ahead
  <1>2. n \in DOMAIN st
    BY <1>1 DEF Orderly
  <1>3. PICK k \in Nat : k = Cardinality(DOMAIN cs) + 1 - n
    BY <1>1, <1>2, OpenChains
  <1>4. PICK open \in SUBSET ChainNames : open = OpenAt(st, n) /\ open \subseteq DOMAIN cs
    BY <1>1, <1>2, OpenChains
  <1>5. run = UnrollRef(cs)[k][open]
    BY <1>3, <1>4 DEF RunAt
  <1>6. /\ \/ ref.chain = Empty
           \/ ref.chain \notin DOMAIN cs /\ ref.optional
           => run[ref][s] = s
        /\ /\ ref.chain # Empty
           /\ ref.chain \in open \/ (ref.chain \notin DOMAIN cs /\ ~ref.optional)
           /\ open \subseteq DOMAIN cs
           => run[ref][s] = Add(s, Mistake)
    BY <1>5, RefCases
  <1> QED
    BY <1>4, <1>6

(* A step that changes the stack only.                                     *)
LEMMA StackStep ==
    ASSUME AclTypeOK, PolicyInv, outcome = "pending", decision = "none",
           UNCHANGED <<config, priv, tendencies, decision, outcome>>,
           NEW st2, stack' = st2, st2[1].meta = stack[1].meta,
           NEW s \in Sofar, Ahead(chains, st2, s, Unrolled), s.meta = Seen(st2[Len(st2)]),
           Says(tendencies, priv, s.list)
    PROVE  PolicyInv'
  <1>1. OnTheWay(chains, stack', tendencies', priv, Unrolled)
    <2>1. OnTheWay(chains, st2, tendencies, priv, Unrolled)
      BY DEF OnTheWay, Says
    <2> QED
      BY <2>1
  <1>2. \A i \in DOMAIN st2 : i < Len(st2) => st2[i].step = "subs"
    BY DEF Ahead, Orderly
  <1>3. Steady'
    BY <1>2 DEF Steady, Depth, Top
  <1> QED
    BY <1>1, <1>3, KeepsOn

(* The reference that comes next.                                          *)
LEMMA Reference ==
    ASSUME AclTypeOK, PolicyInv, Referring, decision = "none",
           NEW st, st = stack, NEW n, n = Depth, NEW f, f = Top, NEW ref, ref = Ref
    PROVE  /\ n = Len(st) /\ f = st[n] /\ f \in Frame /\ n \in DOMAIN st
           /\ f.step = "subs" /\ f.refs # <<>> /\ ref = Head(f.refs) /\ ref \in ChainRef
           /\ st \in Seq(Frame) /\ n \in Nat /\ n >= 1
           /\ st[1].chain = Empty
           /\ Circular /\ ref.chain # Empty => ref.chain \in OpenAt(st, n)
           /\ ref.chain \in OpenAt(st, n) => Circular
  <1>1. /\ n = Len(st) /\ f = st[n] /\ f \in Frame /\ n \in Nat /\ n >= 1
        /\ st \in Seq(Frame)
    BY TopFrame DEF Depth, Top, AclTypeOK
  <1>2. f.step = "subs" /\ f.refs # <<>> /\ ref = Head(f.refs)
    BY DEF Referring, Ref
  <1>3. f.refs \in Seq(ChainRef)
    BY <1>1 DEF Frame
  <1>4. ref \in ChainRef
    BY <1>2, <1>3
  <1>5. st[1].chain = Empty
    <2>1. 1 \in DOMAIN stack
      BY <1>1
    <2> QED
      BY <2>1 DEF AclTypeOK, FrameOK
  <1>6. Circular <=> \E i \in 1..n : st[i].chain = ref.chain
    BY DEF Circular
  <1>7. ref.chain \in OpenAt(st, n) => Circular
    BY <1>1, <1>6 DEF OpenAt
  <1>8. Circular /\ ref.chain # Empty => ref.chain \in OpenAt(st, n)
    <2> SUFFICES ASSUME ref.chain # Empty, NEW i \in 1..n, st[i].chain = ref.chain
                 PROVE  ref.chain \in OpenAt(st, n)
      BY <1>6
    <2>1. i # 1
      BY <1>5
    <2>2. i \in 2..n
      BY <1>1, <2>1
    <2> QED
      BY <2>2 DEF OpenAt
  <1> QED
    BY <1>1, <1>2, <1>4, <1>5, <1>7, <1>8

(* The innermost call without its next reference.                          *)
LEMMA Dropped ==
    ASSUME NEW f \in Frame, f.refs # <<>>, NEW g, g = DropRef(f)
    PROVE  /\ g.meta = f.meta /\ g.scope = f.scope /\ g.step = f.step
           /\ g.chain = f.chain
  <1>1. PICK t : t = Tail(f.refs)
    OBVIOUS
  <1>2. g = [f EXCEPT !.refs = t]
    BY <1>1 DEF DropRef
  <1> QED
    BY ONLY <1>2, f \in Frame DEF Frame

(* The stack without that reference.                                       *)
LEMMA DroppedFromStack ==
    ASSUME NEW st \in Seq(Frame), NEW n \in DOMAIN st, n = Len(st), st[n].refs # <<>>,
           NEW st2, st2 = Topped(st, DropRef(st[n]))
    PROVE  st2[1].meta = st[1].meta /\ Len(st2) = n /\ st2[n] = DropRef(st[n])
  <1>1. PICK g : g = DropRef(st[n])
    OBVIOUS
  <1>2. st[n] \in Frame
    OBVIOUS
  <1>3. g.meta = st[n].meta
    BY <1>1, <1>2, Dropped
  <1>4. st2 = [st EXCEPT ![n] = g]
    BY <1>1 DEF Topped
  <1>5. Len(st2) = n /\ st2[n] = g
    BY ONLY <1>4, st \in Seq(Frame), n \in DOMAIN st, n = Len(st)
  <1>6. CASE n = 1
    BY <1>1, <1>3, <1>5, <1>6
  <1>7. CASE n # 1
    <2>1. st2[1] = st[1]
      BY <1>4, <1>7
    <2> QED
      BY <1>1, <1>5, <2>1
  <1> QED
    BY <1>1, <1>5, <1>6, <1>7

LEMMA PolicySkipSubChainUndecided ==
    ASSUME AclTypeOK, PolicyInv, SkipSubChain, decision = "none" PROVE PolicyInv'
  <1>1. /\ Referring /\ outcome = "pending"
        /\ UNCHANGED <<config, priv, tendencies, decision, outcome>>
    BY DEF SkipSubChain, Referring
  <1>2. PICK s \in Sofar : /\ Ahead(chains, stack, s, Unrolled)
                           /\ s.meta = Seen(Top) /\ Says(tendencies, priv, s.list)
    BY <1>1, WhereItStands
  <1>3. PICK st, n, f, ref : st = stack /\ n = Depth /\ f = Top /\ ref = Ref
    OBVIOUS
  <1>4. /\ n = Len(st) /\ f = st[n] /\ f \in Frame /\ n \in DOMAIN st
        /\ f.step = "subs" /\ f.refs # <<>> /\ ref = Head(f.refs) /\ ref \in ChainRef
        /\ st \in Seq(Frame)
    BY <1>1, <1>3, Reference
  <1>5. PICK cs, end, run, x, g, st2 :
          /\ cs = chains /\ end = Unrolled
          /\ run = RunAt(cs, st, n) /\ x = run[ref][s]
          /\ g = DropRef(f) /\ st2 = Topped(st, g)
    OBVIOUS
  <1>6. IsConfig(cs) /\ Ahead(cs, st, s, end)
    BY <1>1, <1>2, <1>3, <1>5, WhereItStands
  <1>7. ref.chain = Empty \/ (ref.chain \notin DOMAIN cs /\ ref.optional)
    BY <1>3, <1>5 DEF SkipSubChain
  <1>8. x = s
    BY <1>4, <1>5, <1>6, <1>7, ReferenceMeans, ChainsAssumption
  <1>9. Ahead(cs, st2, x, end)
    BY <1>4, <1>5, <1>6, AheadReference, ChainsAssumption
  <1>10. stack' = st2
    <2>1. stack' = [stack EXCEPT ![Depth].refs = Tail(@)] \o <<>>
      BY DEF SkipSubChain, Refer
    <2>2. PICK t : t = [stack EXCEPT ![Depth].refs = Tail(@)]
      OBVIOUS
    <2>3. t = st2
      BY <1>3, <1>4, <1>5, <2>2 DEF Topped, DropRef
    <2>4. st2 \in Seq(Frame)
      BY <1>9 DEF Ahead, Orderly
    <2>5. st2 \o <<>> = st2
      BY <2>4
    <2> QED
      BY <2>1, <2>2, <2>3, <2>5
  <1>11. st2[1].meta = stack[1].meta /\ Len(st2) = n /\ st2[n] = g
    BY <1>3, <1>4, <1>5, DroppedFromStack
  <1>12. s.meta = Seen(st2[Len(st2)])
    <2>1. g.scope = f.scope /\ g.step = f.step
      BY <1>4, <1>5, Dropped
    <2> QED
      BY <1>2, <1>3, <1>4, <1>11, <2>1 DEF Seen
  <1>13. Ahead(chains, st2, s, Unrolled)
    BY <1>5, <1>8, <1>9
  <1> QED
    BY <1>1, <1>2, <1>10, <1>11, <1>12, <1>13, StackStep

LEMMA PolicyEnterSubChain ==
    ASSUME AclTypeOK, PolicyInv, EnterSubChain PROVE PolicyInv'
  <1>1. /\ Referring /\ outcome = "pending" /\ decision = "none"
        /\ UNCHANGED <<config, priv, tendencies, decision, outcome>>
    BY DEF EnterSubChain, Referring
  <1>2. PICK s \in Sofar : /\ Ahead(chains, stack, s, Unrolled)
                           /\ s.meta = Seen(Top) /\ Says(tendencies, priv, s.list)
    BY <1>1, WhereItStands
  <1>3. PICK st, n, f, ref : st = stack /\ n = Depth /\ f = Top /\ ref = Ref
    OBVIOUS
  <1>4. /\ n = Len(st) /\ f = st[n] /\ f \in Frame /\ n \in DOMAIN st
        /\ f.step = "subs" /\ f.refs # <<>> /\ ref = Head(f.refs) /\ ref \in ChainRef
        /\ st \in Seq(Frame) /\ n \in Nat /\ n >= 1
    BY <1>1, <1>3, Reference
  <1>5. PICK cs, end, call, st2 :
          /\ cs = chains /\ end = Unrolled
          /\ call = Call(ref.chain, s.meta)
          /\ st2 = WithCall(st, call)
    OBVIOUS
  <1>6. IsConfig(cs) /\ Ahead(cs, st, s, end)
    BY <1>1, <1>2, <1>3, <1>5, WhereItStands
  <1>7. ref.chain \in DOMAIN cs /\ ref.chain \notin OpenAt(st, n)
    <2>1. ref.chain \in DOMAIN cs /\ ~Circular
      BY <1>3, <1>5 DEF EnterSubChain
    <2>2. ref.chain \in OpenAt(st, n) => Circular
      BY <1>1, <1>3, Reference
    <2> QED
      BY <2>1, <2>2
  <1>8. /\ Ahead(cs, st2, s, end) /\ st2[Len(st2)] = call
        /\ call.meta = s.meta /\ call.step = "next"
    <2>1. st[n].step = "subs" /\ st[n].refs # <<>> /\ ref = Head(st[n].refs)
      BY <1>4
    <2> QED
      BY <1>4, <1>5, <1>6, <1>7, <2>1, AheadCalled, ChainsAssumption
  <1>9. s.meta = f.scope
    BY <1>2, <1>3, <1>4 DEF Seen
  <1>10. PICK st1 : st1 = Topped(st, DropRef(st[n]))
    OBVIOUS
  <1>11. st1[1].meta = st[1].meta /\ Len(st1) = n
    BY <1>4, <1>10, DroppedFromStack
  <1>17. st2 = Append(st1, call)
    BY <1>4, <1>5, <1>10 DEF WithCall
  <1>12. st1 \in Seq(Frame)
    <2>2. DropRef(st[n]) \in Frame
      <3>1. PICK t : t = Tail(f.refs)
        OBVIOUS
      <3>2. t \in Seq(ChainRef)
        BY <1>4, <3>1 DEF Frame
      <3>3. DropRef(st[n]) = [f EXCEPT !.refs = t]
        BY <1>4, <3>1 DEF DropRef
      <3> QED
        BY <1>4, <3>2, <3>3 DEF Frame
    <2> QED
      BY <1>4, <1>10, <2>2 DEF Topped
  <1>13. stack' = st2
    <2>1. stack' = [stack EXCEPT ![Depth].refs = Tail(@)] \o <<Call(Ref.chain, Top.scope)>>
      BY DEF EnterSubChain, Refer
    <2>2. PICK t, c : t = [stack EXCEPT ![Depth].refs = Tail(@)] /\ c = Call(Ref.chain, Top.scope)
      OBVIOUS
    <2>3. t = st1
      BY <1>3, <1>4, <1>10, <2>2 DEF Topped, DropRef
    <2>4. c = call
      BY <1>3, <1>5, <1>9, <2>2
    <2>5. stack' = st1 \o <<call>>
      BY <2>1, <2>2, <2>3, <2>4
    <2>6. call \in Frame
      <3>1. Len(st2) \in DOMAIN st2 /\ st2 \in Seq(Frame)
        BY <1>8 DEF Ahead, Orderly
      <3> QED
        BY <1>8, <3>1
    <2>7. st1 \o <<call>> = Append(st1, call)
      BY <1>12, <2>6
    <2> QED
      BY <1>17, <2>5, <2>7
  <1>14. st2[1].meta = stack[1].meta
    <2>1. st2[1] = st1[1]
      BY <1>4, <1>11, <1>12, <1>17
    <2> QED
      BY <1>3, <1>11, <2>1
  <1>15. s.meta = Seen(st2[Len(st2)])
    BY <1>8 DEF Seen
  <1>16. Ahead(chains, st2, s, Unrolled)
    BY <1>5, <1>8
  <1> QED
    BY <1>1, <1>2, <1>13, <1>14, <1>15, <1>16, StackStep

(* The end of a chain.                                                     *)
LEMMA PolicyLeaveChainUndecided ==
    ASSUME AclTypeOK, PolicyInv, LeaveChain, decision = "none" PROVE PolicyInv'
  <1>1. /\ outcome = "pending" /\ Depth > 1 /\ Top.step = "next" /\ Top.rule > Len(Rules)
        /\ stack' = [SubSeq(stack, 1, Depth - 1) EXCEPT ![Depth - 1].scope = Top.meta]
        /\ UNCHANGED <<config, priv, tendencies, decision, outcome>>
    BY DEF LeaveChain, Evaluating
  <1>2. PICK s \in Sofar : /\ Ahead(chains, stack, s, Unrolled)
                           /\ s.meta = Seen(Top) /\ Says(tendencies, priv, s.list)
    BY <1>1, WhereItStands
  <1>3. PICK run, rules, f : run = RunAt(chains, stack, Depth) /\ rules = Rules /\ f = Top
    OBVIOUS
  <1>4. /\ rules \in Seq(Rule) /\ run \in Runs /\ Fits(rules, f) /\ f \in Frame
        /\ Resume(chains, f, run) = Rest(rules, f, run)
    BY <1>1, <1>2, <1>3, ChainFacts
  <1>5. f.step = "next" /\ f.rule > Len(rules) /\ s.meta = f.meta
    BY <1>1, <1>2, <1>3 DEF Seen
  <1>6. Rest(rules, f, run)[s] = s
    BY <1>4, <1>5, RestAtEnd
  <1>7. PICK st, cs, end, m : st = stack /\ cs = chains /\ end = Unrolled /\ m = s.meta
    OBVIOUS
  <1>8. /\ st \in Seq(Frame) /\ Len(st) \in Nat /\ Len(st) > 1 /\ Depth = Len(st)
        /\ f = st[Len(st)]
    BY <1>1, <1>3, <1>7 DEF AclTypeOK, Depth, Top
  <1>9. PICK n : n = Len(st) - 1
    OBVIOUS
  <1>10. n \in Nat /\ n >= 1 /\ n + 1 = Len(st) /\ n \in DOMAIN st
    BY <1>8, <1>9
  <1>11. PICK st2 : st2 = Topped(Below(st), Scoped(st[n], m))
    OBVIOUS
  <1>12. IsConfig(cs) /\ Ahead(cs, st, s, end)
    BY <1>1, <1>2, <1>7, WhereItStands
  <1>13. Resume(cs, st[n + 1], RunAt(cs, st, n + 1))[s] = s
    BY <1>3, <1>4, <1>6, <1>7, <1>8, <1>10
  <1>14. /\ Ahead(cs, st2, s, end) /\ Len(st2) = n
         /\ st2[n].scope = m /\ st2[n].step = "subs"
    BY <1>7, <1>9, <1>10, <1>11, <1>12, <1>13, AheadReturned, ChainsAssumption
  <1>15. PICK b, g : b = Below(st) /\ g = Scoped(st[n], m)
    OBVIOUS
  <1>16. /\ b \in Seq(Frame) /\ Len(b) = n
         /\ \A i \in 1..n : b[i] = st[i]
    BY <1>8, <1>10, <1>15 DEF Below
  <1>17. stack' = st2
    <2>1. b = SubSeq(stack, 1, Depth - 1) /\ Depth - 1 = n
      BY <1>7, <1>8, <1>9, <1>15 DEF Below
    <2>2. stack' = [b EXCEPT ![n].scope = m]
      BY <1>1, <1>3, <1>5, <1>7, <2>1
    <2>3. stack' = [b EXCEPT ![n] = [b[n] EXCEPT !.scope = m]]
      BY <1>10, <1>16, <2>2
    <2>4. b[n] = st[n]
      BY <1>10, <1>16
    <2> QED
      BY <1>11, <1>15, <1>16, <2>3, <2>4 DEF Topped, Scoped
  <1>18. st2[1].meta = stack[1].meta
    <2>1. st2 = [b EXCEPT ![n] = g]
      BY <1>11, <1>15, <1>16 DEF Topped
    <2>2. g.meta = st[n].meta
      <3>1. st[n] \in Frame
        BY <1>8, <1>10
      <3> QED
        BY <1>15, <3>1 DEF Frame, Scoped
    <2>3. CASE n = 1
      <3>1. st2[1] = g
        BY <1>16, <2>1, <2>3
      <3> QED
        BY <1>7, <2>2, <2>3, <3>1
    <2>4. CASE n # 1
      <3>1. st2[1] = b[1] /\ b[1] = st[1]
        BY <1>10, <1>16, <2>1, <2>4
      <3> QED
        BY <1>7, <3>1
    <2> QED
      BY <2>3, <2>4
  <1>19. s.meta = Seen(st2[Len(st2)])
    BY <1>7, <1>14 DEF Seen
  <1>20. Ahead(chains, st2, s, Unrolled)
    BY <1>7, <1>14
  <1> QED
    BY <1>1, <1>2, <1>17, <1>18, <1>19, <1>20, StackStep

(* The list in the end begins with what there is and the mistake that ends *)
(* the check: the verdict is an error.                                     *)
LEMMA MistakeStep ==
    ASSUME AclTypeOK, PolicyInv, outcome = "pending", decision = "none", Throw,
           NEW s \in Sofar, Says(tendencies, priv, s.list),
           NEW end, end = Unrolled, end \in Seq(Entry),
           Begins(Append(s.list, Mistake), end)
    PROVE  PolicyInv'
  <1>1. chains' = chains /\ Unrolled' = Unrolled
    BY SameUnrolled DEF Throw
  <1>2. PICK l \in Seq(Entry), e \in Entry : l = s.list /\ e = Mistake
    BY MistakeIsEntry DEF Sofar
  <1>3. Undecided(l, priv) /\ e.mistake /\ priv \in Privs
    BY <1>2 DEF Says, Mistake, AclTypeOK
  <1>4. Begins(Append(l, e), end)
    BY <1>2
  <1>5. Verdict(end, "fallback") = "error"
    BY <1>3, <1>4, VerdictAtEnd
  <1>6. Verdict(end, "fallback")' = Verdict(end, "fallback")
    BY DEF Throw, Verdict, FirstEnd, Ends, LastSaid, DecisionOf
  <1>7. VerdictIsPolicy'
    BY <1>1, <1>5, <1>6 DEF VerdictIsPolicy, Throw
  <1>8. Steady'
    BY DEF PolicyInv, Steady, Throw, Depth, Top
  <1> QED
    BY <1>7, <1>8 DEF PolicyInv, Throw

(* A condition without a truth value.                                      *)
LEMMA PolicyInvalidCondition ==
    ASSUME AclTypeOK, PolicyInv, InvalidCondition PROVE PolicyInv'
  <1>1. /\ outcome = "pending" /\ Depth > 1 /\ Top.step = "rule"
        /\ RuleVerdict(Rules[Top.rule], Top.scope) = "invalid" /\ Throw
    BY DEF InvalidCondition, Evaluating, rule
  <1>0. decision = "none"
    BY <1>1 DEF PolicyInv, Steady
  <1>2. PICK s \in Sofar : /\ Ahead(chains, stack, s, Unrolled)
                           /\ s.meta = Seen(Top) /\ Says(tendencies, priv, s.list)
    BY <1>0, <1>1, WhereItStands
  <1>3. PICK run, rules, f, r, e, end :
          /\ run = RunAt(chains, stack, Depth) /\ rules = Rules /\ end = Unrolled
          /\ f = Top /\ r = rules[f.rule] /\ e = Mistake
    OBVIOUS
  <1>4. /\ rules \in Seq(Rule) /\ run \in Runs /\ Fits(rules, f) /\ f \in Frame
        /\ \A i \in 1..Len(rules) : ValidRule(rules[i])
        /\ Resume(chains, f, run) = Rest(rules, f, run)
    BY <1>0, <1>1, <1>2, <1>3, ChainFacts
  <1>5. f.step = "rule" /\ s.meta = f.scope
    BY <1>1, <1>2, <1>3 DEF Seen
  <1>6. ValidRule(r)
    BY <1>3, <1>4, <1>5 DEF Fits
  <1>7. RuleVerdict(r, f.scope) = "invalid" /\ e = Mistake
    BY <1>1, <1>3
  <1>8. PICK u : u = Rest(rules, f, run)[s]
    OBVIOUS
  <1>9. Begins(Append(s.list, e), u.list)
    <2>1. Begins(Append(s.list, e), Rest(rules, f, run)[s].list)
      BY <1>3, <1>4, <1>5, <1>6, <1>7, RestStops
    <2> QED
      BY <1>8, <2>1
  <1>10. u \in Sofar /\ end \in Seq(Entry) /\ Begins(u.list, end)
    <2>1. PICK st, cs, n : st = stack /\ cs = chains /\ n = Len(st)
      OBVIOUS
    <2>2. IsConfig(cs) /\ Ahead(cs, st, s, end)
      BY <1>0, <1>1, <1>2, <1>3, <2>1, WhereItStands
    <2>3. u = Resume(cs, st[n], RunAt(cs, st, n))[s]
      BY <1>3, <1>4, <1>8, <2>1 DEF Depth, Top
    <2> QED
      BY <2>1, <2>2, <2>3, AheadBegins, ChainsAssumption
  <1>11. Begins(Append(s.list, e), end)
    <2>1. PICK l \in Seq(Entry) : l = s.list
      BY DEF Sofar
    <2>2. PICK a \in Seq(Entry) : a = Append(l, e)
      <3>1. e \in Entry
        BY <1>3, MistakeIsEntry
      <3> QED
        BY <2>1, <3>1, AppendBegins
    <2>3. u.list \in Seq(Entry)
      BY <1>10 DEF Sofar
    <2>4. Begins(a, u.list) /\ Begins(u.list, end)
      BY <1>9, <1>10, <2>1, <2>2
    <2>5. Begins(a, end)
      BY <1>10, <2>3, <2>4, BeginsTransitive
    <2> QED
      BY <2>1, <2>2, <2>5
  <1>12. Begins(Append(s.list, Mistake), end)
    BY <1>3, <1>11
  <1> QED
    BY <1>0, <1>1, <1>2, <1>3, <1>10, <1>12, MistakeStep

(* A chain that is run within itself, or that does not exist.              *)
LEMMA PolicyBadSubChain ==
    ASSUME AclTypeOK, PolicyInv, BadSubChain PROVE PolicyInv'
  <1>1. /\ Referring /\ outcome = "pending" /\ decision = "none" /\ Throw
        /\ Ref.chain # Empty
        /\ Circular \/ (Ref.chain \notin DOMAIN chains /\ ~Ref.optional)
    BY DEF BadSubChain, Referring
  <1>2. PICK s \in Sofar : /\ Ahead(chains, stack, s, Unrolled)
                           /\ s.meta = Seen(Top) /\ Says(tendencies, priv, s.list)
    BY <1>1, WhereItStands
  <1>3. PICK st, n, f, ref : st = stack /\ n = Depth /\ f = Top /\ ref = Ref
    OBVIOUS
  <1>4. /\ n = Len(st) /\ f = st[n] /\ f \in Frame /\ n \in DOMAIN st
        /\ f.step = "subs" /\ f.refs # <<>> /\ ref = Head(f.refs) /\ ref \in ChainRef
        /\ st \in Seq(Frame)
        /\ Circular /\ ref.chain # Empty => ref.chain \in OpenAt(st, n)
    BY <1>1, <1>3, Reference
  <1>5. PICK cs, end, run, x, g, st2 :
          /\ cs = chains /\ end = Unrolled
          /\ run = RunAt(cs, st, n) /\ x = run[ref][s]
          /\ g = DropRef(f) /\ st2 = Topped(st, g)
    OBVIOUS
  <1>6. IsConfig(cs) /\ Ahead(cs, st, s, end)
    BY <1>1, <1>2, <1>3, <1>5, WhereItStands
  <1>7. /\ ref.chain # Empty
        /\ ref.chain \in OpenAt(st, n) \/ (ref.chain \notin DOMAIN cs /\ ~ref.optional)
    BY <1>1, <1>3, <1>4, <1>5
  <1>8. x = Add(s, Mistake)
    BY <1>4, <1>5, <1>6, <1>7, ReferenceMeans, ChainsAssumption
  <1>9. Ahead(cs, st2, x, end) /\ x \in Sofar
    BY <1>4, <1>5, <1>6, AheadReference, ChainsAssumption
  <1>10. end \in Seq(Entry) /\ Begins(x.list, end)
    BY <1>6, <1>9, AheadSofar, ChainsAssumption
  <1>11. x.list = Append(s.list, Mistake)
    BY <1>8, AddGrows, MistakeIsEntry
  <1>12. Begins(Append(s.list, Mistake), end)
    BY <1>10, <1>11
  <1> QED
    BY <1>1, <1>2, <1>5, <1>10, <1>12, MistakeStep

(* After a decision, what is left to do does not matter.                   *)
LEMMA StoppedStays ==
    ASSUME PolicyInv, outcome = "pending", decision # "none",
           UNCHANGED <<config, priv, tendencies, decision, outcome>>,
           stack'[1].meta = stack[1].meta, Steady'
    PROVE  PolicyInv'
  <1>1. chains' = chains /\ Unrolled' = Unrolled
    BY SameUnrolled
  <1>2. Stopped(decision, tendencies, priv, Unrolled)
    BY DEF PolicyInv
  <1>3. Stopped(decision, tendencies, priv, Unrolled)'
    BY <1>1, <1>2 DEF Stopped, DecisionOf, Undecided, LastSaid
  <1> QED
    BY <1>3 DEF PolicyInv, VerdictIsPolicy

(* So references are dropped,                                              *)
LEMMA PolicySkipSubChainDecided ==
    ASSUME AclTypeOK, PolicyInv, SkipSubChain, decision # "none" PROVE PolicyInv'
  <1>1. /\ Referring /\ outcome = "pending"
        /\ UNCHANGED <<config, priv, tendencies, decision, outcome>>
    BY DEF SkipSubChain, Referring
  <1>2. PICK st, n, f, g : st = stack /\ n = Depth /\ f = Top /\ g = DropRef(f)
    OBVIOUS
  <1>3. /\ n = Len(st) /\ f = st[n] /\ f \in Frame /\ n \in DOMAIN st
        /\ st \in Seq(Frame) /\ n \in Nat /\ n >= 1
    BY <1>2, TopFrame DEF Depth, Top, AclTypeOK
  <1>4. f.step = "subs" /\ f.refs # <<>>
    BY <1>1, <1>2 DEF Referring
  <1>5. /\ g \in Frame /\ g.meta = f.meta /\ g.step = "subs"
    <2>1. PICK t : t = Tail(f.refs)
      OBVIOUS
    <2>2. t \in Seq(ChainRef)
      BY <1>3, <1>4, <2>1 DEF Frame
    <2>3. g = [f EXCEPT !.refs = t]
      BY <1>2, <2>1 DEF DropRef
    <2> QED
      BY ONLY <1>3, <1>4, <2>2, <2>3 DEF Frame
  <1>6. stack' = [st EXCEPT ![n] = g]
    <2>1. stack' = [stack EXCEPT ![Depth].refs = Tail(@)] \o <<>>
      BY DEF SkipSubChain, Refer
    <2>2. PICK t, u : t = [stack EXCEPT ![Depth].refs = Tail(@)] /\ u = [st EXCEPT ![n] = g]
      OBVIOUS
    <2>3. t = u
      BY <1>2, <1>3, <2>2 DEF DropRef
    <2>4. u \in Seq(Frame)
      BY <1>3, <1>5, <2>2
    <2>5. u \o <<>> = u
      BY <2>4
    <2> QED
      BY <2>1, <2>2, <2>3, <2>5
  <1>7. /\ Len(stack') = n /\ stack'[n] = g
        /\ \A i \in 1..n : i # n => stack'[i] = st[i]
        /\ DOMAIN stack' = 1..n
    BY <1>3, <1>6
  <1>8. stack'[1].meta = stack[1].meta
    BY <1>2, <1>3, <1>5, <1>7
  <1>9. Steady'
    <2>1. \A i \in DOMAIN st : i < n => st[i].step = "subs"
      BY <1>2 DEF PolicyInv, Steady
    <2>2. ASSUME NEW i \in 1..n, i < n PROVE stack'[i].step = "subs"
      BY <1>3, <1>7, <2>1, <2>2
    <2> QED
      BY <1>5, <1>7, <2>2 DEF Steady, Depth, Top
  <1> QED
    BY <1>1, <1>8, <1>9, StoppedStays

(* rules are left,                                                         *)
LEMMA PolicyRuleDoneDecided ==
    ASSUME AclTypeOK, PolicyInv, RuleDone, decision # "none" PROVE PolicyInv'
  <1>1. /\ outcome = "pending" /\ Depth > 1
        /\ SetTop(Finished(Top))
        /\ UNCHANGED <<config, priv, tendencies, decision, outcome>>
    BY DEF RuleDone, Evaluating
  <1>2. PICK st, n, f, g : st = stack /\ n = Depth /\ f = Top /\ g = Advanced(Rules, f)
    OBVIOUS
  <1>3. /\ n = Len(st) /\ f = st[n] /\ f \in Frame /\ n \in DOMAIN st
        /\ st \in Seq(Frame) /\ n \in Nat /\ n > 1
    BY <1>1, <1>2, TopFrame DEF Depth, Top, AclTypeOK
  <1>4. g.step = "next"
    BY <1>2, <1>3, AdvancedFrame
  <1>5. stack' = [st EXCEPT ![n] = g]
    BY <1>1, <1>2 DEF SetTop, Finished, Advanced, rule
  <1>6. /\ Len(stack') = n /\ stack'[n] = g
        /\ \A i \in 1..n : i # n => stack'[i] = st[i]
        /\ DOMAIN stack' = 1..n
    BY <1>3, <1>5
  <1>7. stack'[1].meta = stack[1].meta
    BY <1>2, <1>3, <1>6
  <1>8. Steady'
    <2>1. \A i \in DOMAIN st : i < n => st[i].step = "subs"
      BY <1>2 DEF PolicyInv, Steady
    <2>2. ASSUME NEW i \in 1..n, i < n PROVE stack'[i].step = "subs"
      BY <1>3, <1>6, <2>1, <2>2
    <2> QED
      BY <1>4, <1>6, <2>2 DEF Steady, Depth, Top
  <1> QED
    BY <1>1, <1>7, <1>8, StoppedStays

(* and chains are left.                                                    *)
LEMMA PolicyLeaveChainDecided ==
    ASSUME AclTypeOK, PolicyInv, LeaveChain, decision # "none" PROVE PolicyInv'
  <1>1. /\ outcome = "pending" /\ Depth > 1
        /\ stack' = [SubSeq(stack, 1, Depth - 1) EXCEPT ![Depth - 1].scope = Top.meta]
        /\ UNCHANGED <<config, priv, tendencies, decision, outcome>>
    BY DEF LeaveChain, Evaluating
  <1>2. PICK st, n, b, m : /\ st = stack /\ n = Depth - 1 /\ m = Top.meta
                           /\ b = SubSeq(stack, 1, Depth - 1)
    OBVIOUS
  <1>3. /\ st \in Seq(Frame) /\ n \in Nat /\ n >= 1 /\ n < Len(st) /\ n + 1 = Len(st)
        /\ Depth = Len(st)
    BY <1>1, <1>2 DEF AclTypeOK, Depth
  <1>4. b \in Seq(Frame) /\ Len(b) = n /\ \A i \in 1..n : b[i] = st[i]
    BY <1>2, <1>3
  <1>5. PICK g : g = [b[n] EXCEPT !.scope = m]
    OBVIOUS
  <1>6. stack' = [b EXCEPT ![n] = g]
    BY <1>1, <1>2, <1>3, <1>4, <1>5
  <1>7. b[n] \in Frame /\ b[n] = st[n]
    BY <1>3, <1>4
  <1>8. g.meta = st[n].meta /\ g.step = st[n].step
    BY ONLY <1>5, <1>7 DEF Frame
  <1>9. /\ Len(stack') = n /\ stack'[n] = g
        /\ \A i \in 1..n : i # n => stack'[i] = st[i]
        /\ DOMAIN stack' = 1..n
    BY <1>3, <1>4, <1>6
  <1>10. stack'[1].meta = stack[1].meta
    <2>1. CASE n = 1
      BY <1>2, <1>8, <1>9, <2>1
    <2>2. CASE n # 1
      BY <1>2, <1>3, <1>9, <2>2
    <2> QED
      BY <2>1, <2>2
  <1>11. Steady'
    <2>1. \A i \in DOMAIN st : i < Len(st) => st[i].step = "subs"
      BY <1>2 DEF PolicyInv, Steady, Depth
    <2>2. ASSUME NEW i \in 1..n PROVE stack'[i].step = "subs"
      BY <1>3, <1>8, <1>9, <2>1, <2>2
    <2>3. stack'[Len(stack')].step = "subs"
      BY <1>3, <1>9, <2>2
    <2> QED
      BY <1>9, <2>2, <2>3 DEF Steady, Depth, Top
  <1> QED
    BY <1>1, <1>10, <1>11, StoppedStays

(* A rule decides.                                                         *)
LEMMA PolicyDecide ==
    ASSUME AclTypeOK, PolicyInv, Decide PROVE PolicyInv'
  <1>1. /\ outcome = "pending" /\ Depth > 1 /\ Top.step = "rule"
        /\ RuleVerdict(Rules[Top.rule], Top.scope) = "apply"
        /\ DecisionOf(Rules[Top.rule]) # "none"
        /\ decision' = DecisionOf(Rules[Top.rule])
        /\ tendencies' = [tendencies EXCEPT ![priv] = "none"]
        /\ UNCHANGED <<config, priv, outcome>>
    BY DEF Decide, Evaluating, rule
  <1>0. decision = "none"
    BY <1>1 DEF PolicyInv, Steady
  <1>2. PICK s \in Sofar : /\ Ahead(chains, stack, s, Unrolled)
                           /\ s.meta = Seen(Top) /\ Says(tendencies, priv, s.list)
    BY <1>0, <1>1, WhereItStands
  <1>3. PICK run, rules, f, r, e, end :
          /\ run = RunAt(chains, stack, Depth) /\ rules = Rules /\ end = Unrolled
          /\ f = Top /\ r = rules[f.rule] /\ e = Effects(r)
    OBVIOUS
  <1>4. /\ rules \in Seq(Rule) /\ run \in Runs /\ Fits(rules, f) /\ f \in Frame
        /\ \A i \in 1..Len(rules) : ValidRule(rules[i])
        /\ Resume(chains, f, run) = Rest(rules, f, run)
    BY <1>0, <1>1, <1>2, <1>3, ChainFacts
  <1>5. f.step = "rule" /\ s.meta = f.scope
    BY <1>1, <1>2, <1>3 DEF Seen
  <1>6. ValidRule(r) /\ r \in Rule
    BY <1>3, <1>4, <1>5 DEF Fits, ValidRule
  <1>7. RuleVerdict(r, f.scope) = "apply" /\ e = Effects(r)
    BY <1>1, <1>3
  <1>8. PICK u : u = Rest(rules, f, run)[s]
    OBVIOUS
  <1>9. Begins(Append(s.list, e), u.list)
    <2>1. Begins(Append(s.list, e), Rest(rules, f, run)[s].list)
      BY <1>3, <1>4, <1>5, <1>6, <1>7, RestStops
    <2> QED
      BY <1>8, <2>1
  <1>10. u \in Sofar /\ end \in Seq(Entry) /\ Begins(u.list, end)
    <2>1. PICK st, cs, n : st = stack /\ cs = chains /\ n = Len(st)
      OBVIOUS
    <2>2. IsConfig(cs) /\ Ahead(cs, st, s, end)
      BY <1>0, <1>1, <1>2, <1>3, <2>1, WhereItStands
    <2>3. u = Resume(cs, st[n], RunAt(cs, st, n))[s]
      BY <1>3, <1>4, <1>8, <2>1 DEF Depth, Top
    <2> QED
      BY <2>1, <2>2, <2>3, AheadBegins, ChainsAssumption
  <1>11. PICK l \in Seq(Entry) : l = s.list
    BY DEF Sofar
  <1>12. e \in Entry /\ ~e.mistake /\ DecisionOf(e) = DecisionOf(r)
    BY <1>3, <1>6, EffectsAreEntry DEF Effects, DecisionOf
  <1>13. Begins(Append(l, e), end)
    <2>2. PICK a \in Seq(Entry) : a = Append(l, e)
      BY <1>12, AppendBegins
    <2>3. u.list \in Seq(Entry)
      BY <1>10 DEF Sofar
    <2>4. Begins(a, u.list) /\ Begins(u.list, end)
      BY <1>9, <1>10, <1>11, <2>2
    <2>5. Begins(a, end)
      BY <1>10, <2>3, <2>4, BeginsTransitive
    <2> QED
      BY <2>2, <2>5
  <1>14. Undecided(l, priv) /\ tendencies[Star] = LastSaid(l, Star, "deny")
    BY <1>2, <1>11 DEF Says
  <1>15. PICK dec, ten : /\ dec = decision' /\ ten = tendencies'
    OBVIOUS
  <1>16. ten[priv] = "none" /\ ten[Star] = tendencies[Star]
    <2>1. priv # Star /\ priv \in PrivSlots /\ Star \in PrivSlots
      BY ChainsAssumption DEF AclTypeOK, PrivSlots
    <2> QED
      BY <1>1, <1>15, <2>1 DEF AclTypeOK
  <1>17. dec = DecisionOf(e) /\ dec # "none"
    BY <1>1, <1>3, <1>12, <1>15
  <1>18. Stopped(dec, ten, priv, end)
    BY <1>10, <1>12, <1>13, <1>14, <1>16, <1>17 DEF Stopped
  <1>19. PICK g, m : m = r.sideEffect[f.scope] /\ g = Advanced(rules, Scoped(f, m))
    OBVIOUS
  <1>20. m \in Meta
    BY <1>4, <1>6, <1>19 DEF Frame, Rule, SideEffect
  <1>21. g.step = "next" /\ stack' = [stack EXCEPT ![Depth] = g]
    <2>1. PICK h : h = Scoped(f, m)
      OBVIOUS
    <2>2. h \in Frame /\ h.rule = f.rule
      BY ONLY <1>4, <1>20, <2>1 DEF Frame, Scoped
    <2>3. g.step = "next"
      BY <1>19, <2>1, <2>2, AdvancedFrame
    <2>4. SetTop(Finished([Top EXCEPT !.scope = rule.sideEffect[@]]))
      BY DEF Decide
    <2>5. [Top EXCEPT !.scope = rule.sideEffect[@]] = h
      BY <1>3, <1>19, <2>1 DEF Scoped, rule
    <2>6. Finished(h) = g
      BY <1>3, <1>19, <2>1, <2>2 DEF Finished, Advanced, rule
    <2> QED
      BY <2>3, <2>4, <2>5, <2>6 DEF SetTop
  <1>22. PICK st, n : st = stack /\ n = Depth
    OBVIOUS
  <1>23. /\ n = Len(st) /\ n \in DOMAIN st /\ st \in Seq(Frame) /\ n \in Nat /\ n > 1
    BY <1>1, <1>22, TopFrame DEF Depth, AclTypeOK
  <1>24. /\ Len(stack') = n /\ stack'[n] = g
         /\ \A i \in 1..n : i # n => stack'[i] = st[i]
         /\ DOMAIN stack' = 1..n
    BY <1>21, <1>22, <1>23
  <1>25. stack'[1].meta = stack[1].meta
    BY <1>22, <1>23, <1>24
  <1>26. Steady'
    <2>1. \A i \in DOMAIN st : i < n => st[i].step = "subs"
      BY <1>22 DEF PolicyInv, Steady
    <2>2. ASSUME NEW i \in 1..n, i < n PROVE stack'[i].step = "subs"
      BY <1>23, <1>24, <2>1, <2>2
    <2> QED
      BY <1>21, <1>24, <2>2 DEF Steady, Depth, Top
  <1>27. chains' = chains /\ Unrolled' = Unrolled
    BY <1>1, <1>25, SameUnrolled
  <1>28. Stopped(decision, tendencies, priv, Unrolled)'
    <2>1. priv' = priv
      BY <1>1
    <2> QED
      BY <1>3, <1>15, <1>18, <1>27, <2>1 DEF Stopped, DecisionOf, Undecided, LastSaid
  <1> QED
    BY <1>1, <1>15, <1>17, <1>26, <1>28 DEF PolicyInv, VerdictIsPolicy

(* The end of the check, after a decision or without one.                  *)
LEMMA UndecidedVerdict ==
    ASSUME AclTypeOK, PolicyInv, Conclude, decision = "none"
    PROVE  outcome' = Verdict(Unrolled, "fallback")
  <1>1. outcome = "pending" /\ Depth = 1 /\ Top.refs = <<>>
    BY DEF Conclude
  <1>2. PICK s \in Sofar : /\ Ahead(chains, stack, s, Unrolled)
                           /\ s.meta = Seen(Top) /\ Says(tendencies, priv, s.list)
    BY <1>1, WhereItStands
  <1>3. PICK st, cs, end, n, f, run : /\ st = stack /\ cs = chains /\ end = Unrolled
                                      /\ n = Depth /\ f = Top /\ run = RunAt(cs, st, n)
    OBVIOUS
  <1>4. IsConfig(cs) /\ Ahead(cs, st, s, end) /\ n = Len(st) /\ n = 1 /\ f = st[n]
    BY <1>1, <1>2, <1>3, WhereItStands
  <1>5. Orderly(cs, st)
    BY <1>4 DEF Ahead
  <1>6. n \in DOMAIN st
    BY <1>4, <1>5 DEF Orderly
  <1>7. f.chain = Empty /\ f.refs = <<>> /\ run \in Runs
    <2>1. f.chain = Empty
      BY <1>4, <1>5, <1>6 DEF Orderly
    <2>2. run \in Runs
      BY <1>3, <1>4, <1>5, <1>6, OpenChains, ChainsAssumption
    <2> QED
      BY <1>1, <1>3, <2>1, <2>2
  <1>8. <<>> \in Seq(ChainRef)
    OBVIOUS
  <1>9. PICK refs \in Seq(ChainRef) : refs = <<>> /\ refs = f.refs
    BY <1>7, <1>8
  <1>10. Resume(cs, f, run) = Through(Run(refs, run))
    BY <1>7, <1>9 DEF Resume
  <1>11. Through(Run(refs, run))[s] = s
    BY <1>7, <1>9, RunFirst
  <1>12. PICK u : u = Resume(cs, st[n], RunAt(cs, st, n))[s]
    OBVIOUS
  <1>13. u = s
    BY <1>3, <1>4, <1>10, <1>11, <1>12
  <1>14. u \in Sofar /\ end \in Seq(Entry) /\ (n = 1 => u.list = end)
    <2>1. IsConfig(cs) /\ Ahead(cs, st, s, end) /\ n = Len(st)
      BY <1>4
    <2> QED
      BY ONLY <2>1, <1>12, s \in Sofar, AheadBegins, ChainsAssumption
  <1>15. end = s.list
    BY <1>4, <1>13, <1>14
  <1>16. priv \in Privs /\ priv \in PrivSlots /\ Star \in PrivSlots
    BY DEF AclTypeOK, PrivSlots
  <1>17. /\ Undecided(end, priv)
         /\ tendencies[priv] = LastSaid(end, priv, "none")
         /\ tendencies[Star] = LastSaid(end, Star, "deny")
    BY <1>2, <1>15 DEF Says
  <1>18. PICK a, b, d : a = tendencies[priv] /\ b = tendencies[Star] /\ d = LastSaid(end, Star, "deny")
    OBVIOUS
  <1>19. Verdict(end, "fallback") = LastSaid(end, priv, d)
    BY <1>14, <1>16, <1>17, <1>18, VerdictWithoutEnd
  <1>20. LastSaid(end, priv, d) = IF a = "none" THEN d ELSE a
    BY <1>14, <1>16, <1>17, <1>18, LastSaidDefault
  <1>21. d \in {"allow", "deny"}
    BY <1>14, <1>16, <1>18, LastSaidDefault DEF Tendencies
  <1>22. a \in Tendencies
    BY <1>16, <1>18 DEF AclTypeOK
  <1>23. Settled = IF a # "none" THEN a ELSE d
    BY <1>17, <1>18 DEF Settled
  <1>24. outcome' = Settled
    BY <1>21, <1>22, <1>23 DEF Conclude, Tendencies
  <1> QED
    BY <1>3, <1>19, <1>20, <1>23, <1>24

(* With a decision, it is the verdict, or the fallback for "stop".         *)
LEMMA DecidedVerdict ==
    ASSUME AclTypeOK, PolicyInv, Conclude, decision # "none"
    PROVE  outcome' = Verdict(Unrolled, "fallback")
  <1>1. outcome = "pending"
    BY DEF Conclude
  <1>2. Stopped(decision, tendencies, priv, Unrolled)
    BY <1>1 DEF PolicyInv
  <1>3. PICK end \in Seq(Entry), l \in Seq(Entry), e \in Entry :
          /\ end = Unrolled /\ Undecided(l, priv) /\ Begins(Append(l, e), end)
          /\ ~e.mistake /\ decision = DecisionOf(e)
          /\ tendencies[priv] = "none" /\ tendencies[Star] = LastSaid(l, Star, "deny")
    BY <1>2 DEF Stopped
  <1>4. priv \in Privs /\ Star \in PrivSlots
    BY DEF AclTypeOK, PrivSlots
  <1>5. PICK d : d = LastSaid(l, Star, "deny")
    OBVIOUS
  <1>6. Verdict(end, "fallback")
             = IF DecisionOf(e) # "stop" THEN DecisionOf(e) ELSE d
    <2>1. e.mistake \/ DecisionOf(e) # "none"
      BY <1>3
    <2>2. Verdict(end, "fallback")
             = IF e.mistake THEN "error"
               ELSE IF DecisionOf(e) # "stop" THEN DecisionOf(e)
               ELSE LastSaid(l, Star, "deny")
      BY <1>3, <1>4, <2>1, VerdictAtEnd
    <2> QED
      BY <1>3, <1>5, <2>2
  <1>7. d \in {"allow", "deny"}
    BY <1>4, <1>5, LastSaidDefault DEF Tendencies
  <1>8. decision \in Decisions
    BY DEF AclTypeOK
  <1>9. Settled = IF decision # "stop" THEN decision ELSE d
    BY <1>3, <1>5 DEF Settled
  <1>10. outcome' = Settled
    BY <1>7, <1>8, <1>9 DEF Conclude, Decisions, Tendencies
  <1> QED
    BY <1>3, <1>6, <1>9, <1>10

(* The check is concluded.                                                 *)
LEMMA PolicyConclude ==
    ASSUME AclTypeOK, PolicyInv, Conclude PROVE PolicyInv'
  <1>1. outcome' = Verdict(Unrolled, "fallback")
    BY UndecidedVerdict, DecidedVerdict
  <1>2. UNCHANGED <<config, priv, stack, tendencies, decision>>
    BY DEF Conclude
  <1>3. chains' = chains /\ Unrolled' = Unrolled
    BY <1>2, SameUnrolled
  <1>4. Verdict(Unrolled, "fallback")' = Verdict(Unrolled, "fallback")
    BY <1>2, <1>3 DEF Verdict, FirstEnd, Ends, LastSaid, DecisionOf
  <1>5. outcome' # "pending"
    BY DEF Conclude
  <1>6. Steady'
    BY <1>2 DEF PolicyInv, Steady, Depth, Top
  <1> QED
    BY <1>1, <1>4, <1>5, <1>6 DEF PolicyInv, VerdictIsPolicy

(* A check begins with an empty list and the whole of "main" to do.        *)
LEMMA PolicyInit ==
    ASSUME Init, AclTypeOK PROVE PolicyInv
  <1>1. PICK m \in StartMetas :
          stack = << [Call(Empty, m) EXCEPT
                        !.step = "subs",
                        !.refs = <<[chain |-> "main", optional |-> FALSE]>>] >>
    BY DEF Init, BaseInit
  <1>2. m \in Meta /\ "main" \in ChainNames
    BY <1>1, ChainsAssumption
  <1>3. PICK main \in ChainRef : main = [chain |-> "main", optional |-> FALSE]
    BY <1>2 DEF ChainRef
  <1>4. PICK c : c = Call(Empty, m)
    OBVIOUS
  <1>5. c \in Frame /\ c.chain = Empty /\ c.meta = m /\ c.scope = m
    <2>1. <<>> \in Seq(ChainRef)
      OBVIOUS
    <2> QED
      BY <1>2, <1>4, <2>1 DEF Call, Frame
  <1>6. PICK refs \in Seq(ChainRef) : refs = <<main>>
    <2>1. <<main>> \in Seq(ChainRef)
      OBVIOUS
    <2> QED
      BY <2>1
  <1>7. PICK f : f = [c EXCEPT !.step = "subs", !.refs = refs]
    OBVIOUS
  <1>8. /\ f \in Frame /\ f.chain = Empty /\ f.step = "subs" /\ f.refs = refs
        /\ f.meta = m /\ f.scope = m
    BY ONLY <1>5, <1>7, refs \in Seq(ChainRef) DEF Frame
  <1>9. stack = <<f>>
    BY <1>1, <1>3, <1>4, <1>6, <1>7
  <1>10. PICK st, cs, end, ten : /\ st = stack /\ cs = chains /\ end = Unrolled
                                 /\ ten = tendencies
    OBVIOUS
  <1>11. st \in Seq(Frame) /\ Len(st) = 1 /\ st[1] = f /\ DOMAIN st = {1} /\ st # <<>>
    BY <1>8, <1>9, <1>10
  <1>12. IsConfig(cs)
    BY <1>10, ChainsAssumption DEF AclTypeOK, chains
  <1>13. OpenAt(st, 1) = {}
    <2>1. 2..1 = {}
      OBVIOUS
    <2> QED
      BY <2>1 DEF OpenAt
  <1>14. CallOK(cs, f)
    BY <1>8 DEF CallOK
  <1>15. PICK open : open = OpenAt(st, 1) /\ Cardinality(open) = 0
    <2>1. PICK open : open = OpenAt(st, 1)
      OBVIOUS
    <2>2. open = {}
      BY ONLY <1>13, <2>1
    <2>3. Cardinality(open) = 0
      BY ONLY <2>2, FS_EmptySet
    <2> QED
      BY <2>1, <2>3
  <1>16. Orderly(cs, st)
    BY <1>8, <1>11, <1>14, <1>15 DEF Orderly
  <1>17. PICK run : run = RunAt(cs, st, 1)
    OBVIOUS
  <1>18. run = UnrollRef(cs)[Cardinality(DOMAIN cs)][{}] /\ run \in Runs
    <2>1. 1 \in DOMAIN st
      BY <1>11
    <2>2. Cardinality(DOMAIN cs) \in Nat /\ run \in Runs
      BY <1>12, <1>16, <1>17, <2>1, OpenChains, ChainsAssumption
    <2>3. Cardinality(DOMAIN cs) + 1 - 1 = Cardinality(DOMAIN cs)
      BY <2>2
    <2> QED
      BY <1>13, <1>17, <2>2, <2>3 DEF RunAt
  <1>19. PICK l \in Seq(Entry) : l = <<>>
    <2>1. <<>> \in Seq(Entry)
      OBVIOUS
    <2> QED
      BY <2>1
  <1>20. PICK s : s = [list |-> l, meta |-> m]
    OBVIOUS
  <1>21. s \in Sofar /\ s.list = l /\ s.meta = m
    BY <1>2, <1>20, SofarMade
  <1>22. end = run[main][s].list
    <2>1. Unrolled = UnrollRef(chains)[Cardinality(DOMAIN chains)][{}]
                        [[chain |-> "main", optional |-> FALSE]]
                        [[list |-> <<>>, meta |-> stack[1].meta]].list
      BY DEF Unrolled
    <2> QED
      BY <1>3, <1>8, <1>10, <1>11, <1>18, <1>19, <1>20, <2>1
  <1>23. PICK rs \in Seq(Growing) :
           /\ rs = Resumes(cs, st) /\ Len(rs) = 1 /\ rs[1] = Resume(cs, f, run)
    <2>1. 1 \in DOMAIN st
      BY <1>11
    <2>2. PICK rs \in Seq(Growing) : rs = Resumes(cs, st) /\ Len(rs) = Len(st)
      BY <1>12, <1>16, ResumesGrow, ChainsAssumption
    <2>3. rs[1] = Resume(cs, st[1], RunAt(cs, st, 1))
      BY <2>1, <2>2 DEF Resumes
    <2> QED
      BY <1>11, <1>17, <2>2, <2>3
  <1>24. rs[1][s] = run[main][s]
    <2>1. Resume(cs, f, run) = Through(Run(refs, run))
      BY <1>8 DEF Resume
    <2>2. PICK x : x = run[main][s]
      OBVIOUS
    <2>3. x \in Sofar
      BY <1>18, <1>21, <2>2 DEF Runs, Growing
    <2>4. PICK tail : tail = Tail(refs)
      OBVIOUS
    <2>8. refs # <<>> /\ Head(refs) = main /\ Tail(<<main>>) = <<>>
      BY <1>6
    <2>9. <<>> \in Seq(ChainRef)
      OBVIOUS
    <2>5. tail = <<>> /\ tail \in Seq(ChainRef)
      BY <1>6, <2>4, <2>8, <2>9
    <2>6. Through(Run(refs, run))[s] = Through(Run(tail, run))[x]
      BY <1>18, <1>21, <2>2, <2>4, <2>5, <2>8, RunFirst
    <2>7. Through(Run(tail, run))[x] = x
      BY <1>18, <2>3, <2>5, RunFirst
    <2> QED
      BY <1>23, <2>1, <2>2, <2>6, <2>7
  <1>25. Leads(rs, s, end)
    <2>1. PICK x \in Sofar : x = run[main][s]
      BY <1>18, <1>21 DEF Runs, Growing
    <2>2. PICK t : t = [i \in 0..1 |-> IF i = 1 THEN s ELSE x]
      OBVIOUS
    <2>3. t \in [0..1 -> Sofar] /\ t[1] = s /\ t[0] = x
      BY <1>21, <2>1, <2>2
    <2>4. ASSUME NEW i \in 1..1 PROVE t[i - 1] = rs[i][t[i]]
      BY <1>24, <2>1, <2>3
    <2>5. t[0].list = end
      BY <1>22, <2>1, <2>3
    <2>6. \E t2 \in [0..1 -> Sofar] :
            /\ t2[1] = s /\ t2[0].list = end
            /\ \A i \in 1..1 : t2[i - 1] = rs[i][t2[i]]
      BY <2>3, <2>4, <2>5
    <2> QED
      BY <1>23, <2>6 DEF Leads
  <1>26. Ahead(cs, st, s, end)
    BY <1>16, <1>23, <1>25 DEF Ahead
  <1>27. s.meta = Seen(st[Len(st)])
    BY <1>8, <1>11, <1>21 DEF Seen
  <1>28. Undecided(s.list, priv)
    BY <1>19, <1>21 DEF Undecided
  <1>29. priv # Star /\ priv \in PrivSlots /\ Star \in PrivSlots
    BY ChainsAssumption DEF AclTypeOK, PrivSlots
  <1>30. ten[priv] = "none" /\ ten[Star] = "deny"
    BY <1>10, <1>29 DEF Init
  <1>31. ASSUME NEW p, NEW d PROVE LastSaid(l, p, d) = d
    BY <1>19 DEF LastSaid
  <1>32. OnTheWay(cs, st, ten, priv, end)
    BY <1>21, <1>26, <1>27, <1>28, <1>30, <1>31 DEF OnTheWay
  <1>33. Steady
    BY <1>10, <1>11, <1>8 DEF Steady, Depth, Top
  <1> QED
    BY <1>10, <1>32, <1>33 DEF PolicyInv, VerdictIsPolicy, Init, BaseInit

(* Every step keeps the invariant.                                         *)
LEMMA PolicyStep ==
    ASSUME AclTypeOK, PolicyInv, [Next]_vars PROVE PolicyInv'
  <1>1. CASE BeginRule        BY <1>1, PolicyBeginRule
  <1>2. CASE BeginItem        BY <1>2, PolicyBeginItem
  <1>3. CASE SkipRule         BY <1>3, PolicySkipRule
  <1>4. CASE InvalidCondition BY <1>4, PolicyInvalidCondition
  <1>5. CASE Decide           BY <1>5, PolicyDecide
  <1>6. CASE ApplyRule        BY <1>6, PolicyApplyRule
  <1>7. CASE SkipSubChain
    BY <1>7, PolicySkipSubChainUndecided, PolicySkipSubChainDecided
  <1>8. CASE EnterSubChain    BY <1>8, PolicyEnterSubChain
  <1>9. CASE BadSubChain      BY <1>9, PolicyBadSubChain
  <1>10. CASE RuleDone
    BY <1>10, PolicyRuleDoneUndecided, PolicyRuleDoneDecided
  <1>11. CASE LeaveChain
    BY <1>11, PolicyLeaveChainUndecided, PolicyLeaveChainDecided
  <1>12. CASE Conclude        BY <1>12, PolicyConclude
  <1>13. CASE UNCHANGED vars
    <2>1. chains' = chains /\ Unrolled' = Unrolled
      BY <1>13, SameUnrolled DEF vars
    <2>2. Steady'
      BY <1>13 DEF PolicyInv, Steady, vars, Depth, Top
    <2>6. Verdict(Unrolled, "fallback")' = Verdict(Unrolled, "fallback")
      BY <1>13, <2>1 DEF vars, Verdict, FirstEnd, Ends, LastSaid, DecisionOf
    <2>3. VerdictIsPolicy'
      BY <1>13, <2>6 DEF PolicyInv, VerdictIsPolicy, vars
    <2>4. OnTheWay(chains, stack, tendencies, priv, Unrolled)
            => OnTheWay(chains, stack, tendencies, priv, Unrolled)'
      BY <1>13, <2>1 DEF OnTheWay, Ahead, Seen, vars
    <2>5. Stopped(decision, tendencies, priv, Unrolled)
            => Stopped(decision, tendencies, priv, Unrolled)'
      BY <1>13, <2>1 DEF Stopped, DecisionOf, vars
    <2> QED
      BY <1>13, <2>2, <2>3, <2>4, <2>5 DEF PolicyInv, vars
  <1> QED
    BY <1>1, <1>2, <1>3, <1>4, <1>5, <1>6, <1>7, <1>8, <1>9, <1>10, <1>11, <1>12, <1>13
       DEF Next

(* Every finished check of every configuration has come to the verdict     *)
(* that the unrolled list of its rules means.                              *)
THEOREM VerdictsFollowPolicy == Spec => []VerdictIsPolicy
  <1>1. Init => AclTypeOK /\ Justified /\ PolicyInv
    BY InitTyped, PolicyInit
  <1>2. AclTypeOK /\ Justified /\ PolicyInv /\ [Next]_vars
          => (AclTypeOK /\ Justified /\ PolicyInv)'
    BY StepKeeps, PolicyStep
  <1>3. PolicyInv => VerdictIsPolicy
    BY DEF PolicyInv
  <1> QED
    BY <1>1, <1>2, <1>3, PTL DEF Spec
===============================================================================
