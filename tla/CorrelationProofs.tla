--------------------------- MODULE CorrelationProofs ---------------------------
(***************************************************************************)
(* For any alerts, rules, weights and relations: the rows of incidents keep    *)
(* their types, no incident holds alerts that exclude each other, every        *)
(* incident hangs together by ties of entity, topology or rule, and nodes are   *)
(* kept apart unless something bridges them.                                 *)
(*                                                                         *)
(* A new alert changes the incidents in two moves: it is placed, then at most  *)
(* one pair is merged. PlacedCases and ReconciledCases take the choices apart  *)
(* once; each property then has a lemma for either move.                     *)
(***************************************************************************)
EXTENDS Correlation, FiniteSetTheorems, TLAPS

Sound(inc) ==
    /\ inc \in [Alerts -> Rows]
    /\ \A i \in Alerts : inc[i].status \in {"OPEN", "RESOLVED"} =>
          inc[i].root \in inc[i].held /\ inc[i].first <= inc[i].last
    /\ \A i \in Alerts : inc[i].status \in {"absent", "MERGED"} => inc[i].held = {}

Peaceful(held) == \A x, y \in held : ~never(Name(x), Name(y))

Coherent(R, held) ==
    \A S \in SUBSET held : S \notin {{}, held} =>
        \E x \in S, y \in held \ S : Tied(R, x, y)

(* Why alert a may join a row: no name on it excludes a, something on it ties *)
(* a, and a is from the node of the row or bridged to something on it.       *)
Welcome(R, a, row) ==
    /\ \A x \in row.held : ~never(Name(a), Name(x)) /\ ~never(Name(x), Name(a))
    /\ \E x \in row.held : Tied(R, a, x)
    /\ node_compatible(Node(a), row) \/ \E x \in row.held : Bridged(R, a, x)

-----------------------------------------------------------------------------
(* Ties.                                                                   *)

LEMMA NearMeans ==
    ASSUME NEW R, NEW x, NEW y
    PROVE  Near(R, x, y) <=> /\ x # y
                             /\ y \in neighbors(R, x) \/ neighbors(R, x) \cap neighbors(R, y) # {}
BY DEF Near, distance, Unconnected

LEMMA NeighborsMutual ==
    ASSUME NEW R, NEW x, NEW y
    PROVE  y \in neighbors(R, x) <=> x \in neighbors(R, y)
<1>1. ASSUME NEW v, NEW w, w \in neighbors(R, v)
      PROVE  v \in neighbors(R, w)
  <2>1. CASE \E r \in R : r[1] = v /\ r[2] = w
    BY <2>1 DEF neighbors
  <2>2. CASE \E r \in R : r[2] = v /\ r[1] = w
    BY <2>2 DEF neighbors
  <2> QED BY <1>1, <2>1, <2>2 DEF neighbors
<1> QED BY <1>1

(* More relations, more ties.                                               *)
LEMMA TiesStay ==
    ASSUME NEW R, NEW Q, R \subseteq Q, NEW x, NEW y, Tied(R, x, y)
    PROVE  Tied(Q, x, y)
<1>1. \A e : neighbors(R, e) \subseteq neighbors(Q, e)
  BY DEF neighbors
<1>2. Near(R, Entity(x), Entity(y)) => Near(Q, Entity(x), Entity(y))
  BY <1>1, NearMeans
<1> QED BY <1>2 DEF Tied

LEMMA TiesMutual ==
    ASSUME NEW R, NEW x, NEW y, Tied(R, x, y)
    PROVE  Tied(R, y, x)
<1>1. Near(R, Entity(x), Entity(y)) => Near(R, Entity(y), Entity(x))
  BY NearMeans, NeighborsMutual
<1>2. force(Name(x), Name(y)) => force(Name(y), Name(x))
  BY DEF force
<1> QED BY <1>1, <1>2 DEF Tied

(* The rules that explain a name by one of the others or the other way round. *)
Matching(name, others) == {k \in DOMAIN CausalRules : role(CausalRules[k], name, others) # "none"}

(* A rule that matches names one of the others.                             *)
LEMMA RuleNames ==
    ASSUME NEW x, NEW held, NEW k \in Matching(Name(x), {Name(y) : y \in held})
    PROVE  \E y \in held : Explains(k, x, y) \/ Explains(k, y, x)
<1> DEFINE others == {Name(y) : y \in held}
<1>1. role(CausalRules[k], Name(x), others) # "none"
  BY DEF Matching
<1>2. CASE Name(x) = CausalRules[k].cause /\ others \cap CausalRules[k].symptoms # {}
  BY <1>2 DEF Explains
<1>3. CASE Name(x) \in CausalRules[k].symptoms /\ CausalRules[k].cause \in others
  BY <1>3 DEF Explains
<1> QED BY <1>1, <1>2, <1>3 DEF role

(* Induction over the rules: what holds of 0 and passes from each rule to the  *)
(* next holds after all.                                                    *)
LEMMA UpTo ==
    ASSUME NEW n \in Nat, NEW S, 0 \in S, \A m \in 1..n : m - 1 \in S => m \in S
    PROVE  0..n \subseteq S
<1> DEFINE missing == (0..n) \ S
<1> SUFFICES ASSUME missing # {} PROVE FALSE
  OBVIOUS
<1>1. missing \subseteq Nat
  OBVIOUS
<1>2. IsWellFoundedOn({ss \in Nat \X Nat : ss[1] < ss[2]}, Nat)
  BY NatLessThanWellFounded DEF OpToRel
<1>3. PICK m \in missing : \A k \in missing : ~(<<k, m>> \in {ss \in Nat \X Nat : ss[1] < ss[2]})
  BY <1>1, <1>2, WFMin
<1>4. m \in 1..n /\ m - 1 \in 0..n
  <2>1. m \in 0..n /\ m # 0
    BY <1>3
  <2> QED BY <2>1
<1>5. m - 1 \notin missing
  <2>1. <<m - 1, m>> \in {ss \in Nat \X Nat : ss[1] < ss[2]}
    <3>1. m \in Nat /\ m - 1 \in Nat /\ m - 1 < m
      BY <1>4
    <3> QED BY <3>1
  <2> HIDE DEF missing
  <2> QED BY <1>3, <2>1
<1> QED BY <1>3, <1>4, <1>5

(* What one turn of the loop makes of the best rule so far.                  *)
After(name, others, b, k) ==
    IF role(CausalRules[k], name, others) # "none" /\ (b = 0 \/ CausalRules[k].weight > CausalRules[b].weight)
    THEN k ELSE b

IsLoop(name, others, best, n) ==
    best = [k \in 0..n |-> IF k = 0 THEN 0 ELSE After(name, others, best[k - 1], k)]

(* The loop goes through the rules, however many there are.                  *)
LEMMA LoopRuns ==
    ASSUME NEW name, NEW others
    PROVE  \E best : IsLoop(name, others, best, Len(CausalRules))
<1> DEFINE S == {n \in 0..Len(CausalRules) : \E best : IsLoop(name, others, best, n)}
<1>1. Len(CausalRules) \in Nat
  BY RulesAssumption
<1>2. 0 \in S
  <2> DEFINE f == [k \in 0..0 |-> 0]
  <2>1. f = [k \in 0..0 |-> IF k = 0 THEN 0 ELSE After(name, others, f[k - 1], k)]
    <3>1. \A k \in 0..0 : k = 0
      OBVIOUS
    <3> QED BY <3>1
  <2>2. IsLoop(name, others, f, 0)
    BY <2>1 DEF IsLoop
  <2> HIDE DEF f
  <2> QED BY <1>1, <2>2
<1>3. ASSUME NEW n \in 1..Len(CausalRules), n - 1 \in S
      PROVE  n \in S
  <2>1. PICK f : IsLoop(name, others, f, n - 1)
    BY <1>3
  <2> DEFINE g == [k \in 0..n |-> IF k = n THEN After(name, others, f[n - 1], n) ELSE f[k]]
  <2>2. n \in Nat /\ n # 0
    BY <1>1
  <2>3. ASSUME NEW k \in 0..n
        PROVE  g[k] = IF k = 0 THEN 0 ELSE After(name, others, g[k - 1], k)
    <3>1. CASE k = n
      <4>1. g[k - 1] = f[n - 1] /\ g[k] = After(name, others, f[n - 1], n)
        BY <2>2, <3>1
      <4> QED BY <2>2, <3>1, <4>1
    <3>2. CASE k # n
      <4>1. k \in 0..(n - 1) /\ (k # 0 => k - 1 \in 0..n /\ k - 1 # n)
        BY <2>2, <3>2
      <4>2. f[k] = IF k = 0 THEN 0 ELSE After(name, others, f[k - 1], k)
        BY <2>1, <4>1 DEF IsLoop
      <4> QED BY <3>2, <4>1, <4>2
    <3> QED BY <3>1, <3>2
  <2>4. IsLoop(name, others, g, n)
    <3> HIDE DEF g
    <3>1. g = [k \in 0..n |-> g[k]]
      BY DEF g
    <3> QED BY <2>3, <3>1 DEF IsLoop
  <2> QED BY <2>4
<1> HIDE DEF S
<1>4. 0..Len(CausalRules) \subseteq S
  BY <1>1, <1>2, <1>3, UpTo
<1> QED BY <1>1, <1>4 DEF S

(* causal_match returns what the loop ends with.                             *)
LEMMA LoopReturns ==
    ASSUME NEW name, NEW others
    PROVE  \E best : /\ IsLoop(name, others, best, Len(CausalRules))
                     /\ causal_match(name, others) = best[Len(CausalRules)]
<1> DEFINE n == Len(CausalRules)
           best == CHOOSE f : IsLoop(name, others, f, n)
<1>1. IsLoop(name, others, best, n)
  BY LoopRuns
<1>2. causal_match(name, others) = best[n]
  BY DEF causal_match, IsLoop, After
<1> QED BY <1>1, <1>2

(* Rule j goes before rule k: it is heavier, or as heavy and written earlier.  *)
Beats(j, k) ==
    \/ CausalRules[j].weight > CausalRules[k].weight
    \/ CausalRules[j].weight = CausalRules[k].weight /\ j < k

(* b is the best of the first n rules.                                      *)
BestOf(name, others, b, n) ==
    LET ks == {k \in Matching(name, others) : k <= n}
    IN  IF ks = {} THEN b = 0 ELSE b \in ks /\ \A j \in ks \ {b} : Beats(b, j)

(* The loop of causal_match, whose running best is replaced by heavier rules   *)
(* only (rules.py:74-82), returns nothing exactly if no rule matches, else the *)
(* heaviest rule that does, of several the one written first, for any rules    *)
(* and weights.                                                             *)
THEOREM CausalMatchIsHeaviest ==
    ASSUME NEW name, NEW others
    PROVE  LET k == causal_match(name, others)
           IN  /\ k = 0 <=> Matching(name, others) = {}
               /\ k # 0 => k \in Matching(name, others)
               /\ \A j \in Matching(name, others) \ {k} : Beats(k, j)
<1> DEFINE n == Len(CausalRules)
<1>1. /\ n \in Nat /\ Matching(name, others) \subseteq 1..n
      /\ \A k \in 1..n : CausalRules[k].weight \in Int
  BY RulesAssumption DEF Matching
<1>2. PICK best : /\ IsLoop(name, others, best, n)
                  /\ causal_match(name, others) = best[n]
  BY LoopReturns
<1> DEFINE S == {m \in 0..n : BestOf(name, others, best[m], m)}
<1>3. 0 \in S
  <2>1. best[0] = 0
    BY <1>1, <1>2 DEF IsLoop
  <2>2. {k \in Matching(name, others) : k <= 0} = {}
    BY <1>1
  <2> QED BY <1>1, <2>1, <2>2 DEF BestOf
<1>4. ASSUME NEW m \in 1..n, m - 1 \in S
      PROVE  m \in S
  <2> DEFINE b == best[m - 1]
             ks == {k \in Matching(name, others) : k <= m - 1}
             more == {k \in Matching(name, others) : k <= m}
  <2>1. m - 1 \in 0..n /\ m \in 0..n /\ m \in Nat /\ m # 0
    BY <1>1
  <2>2. best[m] = After(name, others, b, m)
    BY <1>2, <2>1 DEF IsLoop
  <2>3. IF ks = {} THEN b = 0 ELSE b \in ks /\ \A j \in ks \ {b} : Beats(b, j)
    BY <1>4 DEF BestOf
  <2>4. role(CausalRules[m], name, others) # "none" <=> m \in Matching(name, others)
    BY RulesAssumption DEF Matching
  <2>5. more = IF m \in Matching(name, others) THEN ks \cup {m} ELSE ks
    BY <1>1, <2>1
  <2>6. ks \subseteq 1..(m - 1)
    BY <1>1, <2>1
  <2> SUFFICES IF more = {} THEN best[m] = 0
               ELSE best[m] \in more /\ \A j \in more \ {best[m]} : Beats(best[m], j)
    BY <2>1 DEF BestOf
  <2> HIDE DEF b, ks, more
  <2>7. CASE m \notin Matching(name, others)
    BY <2>2, <2>3, <2>4, <2>5, <2>7 DEF After
  <2>8. CASE m \in Matching(name, others) /\ ks = {}
    BY <2>2, <2>3, <2>4, <2>5, <2>8 DEF After
  <2>9. CASE m \in Matching(name, others) /\ ks # {}
    <3>1. b \in ks /\ b \in 1..(m - 1) /\ more = ks \cup {m}
      <4>1. b \in ks
        BY <2>3, <2>9
      <4> QED BY <2>5, <2>6, <2>9, <4>1
    <3>2. ASSUME NEW k \in ks \cup {m}
          PROVE  k \in Int /\ k <= m /\ (k # m => k < m) /\ CausalRules[k].weight \in Int
      <4>1. CASE k = m
        BY <1>1, <2>1, <4>1
      <4>2. CASE k \in ks
        <5>1. k \in 1..(m - 1)
          BY <2>6, <4>2
        <5>2. k \in 1..n
          BY <1>1, <2>1, <5>1
        <5> QED BY <1>1, <2>1, <5>1, <5>2
      <4> QED BY <4>1, <4>2
    <3>3. CASE CausalRules[m].weight > CausalRules[b].weight
      <4>1. best[m] = m
        BY <2>2, <2>4, <2>9, <3>3 DEF After
      <4>2. ASSUME NEW j \in ks PROVE Beats(m, j)
        <5>1. j = b \/ Beats(b, j)
          BY <2>3, <2>9
        <5> QED BY <3>1, <3>2, <3>3, <5>1 DEF Beats
      <4> QED BY <3>1, <4>1, <4>2
    <3>4. CASE ~(CausalRules[m].weight > CausalRules[b].weight)
      <4>1. best[m] = b
        BY <2>1, <2>2, <3>1, <3>4 DEF After
      <4>2. Beats(b, m)
        BY <2>1, <3>1, <3>2, <3>4 DEF Beats
      <4> QED BY <2>3, <2>9, <3>1, <4>1, <4>2
    <3> QED BY <3>3, <3>4
  <2> QED BY <2>7, <2>8, <2>9
<1> HIDE DEF S
<1>5. 0..n \subseteq S
  BY <1>1, <1>3, <1>4, UpTo
<1>6. BestOf(name, others, best[n], n)
  BY <1>1, <1>5 DEF S
<1>7. Matching(name, others) = {k \in Matching(name, others) : k <= n} /\ 0 \notin Matching(name, others)
  BY <1>1
<1> QED BY <1>2, <1>6, <1>7 DEF BestOf

LEMMA MatchTies ==
    ASSUME NEW R, NEW x, NEW held, causal_match(Name(x), {Name(y) : y \in held}) # 0
    PROVE  \E y \in held : Tied(R, x, y)
<1>1. PICK k : k \in Matching(Name(x), {Name(y) : y \in held})
  BY CausalMatchIsHeaviest
<1>2. k \in DOMAIN CausalRules
  BY <1>1 DEF Matching
<1> QED BY <1>1, <1>2, RuleNames DEF Tied

-----------------------------------------------------------------------------
(* The choices.                                                            *)

LEMMA NeverMutual == \A m, n : never(m, n) <=> never(n, m)
BY DEF never

LEMMA LinkableTies ==
    ASSUME NEW R, NEW a \in Alerts, NEW row, row.root \in row.held, linkable(R, a, row)
    PROVE  \E x \in row.held : Tied(R, a, x)
<1>1. PICK s \in signals(R, a, row) : s \in {"exact_entity", "topology", "causal_rule"}
  BY StrongAssumption DEF linkable, signals
<1>2. CASE s = "exact_entity"
  <2>1. SameEntity(a, row)
    BY <1>1, <1>2 DEF signals
  <2> QED BY <2>1 DEF SameEntity, Entities, Tied
<1>3. CASE s = "topology"
  <2>1. PICK e \in Entities(row) : Near(R, Entity(a), e)
    BY <1>1, <1>3 DEF signals, AtDistance, Near
  <2> QED BY <2>1 DEF Entities, Tied
<1>4. CASE s = "causal_rule"
  <2>1. Causal(a, row) # 0
    BY <1>1, <1>4 DEF signals
  <2>2. causal_match(Name(a), NamesOf(row)) # 0
    BY <2>1 DEF Causal
  <2> QED BY <2>2, MatchTies DEF NamesOf
<1> QED BY <1>1, <1>2, <1>3, <1>4

(* A strong signal from another node is a bridge.                           *)
LEMMA LinkableBridges ==
    ASSUME NEW R, NEW a \in Alerts, NEW row, row.root \in row.held, linkable(R, a, row)
    PROVE  node_compatible(Node(a), row) \/ \E x \in row.held : Bridged(R, a, x)
<1> SUFFICES ASSUME ~node_compatible(Node(a), row)
             PROVE  \E x \in row.held : Bridged(R, a, x)
  OBVIOUS
<1>1. PICK s \in signals(R, a, row) : s \in {"exact_entity", "topology", "causal_rule"}
  BY StrongAssumption DEF linkable, signals
<1>2. CASE s = "exact_entity"
  <2>1. SameEntity(a, row)
    BY <1>1, <1>2 DEF signals
  <2> QED BY <2>1 DEF SameEntity, Entities, Bridged
<1>3. CASE s = "topology"
  <2>1. PICK e \in Entities(row) : Near(R, Entity(a), e)
    BY <1>1, <1>3 DEF signals, AtDistance, Near
  <2> QED BY <2>1 DEF Entities, Bridged
<1>4. CASE s = "causal_rule"
  <2> DEFINE k == causal_match(Name(a), NamesOf(row))
  <2>1. Causal(a, row) # 0
    BY <1>1, <1>4 DEF signals
  <2>2. k # 0 /\ ~CausalRules[k].same_node
    BY <2>1 DEF Causal
  <2>3. k \in Matching(Name(a), NamesOf(row))
    BY <2>2, CausalMatchIsHeaviest
  <2>4. PICK y \in row.held : Explains(k, a, y) \/ Explains(k, y, a)
    BY <2>3, RuleNames DEF NamesOf
  <2>5. k \in DOMAIN CausalRules
    BY <2>3 DEF Matching
  <2> HIDE DEF k
  <2> QED BY <2>2, <2>4, <2>5 DEF Bridged
<1> QED BY <1>1, <1>2, <1>3, <1>4

LEMMA ForcedTies ==
    ASSUME NEW R, NEW a, NEW row, ForcedBy(a, row)
    PROVE  \E x \in row.held : Tied(R, a, x)
BY DEF ForcedBy, NamesOf, Tied

LEMMA UnblockedPeace ==
    ASSUME NEW a, NEW row, ~Blocked(a, row)
    PROVE  \A x \in row.held : ~never(Name(a), Name(x)) /\ ~never(Name(x), Name(a))
BY NeverMutual DEF Blocked, NamesOf

(* What placing a new alert can do to the incidents before reconciling.      *)
LEMMA PlacedCases ==
    ASSUME NEW R, NEW a \in Alerts, NEW t, Sound(incident),
           \A i \in Alerts : Peaceful(incident[i].held),
           NEW f \in Placed(R, a, t)
    PROVE  \/ f \in Opened(R, a, t)
           \/ \E i \in Alerts, rel \in {"SYMPTOM", "ROOT", "UNKNOWN"} :
                 /\ incident[i].status \in {"OPEN", "RESOLVED"}
                 /\ Welcome(R, a, incident[i])
                 /\ f \in Joined(R, a, t, i, rel)
<1>1. CASE f \in UNION {Joined(R, a, t, i, "SYMPTOM") : i \in Forced(a, t)}
  <2>1. PICK i \in Forced(a, t) : f \in Joined(R, a, t, i, "SYMPTOM")
    BY <1>1
  <2>2. i \in Alerts /\ incident[i].status = "OPEN"
    BY DEF Forced, Latest, Candidates
  <2>3. ~Blocked(a, incident[i]) /\ ForcedBy(a, incident[i])
    BY DEF Forced, Latest
  <2>4. Welcome(R, a, incident[i])
    BY <2>3, UnblockedPeace, ForcedTies DEF Welcome, Forced, Latest
  <2> QED BY <2>1, <2>2, <2>4
<1>2. CASE f \in UNION {Joined(R, a, t, i, relation(a, incident[i])) : i \in Best(R, a, t)}
  <2>1. PICK i \in Best(R, a, t) : f \in Joined(R, a, t, i, relation(a, incident[i]))
    BY <1>2
  <2>2. i \in Scored(R, a, t)
    BY <2>1 DEF Best, Latest
  <2>3. i \in Alerts /\ incident[i].status = "OPEN"
    BY <2>2 DEF Scored, Candidates
  <2>4. ~Blocked(a, incident[i]) /\ linkable(R, a, incident[i])
    BY <2>2 DEF Scored
  <2>5. incident[i].root \in incident[i].held
    BY <2>3 DEF Sound
  <2>6. Welcome(R, a, incident[i])
    BY <2>3, <2>4, <2>5, UnblockedPeace, LinkableTies, LinkableBridges DEF Welcome
  <2>7. relation(a, incident[i]) \in {"SYMPTOM", "ROOT", "UNKNOWN"}
    BY DEF relation
  <2> QED BY <2>1, <2>3, <2>6, <2>7
<1>3. CASE f \in UNION {Joined(R, a, t, i, "UNKNOWN") : i \in Recurring(a)}
  <2>1. PICK i \in Recurring(a) : f \in Joined(R, a, t, i, "UNKNOWN")
    BY <1>3
  <2>2. i \in Alerts
    BY DEF Recurring, Latest, Linked
  <2>3. PICK x \in incident[i].held : Fingerprint(x) = Fingerprint(a)
    BY DEF Recurring, Latest, Linked
  <2>4. Name(x) = Name(a) /\ Entity(x) = Entity(a)
    BY <2>3 DEF Fingerprint
  <2>5. \A y \in incident[i].held : ~never(Name(a), Name(y)) /\ ~never(Name(y), Name(a))
    BY <2>2, <2>3, <2>4 DEF Peaceful
  <2>6. Welcome(R, a, incident[i])
    BY <2>3, <2>4, <2>5 DEF Welcome, Tied, Bridged
  <2>7. incident[i].status \in {"OPEN", "RESOLVED"}
    BY <2>2, <2>3 DEF Sound, Rows
  <2> QED BY <2>1, <2>2, <2>6, <2>7
<1> QED BY <1>1, <1>2, <1>3 DEF Placed

(* Reconciling leaves the incidents or merges one pair.                      *)
LEMMA ReconciledCases ==
    ASSUME NEW R, NEW inc, NEW i \in Alerts, inc[i].status = "OPEN",
           NEW f \in Reconciled(R, inc, i)
    PROVE  \/ f = inc
           \/ \E j \in Matches(R, inc, i) : f \in {Merged(inc, j, i), Merged(inc, i, j)}
BY DEF Reconciled

LEMMA MatchesMeans ==
    ASSUME NEW R, NEW inc, NEW i \in Alerts, NEW j \in Matches(R, inc, i)
    PROVE  /\ j \in Alerts /\ j # i
           /\ inc[j].status = "OPEN"
           /\ \A x \in inc[i].held, y \in inc[j].held : ~never(Name(x), Name(y))
           /\ Ruled(inc[i], inc[j]) \/ Near(R, Entity(inc[i].root), Entity(inc[j].root))
           /\ \/ node_compatible(inc[i].node, inc[j])
              \/ Near(R, Entity(inc[i].root), Entity(inc[j].root))
BY DEF Matches, Forbidden, NamesOf

LEMMA MatchTiesPair ==
    ASSUME NEW R, NEW inc, NEW i \in Alerts, NEW j \in Matches(R, inc, i),
           inc[i].root \in inc[i].held, inc[j].root \in inc[j].held
    PROVE  \E x \in inc[i].held, y \in inc[j].held : Tied(R, x, y) /\ Tied(R, y, x)
<1>1. CASE Near(R, Entity(inc[i].root), Entity(inc[j].root))
  <2>1. Tied(R, inc[i].root, inc[j].root)
    BY <1>1 DEF Tied
  <2> QED BY <2>1, TiesMutual
<1>2. CASE \E m \in NamesOf(inc[i]), n \in NamesOf(inc[j]) : force(m, n)
  <2>1. PICK x \in inc[i].held, y \in inc[j].held : force(Name(x), Name(y))
    BY <1>2 DEF NamesOf
  <2>2. Tied(R, x, y)
    BY <2>1 DEF Tied
  <2> QED BY <2>2, TiesMutual
<1>3. CASE \E m \in NamesOf(inc[i]) : causal_match(m, NamesOf(inc[j])) # 0
  <2>1. PICK x \in inc[i].held : causal_match(Name(x), NamesOf(inc[j])) # 0
    BY <1>3 DEF NamesOf
  <2>2. PICK y \in inc[j].held : Tied(R, x, y)
    BY <2>1, MatchTies DEF NamesOf
  <2> QED BY <2>2, TiesMutual
<1>4. CASE \E n \in NamesOf(inc[j]) : causal_match(n, NamesOf(inc[i])) # 0
  <2>1. PICK y \in inc[j].held : causal_match(Name(y), NamesOf(inc[i])) # 0
    BY <1>4 DEF NamesOf
  <2>2. PICK x \in inc[i].held : Tied(R, y, x)
    BY <2>1, MatchTies DEF NamesOf
  <2> QED BY <2>2, TiesMutual
<1> QED BY <1>1, <1>2, <1>3, <1>4, MatchesMeans DEF Ruled

-----------------------------------------------------------------------------
(* The rows the two moves leave.                                            *)

LEMMA AttachedRow ==
    ASSUME NEW row \in Rows, NEW a \in Alerts, NEW t \in Times, NEW rel,
           row.first <= row.last
    PROVE  LET new == Attached(row, a, t, rel)
           IN  /\ new \in Rows
               /\ new.held = row.held \cup {a}
               /\ new.status = "OPEN"
               /\ new.root \in {row.root, a}
               /\ new.first <= new.last
<1> DEFINE mid == [row EXCEPT !.held = @ \cup {a}, !.last = Later(@, t), !.status = "OPEN"]
<1>1. t \in Nat /\ row.last \in Nat /\ row.first \in Nat
  BY TimesAssumption DEF Rows
<1>2. Later(row.last, t) \in Nat /\ row.last <= Later(row.last, t)
  BY <1>1 DEF Later
<1>3. /\ mid \in Rows
      /\ mid.held = row.held \cup {a} /\ mid.status = "OPEN"
      /\ mid.root = row.root /\ mid.first = row.first /\ mid.last = Later(row.last, t)
  BY <1>2 DEF Rows
<1>4. mid.first <= mid.last
  BY <1>1, <1>2, <1>3
<1> HIDE DEF mid
<1> DEFINE node == IF Node(a) # None THEN Node(a) ELSE mid.node
<1>5. node \in {Attr[b].node : b \in Alerts} \cup {None}
  BY <1>3 DEF Rows, Node
<1> DEFINE top == [mid EXCEPT !.root = a, !.node = node]
<1>6. /\ top \in Rows
      /\ top.held = mid.held /\ top.status = mid.status /\ top.root = a
      /\ top.first = mid.first /\ top.last = mid.last
  BY <1>3, <1>5 DEF Rows
<1>7. Attached(row, a, t, rel) \in {mid, top}
  BY DEF Attached, _maybe_promote_root, mid
<1> QED BY <1>3, <1>4, <1>6, <1>7

LEMMA CreatedRow ==
    ASSUME NEW a \in Alerts, NEW t \in Times
    PROVE  LET new == Created(a, t)
           IN  /\ new \in Rows
               /\ new.held = {a} /\ new.status = "OPEN" /\ new.root = a
               /\ new.first <= new.last
BY TimesAssumption DEF Created, Rows, Node, Cluster

LEMMA MergedRows ==
    ASSUME NEW inc \in [Alerts -> Rows], NEW keep \in Alerts, NEW drop \in Alerts, keep # drop
    PROVE  LET f == Merged(inc, keep, drop)
           IN  /\ f = [i \in Alerts |->
                         IF i = keep THEN Kept(inc[keep], inc[drop])
                         ELSE IF i = drop THEN Dropped(inc[drop], keep)
                         ELSE inc[i]]
               /\ f \in [Alerts -> Rows]
               /\ f[keep].held = inc[keep].held \cup inc[drop].held
               /\ f[keep].status = inc[keep].status /\ f[keep].root = inc[keep].root
               /\ f[keep].first = inc[keep].first /\ inc[keep].last <= f[keep].last
               /\ f[drop].held = {} /\ f[drop].status = "MERGED"
               /\ \A i \in Alerts \ {keep, drop} : f[i] = inc[i]
<1> DEFINE kept == Kept(inc[keep], inc[drop])
           dropped == Dropped(inc[drop], keep)
           f == Merged(inc, keep, drop)
<1>1. inc[keep] \in Rows /\ inc[drop] \in Rows
  OBVIOUS
<1>2. f = [i \in Alerts |-> IF i = keep THEN kept ELSE IF i = drop THEN dropped ELSE inc[i]]
  BY DEF Merged
<1>3. inc[keep].last \in Nat /\ inc[drop].last \in Nat
  BY <1>1 DEF Rows
<1>4. Later(inc[keep].last, inc[drop].last) \in Nat
      /\ inc[keep].last <= Later(inc[keep].last, inc[drop].last)
  BY <1>3 DEF Later
<1>5. /\ kept \in Rows
      /\ kept.held = inc[keep].held \cup inc[drop].held
      /\ kept.status = inc[keep].status /\ kept.root = inc[keep].root
      /\ kept.first = inc[keep].first /\ kept.last = Later(inc[keep].last, inc[drop].last)
  BY <1>1, <1>4 DEF Kept, Rows
<1>6. dropped \in Rows /\ dropped.held = {} /\ dropped.status = "MERGED"
  BY <1>1 DEF Dropped, Rows
<1> HIDE DEF kept, dropped, f
<1>7. f \in [Alerts -> Rows]
  BY <1>2, <1>5, <1>6
<1>8. f[keep] = kept /\ f[drop] = dropped /\ \A i \in Alerts \ {keep, drop} : f[i] = inc[i]
  BY <1>2
<1> QED BY <1>2, <1>4, <1>5, <1>6, <1>7, <1>8 DEF kept, dropped, f

-----------------------------------------------------------------------------
(* Peace and coherence of what an incident holds.                            *)

LEMMA CoherentStays ==
    ASSUME NEW R, NEW Q, R \subseteq Q, NEW held, Coherent(R, held)
    PROVE  Coherent(Q, held)
BY TiesStay DEF Coherent

LEMMA CoherentAdd ==
    ASSUME NEW R, NEW held, NEW a, NEW x \in held, Tied(R, a, x), Coherent(R, held)
    PROVE  Coherent(R, held \cup {a})
<1> SUFFICES ASSUME NEW S \in SUBSET (held \cup {a}), S \notin {{}, held \cup {a}}
             PROVE  \E v \in S, w \in (held \cup {a}) \ S : Tied(R, v, w)
  BY DEF Coherent
<1>1. Tied(R, x, a)
  BY TiesMutual
<1>2. CASE S \cap held = {}
  <2>1. a \in S /\ x \in (held \cup {a}) \ S
    BY <1>2
  <2> QED BY <2>1
<1>3. CASE held \subseteq S
  <2>1. x \in S /\ a \in (held \cup {a}) \ S
    BY <1>3
  <2> QED BY <1>1, <2>1
<1>4. CASE S \cap held # {} /\ ~(held \subseteq S)
  <2>1. S \cap held \in SUBSET held /\ S \cap held \notin {{}, held}
    BY <1>4
  <2>2. PICK v \in S \cap held, w \in held \ (S \cap held) : Tied(R, v, w)
    BY <2>1 DEF Coherent
  <2> QED BY <2>2
<1> QED BY <1>2, <1>3, <1>4

LEMMA CoherentUnion ==
    ASSUME NEW R, NEW K, NEW D, NEW x \in K, NEW y \in D, Tied(R, x, y), Tied(R, y, x),
           Coherent(R, K), Coherent(R, D)
    PROVE  Coherent(R, K \cup D)
<1> SUFFICES ASSUME NEW S \in SUBSET (K \cup D), S \notin {{}, K \cup D}
             PROVE  \E v \in S, w \in (K \cup D) \ S : Tied(R, v, w)
  BY DEF Coherent
<1>1. CASE S \cap K \notin {{}, K}
  <2>1. PICK v \in S \cap K, w \in K \ (S \cap K) : Tied(R, v, w)
    BY <1>1 DEF Coherent
  <2> QED BY <2>1
<1>2. CASE S \cap D \notin {{}, D}
  <2>1. PICK v \in S \cap D, w \in D \ (S \cap D) : Tied(R, v, w)
    BY <1>2 DEF Coherent
  <2> QED BY <2>1
<1>3. CASE S \cap K = K /\ S \cap D = {}
  BY <1>3
<1>4. CASE S \cap K = {} /\ S \cap D = D
  BY <1>4
<1>5. ~(S \cap K = K /\ S \cap D = D) /\ ~(S \cap K = {} /\ S \cap D = {})
  OBVIOUS
<1> QED BY <1>1, <1>2, <1>3, <1>4, <1>5

LEMMA PeaceAdd ==
    ASSUME NEW R, NEW a \in Alerts, NEW row, Peaceful(row.held), Welcome(R, a, row)
    PROVE  Peaceful(row.held \cup {a})
<1>1. ~never(Name(a), Name(a))
  BY NeverAssumption DEF never, Names, Name
<1> QED BY <1>1 DEF Peaceful, Welcome

-----------------------------------------------------------------------------
(* The two moves.                                                          *)

Inv(R, inc) ==
    /\ Sound(inc)
    /\ \A i \in Alerts : Peaceful(inc[i].held) /\ Coherent(R, inc[i].held)

LEMMA MergeKeeps ==
    ASSUME NEW R, NEW inc, Inv(R, inc), NEW keep \in Alerts, NEW drop \in Alerts, keep # drop,
           inc[keep].status = "OPEN",
           \A x \in inc[keep].held, y \in inc[drop].held :
                ~never(Name(x), Name(y)) /\ ~never(Name(y), Name(x)),
           \E x \in inc[keep].held, y \in inc[drop].held : Tied(R, x, y) /\ Tied(R, y, x)
    PROVE  Inv(R, Merged(inc, keep, drop))
<1> DEFINE f == Merged(inc, keep, drop)
<1>1. inc \in [Alerts -> Rows]
  BY DEF Inv, Sound
<1>2. /\ f \in [Alerts -> Rows]
      /\ f[keep].held = inc[keep].held \cup inc[drop].held
      /\ f[keep].status = "OPEN" /\ f[keep].root = inc[keep].root
      /\ f[keep].first = inc[keep].first /\ inc[keep].last <= f[keep].last
      /\ f[drop].held = {} /\ f[drop].status = "MERGED"
      /\ \A i \in Alerts \ {keep, drop} : f[i] = inc[i]
  BY <1>1, MergedRows
<1> HIDE DEF f
<1>3. f[keep].root \in f[keep].held /\ f[keep].first <= f[keep].last
  <2>1. inc[keep].root \in inc[keep].held /\ inc[keep].first <= inc[keep].last
    BY DEF Inv, Sound
  <2>2. inc[keep].first \in Nat /\ inc[keep].last \in Nat /\ f[keep].last \in Nat
    BY <1>1, <1>2 DEF Rows
  <2> QED BY <1>2, <2>1, <2>2
<1>4. Sound(f)
  BY <1>2, <1>3 DEF Inv, Sound
<1>5. Peaceful(f[keep].held)
  BY <1>2 DEF Inv, Peaceful
<1>6. Coherent(R, f[keep].held)
  BY <1>2, CoherentUnion DEF Inv
<1>7. Peaceful(f[drop].held) /\ Coherent(R, f[drop].held)
  BY <1>2 DEF Peaceful, Coherent
<1>8. \A i \in Alerts : Peaceful(f[i].held) /\ Coherent(R, f[i].held)
  BY <1>2, <1>5, <1>6, <1>7 DEF Inv
<1> QED BY <1>4, <1>8 DEF Inv, f

LEMMA ReconciledKeeps ==
    ASSUME NEW R, NEW inc, Inv(R, inc), NEW i \in Alerts, inc[i].status = "OPEN",
           NEW f \in Reconciled(R, inc, i)
    PROVE  Inv(R, f)
<1> SUFFICES ASSUME NEW j \in Matches(R, inc, i), f \in {Merged(inc, j, i), Merged(inc, i, j)}
             PROVE  Inv(R, f)
  BY ReconciledCases
<1>1. /\ j \in Alerts /\ j # i /\ inc[j].status = "OPEN"
      /\ \A x \in inc[i].held, y \in inc[j].held :
            ~never(Name(x), Name(y)) /\ ~never(Name(y), Name(x))
  BY MatchesMeans, NeverMutual
<1>2. inc[i].root \in inc[i].held /\ inc[j].root \in inc[j].held
  BY <1>1 DEF Inv, Sound
<1>3. \E x \in inc[i].held, y \in inc[j].held : Tied(R, x, y) /\ Tied(R, y, x)
  BY <1>2, MatchTiesPair
<1> QED BY <1>1, <1>3, MergeKeeps

LEMMA OpenedKeeps ==
    ASSUME NEW R, NEW a \in Alerts, NEW t \in Times, Inv(R, incident)
    PROVE  Inv(R, [incident EXCEPT ![a] = Created(a, t)])
<1> DEFINE inc == [incident EXCEPT ![a] = Created(a, t)]
<1>0. /\ Sound(incident) /\ incident \in [Alerts -> Rows]
      /\ \A i \in Alerts : Peaceful(incident[i].held) /\ Coherent(R, incident[i].held)
  BY DEF Inv, Sound
<1>1. /\ inc \in [Alerts -> Rows] /\ inc[a] = Created(a, t)
      /\ \A i \in Alerts \ {a} : inc[i] = incident[i]
  BY <1>0, CreatedRow
<1> HIDE DEF inc
<1>2. /\ inc[a].held = {a} /\ inc[a].status = "OPEN" /\ inc[a].root = a
      /\ inc[a].first <= inc[a].last
  BY <1>1, CreatedRow
<1>3. Sound(inc)
  BY <1>0, <1>1, <1>2 DEF Sound
<1>4. ~never(Name(a), Name(a))
  BY NeverAssumption DEF never, Names, Name
<1>5. Peaceful(inc[a].held) /\ Coherent(R, inc[a].held)
  BY <1>2, <1>4 DEF Peaceful, Coherent
<1>6. Inv(R, inc)
  BY <1>0, <1>1, <1>3, <1>5 DEF Inv
<1> QED BY <1>6 DEF inc

LEMMA JoinedKeeps ==
    ASSUME NEW R, NEW a \in Alerts, NEW t \in Times, NEW rel, Inv(R, incident),
           NEW i \in Alerts, incident[i].status \in {"OPEN", "RESOLVED"},
           Welcome(R, a, incident[i])
    PROVE  Inv(R, [incident EXCEPT ![i] = Attached(@, a, t, rel)])
<1> DEFINE inc == [incident EXCEPT ![i] = Attached(@, a, t, rel)]
<1>0. /\ Sound(incident) /\ incident \in [Alerts -> Rows]
      /\ \A j \in Alerts : Peaceful(incident[j].held) /\ Coherent(R, incident[j].held)
  BY DEF Inv, Sound
<1>1. incident[i] \in Rows /\ incident[i].root \in incident[i].held
      /\ incident[i].first <= incident[i].last
  BY <1>0 DEF Sound
<1>2. /\ Attached(incident[i], a, t, rel) \in Rows
      /\ Attached(incident[i], a, t, rel).held = incident[i].held \cup {a}
      /\ Attached(incident[i], a, t, rel).status = "OPEN"
      /\ Attached(incident[i], a, t, rel).root \in {incident[i].root, a}
      /\ Attached(incident[i], a, t, rel).first <= Attached(incident[i], a, t, rel).last
  BY <1>1, AttachedRow
<1>3. /\ inc \in [Alerts -> Rows] /\ inc[i] = Attached(incident[i], a, t, rel)
      /\ \A j \in Alerts \ {i} : inc[j] = incident[j]
  BY <1>0, <1>2
<1> HIDE DEF inc
<1>4. Sound(inc)
  BY <1>0, <1>1, <1>2, <1>3 DEF Sound
<1>5. Peaceful(inc[i].held)
  BY <1>0, <1>2, <1>3, PeaceAdd
<1>6. Coherent(R, inc[i].held)
  BY <1>0, <1>2, <1>3, CoherentAdd DEF Welcome
<1>7. Inv(R, inc)
  BY <1>0, <1>3, <1>4, <1>5, <1>6 DEF Inv
<1> QED BY <1>7 DEF inc

LEMMA PlacedKeeps ==
    ASSUME NEW R, NEW a \in Alerts, NEW t \in Times, Inv(R, incident), NEW f \in Placed(R, a, t)
    PROVE  Inv(R, f)
<1>0. /\ Sound(incident) /\ incident \in [Alerts -> Rows]
      /\ \A i \in Alerts : Peaceful(incident[i].held) /\ Coherent(R, incident[i].held)
  BY DEF Inv, Sound
<1>1. CASE f \in Opened(R, a, t)
  <2> DEFINE inc == [incident EXCEPT ![a] = Created(a, t)]
  <2>1. inc[a].status = "OPEN" /\ Inv(R, inc)
    BY <1>0, OpenedKeeps, CreatedRow
  <2>2. f \in Reconciled(R, inc, a)
    BY <1>1 DEF Opened
  <2> HIDE DEF inc
  <2> QED BY <2>1, <2>2, ReconciledKeeps
<1>2. ASSUME NEW i \in Alerts, NEW rel, incident[i].status \in {"OPEN", "RESOLVED"},
             Welcome(R, a, incident[i]), f \in Joined(R, a, t, i, rel)
      PROVE  Inv(R, f)
  <2> DEFINE inc == [incident EXCEPT ![i] = Attached(@, a, t, rel)]
  <2>1. incident[i] \in Rows /\ incident[i].first <= incident[i].last
    BY <1>0, <1>2 DEF Sound
  <2>2. inc[i].status = "OPEN" /\ Inv(R, inc)
    <3>1. inc[i] = Attached(incident[i], a, t, rel)
      BY <1>0
    <3>2. Attached(incident[i], a, t, rel).status = "OPEN"
      BY <2>1, AttachedRow
    <3>3. Inv(R, inc)
      BY <1>2, JoinedKeeps
    <3> QED BY <3>1, <3>2, <3>3
  <2>3. f \in Reconciled(R, inc, i)
    BY <1>2 DEF Joined
  <2> HIDE DEF inc
  <2> QED BY <2>2, <2>3, ReconciledKeeps
<1> QED BY <1>0, <1>1, <1>2, PlacedCases

-----------------------------------------------------------------------------
(* The specification.                                                      *)

IInv ==
    /\ Inv(relations, incident)
    /\ seen \in [Alerts -> Times \cup {None}]
    /\ failures \in 0..MaxFailures

LEMMA InitEstablishes == Init => IInv
<1> SUFFICES ASSUME Init PROVE IInv
  OBVIOUS
<1>1. Absent \in Rows /\ Absent.status = "absent" /\ Absent.held = {}
  BY DEF Absent, Rows
<1>2. Sound(incident)
  BY <1>1 DEF Init, Sound
<1>3. \A i \in Alerts : Peaceful(incident[i].held) /\ Coherent(relations, incident[i].held)
  BY <1>1 DEF Init, Peaceful, Coherent
<1>4. seen \in [Alerts -> Times \cup {None}] /\ failures \in 0..MaxFailures
  BY FailuresAssumption DEF Init
<1> QED BY <1>2, <1>3, <1>4 DEF IInv, Inv

(* Relations are only added.                                                *)
LEMMA InvStays ==
    ASSUME NEW R, NEW Q, R \subseteq Q, NEW inc, Inv(R, inc)
    PROVE  Inv(Q, inc)
BY CoherentStays DEF Inv

LEMMA StepKeeps == IInv /\ [Next]_vars => IInv'
<1> SUFFICES ASSUME IInv, [Next]_vars PROVE IInv'
  OBVIOUS
<1> USE DEF IInv
<1>1. ASSUME NEW a \in Alerts, AlertArrives(a) PROVE IInv'
  <2> DEFINE R == Upserted(relations, Attr[a].facts)
  <2>1. PICK t \in Times : /\ incident' \in Placed(R, a, t)
                           /\ seen' = [seen EXCEPT ![a] = t]
                           /\ relations' = R
    BY <1>1 DEF AlertArrives
  <2>2. relations \subseteq R
    BY DEF Upserted
  <2> HIDE DEF R
  <2>3. Inv(R, incident)
    BY <2>2, InvStays
  <2>4. Inv(R, incident')
    BY <2>1, <2>3, PlacedKeeps
  <2>5. Inv(relations', incident')
    BY <2>1, <2>4
  <2>6. Inv(relations, incident)'
    BY <2>5 DEF Inv, Sound
  <2>7. seen' \in [Alerts -> Times \cup {None}] /\ failures' = failures
    BY <1>1, <2>1 DEF AlertArrives
  <2> QED BY <2>6, <2>7
<1>2. ASSUME NEW a \in Alerts, AttemptFails(a) PROVE IInv'
  BY <1>2, FailuresAssumption DEF AttemptFails, Inv, Sound
<1>3. CASE SessionEnds
  BY <1>3 DEF SessionEnds, Inv, Sound
<1>4. ASSUME NEW r \in ApiRelations, create_relation(r) PROVE IInv'
  <2>1. relations \subseteq relations' /\ UNCHANGED <<incident, seen, failures>>
    BY <1>4 DEF create_relation
  <2>2. Inv(relations', incident)
    BY <2>1, InvStays
  <2> QED BY <2>1, <2>2 DEF Inv, Sound
<1>5. ASSUME NEW i \in Alerts, IncidentCloses(i) PROVE IInv'
  <2>1. /\ incident[i].status = "OPEN"
        /\ incident' = [incident EXCEPT ![i].status = "RESOLVED"]
        /\ UNCHANGED <<seen, relations, failures>>
    BY <1>5 DEF IncidentCloses
  <2>2. incident \in [Alerts -> Rows] /\ incident[i] \in Rows
    BY DEF Inv, Sound
  <2>3. /\ incident'[i] \in Rows /\ incident'[i].status = "RESOLVED"
        /\ incident'[i].held = incident[i].held /\ incident'[i].root = incident[i].root
        /\ incident'[i].first = incident[i].first /\ incident'[i].last = incident[i].last
    BY <2>1, <2>2 DEF Rows
  <2>4. incident' \in [Alerts -> Rows] /\ \A j \in Alerts \ {i} : incident'[j] = incident[j]
    BY <2>1, <2>2, <2>3
  <2>5. Sound(incident')
    BY <2>1, <2>3, <2>4 DEF Inv, Sound
  <2>6. \A j \in Alerts : incident'[j].held = incident[j].held
    BY <2>3, <2>4
  <2>7. Inv(relations, incident')
    BY <2>5, <2>6 DEF Inv
  <2> QED BY <2>1, <2>7 DEF Inv, Sound
<1>6. CASE UNCHANGED vars
  BY <1>6 DEF vars, Inv, Sound
<1> QED BY <1>1, <1>2, <1>3, <1>4, <1>5, <1>6 DEF Next

(* In every behaviour the incidents keep sound rows, peace and coherence.     *)
THEOREM CorrelationInvariant == Spec => []IInv
<1> QED BY InitEstablishes, StepKeeps, PTL DEF Spec

(* Rows, times and failures keep their types (create_incident,               *)
(* attach_alert, merge_incidents).                                          *)
THEOREM CorrelationTypeCorrect == Spec => []TypeOK
<1>1. IInv => TypeOK
  BY DEF IInv, Inv, Sound, TypeOK
<1> QED BY <1>1, CorrelationInvariant, PTL

(* Alerts that exclude each other never share an incident, whatever the rules. *)
THEOREM NeverLinkedNeverTogether == Spec => []NeverTogether
<1>1. IInv => NeverTogether
  BY DEF IInv, Inv, Peaceful, NeverTogether
<1> QED BY <1>1, CorrelationInvariant, PTL

(* No incident falls apart into alerts that nothing but node, cluster or time *)
(* has in common.                                                           *)
THEOREM IncidentsHangTogether == Spec => []TiedTogether
<1>1. IInv => TiedTogether
  BY DEF IInv, Inv, Coherent, TiedTogether
<1> QED BY <1>1, CorrelationInvariant, PTL

-----------------------------------------------------------------------------
(* The nodes of an incident. The row names the node of its root, which is why  *)
(* comparing with the row is enough to keep nodes apart.                      *)

RootOnNode(row) == Node(row.root) # None => row.node = Node(row.root)

(* However the nodes of held are split, a bridge leads across.               *)
Across(R, held, S) ==
    (\E x \in held : Node(x) \in S) /\ (\E y \in held : Node(y) \notin S) =>
        \E x, y \in held : Node(x) \in S /\ Node(y) \notin S /\ Bridged(R, x, y)

Spanned(R, held) == (\A x \in held : Node(x) # None) => \A S : Across(R, held, S)

NodesInv(R, inc) ==
    \A i \in Alerts :
        /\ Spanned(R, inc[i].held)
        /\ inc[i].status \in {"OPEN", "RESOLVED"} => RootOnNode(inc[i])

(* More relations, more bridges.                                            *)
LEMMA SpannedStays ==
    ASSUME NEW R, NEW Q, R \subseteq Q, NEW held, Spanned(R, held)
    PROVE  Spanned(Q, held)
<1>1. \A e : neighbors(R, e) \subseteq neighbors(Q, e)
  BY DEF neighbors
<1>2. ASSUME NEW x, NEW y, Bridged(R, x, y) PROVE Bridged(Q, x, y)
  <2>1. Near(R, Entity(x), Entity(y)) => Near(Q, Entity(x), Entity(y))
    BY <1>1, NearMeans
  <2> QED BY <1>2, <2>1 DEF Bridged
<1> QED BY <1>2 DEF Spanned, Across

(* Bridges lead both ways.                                                  *)
LEMMA BridgesMutual ==
    ASSUME NEW R, NEW x, NEW y, Bridged(R, x, y)
    PROVE  Bridged(R, y, x)
<1>1. Near(R, Entity(x), Entity(y)) => Near(R, Entity(y), Entity(x))
  BY NearMeans, NeighborsMutual
<1> QED BY <1>1 DEF Bridged

(* Two parts with a bridge between them, or with a node in common.           *)
LEMMA SpannedJoin ==
    ASSUME NEW R, NEW A, NEW B, Spanned(R, A), Spanned(R, B), NEW x \in A, NEW y \in B,
           Node(x) = Node(y) \/ Bridged(R, x, y)
    PROVE  Spanned(R, A \cup B)
<1> SUFFICES ASSUME \A v \in A \cup B : Node(v) # None, NEW S,
                    NEW v \in A \cup B, Node(v) \in S, NEW w \in A \cup B, Node(w) \notin S
             PROVE  \E a, b \in A \cup B : Node(a) \in S /\ Node(b) \notin S /\ Bridged(R, a, b)
  BY DEF Spanned, Across
<1>1. Across(R, A, S) /\ Across(R, B, S)
  BY DEF Spanned
<1>2. CASE Node(x) \in S /\ Node(y) \notin S
  BY <1>2
<1>3. CASE Node(x) \notin S /\ Node(y) \in S
  BY <1>3, BridgesMutual
<1>4. CASE Node(x) \in S /\ Node(y) \in S
  BY <1>1, <1>4 DEF Across
<1>5. CASE Node(x) \notin S /\ Node(y) \notin S
  BY <1>1, <1>5 DEF Across
<1> QED BY <1>2, <1>3, <1>4, <1>5

LEMMA SpannedSingle ==
    ASSUME NEW R, NEW a
    PROVE  Spanned(R, {a})
BY DEF Spanned, Across

(* An alert of the same node, or one that is bridged to the incident.         *)
LEMMA SpannedAdd ==
    ASSUME NEW R, NEW a, NEW row, row.root \in row.held, RootOnNode(row), Spanned(R, row.held),
           node_compatible(Node(a), row) \/ \E x \in row.held : Bridged(R, a, x)
    PROVE  Spanned(R, row.held \cup {a})
<1>1. CASE Node(a) = None \/ Node(row.root) = None
  BY <1>1 DEF Spanned
<1>2. CASE \E x \in row.held : Bridged(R, a, x)
  <2>1. PICK x \in row.held : Bridged(R, a, x)
    BY <1>2
  <2>2. Bridged(R, x, a)
    BY <2>1, BridgesMutual
  <2> QED BY <2>2, SpannedSingle, SpannedJoin
<1>3. CASE Node(a) # None /\ Node(row.root) # None /\ node_compatible(Node(a), row)
  <2>1. Node(row.root) = Node(a)
    BY <1>3 DEF RootOnNode, node_compatible
  <2> QED BY <2>1, SpannedSingle, SpannedJoin
<1> QED BY <1>1, <1>2, <1>3

(* Two incidents of one node, or whose roots are near each other.            *)
LEMMA SpannedUnion ==
    ASSUME NEW R, NEW x, NEW y, x.root \in x.held, y.root \in y.held,
           RootOnNode(x), RootOnNode(y), Spanned(R, x.held), Spanned(R, y.held),
           \/ node_compatible(x.node, y)
           \/ Near(R, Entity(x.root), Entity(y.root))
    PROVE  Spanned(R, x.held \cup y.held)
<1>1. CASE Node(x.root) = None \/ Node(y.root) = None
  BY <1>1 DEF Spanned
<1>2. CASE Near(R, Entity(x.root), Entity(y.root))
  <2>1. Bridged(R, x.root, y.root)
    BY <1>2 DEF Bridged
  <2> QED BY <2>1, SpannedJoin
<1>3. CASE Node(x.root) # None /\ Node(y.root) # None /\ node_compatible(x.node, y)
  <2>1. Node(x.root) = Node(y.root)
    BY <1>3 DEF RootOnNode, node_compatible
  <2> QED BY <2>1, SpannedJoin
<1> QED BY <1>1, <1>2, <1>3

(* Whoever becomes the root brings its node along.                          *)
LEMMA AttachedOnNode ==
    ASSUME NEW row \in Rows, NEW a \in Alerts, NEW t, NEW rel, RootOnNode(row)
    PROVE  RootOnNode(Attached(row, a, t, rel))
<1> DEFINE mid == [row EXCEPT !.held = @ \cup {a}, !.last = Later(@, t), !.status = "OPEN"]
           top == [mid EXCEPT !.root = a, !.node = IF Node(a) # None THEN Node(a) ELSE @]
<1>1. mid.root = row.root /\ mid.node = row.node
  BY DEF Rows
<1>2. top.root = a /\ (Node(a) # None => top.node = Node(a))
  BY DEF Rows
<1>3. Attached(row, a, t, rel) \in {mid, top}
  BY DEF Attached, _maybe_promote_root
<1> QED BY <1>1, <1>2, <1>3 DEF RootOnNode

LEMMA ReconciledSpans ==
    ASSUME NEW R, NEW inc, Inv(R, inc), NodesInv(R, inc), NEW i \in Alerts,
           inc[i].status = "OPEN", NEW f \in Reconciled(R, inc, i)
    PROVE  NodesInv(R, f)
<1> SUFFICES ASSUME NEW j \in Matches(R, inc, i), f \in {Merged(inc, j, i), Merged(inc, i, j)}
             PROVE  NodesInv(R, f)
  BY ReconciledCases
<1>1. /\ j \in Alerts /\ j # i /\ inc[j].status = "OPEN"
      /\ \/ node_compatible(inc[i].node, inc[j])
         \/ Near(R, Entity(inc[i].root), Entity(inc[j].root))
  BY MatchesMeans
<1>2. /\ inc \in [Alerts -> Rows]
      /\ inc[i].root \in inc[i].held /\ inc[j].root \in inc[j].held
      /\ RootOnNode(inc[i]) /\ RootOnNode(inc[j])
      /\ Spanned(R, inc[i].held) /\ Spanned(R, inc[j].held)
  BY <1>1 DEF Inv, Sound, NodesInv
<1>3. Spanned(R, inc[i].held \cup inc[j].held)
  BY <1>1, <1>2, SpannedUnion
<1>4. ASSUME NEW keep \in {i, j}, NEW drop \in {i, j}, keep # drop, f = Merged(inc, keep, drop)
      PROVE  NodesInv(R, f)
  <2>1. /\ f[keep] = Kept(inc[keep], inc[drop])
        /\ f[drop].held = {} /\ f[drop].status = "MERGED"
        /\ \A k \in Alerts \ {keep, drop} : f[k] = inc[k]
    BY <1>1, <1>2, <1>4, MergedRows
  <2>2. /\ f[keep].held = inc[i].held \cup inc[j].held
        /\ f[keep].root = inc[keep].root /\ f[keep].node = inc[keep].node
    BY <1>1, <1>2, <1>4, <2>1 DEF Kept, Rows
  <2>3. Spanned(R, f[keep].held) /\ RootOnNode(f[keep])
    BY <1>2, <1>3, <1>4, <2>2 DEF RootOnNode
  <2>4. Spanned(R, f[drop].held)
    BY <2>1 DEF Spanned, Across
  <2> QED BY <2>1, <2>3, <2>4 DEF NodesInv
<1> QED BY <1>1, <1>4

LEMMA PlacedSpans ==
    ASSUME NEW R, NEW a \in Alerts, NEW t \in Times, Inv(R, incident), NodesInv(R, incident),
           NEW f \in Placed(R, a, t)
    PROVE  NodesInv(R, f)
<1>0. /\ Sound(incident) /\ incident \in [Alerts -> Rows]
      /\ \A i \in Alerts : Peaceful(incident[i].held) /\ Coherent(R, incident[i].held)
  BY DEF Inv, Sound
<1>1. CASE f \in Opened(R, a, t)
  <2> DEFINE inc == [incident EXCEPT ![a] = Created(a, t)]
  <2>1. /\ inc[a] = Created(a, t) /\ \A i \in Alerts \ {a} : inc[i] = incident[i]
    BY <1>0
  <2>2. f \in Reconciled(R, inc, a)
    BY <1>1 DEF Opened
  <2>3. Inv(R, inc) /\ inc[a].status = "OPEN"
    BY <1>0, OpenedKeeps, CreatedRow
  <2> HIDE DEF inc
  <2>4. inc[a].held = {a} /\ inc[a].root = a /\ inc[a].node = Node(a)
    BY <2>1 DEF Created
  <2>5. Spanned(R, inc[a].held) /\ RootOnNode(inc[a])
    BY <2>4, SpannedSingle DEF RootOnNode
  <2>6. NodesInv(R, inc)
    BY <2>1, <2>5 DEF NodesInv
  <2> QED BY <2>2, <2>3, <2>6, ReconciledSpans
<1>2. ASSUME NEW i \in Alerts, NEW rel, incident[i].status \in {"OPEN", "RESOLVED"},
             Welcome(R, a, incident[i]), f \in Joined(R, a, t, i, rel)
      PROVE  NodesInv(R, f)
  <2> DEFINE inc == [incident EXCEPT ![i] = Attached(@, a, t, rel)]
  <2>1. /\ incident[i] \in Rows /\ incident[i].root \in incident[i].held
        /\ incident[i].first <= incident[i].last
        /\ RootOnNode(incident[i]) /\ Spanned(R, incident[i].held)
    BY <1>0, <1>2 DEF Sound, NodesInv
  <2>2. Inv(R, inc) /\ inc[i].status = "OPEN" /\ inc[i].held = incident[i].held \cup {a}
    <3>1. inc[i] = Attached(incident[i], a, t, rel)
      BY <1>0
    <3>2. /\ Attached(incident[i], a, t, rel).status = "OPEN"
          /\ Attached(incident[i], a, t, rel).held = incident[i].held \cup {a}
      BY <2>1, AttachedRow
    <3>3. Inv(R, inc)
      BY <1>2, JoinedKeeps
    <3> QED BY <3>1, <3>2, <3>3
  <2>3. inc[i] = Attached(incident[i], a, t, rel) /\ \A j \in Alerts \ {i} : inc[j] = incident[j]
    BY <1>0
  <2>4. f \in Reconciled(R, inc, i)
    BY <1>2 DEF Joined
  <2> HIDE DEF inc
  <2>5. RootOnNode(inc[i])
    BY <2>1, <2>3, AttachedOnNode
  <2>6. Spanned(R, inc[i].held)
    <3>1. \/ node_compatible(Node(a), incident[i])
          \/ \E x \in incident[i].held : Bridged(R, a, x)
      BY <1>2 DEF Welcome
    <3>2. Spanned(R, incident[i].held \cup {a})
      BY <2>1, <3>1, SpannedAdd
    <3> QED BY <2>2, <3>2
  <2>7. NodesInv(R, inc)
    BY <2>3, <2>5, <2>6 DEF NodesInv
  <2> QED BY <2>2, <2>4, <2>7, ReconciledSpans
<1> QED BY <1>0, <1>1, <1>2, PlacedCases

LEMMA NodesStep == IInv /\ NodesInv(relations, incident) /\ [Next]_vars => NodesInv(relations, incident)'
<1> SUFFICES ASSUME IInv, NodesInv(relations, incident), [Next]_vars
             PROVE  NodesInv(relations, incident)'
  OBVIOUS
<1>0. Inv(relations, incident) /\ incident \in [Alerts -> Rows]
  BY DEF IInv, Inv, Sound
<1>1. ASSUME NEW a \in Alerts, AlertArrives(a) PROVE NodesInv(relations, incident)'
  <2> DEFINE R == Upserted(relations, Attr[a].facts)
  <2>1. PICK t \in Times : incident' \in Placed(R, a, t) /\ relations' = R
    BY <1>1 DEF AlertArrives
  <2>2. relations \subseteq R
    BY DEF Upserted
  <2> HIDE DEF R
  <2>3. Inv(R, incident) /\ NodesInv(R, incident)
    BY <1>0, <2>2, InvStays, SpannedStays DEF NodesInv
  <2>4. NodesInv(R, incident')
    BY <2>1, <2>3, PlacedSpans
  <2> QED BY <2>1, <2>4 DEF NodesInv
<1>2. ASSUME NEW a \in Alerts, AttemptFails(a) PROVE NodesInv(relations, incident)'
  BY <1>2 DEF AttemptFails, NodesInv
<1>3. CASE SessionEnds
  BY <1>3 DEF SessionEnds, NodesInv
<1>4. ASSUME NEW r \in ApiRelations, create_relation(r) PROVE NodesInv(relations, incident)'
  <2>1. relations \subseteq relations' /\ UNCHANGED incident
    BY <1>4 DEF create_relation
  <2> QED BY <2>1, SpannedStays DEF NodesInv
<1>5. ASSUME NEW i \in Alerts, IncidentCloses(i) PROVE NodesInv(relations, incident)'
  <2>1. /\ incident[i].status = "OPEN" /\ UNCHANGED relations
        /\ incident' = [incident EXCEPT ![i].status = "RESOLVED"]
    BY <1>5 DEF IncidentCloses
  <2>2. \A j \in Alerts : /\ incident'[j].held = incident[j].held
                           /\ incident'[j].root = incident[j].root
                           /\ incident'[j].node = incident[j].node
                           /\ j # i => incident'[j] = incident[j]
    BY <1>0, <2>1 DEF Rows
  <2> QED BY <2>1, <2>2 DEF NodesInv, RootOnNode
<1>6. CASE UNCHANGED vars
  BY <1>6 DEF vars, NodesInv
<1> QED BY <1>1, <1>2, <1>3, <1>4, <1>5, <1>6 DEF Next

(* However many nodes an incident spans, each is bridged to the others by a   *)
(* moved entity, the topology or a rule written for it, whatever rules and    *)
(* weights are used.                                                        *)
THEOREM NodesStayApart == Spec => []NodesTied
<1>1. Init => NodesInv(relations, incident)
  <2>1. Absent.held = {} /\ Absent.status = "absent"
    BY DEF Absent
  <2>2. Spanned(relations, {})
    BY DEF Spanned, Across
  <2> QED BY <2>1, <2>2 DEF Init, NodesInv
<1>2. NodesInv(relations, incident) => NodesTied
  <2> SUFFICES ASSUME NodesInv(relations, incident), NEW i \in Alerts,
                      None \notin {Node(x) : x \in incident[i].held},
                      NEW S \in (SUBSET {Node(x) : x \in incident[i].held})
                                    \ {{}, {Node(x) : x \in incident[i].held}}
               PROVE  \E x, y \in incident[i].held :
                          Node(x) \in S /\ Node(y) \notin S /\ Bridged(relations, x, y)
    BY DEF NodesTied
  <2>1. Across(relations, incident[i].held, S)
    BY DEF NodesInv, Spanned
  <2>2. (\E x \in incident[i].held : Node(x) \in S) /\ (\E y \in incident[i].held : Node(y) \notin S)
    OBVIOUS
  <2> QED BY <2>1, <2>2 DEF Across
<1> QED BY <1>1, <1>2, NodesStep, CorrelationInvariant, PTL DEF Spec

=============================================================================
