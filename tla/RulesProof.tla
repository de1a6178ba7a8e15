----------------------------- MODULE RulesProof -----------------------------
(***************************************************************************)
(* What the invariants of the control-plane modules that keep the rules of *)
(* a stage rest on: Route, Acl, Vlan and Qos, for any sizes of tables and  *)
(* TCAMs, any addresses, prefixes, ports and VLANs.  The first part        *)
(* states what they share: facts about StageRules and about the numbers    *)
(* they make indices of.                                                   *)
(***************************************************************************)
EXTENDS Route, Acl, Vlan, Qos, FiniteSetTheorems, WellFoundedInduction, TLAPS

(* A nonempty set of natural numbers has a least one, which Min returns:   *)
(* the slot that a search from slot 0 upwards ends at is one of those it   *)
(* looks for.                                                              *)
LEMMA MinOfNaturals ==
    ASSUME NEW S \in SUBSET Nat, S # {}
    PROVE  Min(S) \in S /\ \A y \in S : Min(S) =< y
<1> DEFINE Less == {p \in Nat \X Nat : p[1] < p[2]}
<1>1. IsWellFoundedOn(Less, Nat)
    BY NatLessThanWellFounded DEF OpToRel
<1>2. \E x \in S : \A y \in S : ~ (<<y, x>> \in Less)
    BY <1>1, WFMin, Zenon
<1>3. PICK x \in S : \A y \in S : ~ (<<y, x>> \in Less)
    BY <1>2
<1>4. \A y \in S : x =< y
  <2> SUFFICES ASSUME NEW y \in S PROVE x =< y
    OBVIOUS
  <2>1. ~ (y < x)
    BY <1>3
  <2> QED
    BY <2>1
<1> HIDE DEF Less
<1> QED
    BY <1>4 DEF Min

(* Shifting right by n bits divides by 2^n, which is not zero: the powers  *)
(* of two count the subsets of a set.                                      *)
LEMMA PowerOfTwo ==
    ASSUME NEW n \in Nat
    PROVE  2 ^ n \in Nat \ {0}
<1>1. IsFiniteSet(1 .. n) /\ Cardinality(1 .. n) = n
    BY FS_Interval
<1>2. IsFiniteSet(SUBSET (1 .. n)) /\ Cardinality(SUBSET (1 .. n)) = 2 ^ n
    BY <1>1, FS_SUBSET
<1>3. 2 ^ n \in Nat
    BY <1>2, FS_CardinalityType
<1>4. 2 ^ n # 0
    BY <1>2, FS_EmptySet
<1> QED
    BY <1>3, <1>4

(* A bounded set of natural numbers that is not empty has a greatest one.  *)
LEMMA MaxOfNaturals ==
    ASSUME NEW S \in SUBSET Nat, S # {}, NEW b \in Nat, \A x \in S : x <= b
    PROVE  Max(S) \in S
<1> DEFINE T == {b - x : x \in S}
<1>1. T \in SUBSET Nat /\ T # {}
  <2>1. \A x \in S : x \in Nat /\ x <= b
    OBVIOUS
  <2>2. \A x \in S : b - x \in Nat
    BY <2>1
  <2>3. PICK x \in S : TRUE
    OBVIOUS
  <2>4. b - x \in T
    OBVIOUS
  <2> QED
    BY <2>2, <2>4
<1>2. Min(T) \in T /\ \A y \in T : Min(T) =< y
  <2> HIDE DEF T
  <2> QED
    BY <1>1, MinOfNaturals
<1>3. PICK x \in S : b - x = Min(T)
    BY <1>2
<1>4. \A y \in S : b - x =< b - y
    BY <1>2, <1>3
<1>5. \A y \in S : x >= y
    BY <1>4
<1> HIDE DEF T
<1> QED
    BY <1>5 DEF Max

(* The remainder and the quotient of a natural number.                     *)
LEMMA CutToWidth ==
    ASSUME NEW n \in Nat, NEW d \in Nat \ {0}
    PROVE  n % d \in 0 .. d - 1 /\ n \div d \in Nat
    OBVIOUS

(* One command changes the rule at one index, or leaves it and is noted as *)
(* lost; no other index is touched.                                        *)
LEMMA CommandFacts ==
    ASSUME NEW Index, NEW Rule, NEW stage \in StageOf(Index, Rule),
           NEW t \in Index, NEW rule \in Rule \cup {NoRule}, NEW applied \in BOOLEAN,
           NEW after, after = hal_tcam_insert(stage, t, rule, applied)
    PROVE  /\ after \in StageOf(Index, Rule)
           /\ t \notin after.lost => after.at[t] = rule
           /\ after.at[t] \in {rule, stage.at[t]}
           /\ \A u \in Index \ {t} :
                 after.at[u] = stage.at[u] /\ (u \in after.lost <=> u \in stage.lost)
<1>1. CASE applied
    BY <1>1 DEF hal_tcam_insert, StageOf
<1>2. CASE ~applied
  <2>1. after = [at |-> stage.at, lost |-> stage.lost \cup {t}]
    BY <1>2 DEF hal_tcam_insert, StageOf
  <2> QED
    BY <2>1 DEF StageOf
<1> QED
    BY <1>1, <1>2

(* A stage without rules.                                                  *)
LEMMA EmptyFacts ==
    ASSUME NEW Index, NEW Rule
    PROVE  /\ EmptyStage(Index) \in StageOf(Index, Rule)
           /\ \A t \in Index : EmptyStage(Index).at[t] = NoRule
    BY DEF EmptyStage, StageOf

(* A number is its quotient's multiple of n and its remainder.             *)
LEMMA QuotientAndRemainder ==
    ASSUME NEW n \in Nat \ {0}, NEW x \in Nat
    PROVE  /\ x \div n \in Nat /\ x % n \in 0 .. n - 1
           /\ x = n * (x \div n) + (x % n)
    OBVIOUS

(* Multiples of n are n apart.                                             *)
LEMMA NextMultiple ==
    ASSUME NEW n \in Nat \ {0}, NEW q \in Nat, NEW s \in Nat, s < q
    PROVE  n * s + n <= n * q
<1>1. n * (q - s - 1) >= 0
    OBVIOUS
<1>2. n * (q - s - 1) = n * q - n * s - n
    OBVIOUS
<1> QED
    BY <1>1, <1>2

(* A number below n is the remainder of itself and a multiple of n.        *)
LEMMA RemainderOfMultiple ==
    ASSUME NEW n \in Nat \ {0}, NEW j \in Nat, NEW v \in 0 .. n - 1
    PROVE  (n * j + v) % n = v
<1> DEFINE x == n * j + v
           m == x \div n
           J == n * j
           M == n * m
<1>1. x \in Nat /\ J \in Nat
    OBVIOUS
<1>2. m \in Nat /\ x % n \in 0 .. n - 1 /\ x = M + (x % n)
  <2> HIDE DEF x
  <2> QED
    BY <1>1, QuotientAndRemainder
<1>3. M \in Nat
    BY <1>2
<1>4. (j < m => J + n <= M) /\ (m < j => M + n <= J) /\ (j = m => J = M)
    BY <1>2, NextMultiple
<1>5. x = J + v
    OBVIOUS
<1> HIDE DEF x, m, J, M
<1>6. x % n = v
    BY <1>1, <1>2, <1>3, <1>4, <1>5
<1> QED
    BY <1>6 DEF x

(* Cutting a number to d does not change its remainder by a divisor of d.  *)
LEMMA RemainderOfCut ==
    ASSUME NEW n \in Nat \ {0}, NEW d \in Nat \ {0}, d % n = 0,
           NEW j \in Nat, NEW v \in 0 .. n - 1
    PROVE  ((n * j + v) % d) % n = v
<1> DEFINE x == n * j + v
           c == x \div d
           r == x % d
           k == d \div n
           i == j - k * c
<1>1. x \in Nat
    OBVIOUS
<1>2. c \in Nat /\ r \in Nat /\ x = d * c + r
  <2> HIDE DEF x
  <2> QED
    BY <1>1, QuotientAndRemainder
<1>3. k \in Nat /\ d = n * k
    BY QuotientAndRemainder
<1> HIDE DEF c, r, k
<1>4. i \in Int
    BY <1>2, <1>3
<1>5. d * c = n * (k * c)
    BY <1>2, <1>3
<1>6. n * i = n * j - n * (k * c)
    BY <1>2, <1>3
<1>7. n * j \in Int /\ n * (k * c) \in Int
    BY <1>2, <1>3
<1>8. r = n * i + v
    BY <1>2, <1>5, <1>6, <1>7
<1> HIDE DEF i
<1>9. i >= 0
  <2> SUFFICES ASSUME i < 0 PROVE FALSE
    BY <1>4
  <2>1. n * (0 - i - 1) >= 0
    BY <1>4
  <2>2. n * (0 - i - 1) = 0 - n * i - n
    BY <1>4
  <2>3. n * i \in Int
    BY <1>4
  <2> QED
    BY <1>2, <1>8, <2>1, <2>2, <2>3
<1>10. r % n = v
    BY <1>4, <1>8, <1>9, RemainderOfMultiple
<1> QED
    BY <1>10 DEF r

-----------------------------------------------------------------------------
(* The routes.                                                             *)

(* No prefix is in two slots: route_add looks for it before it takes one.  *)
OneSlotPerPrefix ==
    \A i, j \in RouteValid :
        /\ route_table[i].prefix = route_table[j].prefix
        /\ route_table[i].len = route_table[j].len
        => i = j

(* A route's rule stands at the route's own index, main's at the last.     *)
RuleAtHome ==
    \A t \in RouteIndex :
        /\ stage0.at[t] \in RouteEntry => IdOf(stage0.at[t]) = t
        /\ stage0.at[t] = DefaultRule => t = DefaultId

(* route_init finds no rules: main calls it first.                         *)
NoRulesBeforeInit == route_boot = 0 => \A t \in RouteIndex : stage0.at[t] = NoRule

RouteIInv ==
    /\ RouteTypeOK /\ OneSlotPerPrefix /\ RuleAtHome /\ NoRulesBeforeInit
    /\ NoOrphanRoute

Rules == RouteEntry \cup {DefaultRule}

-----------------------------------------------------------------------------
(* The index of a prefix is an index of the TCAM.                          *)
LEMMA IdInIndex ==
    ASSUME NEW p \in Prefixes
    PROVE  route_tcam_id(p[1], p[2]) \in RouteIndex
<1>1. p[1] \in Nat /\ p[2] \in Nat /\ p[2] <= AddrBits /\ AddrBits \in Nat /\ IndexBits \in Nat
    BY PrefixAssumption, WidthAssumption, PowerOfTwo DEF Addr
<1>2. 2 ^ IndexBits \in Nat \ {0}
    BY <1>1, PowerOfTwo
<1>3. AddrBits - p[2] \in Nat
    BY <1>1
<1>4. 2 ^ (AddrBits - p[2]) \in Nat \ {0}
    BY <1>3, PowerOfTwo
<1> DEFINE n == p[1] \div 2 ^ (AddrBits - p[2])
<1>5. n \in Nat
    BY <1>1, <1>4, CutToWidth
<1>6. n % 2 ^ IndexBits \in 0 .. 2 ^ IndexBits - 1
    BY <1>2, <1>5, CutToWidth
<1>7. 0 \in 0 .. 2 ^ IndexBits - 1
    BY <1>2
<1> QED
    BY <1>6, <1>7 DEF route_tcam_id, RouteIndex

LEMMA DefaultInIndex == DefaultId \in RouteIndex
<1>1. 2 ^ IndexBits \in Nat \ {0}
    BY WidthAssumption, PowerOfTwo
<1> QED
    BY <1>1 DEF DefaultId, RouteIndex

(* A route is a prefix in use with its hop.                                *)
LEMMA EntryFacts ==
    /\ \A e \in RouteEntry : /\ <<e.prefix, e.len>> \in Prefixes /\ e.hop \in Hops
                        /\ e = [prefix |-> e.prefix, len |-> e.len, hop |-> e.hop]
    /\ \A p \in Prefixes, h \in Hops : [prefix |-> p[1], len |-> p[2], hop |-> h] \in RouteEntry
    /\ \A e \in RouteEntry : IdOf(e) \in RouteIndex
    /\ DefaultRule \notin RouteEntry
<1>1. \A p \in Prefixes : p = <<p[1], p[2]>>
    BY PrefixAssumption
<1>2. \A e \in RouteEntry : /\ <<e.prefix, e.len>> \in Prefixes /\ e.hop \in Hops
                       /\ e = [prefix |-> e.prefix, len |-> e.len, hop |-> e.hop]
    BY <1>1 DEF RouteEntry
<1>3. \A e \in RouteEntry : IdOf(e) \in RouteIndex
  <2> SUFFICES ASSUME NEW e \in RouteEntry PROVE IdOf(e) \in RouteIndex
    OBVIOUS
  <2>1. <<e.prefix, e.len>> \in Prefixes
    BY <1>2
  <2>2. route_tcam_id(<<e.prefix, e.len>>[1], <<e.prefix, e.len>>[2]) \in RouteIndex
    BY <2>1, IdInIndex
  <2> QED
    BY <2>2 DEF IdOf
<1>4. DefaultRule \notin RouteEntry
    BY <1>2, NoRouteAssumption DEF DefaultRule
<1> QED
    BY <1>2, <1>3, <1>4 DEF RouteEntry

-----------------------------------------------------------------------------
(* The table after route_add: one slot holds the new route, the others are *)
(* as before and hold other prefixes.                                      *)
LEMMA AddTable ==
    ASSUME RouteTypeOK, OneSlotPerPrefix,
           NEW p \in Prefixes, NEW h \in Hops, NEW applied \in BOOLEAN,
           route_add(p[1], p[2], h, applied)
    PROVE  LET e == [prefix |-> p[1], len |-> p[2], hop |-> h]
           IN  /\ route_table' \in [RouteSlot -> RouteEntry \cup {NoRoute}]
               /\ OneSlotPerPrefix'
               /\ e \in Live'
               /\ \A f \in Live' : f = e \/ <<f.prefix, f.len>> # p
               /\ \A f \in Live' : f = e \/ f \in Live
               /\ \A f \in Live : f \in Live' \/ <<f.prefix, f.len>> = p
<1> DEFINE e    == [prefix |-> p[1], len |-> p[2], hop |-> h]
           held == Holding(p[1], p[2])
           at   == IF held # {} THEN held ELSE RouteSlot \ RouteValid
           k    == Min(at)
<1>1. at # {} /\ route_table' = [route_table EXCEPT ![k] = e]
    BY DEF route_add
<1>2. at \in SUBSET Nat /\ at \subseteq RouteSlot
    BY RouteTableAssumption DEF Holding, RouteValid, RouteSlot
<1>3. k \in at
  <2> HIDE DEF at
  <2> QED
    BY <1>1, <1>2, MinOfNaturals
<1>4. k \in RouteSlot /\ e \in RouteEntry
    BY <1>2, <1>3, EntryFacts
<1>5. p = <<p[1], p[2]>> /\ e.prefix = p[1] /\ e.len = p[2]
    BY PrefixAssumption
<1>6. \A i \in held : i = k
    BY <1>3 DEF OneSlotPerPrefix, Holding
<1> HIDE DEF k, at
<1>7. /\ route_table' \in [RouteSlot -> RouteEntry \cup {NoRoute}]
      /\ route_table'[k] = e
      /\ \A i \in RouteSlot \ {k} : route_table'[i] = route_table[i]
    BY <1>1, <1>4 DEF RouteTypeOK
<1>8. RouteValid' = RouteValid \cup {k}
    BY <1>4, <1>7, NoRouteAssumption DEF RouteValid
<1>9. \A i \in RouteValid' \ {k} : i \in RouteValid /\ i \notin held
    BY <1>6, <1>8
<1>10. \A i \in RouteValid' \ {k} :
          ~(route_table'[i].prefix = p[1] /\ route_table'[i].len = p[2])
    BY <1>7, <1>9 DEF Holding, RouteValid
<1>11. OneSlotPerPrefix'
  <2> SUFFICES ASSUME NEW i \in RouteValid', NEW j \in RouteValid',
                      route_table'[i].prefix = route_table'[j].prefix,
                      route_table'[i].len = route_table'[j].len
               PROVE  i = j
    BY DEF OneSlotPerPrefix
  <2>1. CASE i = k
    BY <2>1, <1>5, <1>7, <1>10
  <2>2. CASE j = k
    BY <2>2, <1>5, <1>7, <1>10
  <2>3. CASE i # k /\ j # k
    BY <2>3, <1>7, <1>9 DEF OneSlotPerPrefix, RouteValid
  <2> QED
    BY <2>1, <2>2, <2>3
<1>12. e \in Live'
    BY <1>7, <1>8 DEF Live
<1>13. \A f \in Live' : f = e \/ (f \in Live /\ <<f.prefix, f.len>> # p)
  <2> SUFFICES ASSUME NEW i \in RouteValid', i # k
               PROVE  /\ route_table'[i] \in Live
                      /\ <<route_table'[i].prefix, route_table'[i].len>> # p
    BY <1>7 DEF Live
  <2> QED
    BY <1>5, <1>7, <1>9, <1>10 DEF Live, RouteValid
<1>14. \A f \in Live : f \in Live' \/ <<f.prefix, f.len>> = p
  <2> SUFFICES ASSUME NEW i \in RouteValid
               PROVE  \/ route_table[i] \in Live'
                      \/ <<route_table[i].prefix, route_table[i].len>> = p
    BY DEF Live
  <2>1. CASE i # k
    BY <2>1, <1>7, <1>8 DEF Live, RouteValid
  <2>2. CASE i = k
    BY <2>2, <1>3, <1>5 DEF at, Holding
  <2> QED
    BY <2>1, <2>2
<1> QED
    BY <1>7, <1>11, <1>12, <1>13, <1>14

(* The table after route_del: no slot holds the prefix, and the others are *)
(* as before.                                                              *)
LEMMA DelTable ==
    ASSUME RouteTypeOK, OneSlotPerPrefix,
           NEW p \in Prefixes, NEW applied \in BOOLEAN, route_del(p[1], p[2], applied)
    PROVE  /\ route_table' \in [RouteSlot -> RouteEntry \cup {NoRoute}]
           /\ OneSlotPerPrefix'
           /\ \A f \in Live' : f \in Live /\ <<f.prefix, f.len>> # p
           /\ \A f \in Live : f \in Live' \/ <<f.prefix, f.len>> = p
<1> DEFINE held == Holding(p[1], p[2])
<1>1. p = <<p[1], p[2]>>
    BY PrefixAssumption
<1>2. held \in SUBSET Nat
    BY RouteTableAssumption DEF Holding, RouteValid, RouteSlot
<1>3. \A i \in held : held # {} /\ i = Min(held)
  <2> SUFFICES ASSUME NEW i \in held PROVE i = Min(held)
    OBVIOUS
  <2>1. Min(held) \in held
    <3> HIDE DEF held
    <3> QED
      BY <1>2, MinOfNaturals
  <2> QED
    BY <2>1 DEF OneSlotPerPrefix, Holding
<1>4. route_table' = [i \in RouteSlot |-> IF held # {} /\ i = Min(held) THEN NoRoute
                                                                   ELSE route_table[i]]
    BY DEF route_del
<1>5. /\ route_table' \in [RouteSlot -> RouteEntry \cup {NoRoute}]
      /\ \A i \in RouteValid' :
            i \in RouteValid /\ i \notin held /\ route_table'[i] = route_table[i]
  <2>1. \A i \in RouteSlot : route_table'[i] = NoRoute \/ route_table'[i] = route_table[i]
    BY <1>4
  <2>2. \A i \in held : route_table'[i] = NoRoute
    BY <1>3, <1>4 DEF Holding, RouteValid
  <2> QED
    BY <1>4, <2>1, <2>2 DEF RouteTypeOK, RouteValid
<1>6. OneSlotPerPrefix'
    BY <1>5 DEF OneSlotPerPrefix
<1>7. \A f \in Live' : f \in Live /\ <<f.prefix, f.len>> # p
    BY <1>1, <1>5 DEF Live, Holding
<1>8. \A f \in Live : f \in Live' \/ <<f.prefix, f.len>> = p
  <2> SUFFICES ASSUME NEW i \in RouteValid
               PROVE  \/ route_table[i] \in Live'
                      \/ <<route_table[i].prefix, route_table[i].len>> = p
    BY DEF Live
  <2>1. CASE i \in held
    BY <2>1, <1>1 DEF Holding
  <2>2. CASE i \notin held
    <3>1. \A j \in RouteSlot : held # {} /\ j = Min(held) => j \in held
      <4> HIDE DEF held
      <4> QED
        BY <1>2, MinOfNaturals
    <3>2. i \in RouteValid' /\ route_table'[i] = route_table[i]
      BY <2>2, <3>1, <1>4 DEF RouteValid
    <3> QED
      BY <3>2 DEF Live
  <2> QED
    BY <2>1, <2>2
<1> QED
    BY <1>5, <1>6, <1>7, <1>8

-----------------------------------------------------------------------------
(* The stage after a command for the index of prefix p, when the routes of *)
(* other prefixes are as before: its rules are at home and backed, and the *)
(* routes alone on their index still have their rules.                     *)
LEMMA CommandBacked ==
    ASSUME RouteTypeOK, RouteTypeOK', RuleAtHome, NoOrphanRoute,
           NEW p \in Prefixes, NEW rule \in RouteEntry \cup {NoRule}, NEW applied \in BOOLEAN,
           stage0' = hal_tcam_insert(stage0, route_tcam_id(p[1], p[2]), rule, applied),
           rule = NoRule \/ (rule \in Live' /\ <<rule.prefix, rule.len>> = p),
           \A f \in Live : f \in Live' \/ <<f.prefix, f.len>> = p,
           \A f \in Live' : f = rule \/ (f \in Live /\ <<f.prefix, f.len>> # p)
    PROVE  /\ RuleAtHome' /\ NoOrphanRoute'
           /\ UnsharedInstalled => UnsharedInstalled'
<1> DEFINE t == route_tcam_id(p[1], p[2])
<1>1. t \in RouteIndex
    BY IdInIndex
<1>2. stage0 \in StageOf(RouteIndex, Rules) /\ rule \in Rules \cup {NoRule}
    BY DEF RouteTypeOK, StageOf, Rules
<1>3. /\ t \notin stage0'.lost => stage0'.at[t] = rule
      /\ \A u \in RouteIndex \ {t} :
            stage0'.at[u] = stage0.at[u] /\ (u \in stage0'.lost <=> u \in stage0.lost)
      /\ stage0'.at[t] \in {rule, stage0.at[t]}
  <2>1. stage0'.at[t] \in {rule, stage0.at[t]}
    BY <1>1 DEF hal_tcam_insert, RouteTypeOK
  <2> HIDE DEF t
  <2> QED
    BY <1>1, <1>2, <2>1, CommandFacts DEF t
<1>4. p = <<p[1], p[2]>>
    BY PrefixAssumption
<1>5. \A f \in RouteEntry : <<f.prefix, f.len>> = p => IdOf(f) = t
    BY <1>4 DEF IdOf
<1>6. NoRule \notin RouteEntry \cup {DefaultRule} /\ DefaultRule \notin RouteEntry
    BY NoRouteAssumption, EntryFacts
<1>7. Live \subseteq RouteEntry /\ Live' \subseteq RouteEntry
    BY DEF Live, RouteValid, RouteTypeOK
<1> HIDE DEF t
<1>8. RuleAtHome'
  <2> SUFFICES ASSUME NEW u \in RouteIndex
               PROVE  /\ stage0'.at[u] \in RouteEntry => IdOf(stage0'.at[u]) = u
                      /\ stage0'.at[u] = DefaultRule => u = DefaultId
    BY DEF RuleAtHome
  <2>1. CASE u = t
    BY <2>1, <1>1, <1>3, <1>5, <1>6 DEF RuleAtHome
  <2>2. CASE u # t
    BY <2>2, <1>3 DEF RuleAtHome
  <2> QED
    BY <2>1, <2>2
<1>9. NoOrphanRoute'
  <2> SUFFICES ASSUME NEW u \in RouteIndex,
                      stage0'.at[u] \notin {NoRule, DefaultRule}, u \notin stage0'.lost
               PROVE  stage0'.at[u] \in Live'
    BY DEF NoOrphanRoute, RouteBacked
  <2>1. CASE u = t
    BY <2>1, <1>3
  <2>2. CASE u # t
    <3>1. stage0.at[u] = stage0'.at[u] /\ stage0.at[u] \in Live
      BY <2>2, <1>3 DEF NoOrphanRoute, RouteBacked
    <3>2. IdOf(stage0.at[u]) = u
      BY <3>1, <1>7 DEF RuleAtHome
    <3>3. <<stage0.at[u].prefix, stage0.at[u].len>> # p
      BY <2>2, <3>1, <3>2, <1>5, <1>7
    <3> QED
      BY <3>1, <3>3
  <2> QED
    BY <2>1, <2>2
<1>10. ASSUME UnsharedInstalled PROVE UnsharedInstalled'
  <2> SUFFICES ASSUME NEW f \in Live', Unshared(f), IdOf(f) \notin stage0'.lost
               PROVE  stage0'.at[IdOf(f)] = f
    BY DEF UnsharedInstalled, Unshared, IdOf
  <2>1. f \in RouteEntry /\ IdOf(f) \in RouteIndex
    BY <1>7, EntryFacts
  <2>2. CASE f = rule /\ <<f.prefix, f.len>> = p
    BY <2>1, <2>2, <1>3, <1>5
  <2>3. CASE f \in Live /\ <<f.prefix, f.len>> # p
    <3>1. IdOf(f) # t
      BY <2>3 DEF Unshared, t
    <3>2. stage0.at[IdOf(f)] = f
      BY <1>10, <2>1, <2>3, <3>1, <1>3 DEF UnsharedInstalled
    <3> QED
      BY <2>1, <3>1, <3>2, <1>3
  <2> QED
    BY <2>2, <2>3, <2>1, <1>6
<1> QED
    BY <1>8, <1>9, <1>10

-----------------------------------------------------------------------------
(* Steps.  Each lemma is about one action of main or of the CLI.           *)

RouteInv == RouteIInv /\ UnsharedInstalled

LEMMA RouteInitInv == RouteInit => RouteInv
<1> SUFFICES ASSUME RouteInit PROVE RouteInv
    OBVIOUS
<1>1. stage0 \in StageOf(RouteIndex, Rules) /\ \A t \in RouteIndex : stage0.at[t] = NoRule
    BY EmptyFacts DEF RouteInit
<1>2. RouteValid = {} /\ Live = {}
    BY DEF RouteInit, RouteValid, Live
<1>3. 0 \in 0 .. Looping
    BY RouteTableAssumption DEF Looping
<1>4. RouteTypeOK
    BY <1>1, <1>3 DEF RouteInit, RouteTypeOK, StageOf, Rules
<1> QED
    BY <1>1, <1>2, <1>4, NoRouteAssumption
       DEF RouteInv, RouteIInv, OneSlotPerPrefix, RuleAtHome, NoRulesBeforeInit, NoOrphanRoute,
           RouteBacked, UnsharedInstalled

(* A step that leaves the stage to a command for the index of a prefix.    *)
LEMMA CommandType ==
    ASSUME RouteTypeOK,
           route_table' \in [RouteSlot -> RouteEntry \cup {NoRoute}], route_boot' \in 0 .. Looping,
           NEW p \in Prefixes, NEW rule \in RouteEntry \cup {NoRule}, NEW applied \in BOOLEAN,
           stage0' = hal_tcam_insert(stage0, route_tcam_id(p[1], p[2]), rule, applied)
    PROVE  RouteTypeOK'
<1>1. stage0 \in StageOf(RouteIndex, Rules) /\ rule \in Rules \cup {NoRule}
    BY DEF RouteTypeOK, StageOf, Rules
<1>2. stage0' \in StageOf(RouteIndex, Rules)
    BY <1>1, IdInIndex, CommandFacts
<1> QED
    BY <1>2 DEF RouteTypeOK, StageOf, Rules

LEMMA RouteAddInv ==
    ASSUME RouteInv, route_boot \in 2 .. Looping, route_boot' \in 2 .. Looping,
           NEW p \in Prefixes, NEW h \in Hops, NEW applied \in BOOLEAN,
           route_add(p[1], p[2], h, applied)
    PROVE  RouteInv'
<1> DEFINE e == [prefix |-> p[1], len |-> p[2], hop |-> h]
<1>1. e \in RouteEntry /\ e.prefix = p[1] /\ e.len = p[2] /\ p = <<p[1], p[2]>>
    BY EntryFacts, PrefixAssumption
<1>2. stage0' = hal_tcam_insert(stage0, route_tcam_id(p[1], p[2]), e, applied)
    BY <1>1 DEF route_add, IdOf
<1>3. /\ route_table' \in [RouteSlot -> RouteEntry \cup {NoRoute}]
      /\ OneSlotPerPrefix'
      /\ e \in Live'
      /\ \A f \in Live' : f = e \/ <<f.prefix, f.len>> # p
      /\ \A f \in Live' : f = e \/ f \in Live
      /\ \A f \in Live : f \in Live' \/ <<f.prefix, f.len>> = p
    BY AddTable DEF RouteInv, RouteIInv
<1> HIDE DEF e
<1>4. route_boot' \in 0 .. Looping /\ route_boot' # 0 /\ RouteTypeOK
    BY RouteTableAssumption DEF Looping, RouteInv, RouteIInv
<1>5. RouteTypeOK'
    BY <1>1, <1>2, <1>3, <1>4, CommandType
<1>6. RuleAtHome' /\ NoOrphanRoute' /\ UnsharedInstalled'
    BY <1>1, <1>2, <1>3, <1>5, CommandBacked DEF RouteInv, RouteIInv
<1> QED
    BY <1>3, <1>4, <1>5, <1>6 DEF RouteInv, RouteIInv, NoRulesBeforeInit

LEMMA RouteDelInv ==
    ASSUME RouteInv, route_boot = Looping, UNCHANGED route_boot,
           NEW p \in Prefixes, NEW applied \in BOOLEAN, route_del(p[1], p[2], applied)
    PROVE  RouteInv'
<1>1. stage0' = hal_tcam_insert(stage0, route_tcam_id(p[1], p[2]), NoRule, applied)
    BY DEF route_del, hal_tcam_delete
<1>2. /\ route_table' \in [RouteSlot -> RouteEntry \cup {NoRoute}]
      /\ OneSlotPerPrefix'
      /\ \A f \in Live' : f \in Live /\ <<f.prefix, f.len>> # p
      /\ \A f \in Live : f \in Live' \/ <<f.prefix, f.len>> = p
    BY DelTable DEF RouteInv, RouteIInv
<1>3. route_boot' \in 0 .. Looping /\ route_boot' # 0 /\ RouteTypeOK
    BY RouteTableAssumption DEF Looping, RouteInv, RouteIInv
<1>4. RouteTypeOK'
    BY <1>1, <1>2, <1>3, CommandType
<1>5. RuleAtHome' /\ NoOrphanRoute' /\ UnsharedInstalled'
    BY <1>1, <1>2, <1>4, CommandBacked DEF RouteInv, RouteIInv
<1> QED
    BY <1>2, <1>3, <1>4, <1>5 DEF RouteInv, RouteIInv, NoRulesBeforeInit

LEMMA RouteBootInitInv ==
    ASSUME RouteInv, RouteBootInit
    PROVE  RouteInv'
<1>1. RouteValid' = {} /\ Live' = {} /\ route_boot' = 1 /\ route_boot' \in 0 .. Looping
    BY RouteTableAssumption DEF RouteBootInit, route_init, RouteValid, Live, Looping
<1>2. RouteTypeOK' /\ UNCHANGED stage0
    BY <1>1 DEF RouteInv, RouteIInv, RouteTypeOK, RouteBootInit, route_init
<1>3. \A t \in RouteIndex : stage0'.at[t] = NoRule
    BY <1>2 DEF RouteInv, RouteIInv, NoRulesBeforeInit, RouteBootInit
<1> QED
    BY <1>1, <1>2, <1>3, NoRouteAssumption
       DEF RouteInv, RouteIInv, OneSlotPerPrefix, RuleAtHome, NoRulesBeforeInit, NoOrphanRoute,
           RouteBacked, UnsharedInstalled

LEMMA BootDefaultInv ==
    ASSUME RouteInv, NEW applied \in BOOLEAN, BootDefault(applied)
    PROVE  RouteInv'
<1>1. /\ UNCHANGED route_table /\ Live' = Live
      /\ route_boot' = 2 /\ route_boot' \in 0 .. Looping
      /\ stage0' = hal_tcam_insert(stage0, DefaultId, DefaultRule, applied)
    BY RouteTableAssumption DEF BootDefault, Live, RouteValid, Looping
<1>2. stage0 \in StageOf(RouteIndex, Rules)
    BY DEF RouteInv, RouteIInv, RouteTypeOK, StageOf, Rules
<1>3. /\ stage0' \in StageOf(RouteIndex, Rules)
      /\ stage0'.at[DefaultId] \in {DefaultRule, stage0.at[DefaultId]}
      /\ DefaultId \notin stage0'.lost => stage0'.at[DefaultId] = DefaultRule
      /\ \A u \in RouteIndex \ {DefaultId} :
            stage0'.at[u] = stage0.at[u] /\ (u \in stage0'.lost <=> u \in stage0.lost)
  <2>1. DefaultRule \in Rules \cup {NoRule}
    BY DEF Rules
  <2>2. stage0'.at[DefaultId] \in {DefaultRule, stage0.at[DefaultId]}
    BY <1>1, <1>2, DefaultInIndex DEF hal_tcam_insert, StageOf
  <2> QED
    BY <1>1, <1>2, <2>1, <2>2, DefaultInIndex, CommandFacts
<1>4. RouteTypeOK'
    BY <1>1, <1>3 DEF RouteInv, RouteIInv, RouteTypeOK, StageOf, Rules
<1>5. RuleAtHome'
  <2> SUFFICES ASSUME NEW u \in RouteIndex
               PROVE  /\ stage0'.at[u] \in RouteEntry => IdOf(stage0'.at[u]) = u
                      /\ stage0'.at[u] = DefaultRule => u = DefaultId
    BY DEF RuleAtHome
  <2> QED
    BY <1>3, EntryFacts DEF RouteInv, RouteIInv, RuleAtHome
<1>6. NoOrphanRoute'
    BY <1>1, <1>3 DEF RouteInv, RouteIInv, NoOrphanRoute, RouteBacked
<1>7. UnsharedInstalled'
  <2> SUFFICES ASSUME NEW f \in Live', Unshared(f), IdOf(f) \notin stage0'.lost
               PROVE  stage0'.at[IdOf(f)] = f
    BY DEF UnsharedInstalled, Unshared, IdOf
  <2>1. f \in Live /\ f \in RouteEntry
    BY <1>1 DEF RouteInv, RouteIInv, RouteTypeOK, Live, RouteValid
  <2>2. IdOf(f) \in RouteIndex \ {DefaultId}
    BY <2>1, EntryFacts DEF Unshared
  <2> QED
    BY <1>3, <2>1, <2>2 DEF RouteInv, UnsharedInstalled
<1> QED
    BY <1>1, <1>4, <1>5, <1>6, <1>7
       DEF RouteInv, RouteIInv, OneSlotPerPrefix, RouteValid, NoRulesBeforeInit

LEMMA BootRouteInv ==
    ASSUME RouteInv, NEW applied \in BOOLEAN, BootRoute(applied)
    PROVE  RouteInv'
<1> DEFINE r == BootRoutes[route_boot - 1]
           p == <<r[1], r[2]>>
<1>1. /\ route_boot - 1 \in DOMAIN BootRoutes
      /\ route_boot \in 2 .. Looping /\ route_boot' \in 2 .. Looping
  <2>1. Len(BootRoutes) \in Nat /\ DOMAIN BootRoutes = 1 .. Len(BootRoutes)
    BY RouteTableAssumption
  <2>2. /\ route_boot \in 2 .. Len(BootRoutes) + 1 /\ route_boot' = route_boot + 1
        /\ Looping = Len(BootRoutes) + 2
    BY <2>1 DEF BootRoute, Looping
  <2> QED
    BY <2>1, <2>2
<1>2. p \in Prefixes /\ r[3] \in Hops
    BY <1>1, RouteTableAssumption
<1>3. route_add(p[1], p[2], r[3], applied)
    BY DEF BootRoute
<1> HIDE DEF p, r
<1> QED
    BY <1>1, <1>2, <1>3, RouteAddInv

LEMMA RouteStepInv == RouteInv /\ [RouteNext]_route_vars => RouteInv'
<1> SUFFICES ASSUME RouteInv, [RouteNext]_route_vars PROVE RouteInv'
    OBVIOUS
<1>0. RouteFates \subseteq BOOLEAN
    BY RouteFatesAssumption
<1>1. CASE RouteBootInit
    BY <1>1, RouteBootInitInv
<1>2. CASE \E applied \in RouteFates : BootDefault(applied)
    BY <1>0, <1>2, BootDefaultInv
<1>3. CASE \E applied \in RouteFates : BootRoute(applied)
    BY <1>0, <1>3, BootRouteInv
<1>4. CASE \E p \in Prefixes, applied \in RouteFates : RouteDel(p, applied)
    BY <1>0, <1>4, RouteDelInv DEF RouteDel
<1>5. CASE \E p \in Prefixes, hop \in Hops, applied \in RouteFates : RouteAdd(p, hop, applied)
  <2>1. Looping \in 2 .. Looping
    BY RouteTableAssumption DEF Looping
  <2> QED
    BY <1>0, <1>5, <2>1, RouteAddInv DEF RouteAdd
<1>6. CASE UNCHANGED route_vars
    BY <1>6 DEF route_vars, RouteInv, RouteIInv, RouteTypeOK, OneSlotPerPrefix, RuleAtHome,
                NoRulesBeforeInit, NoOrphanRoute, RouteBacked, UnsharedInstalled, Live, RouteValid,
                Unshared, IdOf
<1> QED
    BY <1>1, <1>2, <1>3, <1>4, <1>5, <1>6 DEF RouteNext, RouteBoot, RouteCommand

-----------------------------------------------------------------------------
(* The inductive invariant: the table has a prefix once, every rule is at  *)
(* its own index, and every rule is backed by the table.                   *)
THEOREM RouteInductiveInvariant == RouteSpec => []RouteInv
<1> QED
    BY RouteInitInv, RouteStepInv, PTL DEF RouteSpec

(* Every variable of Route keeps its type.                                 *)
THEOREM RouteTypeCorrect == RouteSpec => []RouteTypeOK
<1>1. RouteInv => RouteTypeOK
    BY DEF RouteInv, RouteIInv
<1> QED
    BY <1>1, RouteInductiveInvariant, PTL

(* The TCAM names no hop that was withdrawn or changed: every rule whose   *)
(* last command was applied is that of a route of the table (route.c).     *)
THEOREM NoOrphanRoutes == RouteSpec => []NoOrphanRoute
<1>1. RouteInv => NoOrphanRoute
    BY DEF RouteInv, RouteIInv
<1> QED
    BY <1>1, RouteInductiveInvariant, PTL

(* A route alone on its index has its rule, with its present hop, unless   *)
(* the HAL lost the command.                                               *)
THEOREM UnsharedRoutes == RouteSpec => []UnsharedInstalled
<1>1. RouteInv => UnsharedInstalled
    BY DEF RouteInv
<1> QED
    BY <1>1, RouteInductiveInvariant, PTL

-----------------------------------------------------------------------------
(* A prefix that leaves a slot leaves the table: only route_init and       *)
(* route_del free slots, and route_add gives a slot to another prefix only *)
(* when it is free.                                                        *)
LEMMA SlotGivenUp ==
    ASSUME RouteInv, RouteNext, NEW p \in Prefixes,
           NEW i \in Holding(p[1], p[2]), i \notin Holding(p[1], p[2])'
    PROVE  Holding(p[1], p[2])' = {}
<1>1. /\ i \in RouteSlot /\ route_table[i] # NoRoute
      /\ route_table[i].prefix = p[1] /\ route_table[i].len = p[2]
    BY DEF Holding, RouteValid
<1>2. CASE RouteBootInit
    BY <1>2 DEF RouteBootInit, route_init, Holding, RouteValid
<1>3. CASE \E applied \in RouteFates : BootDefault(applied)
    BY <1>3 DEF BootDefault, Holding, RouteValid
<1>4. ASSUME NEW q, NEW hop \in Hops, NEW applied \in RouteFates, q \in Prefixes,
             route_add(q[1], q[2], hop, applied)
      PROVE  FALSE
  <2> DEFINE e  == [prefix |-> q[1], len |-> q[2], hop |-> hop]
             at == IF Holding(q[1], q[2]) # {} THEN Holding(q[1], q[2])
                   ELSE RouteSlot \ RouteValid
             k  == Min(at)
  <2>1. at # {} /\ route_table' = [route_table EXCEPT ![k] = e]
    BY <1>4 DEF route_add
  <2>2. k \in at
    <3>1. at \in SUBSET Nat
      BY RouteTableAssumption DEF Holding, RouteValid, RouteSlot
    <3> HIDE DEF at
    <3> QED
      BY <2>1, <3>1, MinOfNaturals
  <2>3. e \in RouteEntry /\ e # NoRoute /\ e.prefix = q[1] /\ e.len = q[2]
    BY <1>4, EntryFacts, NoRouteAssumption
  <2> HIDE DEF k, e
  <2>4. route_table'[i] = IF i = k THEN e ELSE route_table[i]
    BY <1>1, <2>1 DEF RouteInv, RouteIInv, RouteTypeOK
  <2>5. i = k
    BY <1>1, <2>4 DEF Holding, RouteValid
  <2>6. i \in Holding(q[1], q[2])
    BY <1>1, <2>2, <2>5 DEF RouteValid
  <2>7. q[1] = p[1] /\ q[2] = p[2]
    BY <1>1, <2>6 DEF Holding
  <2> QED
    BY <1>1, <2>3, <2>4, <2>5, <2>7 DEF Holding, RouteValid
<1>5. CASE \E applied \in RouteFates : BootRoute(applied)
  <2>1. PICK applied \in RouteFates : BootRoute(applied)
    BY <1>5
  <2> DEFINE r == BootRoutes[route_boot - 1]
             q == <<r[1], r[2]>>
  <2>2. route_add(q[1], q[2], r[3], applied)
    BY <2>1 DEF BootRoute
  <2>3. q \in Prefixes /\ r[3] \in Hops
    <3>1. Len(BootRoutes) \in Nat /\ DOMAIN BootRoutes = 1 .. Len(BootRoutes)
      BY RouteTableAssumption
    <3>2. route_boot \in 2 .. Len(BootRoutes) + 1
      BY <2>1, <3>1 DEF BootRoute, Looping
    <3>3. route_boot - 1 \in DOMAIN BootRoutes
      BY <3>1, <3>2
    <3> QED
      BY <3>3, RouteTableAssumption
  <2> HIDE DEF q, r
  <2> QED
    BY <1>4, <2>2, <2>3
<1>6. CASE \E q \in Prefixes, hop \in Hops, applied \in RouteFates : RouteAdd(q, hop, applied)
    BY <1>4, <1>6 DEF RouteAdd
<1>7. ASSUME NEW q \in Prefixes, NEW applied \in RouteFates, RouteDel(q, applied)
      PROVE  Holding(p[1], p[2])' = {}
  <2>1. \A j \in RouteSlot :
           route_table'[j] = IF Holding(q[1], q[2]) # {} /\ j = Min(Holding(q[1], q[2]))
                             THEN NoRoute ELSE route_table[j]
    BY <1>7 DEF RouteDel, route_del
  <2>2. \A j \in Holding(p[1], p[2]) : j = i
    BY DEF Holding, RouteInv, RouteIInv, OneSlotPerPrefix
  <2>3. \A j \in RouteSlot : route_table'[j] \in {NoRoute, route_table[j]}
    BY <2>1
  <2>4. Holding(p[1], p[2])' \subseteq Holding(p[1], p[2])
    BY <2>3 DEF Holding, RouteValid
  <2> QED
    BY <2>2, <2>4
<1> QED
    BY <1>2, <1>3, <1>5, <1>6, <1>7 DEF RouteNext, RouteBoot, RouteCommand

(* A route that is withdrawn is gone from the table and, unless the HAL    *)
(* lost the command, from the TCAM: route_del clears one slot and one      *)
(* index, and these are all that the prefix ever has.                      *)
THEOREM WithdrawnGone == RouteSpec => WithdrawnIsGone
<1> DEFINE A == \A p \in Prefixes :
                   (\E i \in Holding(p[1], p[2]) : i \notin Holding(p[1], p[2])') =>
                      /\ Holding(p[1], p[2])' = {}
                      /\ RulesFor(p[1], p[2])' \subseteq stage0'.lost
<1>1. RouteInv /\ RouteInv' /\ [RouteNext]_route_vars => [A]_route_vars
  <2> SUFFICES ASSUME RouteInv, RouteInv', RouteNext, NEW p \in Prefixes,
                      NEW i \in Holding(p[1], p[2]), i \notin Holding(p[1], p[2])'
               PROVE  /\ Holding(p[1], p[2])' = {}
                      /\ RulesFor(p[1], p[2])' \subseteq stage0'.lost
    OBVIOUS
  <2>1. Holding(p[1], p[2])' = {}
    BY SlotGivenUp
  <2>2. ASSUME NEW t \in RulesFor(p[1], p[2])', t \notin stage0'.lost
        PROVE  FALSE
    <3>1. PICK h \in Hops : stage0'.at[t] = [prefix |-> p[1], len |-> p[2], hop |-> h]
      BY DEF RulesFor
    <3>2. t \in RouteIndex /\ stage0'.at[t] \in RouteEntry
      BY <3>1, EntryFacts DEF RulesFor
    <3>3. stage0'.at[t] # NoRule /\ stage0'.at[t] # DefaultRule
      BY <3>1, <3>2, NoRouteAssumption DEF DefaultRule
    <3>4. stage0'.at[t] \in Live'
      BY <2>2, <3>2, <3>3 DEF RouteInv, RouteIInv, NoOrphanRoute, RouteBacked
    <3>5. PICK j \in RouteValid' : route_table'[j] = stage0'.at[t]
      BY <3>4 DEF Live
    <3>6. j \in Holding(p[1], p[2])'
      BY <3>1, <3>5 DEF Holding
    <3> QED
      BY <2>1, <3>6
  <2> QED
    BY <2>1, <2>2
<1>2. RouteInv /\ [RouteNext]_route_vars => RouteInv'
    BY RouteStepInv
<1> QED
    BY <1>1, <1>2, RouteInitInv, PTL DEF RouteSpec, WithdrawnIsGone

-----------------------------------------------------------------------------
(* The access rules.                                                       *)

(* acl_init finds no rules: main calls it first.                           *)
NothingBeforeAclInit ==
    acl_boot = "acl_init" => stage1.lost = {} /\ \A t \in AclIndex : stage1.at[t] = NoRule

(* Until the ids have gone once round the TCAM each id is an index of its  *)
(* own: an entry's rule stands at the entry's id, no two entries share an  *)
(* id, and the indices not yet reached hold nothing.                       *)
IdsInOrder ==
    adds <= AclDepth =>
        /\ acl_next_id = adds % IdMod
        /\ \A i \in AclValid : /\ acl_table[i].rule_id < adds
                            /\ stage1.at[acl_table[i].rule_id] = acl_table[i].rule
        /\ \A i, j \in AclValid : acl_table[i].rule_id = acl_table[j].rule_id => i = j
        /\ \A t \in AclIndex : t >= adds => stage1.at[t] = NoRule /\ t \notin stage1.lost

AclIInv == AclTypeOK /\ NothingBeforeAclInit /\ NoOrphanRule /\ IdsInOrder

-----------------------------------------------------------------------------
LEMMA AclStageType == AclTypeOK => stage1 \in StageOf(AclIndex, AclRule)
    BY DEF AclTypeOK, StageOf

LEMMA AclIndexFacts ==
    /\ \A id \in Nat : IndexOf(id) \in AclIndex
    /\ \A id \in AclIndex : IndexOf(id) = id
    /\ AclIndex \subseteq Id /\ Id \subseteq Nat /\ AclSlot \subseteq Nat
    BY AclSizeAssumption DEF IndexOf, AclIndex, Id, AclSlot

(* Taking an id keeps the counter in its width; while the ids taken are no *)
(* more than the TCAM has entries, the id counts those before it.          *)
LEMMA IdTaken ==
    ASSUME AclTypeOK, TakeId
    PROVE  /\ acl_next_id' \in Id /\ adds' \in 0 .. IdMod + 1
           /\ adds' <= AclDepth => /\ adds' = adds + 1 /\ adds < AclDepth
                                /\ acl_next_id' = (acl_next_id + 1) % IdMod
<1>1. IdMod \in Nat \ {0} /\ AclDepth \in Nat /\ AclDepth <= IdMod
    BY AclSizeAssumption
<1>2. acl_next_id' \in Id
    BY <1>1 DEF TakeId, AclTypeOK, Id
<1> DEFINE S == {adds + 1, IdMod + 1}
<1>3. S \in SUBSET Nat /\ S # {} /\ adds \in Nat
    BY <1>1 DEF AclTypeOK
<1>4. adds' = Min(S)
    BY DEF TakeId
<1>5. Min(S) \in S /\ \A y \in S : Min(S) =< y
  <2> HIDE DEF S
  <2> QED
    BY <1>3, MinOfNaturals
<1>6. adds' \in {adds + 1, IdMod + 1} /\ adds' <= IdMod + 1
    BY <1>4, <1>5
<1> QED
    BY <1>1, <1>2, <1>3, <1>6 DEF TakeId

-----------------------------------------------------------------------------
(* An add the HAL applies: one free slot and one index change.             *)
LEMMA AddApplied ==
    ASSUME AclIInv, acl_boot # "acl_init", NEW rule \in AclRule,
           acl_add(rule, TRUE), acl_boot' # "acl_init"
    PROVE  NothingBeforeAclInit' /\ NoOrphanRule' /\ IdsInOrder'
           /\ acl_table' \in [AclSlot -> AclEntry \cup {NoAcl}]
           /\ stage1' \in StageOf(AclIndex, AclRule)
<1> DEFINE free == AclSlot \ AclValid
           k    == Min(free)
           e    == [rule |-> rule, rule_id |-> acl_next_id]
           t    == IndexOf(acl_next_id)
<1>1. AclTypeOK /\ stage1 \in StageOf(AclIndex, AclRule)
    BY AclStageType DEF AclIInv
<1>2. /\ free # {} /\ acl_table' = [acl_table EXCEPT ![k] = e]
      /\ stage1' = hal_tcam_insert(stage1, t, rule, TRUE)
    BY DEF acl_add
<1>3. free \in SUBSET Nat
    BY AclIndexFacts
<1>4. k \in free
  <2> HIDE DEF free
  <2> QED
    BY <1>2, <1>3, MinOfNaturals
<1>5. e \in AclEntry /\ e # NoAcl /\ acl_next_id \in Nat /\ t \in AclIndex
    BY <1>1, AclIndexFacts, NoAclAssumption DEF AclTypeOK, AclEntry, Id
<1>6. k \in AclSlot /\ k \notin AclValid
    BY <1>4
<1> HIDE DEF k, free
<1>7. /\ acl_table' \in [AclSlot -> AclEntry \cup {NoAcl}]
      /\ acl_table'[k] = e
      /\ \A i \in AclSlot \ {k} : acl_table'[i] = acl_table[i]
    BY <1>1, <1>2, <1>5, <1>6 DEF AclTypeOK
<1>8. AclValid' = AclValid \cup {k}
    BY <1>5, <1>6, <1>7 DEF AclValid
<1>9. /\ stage1' \in StageOf(AclIndex, AclRule)
      /\ stage1'.at[t] = rule /\ t \notin stage1'.lost
      /\ \A u \in AclIndex \ {t} :
            stage1'.at[u] = stage1.at[u] /\ (u \in stage1'.lost <=> u \in stage1.lost)
  <2>1. stage1' = [at |-> [stage1.at EXCEPT ![t] = rule], lost |-> stage1.lost \ {t}]
    BY <1>2 DEF hal_tcam_insert
  <2> QED
    BY <1>1, <1>5, <2>1 DEF StageOf
<1>10. NothingBeforeAclInit'
    BY DEF NothingBeforeAclInit
<1>11. NoOrphanRule'
  <2> SUFFICES ASSUME NEW u \in AclIndex, stage1'.at[u] # NoRule, u \notin stage1'.lost
               PROVE  \E i \in AclValid' : /\ IndexOf(acl_table'[i].rule_id) = u
                                        /\ acl_table'[i].rule = stage1'.at[u]
    BY DEF NoOrphanRule, AclBacked
  <2>1. CASE u = t
    BY <1>7, <1>8, <1>9, <2>1
  <2>2. CASE u # t
    <3>1. stage1'.at[u] = stage1.at[u] /\ u \notin stage1.lost
        BY <1>9, <2>2
    <3>2. PICK i \in AclValid : /\ IndexOf(acl_table[i].rule_id) = u
                             /\ acl_table[i].rule = stage1.at[u]
        BY <3>1 DEF AclIInv, NoOrphanRule, AclBacked
    <3>3. acl_table'[i] = acl_table[i]
        BY <1>6, <1>7, <3>2 DEF AclValid
    <3> QED
        BY <1>8, <3>1, <3>2, <3>3
  <2> QED
    BY <2>1, <2>2
<1>12. IdsInOrder'
  <2> SUFFICES ASSUME adds' <= AclDepth PROVE IdsInOrder'
    BY DEF IdsInOrder
  <2>1. adds' = adds + 1 /\ adds < AclDepth /\ acl_next_id' = (acl_next_id + 1) % IdMod
        /\ adds \in Nat /\ AclDepth \in Nat /\ IdMod \in Nat /\ AclDepth <= IdMod
    BY <1>1, IdTaken, AclSizeAssumption DEF acl_add, AclTypeOK
  <2>2. acl_next_id = adds /\ t = adds
    BY <2>1, AclIndexFacts DEF AclIInv, IdsInOrder, AclIndex
  <2>3. \A i \in AclValid : /\ acl_table'[i] = acl_table[i] /\ acl_table[i].rule_id < adds
                         /\ stage1.at[acl_table[i].rule_id] = acl_table[i].rule
                         /\ acl_table[i].rule_id \in AclIndex \ {t}
    <3> SUFFICES ASSUME NEW i \in AclValid
                 PROVE  /\ acl_table'[i] = acl_table[i] /\ acl_table[i].rule_id < adds
                        /\ stage1.at[acl_table[i].rule_id] = acl_table[i].rule
                        /\ acl_table[i].rule_id \in AclIndex \ {t}
        OBVIOUS
    <3>1. acl_table'[i] = acl_table[i]
        BY <1>6, <1>7 DEF AclValid
    <3>2. acl_table[i].rule_id \in Nat
        BY <1>1, AclIndexFacts DEF AclTypeOK, AclValid, AclEntry
    <3>3. acl_table[i].rule_id < adds /\ stage1.at[acl_table[i].rule_id] = acl_table[i].rule
        BY <2>1 DEF AclIInv, IdsInOrder
    <3> QED
        BY <2>1, <2>2, <3>1, <3>2, <3>3 DEF AclIndex
  <2>4. acl_next_id' = adds' % IdMod
    BY <2>1, <2>2
  <2>5. \A i \in AclValid' : /\ acl_table'[i].rule_id < adds'
                          /\ stage1'.at[acl_table'[i].rule_id] = acl_table'[i].rule
    <3> SUFFICES ASSUME NEW i \in AclValid'
                 PROVE  /\ acl_table'[i].rule_id < adds'
                        /\ stage1'.at[acl_table'[i].rule_id] = acl_table'[i].rule
        OBVIOUS
    <3>1. CASE i = k
        BY <1>7, <1>9, <2>1, <2>2, <3>1
    <3>2. CASE i \in AclValid
      <4>1. acl_table[i].rule_id \in Nat
        BY <1>1, <3>2, AclIndexFacts DEF AclTypeOK, AclValid, AclEntry
      <4> QED
        BY <1>9, <2>1, <2>3, <3>2, <4>1
    <3> QED
        BY <1>8, <3>1, <3>2
  <2>6. \A i, j \in AclValid' : acl_table'[i].rule_id = acl_table'[j].rule_id => i = j
    <3>1. \A i, j \in AclValid : acl_table[i].rule_id = acl_table[j].rule_id => i = j
        BY <2>1 DEF AclIInv, IdsInOrder
    <3>2. \A i \in AclValid : acl_table'[i].rule_id # t
        BY <2>3
    <3>3. acl_table'[k].rule_id = t
        BY <1>7, <2>2
    <3> QED
        BY <1>8, <2>3, <3>1, <3>2, <3>3
  <2>7. \A u \in AclIndex : u >= adds' => stage1'.at[u] = NoRule /\ u \notin stage1'.lost
    <3> SUFFICES ASSUME NEW u \in AclIndex, u >= adds'
                 PROVE  stage1'.at[u] = NoRule /\ u \notin stage1'.lost
        OBVIOUS
    <3>1. u # t /\ u >= adds
        BY <2>1, <2>2 DEF AclIndex
    <3>2. stage1.at[u] = NoRule /\ u \notin stage1.lost
        BY <2>1, <3>1 DEF AclIInv, IdsInOrder
    <3> QED
        BY <1>9, <3>1, <3>2
  <2> QED
    BY <2>4, <2>5, <2>6, <2>7 DEF IdsInOrder
<1> QED
    BY <1>7, <1>9, <1>10, <1>11, <1>12

(* An add the HAL fails takes an id and changes nothing else.              *)
LEMMA AddLost ==
    ASSUME AclIInv, acl_boot # "acl_init", NEW rule \in AclRule,
           acl_add(rule, FALSE), acl_boot' # "acl_init"
    PROVE  /\ NothingBeforeAclInit' /\ NoOrphanRule' /\ IdsInOrder'
           /\ UNCHANGED <<acl_table, stage1>>
<1>1. UNCHANGED <<acl_table, stage1>>
    BY DEF acl_add
<1>2. IdsInOrder'
  <2> SUFFICES ASSUME adds' <= AclDepth PROVE IdsInOrder'
    BY DEF IdsInOrder
  <2>1. adds' = adds + 1 /\ adds < AclDepth /\ acl_next_id' = (acl_next_id + 1) % IdMod
        /\ adds \in Nat /\ AclDepth \in Nat /\ IdMod \in Nat /\ AclDepth <= IdMod
    BY IdTaken, AclSizeAssumption DEF acl_add, AclTypeOK, AclIInv
  <2>2. acl_next_id = adds
    BY <2>1 DEF AclIInv, IdsInOrder
  <2>3. acl_next_id' = adds' % IdMod
    BY <2>1, <2>2
  <2>4. AclValid' = AclValid
    BY <1>1 DEF AclValid
  <2>5. \A i \in AclValid : acl_table[i].rule_id \in Nat
    BY AclIndexFacts DEF AclIInv, AclTypeOK, AclValid, AclEntry
  <2>6. \A t \in AclIndex : t \in Nat
    BY AclIndexFacts
  <2>7. /\ \A i \in AclValid : /\ acl_table[i].rule_id < adds
                             /\ stage1.at[acl_table[i].rule_id] = acl_table[i].rule
        /\ \A i, j \in AclValid : acl_table[i].rule_id = acl_table[j].rule_id => i = j
        /\ \A t \in AclIndex : t >= adds => stage1.at[t] = NoRule /\ t \notin stage1.lost
    BY <2>1 DEF AclIInv, IdsInOrder
  <2>8. \A i \in AclValid : acl_table[i].rule_id < adds'
    BY <2>1, <2>5, <2>7
  <2>9. \A t \in AclIndex : t >= adds' => stage1.at[t] = NoRule /\ t \notin stage1.lost
    BY <2>1, <2>6, <2>7
  <2> QED
    BY <1>1, <2>3, <2>4, <2>7, <2>8, <2>9 DEF IdsInOrder
<1> QED
    BY <1>1, <1>2 DEF AclIInv, NoOrphanRule, AclBacked, NothingBeforeAclInit, AclValid

(* An add.                                                                 *)
LEMMA AclAddKeeps ==
    ASSUME AclIInv, acl_boot # "acl_init", NEW rule \in AclRule, NEW applied \in BOOLEAN,
           acl_add(rule, applied), acl_boot' \in {"deny", "loop"}
    PROVE  AclIInv'
<1>1. acl_next_id' \in Id /\ adds' \in 0 .. IdMod + 1
    BY IdTaken DEF acl_add, AclIInv
<1>2. CASE applied
  <2>1. acl_add(rule, TRUE)
    BY <1>2
  <2>2. /\ NothingBeforeAclInit' /\ NoOrphanRule' /\ IdsInOrder'
        /\ acl_table' \in [AclSlot -> AclEntry \cup {NoAcl}]
        /\ stage1' \in StageOf(AclIndex, AclRule)
    BY <2>1, AddApplied
  <2> QED
    BY <1>1, <2>2 DEF AclIInv, AclTypeOK, StageOf
<1>3. CASE ~applied
  <2>1. acl_add(rule, FALSE)
    BY <1>3
  <2>2. /\ NothingBeforeAclInit' /\ NoOrphanRule' /\ IdsInOrder'
        /\ UNCHANGED <<acl_table, stage1>>
    BY <2>1, AddLost
  <2> QED
    BY <1>1, <2>2 DEF AclIInv, AclTypeOK
<1> QED
    BY <1>2, <1>3

(* What an operator or main types becomes a rule.                          *)
LEMMA AclRuleTypes ==
    /\ \A pair \in PrefixPairs, dport \in Dports :
          [pair |-> pair, dport |-> dport % PortMod, action |-> "deny"] \in AclRule
    /\ \A pair \in PrefixPairs :
          [pair |-> pair, dport |-> 0, action |-> "permit"] \in AclRule
<1>1. \A dport \in Dports : dport % PortMod \in Port
    BY AclSizeAssumption, AclInputAssumption DEF Port
<1>2. 0 \in Port
    BY AclSizeAssumption DEF Port
<1> QED
    BY <1>1, <1>2 DEF AclRule

(* A delete: the entry goes, and with it the rule at its index, or the     *)
(* index is noted as lost.                                                 *)
LEMMA AclDeleteKeeps ==
    ASSUME AclIInv, acl_boot # "acl_init", NEW id \in Id, NEW applied \in BOOLEAN,
           acl_delete(id, applied), UNCHANGED acl_boot
    PROVE  AclIInv'
<1> DEFINE k == Min(Named(id))
           t == IndexOf(id)
<1>1. AclTypeOK /\ stage1 \in StageOf(AclIndex, AclRule)
    BY AclStageType DEF AclIInv
<1>2. /\ Named(id) # {} /\ acl_table' = [acl_table EXCEPT ![k] = NoAcl]
      /\ stage1' = hal_tcam_insert(stage1, t, NoRule, applied)
      /\ UNCHANGED <<acl_next_id, adds, acl_boot>>
    BY DEF acl_delete, hal_tcam_delete
<1>3. Named(id) \in SUBSET Nat
    BY AclIndexFacts DEF Named, AclValid
<1>4. k \in Named(id)
    BY <1>2, <1>3, MinOfNaturals
<1>5. k \in AclValid /\ acl_table[k].rule_id = id /\ k \in AclSlot /\ t \in AclIndex
    BY <1>4, AclIndexFacts DEF Named, AclValid
<1> HIDE DEF k
<1>6. /\ acl_table' \in [AclSlot -> AclEntry \cup {NoAcl}]
      /\ acl_table'[k] = NoAcl
      /\ \A i \in AclSlot \ {k} : acl_table'[i] = acl_table[i]
    BY <1>1, <1>2, <1>5 DEF AclTypeOK
<1>7. AclValid' = AclValid \ {k}
    BY <1>5, <1>6 DEF AclValid
<1>8. /\ stage1' \in StageOf(AclIndex, AclRule)
      /\ t \notin stage1'.lost => stage1'.at[t] = NoRule
      /\ \A u \in AclIndex \ {t} :
            stage1'.at[u] = stage1.at[u] /\ (u \in stage1'.lost <=> u \in stage1.lost)
    BY <1>1, <1>2, <1>5, CommandFacts
<1>9. AclTypeOK'
    BY <1>1, <1>2, <1>6, <1>8 DEF AclTypeOK, StageOf
<1>10. NothingBeforeAclInit'
    BY <1>2 DEF NothingBeforeAclInit
<1>11. NoOrphanRule'
  <2> SUFFICES ASSUME NEW u \in AclIndex, stage1'.at[u] # NoRule, u \notin stage1'.lost
               PROVE  \E i \in AclValid' : /\ IndexOf(acl_table'[i].rule_id) = u
                                        /\ acl_table'[i].rule = stage1'.at[u]
    BY DEF NoOrphanRule, AclBacked
  <2>1. u # t
    BY <1>8
  <2>2. stage1'.at[u] = stage1.at[u] /\ u \notin stage1.lost
    BY <1>8, <2>1
  <2>3. PICK i \in AclValid : /\ IndexOf(acl_table[i].rule_id) = u
                           /\ acl_table[i].rule = stage1.at[u]
    BY <2>2 DEF AclIInv, NoOrphanRule, AclBacked
  <2>4. i # k
    BY <1>5, <2>1, <2>3
  <2> QED
    BY <1>6, <1>7, <2>2, <2>3, <2>4 DEF AclValid
<1>12. IdsInOrder'
  <2> SUFFICES ASSUME adds <= AclDepth PROVE IdsInOrder'
    BY <1>2 DEF IdsInOrder
  <2>1. /\ acl_next_id = adds % IdMod
        /\ \A i \in AclValid : /\ acl_table[i].rule_id < adds
                            /\ stage1.at[acl_table[i].rule_id] = acl_table[i].rule
        /\ \A i, j \in AclValid : acl_table[i].rule_id = acl_table[j].rule_id => i = j
        /\ \A u \in AclIndex : u >= adds => stage1.at[u] = NoRule /\ u \notin stage1.lost
    BY DEF AclIInv, IdsInOrder
  <2>2. adds \in Nat /\ AclDepth \in Nat /\ id \in Nat
    BY <1>1, AclSizeAssumption DEF AclTypeOK, Id
  <2>3. id < adds /\ id \in AclIndex /\ t = id
    BY <1>5, <2>1, <2>2, AclIndexFacts DEF AclIndex
  <2>4. \A i \in AclValid' : /\ i \in AclValid /\ acl_table'[i] = acl_table[i]
                          /\ acl_table[i].rule_id \in AclIndex \ {t}
    <3> SUFFICES ASSUME NEW i \in AclValid'
                 PROVE  /\ i \in AclValid /\ acl_table'[i] = acl_table[i]
                        /\ acl_table[i].rule_id \in AclIndex \ {t}
        OBVIOUS
    <3>1. i \in AclValid /\ i # k /\ acl_table'[i] = acl_table[i]
        BY <1>6, <1>7 DEF AclValid
    <3>2. acl_table[i].rule_id \in Nat
        BY <1>1, <3>1, AclIndexFacts DEF AclTypeOK, AclValid, AclEntry
    <3>3. acl_table[i].rule_id < adds /\ acl_table[i].rule_id # id
        BY <1>5, <2>1, <3>1
    <3> QED
        BY <2>2, <2>3, <3>1, <3>2, <3>3 DEF AclIndex
  <2>5. \A u \in AclIndex : u >= adds => stage1'.at[u] = NoRule /\ u \notin stage1'.lost
    <3> SUFFICES ASSUME NEW u \in AclIndex, u >= adds
                 PROVE  stage1'.at[u] = NoRule /\ u \notin stage1'.lost
        OBVIOUS
    <3>1. u # t
        BY <2>2, <2>3 DEF AclIndex
    <3> QED
        BY <1>8, <2>1, <3>1
  <2> QED
    BY <1>2, <1>8, <2>1, <2>4, <2>5 DEF IdsInOrder
<1> QED
    BY <1>9, <1>10, <1>11, <1>12 DEF AclIInv

(* acl_init clears the table of a TCAM that holds no rule.                 *)
LEMMA AclBootInitKeeps ==
    ASSUME AclIInv, AclBootInit
    PROVE  AclIInv'
<1>1. /\ acl_table' = [i \in AclSlot |-> NoAcl] /\ acl_next_id' = 0 /\ adds' = 0
      /\ stage1' = stage1 /\ acl_boot' = "deny"
    BY DEF AclBootInit, acl_init
<1>2. stage1.lost = {} /\ \A t \in AclIndex : stage1.at[t] = NoRule
    BY DEF AclBootInit, AclIInv, NothingBeforeAclInit
<1>3. AclValid' = {}
    BY <1>1 DEF AclValid
<1>4. AclTypeOK'
    BY <1>1, AclSizeAssumption DEF AclIInv, AclTypeOK, Id
<1>5. 0 % IdMod = 0
    BY AclSizeAssumption
<1> QED
    BY <1>1, <1>2, <1>3, <1>4, <1>5
    DEF AclIInv, NothingBeforeAclInit, NoOrphanRule, AclBacked, IdsInOrder

LEMMA AclInitInvariant == AclInit => AclIInv
<1> SUFFICES ASSUME AclInit PROVE AclIInv
    OBVIOUS
<1>1. /\ acl_table = [i \in AclSlot |-> NoAcl] /\ acl_next_id = 0 /\ adds = 0
      /\ stage1 = EmptyStage(AclIndex) /\ acl_boot = "acl_init"
    BY DEF AclInit
<1>2. stage1 \in StageOf(AclIndex, AclRule) /\ \A t \in AclIndex : stage1.at[t] = NoRule
    BY <1>1, EmptyFacts
<1>3. stage1.lost = {}
    BY <1>1 DEF EmptyStage
<1>4. AclValid = {}
    BY <1>1 DEF AclValid
<1>5. AclTypeOK
    BY <1>1, <1>2, AclSizeAssumption DEF AclTypeOK, StageOf, Id
<1>6. 0 % IdMod = 0
    BY AclSizeAssumption
<1> QED
    BY <1>1, <1>2, <1>3, <1>4, <1>5, <1>6
    DEF AclIInv, NothingBeforeAclInit, NoOrphanRule, AclBacked, IdsInOrder

LEMMA AclStepInvariant == AclIInv /\ [AclNext]_acl_vars => AclIInv'
<1> SUFFICES ASSUME AclIInv, [AclNext]_acl_vars PROVE AclIInv'
    OBVIOUS
<1> USE AclFatesAssumption
<1>1. CASE AclBootInit
    BY <1>1, AclBootInitKeeps
<1>2. ASSUME NEW applied \in AclFates, BootDeny(applied)
      PROVE  AclIInv'
    BY <1>2, AclAddKeeps, AclRuleTypes, AclInputAssumption DEF BootDeny, acl_add_deny
<1>3. ASSUME NEW applied \in AclFates, NEW pair \in PrefixPairs, Permit(pair, applied)
      PROVE  AclIInv'
    BY <1>3, AclAddKeeps, AclRuleTypes DEF Permit, acl_add_permit
<1>4. ASSUME NEW applied \in AclFates, NEW pair \in PrefixPairs, NEW dport \in Dports,
             Deny(pair, dport, applied)
      PROVE  AclIInv'
    BY <1>4, AclAddKeeps, AclRuleTypes DEF Deny, acl_add_deny
<1>5. ASSUME NEW applied \in AclFates, NEW typed \in TypedIds, AclDelete(typed, applied)
      PROVE  AclIInv'
  <2>1. typed % IdMod \in Id
    BY AclSizeAssumption, AclInputAssumption DEF Id
  <2> QED
    BY <1>5, <2>1, AclDeleteKeeps DEF AclDelete
<1>6. CASE UNCHANGED acl_vars
    BY <1>6 DEF acl_vars, AclIInv, AclTypeOK, NothingBeforeAclInit, NoOrphanRule,
                AclBacked, IdsInOrder, AclValid
<1> QED
    BY <1>1, <1>2, <1>3, <1>4, <1>5, <1>6 DEF AclNext

(* The inductive invariant holds in every reachable state.                 *)
THEOREM AclInductiveInvariant == AclSpec => []AclIInv
<1>1. AclInit => AclIInv
    BY AclInitInvariant
<1>2. AclIInv /\ [AclNext]_acl_vars => AclIInv'
    BY AclStepInvariant
<1> QED
    BY <1>1, <1>2, PTL DEF AclSpec

(* The table, the counter and the rules stay within their types: the id    *)
(* counter wraps, and every index it gives lies in the TCAM.               *)
THEOREM AclTypeCorrect == AclSpec => []AclTypeOK
<1>1. AclIInv => AclTypeOK
    BY DEF AclIInv
<1> QED
    BY <1>1, AclInductiveInvariant, PTL

(* A rule in the TCAM is that of an entry the operator still has, unless   *)
(* the HAL lost its delete, however often the ids wrap.                    *)
THEOREM NoOrphanRules == AclSpec => []NoOrphanRule
<1>1. AclIInv => NoOrphanRule
    BY DEF AclIInv
<1> QED
    BY <1>1, AclInductiveInvariant, PTL

-----------------------------------------------------------------------------
(* While the ids have not gone round, each entry's rule stands at the      *)
(* entry's id.                                                             *)
EntriesAtIds ==
    adds <= AclDepth =>
        \A i \in AclValid : stage1.at[IndexOf(acl_table[i].rule_id)] = acl_table[i].rule

LEMMA EntryAtItsId == AclIInv => EntriesAtIds
<1> SUFFICES ASSUME AclIInv, adds <= AclDepth, NEW i \in AclValid
             PROVE  stage1.at[IndexOf(acl_table[i].rule_id)] = acl_table[i].rule
    BY DEF EntriesAtIds
<1>1. acl_table[i].rule_id \in Nat
    BY AclIndexFacts DEF AclIInv, AclTypeOK, AclValid, AclEntry
<1>2. acl_table[i].rule_id < adds /\ stage1.at[acl_table[i].rule_id] = acl_table[i].rule
    BY DEF AclIInv, IdsInOrder
<1>3. adds \in Nat /\ AclDepth \in Nat
    BY AclSizeAssumption DEF AclIInv, AclTypeOK
<1>4. acl_table[i].rule_id \in AclIndex
    BY <1>1, <1>2, <1>3 DEF AclIndex
<1> QED
    BY <1>2, <1>4, AclIndexFacts

(* An add that fills a slot gives its entry the next id, above which no    *)
(* index holds a rule.                                                     *)
LEMMA NewEntryIsLast ==
    ASSUME AclIInv, NEW rule, NEW applied, acl_add(rule, applied), adds' <= AclDepth,
           NEW i \in AclValid', i \notin AclValid, NEW u \in Installed(stage1)
    PROVE  u < IndexOf(acl_table'[i].rule_id)
<1> DEFINE free == AclSlot \ AclValid
           k    == Min(free)
           e    == [rule |-> rule, rule_id |-> acl_next_id]
<1>1. i \in AclSlot /\ acl_table'[i] # NoAcl /\ acl_table[i] = NoAcl
    BY DEF AclValid
<1>2. acl_table' = [acl_table EXCEPT ![k] = e]
    BY <1>1 DEF acl_add
<1> HIDE DEF k, e
<1>3. acl_table'[i] = e
    BY <1>1, <1>2 DEF AclIInv, AclTypeOK
<1>4. acl_table'[i].rule_id = acl_next_id
    BY <1>3 DEF e
<1>5. adds \in Nat /\ adds < AclDepth /\ AclDepth \in Nat /\ AclDepth <= IdMod /\ IdMod \in Nat
    BY IdTaken, AclSizeAssumption DEF acl_add, AclTypeOK, AclIInv
<1>6. acl_next_id = adds
    BY <1>5 DEF AclIInv, IdsInOrder
<1>7. IndexOf(acl_next_id) = adds
    BY <1>5, <1>6, AclIndexFacts DEF AclIndex
<1>8. u \in AclIndex /\ stage1.at[u] # NoRule /\ u \in Nat
    BY AclIndexFacts DEF Installed, AclIInv, AclTypeOK, StageOf
<1>9. ~(u >= adds)
    BY <1>5, <1>8 DEF AclIInv, IdsInOrder
<1> QED
    BY <1>4, <1>5, <1>7, <1>8, <1>9

(* Only an add fills a slot.                                               *)
LEMMA OnlyAddsFill ==
    ASSUME AclIInv, AclNext, NEW i \in AclValid', i \notin AclValid
    PROVE  \E rule \in AclRule, applied \in BOOLEAN : acl_add(rule, applied)
<1> USE AclFatesAssumption
<1>1. i \in AclSlot /\ acl_table'[i] # NoAcl /\ acl_table[i] = NoAcl
    BY DEF AclValid
<1>2. CASE AclBootInit
    BY <1>1, <1>2 DEF AclBootInit, acl_init
<1>3. ASSUME NEW applied \in AclFates, BootDeny(applied)
      PROVE  \E rule \in AclRule : acl_add(rule, applied)
    BY <1>3, AclRuleTypes, AclInputAssumption DEF BootDeny, acl_add_deny
<1>4. ASSUME NEW applied \in AclFates, NEW pair \in PrefixPairs, Permit(pair, applied)
      PROVE  \E rule \in AclRule : acl_add(rule, applied)
    BY <1>4, AclRuleTypes DEF Permit, acl_add_permit
<1>5. ASSUME NEW applied \in AclFates, NEW pair \in PrefixPairs, NEW dport \in Dports,
             Deny(pair, dport, applied)
      PROVE  \E rule \in AclRule : acl_add(rule, applied)
    BY <1>5, AclRuleTypes DEF Deny, acl_add_deny
<1>6. ASSUME NEW applied \in AclFates, NEW typed \in TypedIds, AclDelete(typed, applied)
      PROVE  FALSE
  <2> DEFINE k == Min(Named(typed % IdMod))
  <2>1. acl_table' = [acl_table EXCEPT ![k] = NoAcl]
    BY <1>6 DEF AclDelete, acl_delete
  <2> HIDE DEF k
  <2> QED
    BY <1>1, <2>1 DEF AclIInv, AclTypeOK
<1> QED
    BY <1>2, <1>3, <1>4, <1>5, <1>6 DEF AclNext

(* Until the ids have gone round the TCAM once, every entry's rule stands  *)
(* at the entry's index and a rule that is added stands behind all others: *)
(* order in the TCAM is order of age, whatever adds and deletes failed.    *)
THEOREM OldestFirst == AclSpec => OlderGoesFirst
<1> DEFINE A == adds' <= AclDepth =>
                  \A i \in AclValid' :
                      LET t == IndexOf(acl_table'[i].rule_id)
                      IN  /\ stage1'.at[t] = acl_table'[i].rule
                          /\ i \notin AclValid => \A u \in Installed(stage1) : u < t
<1>1. AclIInv /\ AclIInv' /\ [AclNext]_acl_vars => [A]_acl_vars
  <2> SUFFICES ASSUME AclIInv, AclIInv', AclNext, adds' <= AclDepth, NEW i \in AclValid'
               PROVE  LET t == IndexOf(acl_table'[i].rule_id)
                      IN  /\ stage1'.at[t] = acl_table'[i].rule
                          /\ i \notin AclValid => \A u \in Installed(stage1) : u < t
    OBVIOUS
  <2>1. EntriesAtIds'
    BY EntryAtItsId, PTL
  <2>2. stage1'.at[IndexOf(acl_table'[i].rule_id)] = acl_table'[i].rule
    BY <2>1 DEF EntriesAtIds, IndexOf
  <2>3. ASSUME i \notin AclValid, NEW u \in Installed(stage1)
        PROVE  u < IndexOf(acl_table'[i].rule_id)
    BY <2>3, OnlyAddsFill, NewEntryIsLast
  <2> QED
    BY <2>2, <2>3
<1>2. AclIInv /\ [AclNext]_acl_vars => AclIInv'
    BY AclStepInvariant
<1> QED
    BY <1>1, <1>2, AclInitInvariant, PTL DEF AclSpec, OlderGoesFirst

-----------------------------------------------------------------------------
(* The VLANs.                                                              *)

(* vlan_init finds an empty database and no rules: main calls it first.    *)
NothingBeforeVlanInit ==
    vlan_boot = 0 =>
        /\ \A v \in Vlans : vlan_db[v] = NoVlan
        /\ \A t \in EgIndex : egress.at[t] = NoRule
        /\ \A t \in InIndex : ingress.at[t] = NoRule
        /\ egress.lost = {}

(* The registers hold what the database and the port configuration hold,   *)
(* only members leave untagged, only a VLAN that exists has members, and   *)
(* from vlan_init on a port has a VLAN.                                    *)
RegistersMirror ==
    /\ vlan_csr.port = port_cfg
    /\ \A v \in Vlans : /\ vlan_csr.member[v] = vlan_db[v].member
                        /\ vlan_csr.untagged[v] = vlan_db[v].untagged
                        /\ vlan_db[v].untagged \subseteq vlan_db[v].member
                        /\ vlan_db[v].member # {} => vlan_db[v].valid
    /\ vlan_boot > 0 => \A p \in Ports : port_cfg[p].pvid \in Vlans

(* A rule stands at the index of its own port and VLAN.                    *)
EgAtHome ==
    \A t \in EgIndex : LET r == egress.at[t]
                       IN  r # NoRule => VLAN_EGRESS_ENTRY(r.port, r.vlan) = t

(* An egress rule whose last command was applied does to a member's tag    *)
(* what the database asks for, and a member that has its index for itself  *)
(* has a rule.                                                             *)
TagOf(p, entry) == IF p \in entry.untagged THEN "strip" ELSE "keep"

EgBacked ==
    \A t \in EgIndex :
        LET r == egress.at[t]
        IN  r # NoRule /\ t \notin egress.lost =>
                /\ r.port \in vlan_db[r.vlan].member
                /\ r.action = TagOf(r.port, vlan_db[r.vlan])

AloneInstalled ==
    \A v \in Vlans, p \in Ports :
        LET t == VLAN_EGRESS_ENTRY(p, v)
        IN  p \in vlan_db[v].member /\ t \notin egress.lost /\ Alone(p, v) =>
                egress.at[t] # NoRule

(* Each ingress rule of a port whose last command was applied is the one   *)
(* the port's configuration asks for.                                      *)
Asked(p, tagged) ==
    LET t == VLAN_INGRESS_ENTRY(p, tagged) IN ingress.at[t] # NoRule \/ t \in ingress.lost

AsConfigured(p, tagged) ==
    LET t == VLAN_INGRESS_ENTRY(p, tagged)
    IN  ingress.at[t] # NoRule /\ t \notin ingress.lost => ingress.at[t] = PortRule(p, tagged)

IngressInv ==
    \A p \in Ports :
        (Asked(p, 0) <=> Asked(p, 1)) /\ AsConfigured(p, 0) /\ AsConfigured(p, 1)

EgressInv == EgAtHome /\ EgBacked /\ AloneInstalled
VlanIInv  == VlanTypeOK /\ NothingBeforeVlanInit /\ RegistersMirror /\ EgressInv /\ IngressInv

-----------------------------------------------------------------------------
(* The index of an egress rule tells its VLAN, whatever the port: ports    *)
(* meet only in one VLAN.                                                  *)
LEMMA EgressEntryFacts ==
    /\ \A p \in Ports, v \in Vlans : VLAN_EGRESS_ENTRY(p, v) \in EgIndex
    /\ \A p, q \in Ports, v, w \in Vlans :
          VLAN_EGRESS_ENTRY(p, v) = VLAN_EGRESS_ENTRY(q, w) => v = w
    /\ EgIndex \subseteq Nat
<1>1. ASSUME NEW p \in Ports, NEW v \in Vlans
      PROVE  VLAN_EGRESS_ENTRY(p, v) % VlanSpan = v /\ VLAN_EGRESS_ENTRY(p, v) \in Nat
  <2>1. /\ VlanSpan \in Nat \ {0} /\ VlanDepth \in Nat \ {0} /\ VlanDepth % VlanSpan = 0
        /\ p \in Nat /\ v \in 0 .. VlanSpan - 1
    BY VlanAssumption
  <2>2. ((VlanSpan * p + v) % VlanDepth) % VlanSpan = v
    BY <2>1, RemainderOfCut
  <2>3. p * VlanSpan = VlanSpan * p
    BY <2>1
  <2>4. p * VlanSpan + v \in Nat
    BY <2>1
  <2>5. (p * VlanSpan + v) % VlanDepth \in Nat
    BY <2>1, <2>4, CutToWidth
  <2> QED
    BY <2>2, <2>3, <2>5 DEF VLAN_EGRESS_ENTRY
<1>2. \A p \in Ports, v \in Vlans : VLAN_EGRESS_ENTRY(p, v) \in EgIndex
    BY DEF EgIndex
<1>3. ASSUME NEW p \in Ports, NEW q \in Ports, NEW v \in Vlans, NEW w \in Vlans,
             VLAN_EGRESS_ENTRY(p, v) = VLAN_EGRESS_ENTRY(q, w)
      PROVE  v = w
    BY <1>1, <1>3
<1>4. EgIndex \subseteq Nat
    BY <1>1 DEF EgIndex
<1> QED
    BY <1>2, <1>3, <1>4

(* Each port has two ingress rules, at indices no other port has.          *)
LEMMA PortEntryFacts ==
    /\ \A p \in Ports, k \in {0, 1} : VLAN_INGRESS_ENTRY(p, k) \in InIndex
    /\ \A p, q \in Ports, k, l \in {0, 1} :
          VLAN_INGRESS_ENTRY(p, k) = VLAN_INGRESS_ENTRY(q, l) => p = q /\ k = l
    /\ InIndex \subseteq Nat
    /\ \A p \in Ports : VLAN_INGRESS_ENTRY(p, 0) < VLAN_INGRESS_ENTRY(p, 1)
<1>1. Ports \subseteq Nat
    BY VlanAssumption
<1> QED
    BY <1>1 DEF VLAN_INGRESS_ENTRY, InIndex

-----------------------------------------------------------------------------
(* One command for the index of p in VLAN v, with the database's new entry *)
(* for v: the rule is that of p and as the entry asks, or p leaves v.      *)
LEMMA EgressCommand ==
    ASSUME VlanTypeOK, EgressInv, NEW v \in Vlans, NEW p \in Ports,
           NEW new, new.member \subseteq Ports, new.untagged \subseteq new.member,
           NEW rule \in EgRule \cup {NoRule}, NEW applied \in BOOLEAN,
           egress' = hal_tcam_insert(egress, VLAN_EGRESS_ENTRY(p, v), rule, applied),
           vlan_db' = [vlan_db EXCEPT ![v] = new],
           \A q \in Ports \ {p} : /\ q \in new.member <=> q \in vlan_db[v].member
                                  /\ q \in new.untagged <=> q \in vlan_db[v].untagged,
           rule = NoRule => p \notin new.member,
           rule # NoRule => /\ rule.port = p /\ rule.vlan = v /\ p \in new.member
                            /\ rule.action = TagOf(p, new)
    PROVE  /\ egress' \in StageOf(EgIndex, EgRule)
           /\ EgressInv'
           /\ \A t \in EgIndex : egress'.at[t] # egress.at[t] => t = VLAN_EGRESS_ENTRY(p, v)
<1> DEFINE t == VLAN_EGRESS_ENTRY(p, v)
<1>1. t \in EgIndex /\ egress \in StageOf(EgIndex, EgRule)
    BY EgressEntryFacts DEF VlanTypeOK
<1>2. /\ egress' \in StageOf(EgIndex, EgRule)
      /\ t \notin egress'.lost => egress'.at[t] = rule
      /\ \A u \in EgIndex \ {t} :
            egress'.at[u] = egress.at[u] /\ (u \in egress'.lost <=> u \in egress.lost)
      /\ egress'.at[t] \in {rule, egress.at[t]}
  <2> HIDE DEF t
  <2> QED
    BY <1>1, CommandFacts DEF t
<1>3. /\ vlan_db'[v] = new
      /\ \A w \in Vlans \ {v} : vlan_db'[w] = vlan_db[w]
    BY DEF VlanTypeOK
<1>4. \A q \in Ports, w \in Vlans :
         VLAN_EGRESS_ENTRY(q, w) # t =>
            /\ q \in vlan_db'[w].member <=> q \in vlan_db[w].member
            /\ q \in vlan_db'[w].untagged <=> q \in vlan_db[w].untagged
    BY <1>3
<1>5. \A u \in EgIndex : egress.at[u] # NoRule => egress.at[u] \in EgRule
    BY <1>1 DEF StageOf
<1>6. \A r \in EgRule : r.port \in Ports /\ r.vlan \in Vlans
    BY DEF EgRule
<1> HIDE DEF t
<1>7. EgAtHome'
  <2> SUFFICES ASSUME NEW u \in EgIndex, egress'.at[u] # NoRule
               PROVE  VLAN_EGRESS_ENTRY(egress'.at[u].port, egress'.at[u].vlan) = u
    BY DEF EgAtHome
  <2>1. CASE egress'.at[u] = egress.at[u]
    BY <2>1 DEF EgressInv, EgAtHome
  <2>2. CASE u = t /\ egress'.at[u] = rule
    BY <2>2 DEF t
  <2> QED
    BY <1>2, <2>1, <2>2
<1>8. EgBacked'
  <2> SUFFICES ASSUME NEW u \in EgIndex, egress'.at[u] # NoRule, u \notin egress'.lost
               PROVE  LET r == egress'.at[u]
                      IN  /\ r.port \in vlan_db'[r.vlan].member
                          /\ r.action = TagOf(r.port, vlan_db'[r.vlan])
    BY DEF EgBacked
  <2>1. CASE u = t
    <3>1. egress'.at[u] = rule
      BY <1>2, <2>1
    <3> QED
      BY <1>3, <3>1
  <2>2. CASE u # t
    <3> DEFINE r == egress.at[u]
    <3>1. egress'.at[u] = r /\ r # NoRule /\ u \notin egress.lost
      BY <1>2, <2>2
    <3>2. r.port \in vlan_db[r.vlan].member /\ r.action = TagOf(r.port, vlan_db[r.vlan])
      BY <3>1 DEF EgressInv, EgBacked
    <3>3. r.port \in Ports /\ r.vlan \in Vlans
      BY <1>5, <1>6, <3>1
    <3>4. VLAN_EGRESS_ENTRY(r.port, r.vlan) # t
      BY <2>2, <3>1 DEF EgressInv, EgAtHome
    <3>5. /\ r.port \in vlan_db'[r.vlan].member
          /\ r.port \in vlan_db'[r.vlan].untagged <=> r.port \in vlan_db[r.vlan].untagged
      BY <1>4, <3>2, <3>3, <3>4
    <3> QED
      BY <3>1, <3>2, <3>5 DEF TagOf
  <2> QED
    BY <2>1, <2>2
<1>9. AloneInstalled'
  <2> SUFFICES ASSUME NEW w \in Vlans, NEW q \in Ports, q \in vlan_db'[w].member,
                      VLAN_EGRESS_ENTRY(q, w) \notin egress'.lost, Alone(q, w)
               PROVE  egress'.at[VLAN_EGRESS_ENTRY(q, w)] # NoRule
    BY DEF AloneInstalled, Alone, VLAN_EGRESS_ENTRY
  <2> DEFINE u == VLAN_EGRESS_ENTRY(q, w)
  <2>1. u \in EgIndex
    BY EgressEntryFacts
  <2>2. CASE u = t
    <3>1. w = v
      BY <2>2, EgressEntryFacts DEF t
    <3>2. q = p
      BY <2>2, <3>1 DEF Alone, t
    <3>3. p \in new.member
      BY <1>3, <3>1, <3>2
    <3>4. rule \in EgRule
      BY <3>3
    <3> QED
      BY <1>2, <2>2, <3>4, VlanRuleAssumption
  <2>3. CASE u # t
    <3>1. q \in vlan_db[w].member
      BY <1>4, <2>3
    <3>2. u \notin egress.lost /\ egress'.at[u] = egress.at[u]
      BY <1>2, <2>1, <2>3
    <3> QED
      BY <3>1, <3>2 DEF EgressInv, AloneInstalled
  <2> QED
    BY <2>2, <2>3
<1> QED
    BY <1>2, <1>7, <1>8, <1>9 DEF EgressInv, t

(* The database's new entry for v is in the registers as well.             *)
LEMMA SetDbFacts ==
    ASSUME VlanTypeOK, RegistersMirror, NEW v \in Vlans, SetDb(v, vlan_db'[v]),
           vlan_db'[v] \in [valid : BOOLEAN, member : SUBSET Ports, untagged : SUBSET Ports],
           vlan_db'[v].untagged \subseteq vlan_db'[v].member,
           vlan_db'[v].member # {} => vlan_db'[v].valid, UNCHANGED port_cfg,
           vlan_boot > 0, vlan_boot' > 0
    PROVE  /\ vlan_db' \in [Vlans -> [valid : BOOLEAN, member : SUBSET Ports,
                                      untagged : SUBSET Ports]]
           /\ vlan_csr' \in [port : [Ports -> [pvid : Vlans \cup {None}, mode : Mode]],
                             member : [Vlans -> SUBSET Ports],
                             untagged : [Vlans -> SUBSET Ports]]
           /\ RegistersMirror'
<1> DEFINE new == vlan_db'[v]
<1>1. vlan_db' = [vlan_db EXCEPT ![v] = new]
    BY DEF SetDb
<1>2. vlan_csr' = [vlan_csr EXCEPT !.member[v] = new.member, !.untagged[v] = new.untagged]
    BY DEF SetDb, hal_vlan_member_set
<1> HIDE DEF new
<1>3. \A w \in Vlans \ {v} : vlan_db'[w] = vlan_db[w]
    BY <1>1 DEF VlanTypeOK
<1>4. new.member \in SUBSET Ports /\ new.untagged \in SUBSET Ports
    BY DEF new
<1>5. /\ vlan_csr'.port = vlan_csr.port
      /\ vlan_csr'.member = [vlan_csr.member EXCEPT ![v] = new.member]
      /\ vlan_csr'.untagged = [vlan_csr.untagged EXCEPT ![v] = new.untagged]
      /\ vlan_csr' \in [port : [Ports -> [pvid : Vlans \cup {None}, mode : Mode]],
                        member : [Vlans -> SUBSET Ports], untagged : [Vlans -> SUBSET Ports]]
    BY <1>2, <1>4 DEF VlanTypeOK
<1>6. \A w \in Vlans \ {v} : /\ vlan_csr'.member[w] = vlan_csr.member[w]
                             /\ vlan_csr'.untagged[w] = vlan_csr.untagged[w]
    BY <1>5 DEF VlanTypeOK
<1>7. vlan_csr'.member[v] = new.member /\ vlan_csr'.untagged[v] = new.untagged
    BY <1>5 DEF VlanTypeOK
<1>8. RegistersMirror'
    BY <1>3, <1>5, <1>6, <1>7 DEF RegistersMirror, new
<1>9. vlan_db' \in [Vlans -> [valid : BOOLEAN, member : SUBSET Ports, untagged : SUBSET Ports]]
    BY <1>1 DEF VlanTypeOK, new
<1> QED
    BY <1>5, <1>8, <1>9

-----------------------------------------------------------------------------
(* The calls.  Configured: main has called vlan_init and no call undoes it.*)
Configured == vlan_boot > 0 /\ vlan_boot' \in 1 .. Len(VlanBootCalls) + 1

(* A call that changes rules changes those of one VLAN.                    *)
ChangesOnly(v) ==
    \A t \in EgIndex :
        egress'.at[t] # egress.at[t] => \E p \in Ports : t = VLAN_EGRESS_ENTRY(p, v)

(* A call that changes the database's entry for v and the egress rules.    *)
LEMMA DatabaseCall ==
    ASSUME VlanIInv, Configured, NEW v \in Vlans, SetDb(v, vlan_db'[v]),
           vlan_db'[v] \in [valid : BOOLEAN, member : SUBSET Ports, untagged : SUBSET Ports],
           vlan_db'[v].untagged \subseteq vlan_db'[v].member,
           vlan_db'[v].member # {} => vlan_db'[v].valid, UNCHANGED <<port_cfg, ingress>>,
           egress' \in StageOf(EgIndex, EgRule), EgressInv'
    PROVE  VlanIInv'
<1>1. /\ vlan_db' \in [Vlans -> [valid : BOOLEAN, member : SUBSET Ports, untagged : SUBSET Ports]]
      /\ vlan_csr' \in [port : [Ports -> [pvid : Vlans \cup {None}, mode : Mode]],
                        member : [Vlans -> SUBSET Ports], untagged : [Vlans -> SUBSET Ports]]
      /\ RegistersMirror'
    BY SetDbFacts DEF VlanIInv, Configured
<1>2. VlanTypeOK'
    BY <1>1 DEF VlanIInv, VlanTypeOK, Configured
<1>3. NothingBeforeVlanInit'
    BY DEF NothingBeforeVlanInit, Configured
<1>4. IngressInv'
    BY DEF VlanIInv, IngressInv, Asked, AsConfigured, PortRule
<1> QED
    BY <1>1, <1>2, <1>3, <1>4 DEF VlanIInv

LEMMA CreateStep ==
    ASSUME VlanIInv, Configured, NEW v \in Vlans, vlan_create(v)
    PROVE  VlanIInv' /\ ChangesOnly(v)
<1> DEFINE new == [NoVlan EXCEPT !.valid = TRUE]
<1>1. SetDb(v, new) /\ UNCHANGED <<port_cfg, ingress, egress>>
    BY DEF vlan_create
<1>2. /\ new \in [valid : BOOLEAN, member : SUBSET Ports, untagged : SUBSET Ports]
      /\ new.valid /\ new.member = {} /\ new.untagged = {}
  <2>1. NoVlan \in [valid : BOOLEAN, member : SUBSET Ports, untagged : SUBSET Ports]
    BY DEF NoVlan
  <2>2. NoVlan.member = {} /\ NoVlan.untagged = {}
    BY DEF NoVlan
  <2> QED
    BY <2>1, <2>2
<1>3. vlan_db' = [vlan_db EXCEPT ![v] = new]
    BY <1>1 DEF SetDb
<1>4. vlan_db'[v] = new /\ \A w \in Vlans \ {v} : vlan_db'[w] = vlan_db[w]
    BY <1>3 DEF VlanIInv, VlanTypeOK
<1>5. vlan_db[v].member = {}
    BY DEF vlan_create, VlanIInv, RegistersMirror
<1>6. \A r \in EgRule : r.vlan \in Vlans
    BY DEF EgRule
<1>7. EgBacked'
  <2> SUFFICES ASSUME NEW t \in EgIndex, egress.at[t] # NoRule, t \notin egress.lost
               PROVE  LET r == egress.at[t]
                      IN  /\ r.port \in vlan_db'[r.vlan].member
                          /\ r.action = TagOf(r.port, vlan_db'[r.vlan])
    BY <1>1 DEF EgBacked
  <2>1. egress.at[t].port \in vlan_db[egress.at[t].vlan].member
    BY DEF VlanIInv, EgressInv, EgBacked
  <2>2. egress.at[t].vlan \in Vlans \ {v}
    BY <1>5, <1>6, <2>1 DEF VlanIInv, VlanTypeOK, StageOf
  <2> QED
    BY <1>4, <2>2 DEF VlanIInv, EgressInv, EgBacked
<1>8. AloneInstalled'
  <2> SUFFICES ASSUME NEW w \in Vlans, NEW p \in Ports, p \in vlan_db'[w].member,
                      VLAN_EGRESS_ENTRY(p, w) \notin egress.lost, Alone(p, w)
               PROVE  egress.at[VLAN_EGRESS_ENTRY(p, w)] # NoRule
    BY <1>1 DEF AloneInstalled, Alone, VLAN_EGRESS_ENTRY
  <2> QED
    BY <1>2, <1>4 DEF VlanIInv, EgressInv, AloneInstalled
<1>9. EgressInv'
    BY <1>1, <1>7, <1>8 DEF VlanIInv, EgressInv, EgAtHome
<1>10. VlanIInv'
  <2>1. egress' \in StageOf(EgIndex, EgRule)
    BY <1>1 DEF VlanIInv, VlanTypeOK
  <2> HIDE DEF new
  <2> QED
    BY <1>1, <1>2, <1>4, <1>9, <2>1, DatabaseCall
<1> QED
    BY <1>1, <1>10 DEF ChangesOnly

LEMMA PortAddStep ==
    ASSUME VlanIInv, Configured, NEW v \in Vlans, NEW p \in Ports, NEW tagged \in BOOLEAN,
           vlan_port_add(v, p, tagged)
    PROVE  VlanIInv' /\ ChangesOnly(v)
<1> DEFINE old == vlan_db[v]
           new == [old EXCEPT !.member = @ \cup {p},
                              !.untagged = IF tagged THEN @ \ {p} ELSE @ \cup {p}]
           rule == [port |-> p, vlan |-> v, action |-> IF tagged THEN "keep" ELSE "strip"]
<1>1. old.valid /\ SetDb(v, new) /\ UNCHANGED <<port_cfg, ingress>>
    BY DEF vlan_port_add
<1>2. PICK applied \in BOOLEAN :
         egress' = hal_tcam_insert(egress, VLAN_EGRESS_ENTRY(p, v), rule, applied)
    BY DEF vlan_port_add, install_egress_rule, Fates
<1>3. old \in [valid : BOOLEAN, member : SUBSET Ports, untagged : SUBSET Ports]
    BY DEF VlanIInv, VlanTypeOK
<1>4. /\ new \in [valid : BOOLEAN, member : SUBSET Ports, untagged : SUBSET Ports]
      /\ new.valid /\ new.member = old.member \cup {p}
      /\ new.untagged = IF tagged THEN old.untagged \ {p} ELSE old.untagged \cup {p}
    BY <1>1, <1>3
<1>5. old.untagged \subseteq old.member
    BY DEF VlanIInv, RegistersMirror
<1>6. new.untagged \subseteq new.member
    BY <1>4, <1>5
<1>7. rule \in EgRule /\ rule # NoRule
    BY VlanRuleAssumption DEF EgRule
<1>8. rule.action = TagOf(p, new)
    BY <1>4 DEF TagOf
<1>9. \A q \in Ports \ {p} : /\ q \in new.member <=> q \in vlan_db[v].member
                             /\ q \in new.untagged <=> q \in vlan_db[v].untagged
    BY <1>4
<1>10. rule.port = p /\ rule.vlan = v /\ p \in new.member
    BY <1>4
<1>11. vlan_db' = [vlan_db EXCEPT ![v] = new] /\ vlan_db'[v] = new
    BY <1>1 DEF SetDb, VlanIInv, VlanTypeOK
<1> HIDE DEF old, new, rule
<1>12. /\ egress' \in StageOf(EgIndex, EgRule)
       /\ EgressInv'
       /\ \A t \in EgIndex : egress'.at[t] # egress.at[t] => t = VLAN_EGRESS_ENTRY(p, v)
  <2>1. new.member \subseteq Ports
    BY <1>4
  <2> QED
    BY <1>2, <1>6, <1>7, <1>8, <1>9, <1>10, <1>11, <2>1, EgressCommand DEF VlanIInv
<1>13. VlanIInv'
    BY <1>1, <1>4, <1>6, <1>11, <1>12, DatabaseCall
<1> QED
    BY <1>12, <1>13 DEF ChangesOnly

LEMMA PortRemoveStep ==
    ASSUME VlanIInv, Configured, NEW v \in Vlans, NEW p \in Ports, vlan_port_remove(v, p)
    PROVE  VlanIInv' /\ ChangesOnly(v)
<1> DEFINE old == vlan_db[v]
           new == [old EXCEPT !.member = @ \ {p}, !.untagged = @ \ {p}]
<1>1. old.valid /\ SetDb(v, new) /\ UNCHANGED <<port_cfg, ingress>>
    BY DEF vlan_port_remove
<1>2. PICK applied \in BOOLEAN :
         egress' = hal_tcam_insert(egress, VLAN_EGRESS_ENTRY(p, v), NoRule, applied)
    BY DEF vlan_port_remove, hal_tcam_delete, Fates
<1>3. old \in [valid : BOOLEAN, member : SUBSET Ports, untagged : SUBSET Ports]
    BY DEF VlanIInv, VlanTypeOK
<1>4. /\ new \in [valid : BOOLEAN, member : SUBSET Ports, untagged : SUBSET Ports]
      /\ new.valid /\ new.member = old.member \ {p} /\ new.untagged = old.untagged \ {p}
    BY <1>1, <1>3
<1>5. old.untagged \subseteq old.member
    BY DEF VlanIInv, RegistersMirror
<1>6. new.untagged \subseteq new.member /\ p \notin new.member
    BY <1>4, <1>5
<1>7. \A q \in Ports \ {p} : /\ q \in new.member <=> q \in vlan_db[v].member
                             /\ q \in new.untagged <=> q \in vlan_db[v].untagged
    BY <1>4
<1>8. vlan_db' = [vlan_db EXCEPT ![v] = new] /\ vlan_db'[v] = new
    BY <1>1 DEF SetDb, VlanIInv, VlanTypeOK
<1> HIDE DEF old, new
<1>9. /\ egress' \in StageOf(EgIndex, EgRule)
      /\ EgressInv'
      /\ \A t \in EgIndex : egress'.at[t] # egress.at[t] => t = VLAN_EGRESS_ENTRY(p, v)
  <2>1. new.member \subseteq Ports
    BY <1>4
  <2>2. NoRule \in EgRule \cup {NoRule}
    OBVIOUS
  <2> QED
    BY <1>2, <1>6, <1>7, <1>8, <2>1, <2>2, EgressCommand DEF VlanIInv
<1>10. VlanIInv'
    BY <1>1, <1>4, <1>6, <1>8, <1>9, DatabaseCall
<1> QED
    BY <1>9, <1>10 DEF ChangesOnly

(* Every member's index is asked for, and an applied delete leaves nothing *)
(* there: what stays of the VLAN's rules is not applied.                   *)
LEMMA DeleteStep ==
    ASSUME VlanIInv, Configured, NEW v \in Vlans, vlan_delete(v)
    PROVE  VlanIInv' /\ ChangesOnly(v)
<1> DEFINE asked == {VLAN_EGRESS_ENTRY(p, v) : p \in vlan_db[v].member}
<1>1. SetDb(v, NoVlan) /\ UNCHANGED <<port_cfg, ingress>>
    BY DEF vlan_delete
<1>2. PICK failed \in SUBSET asked :
         egress' = hal_tcam_delete_all(egress, asked, asked \ failed)
    BY DEF vlan_delete
<1>3. vlan_db[v].member \subseteq Ports /\ egress \in StageOf(EgIndex, EgRule)
    BY DEF VlanIInv, VlanTypeOK
<1>4. \A t \in asked : t \in EgIndex /\ \E p \in Ports : t = VLAN_EGRESS_ENTRY(p, v)
    BY <1>3, EgressEntryFacts
<1>5. /\ NoVlan \in [valid : BOOLEAN, member : SUBSET Ports, untagged : SUBSET Ports]
      /\ NoVlan.member = {} /\ NoVlan.untagged = {}
    BY DEF NoVlan
<1>6. vlan_db' = [vlan_db EXCEPT ![v] = NoVlan]
    BY <1>1 DEF SetDb
<1>7. vlan_db'[v] = NoVlan /\ \A w \in Vlans \ {v} : vlan_db'[w] = vlan_db[w]
    BY <1>6 DEF VlanIInv, VlanTypeOK
<1>8. /\ egress' \in StageOf(EgIndex, EgRule)
      /\ \A t \in EgIndex : egress'.at[t] = IF t \in asked \ failed THEN NoRule ELSE egress.at[t]
      /\ egress'.lost = (egress.lost \cup asked) \ (asked \ failed)
  <2> HIDE DEF asked
  <2> QED
    BY <1>2, <1>3, <1>4 DEF hal_tcam_delete_all, StageOf
<1>9. \A t \in EgIndex : egress.at[t] # NoRule =>
         egress.at[t].port \in Ports /\ egress.at[t].vlan \in Vlans
    BY <1>3 DEF StageOf, EgRule
<1>10. EgAtHome'
    BY <1>8 DEF VlanIInv, EgressInv, EgAtHome
<1>11. EgBacked'
  <2> SUFFICES ASSUME NEW t \in EgIndex, egress'.at[t] # NoRule, t \notin egress'.lost
               PROVE  LET r == egress'.at[t]
                      IN  /\ r.port \in vlan_db'[r.vlan].member
                          /\ r.action = TagOf(r.port, vlan_db'[r.vlan])
    BY DEF EgBacked
  <2> DEFINE r == egress.at[t]
  <2>1. egress'.at[t] = r /\ r # NoRule /\ t \notin egress.lost /\ t \notin asked
    BY <1>8
  <2>2. r.port \in vlan_db[r.vlan].member /\ r.action = TagOf(r.port, vlan_db[r.vlan])
    BY <2>1 DEF VlanIInv, EgressInv, EgBacked
  <2>3. VLAN_EGRESS_ENTRY(r.port, r.vlan) = t
    BY <2>1 DEF VlanIInv, EgressInv, EgAtHome
  <2>4. r.vlan \in Vlans \ {v}
    BY <1>9, <2>1, <2>2, <2>3
  <2> QED
    BY <1>7, <2>1, <2>2, <2>4
<1>12. AloneInstalled'
  <2> SUFFICES ASSUME NEW w \in Vlans, NEW p \in Ports, p \in vlan_db'[w].member,
                      VLAN_EGRESS_ENTRY(p, w) \notin egress'.lost, Alone(p, w)
               PROVE  egress'.at[VLAN_EGRESS_ENTRY(p, w)] # NoRule
    BY DEF AloneInstalled, Alone, VLAN_EGRESS_ENTRY
  <2> DEFINE t == VLAN_EGRESS_ENTRY(p, w)
  <2>1. w # v /\ p \in vlan_db[w].member
    BY <1>5, <1>7
  <2>2. t \in EgIndex /\ t \notin asked
    BY <1>4, <2>1, EgressEntryFacts
  <2>3. t \notin egress.lost /\ egress'.at[t] = egress.at[t]
    BY <1>8, <2>2
  <2> QED
    BY <2>1, <2>3 DEF VlanIInv, EgressInv, AloneInstalled
<1>13. VlanIInv'
    BY <1>1, <1>5, <1>7, <1>8, <1>10, <1>11, <1>12, DatabaseCall DEF EgressInv
<1> QED
    BY <1>4, <1>8, <1>13 DEF ChangesOnly

-----------------------------------------------------------------------------
(* The calls that configure a port and install its two rules again.        *)
LEMMA PortRules ==
    ASSUME VlanIInv, Configured, NEW p \in Ports,
           NEW cfg \in [Ports -> [pvid : Vlans \cup {None}, mode : Mode]],
           \A q \in Ports : cfg[q].pvid \in Vlans,
           \A q \in Ports \ {p} : cfg[q] = port_cfg[q],
           SetPort(cfg), vlan_install_port_rules(p, cfg)
    PROVE  VlanIInv' /\ UNCHANGED egress
<1> DEFINE untagged == VLAN_INGRESS_ENTRY(p, 0)
           withTag  == VLAN_INGRESS_ENTRY(p, 1)
           RuleA == [port |-> p, tci |-> Any, action |-> "assign_pvid", meta |-> cfg[p].pvid]
           RuleB == IF cfg[p].mode = "access"
                    THEN [port |-> p, tci |-> cfg[p].pvid, action |-> "accept_tagged",
                          meta |-> cfg[p].pvid]
                    ELSE [port |-> p, tci |-> Any, action |-> "accept_tagged", meta |-> None]
<1>1. PICK first \in BOOLEAN, second \in BOOLEAN :
         ingress' = hal_tcam_insert(hal_tcam_insert(ingress, untagged, RuleA, first),
                                    withTag, RuleB, second)
  <2>1. PICK first \in BOOLEAN, second \in BOOLEAN :
           LET one == install_ingress_rule(ingress, p, 0, Any, "assign_pvid", cfg[p].pvid, first)
           IN  ingress' =
              IF cfg[p].mode = "access"
              THEN install_ingress_rule(one, p, 1, cfg[p].pvid, "accept_tagged", cfg[p].pvid,
                                        second)
              ELSE install_ingress_rule(one, p, 1, Any, "accept_tagged", None, second)
    BY DEF vlan_install_port_rules, Fates
  <2> QED
    BY <2>1 DEF install_ingress_rule
<1>2. /\ untagged \in InIndex /\ withTag \in InIndex /\ untagged # withTag
      /\ \A q \in Ports \ {p}, k \in {0, 1} :
            VLAN_INGRESS_ENTRY(q, k) \in InIndex \ {untagged, withTag}
    BY PortEntryFacts
<1>3. RuleA \in InRule /\ RuleB \in InRule
    BY DEF InRule
<1>5. port_cfg' = cfg /\ vlan_csr' = [vlan_csr EXCEPT !.port = cfg] /\ UNCHANGED <<vlan_db, egress>>
    BY DEF SetPort
<1> DEFINE mid == hal_tcam_insert(ingress, untagged, RuleA, first)
<1> HIDE DEF untagged, withTag, RuleA, RuleB
<1>6. /\ mid \in StageOf(InIndex, InRule)
      /\ untagged \notin mid.lost => mid.at[untagged] = RuleA
      /\ mid.at[untagged] \in {RuleA, ingress.at[untagged]}
      /\ \A u \in InIndex \ {untagged} :
            mid.at[u] = ingress.at[u] /\ (u \in mid.lost <=> u \in ingress.lost)
  <2>1. ingress \in StageOf(InIndex, InRule)
    BY DEF VlanIInv, VlanTypeOK
  <2>2. RuleA \in InRule \cup {NoRule}
    BY <1>3
  <2> QED
    BY <1>2, <2>1, <2>2, CommandFacts
<1>7. /\ ingress' \in StageOf(InIndex, InRule)
      /\ ingress'.at[withTag] \in {RuleB, mid.at[withTag]}
      /\ \A u \in InIndex \ {withTag} :
            ingress'.at[u] = mid.at[u] /\ (u \in ingress'.lost <=> u \in mid.lost)
      /\ withTag \notin ingress'.lost => ingress'.at[withTag] = RuleB
  <2>1. RuleB \in InRule \cup {NoRule}
    BY <1>3
  <2>2. ingress' = hal_tcam_insert(mid, withTag, RuleB, second)
    BY <1>1
  <2> HIDE DEF mid
  <2> QED
    BY <1>2, <1>6, <2>1, <2>2, CommandFacts
<1> HIDE DEF mid
<1>4. PortRule(p, 0)' = RuleA /\ PortRule(p, 1)' = RuleB
    BY <1>5 DEF PortRule, RuleA, RuleB
<1>8. /\ untagged \in ingress'.lost \/ ingress'.at[untagged] = RuleA
      /\ withTag \in ingress'.lost \/ ingress'.at[withTag] = RuleB
      /\ RuleA # NoRule /\ RuleB # NoRule
    BY <1>2, <1>3, <1>6, <1>7, VlanRuleAssumption
<1>9. IngressInv'
  <2> SUFFICES ASSUME NEW q \in Ports
               PROVE  /\ Asked(q, 0)' <=> Asked(q, 1)'
                      /\ AsConfigured(q, 0)' /\ AsConfigured(q, 1)'
    BY DEF IngressInv
  <2>1. CASE q = p
    BY <1>4, <1>8, <2>1 DEF Asked, AsConfigured, VLAN_INGRESS_ENTRY, untagged, withTag
  <2>2. CASE q # p
    <3>1. \A k \in {0, 1} :
             LET t == VLAN_INGRESS_ENTRY(q, k)
             IN  /\ ingress'.at[t] = ingress.at[t]
                 /\ t \in ingress'.lost <=> t \in ingress.lost
      BY <1>2, <1>6, <1>7, <2>2
    <3>2. \A k \in {0, 1} : PortRule(q, k)' = PortRule(q, k)
      BY <1>5, <2>2 DEF PortRule
    <3>3. (Asked(q, 0)' <=> Asked(q, 0)) /\ (Asked(q, 1)' <=> Asked(q, 1))
      BY <3>1 DEF Asked, VLAN_INGRESS_ENTRY
    <3>4. (AsConfigured(q, 0)' <=> AsConfigured(q, 0)) /\ (AsConfigured(q, 1)' <=> AsConfigured(q, 1))
      BY <3>1, <3>2 DEF AsConfigured, VLAN_INGRESS_ENTRY
    <3> QED
      BY <3>3, <3>4 DEF VlanIInv, IngressInv
  <2> QED
    BY <2>1, <2>2
<1>10. VlanTypeOK'
  <2>1. vlan_csr' \in [port : [Ports -> [pvid : Vlans \cup {None}, mode : Mode]],
                       member : [Vlans -> SUBSET Ports], untagged : [Vlans -> SUBSET Ports]]
    BY <1>5 DEF VlanIInv, VlanTypeOK
  <2>2. vlan_boot' \in 0 .. Len(VlanBootCalls) + 1
    BY DEF Configured
  <2>3. /\ vlan_db' \in [Vlans -> [valid : BOOLEAN, member : SUBSET Ports,
                                   untagged : SUBSET Ports]]
        /\ egress' \in StageOf(EgIndex, EgRule)
    BY <1>5 DEF VlanIInv, VlanTypeOK
  <2> QED
    BY <1>5, <1>7, <2>1, <2>2, <2>3 DEF VlanTypeOK
<1>11. RegistersMirror'
    BY <1>5 DEF VlanIInv, RegistersMirror, VlanTypeOK
<1>12. NothingBeforeVlanInit'
    BY DEF NothingBeforeVlanInit, Configured
<1>13. EgressInv'
    BY <1>5 DEF VlanIInv, EgressInv, EgAtHome, EgBacked, AloneInstalled
<1> QED
    BY <1>5, <1>9, <1>10, <1>11, <1>12, <1>13 DEF VlanIInv

LEMMA PortCallSteps ==
    ASSUME VlanIInv, Configured, NEW p \in Ports,
           \/ \E v \in Vlans : vlan_port_set_pvid(p, v)
           \/ \E mode \in Mode : vlan_port_set_mode(p, mode)
    PROVE  VlanIInv' /\ UNCHANGED egress
<1>1. /\ port_cfg \in [Ports -> [pvid : Vlans \cup {None}, mode : Mode]]
      /\ \A q \in Ports : port_cfg[q].pvid \in Vlans
    BY DEF VlanIInv, VlanTypeOK, RegistersMirror, Configured
<1>2. CASE \E v \in Vlans : vlan_port_set_pvid(p, v)
  <2>1. PICK v \in Vlans : vlan_port_set_pvid(p, v)
    BY <1>2
  <2> DEFINE cfg == [port_cfg EXCEPT ![p].pvid = v]
  <2>2. SetPort(cfg) /\ vlan_install_port_rules(p, cfg)
    BY <2>1 DEF vlan_port_set_pvid
  <2>3. /\ cfg \in [Ports -> [pvid : Vlans \cup {None}, mode : Mode]]
        /\ \A q \in Ports \ {p} : cfg[q] = port_cfg[q]
        /\ cfg[p].pvid = v
    BY <1>1
  <2> HIDE DEF cfg
  <2>4. \A q \in Ports : cfg[q].pvid \in Vlans
    BY <1>1, <2>3
  <2> QED
    BY <2>2, <2>3, <2>4, PortRules
<1>3. CASE \E mode \in Mode : vlan_port_set_mode(p, mode)
  <2>1. PICK mode \in Mode : vlan_port_set_mode(p, mode)
    BY <1>3
  <2> DEFINE cfg == [port_cfg EXCEPT ![p].mode = mode]
  <2>2. SetPort(cfg) /\ vlan_install_port_rules(p, cfg)
    BY <2>1 DEF vlan_port_set_mode
  <2>3. /\ cfg \in [Ports -> [pvid : Vlans \cup {None}, mode : Mode]]
        /\ \A q \in Ports \ {p} : cfg[q] = port_cfg[q]
        /\ cfg[p].pvid = port_cfg[p].pvid
    BY <1>1
  <2> HIDE DEF cfg
  <2>4. \A q \in Ports : cfg[q].pvid \in Vlans
    BY <1>1, <2>3
  <2> QED
    BY <2>2, <2>3, <2>4, PortRules
<1> QED
    BY <1>2, <1>3

-----------------------------------------------------------------------------
(* vlan_init writes the default VLAN's rule for every port, in a stage     *)
(* that has none yet: of the ports that share an index one's rule stays,   *)
(* and it is that of a member.                                             *)
LEMMA InitStep ==
    ASSUME VlanIInv, vlan_boot = 0, vlan_boot' = 1, vlan_init
    PROVE  VlanIInv' /\ ChangesOnly(DefaultVlan)
<1> DEFINE all == {VLAN_EGRESS_ENTRY(p, DefaultVlan) : p \in Ports}
           Sharers(t) == {p \in Ports : VLAN_EGRESS_ENTRY(p, DefaultVlan) = t}
           rule(t) == [port |-> Max(Sharers(t)), vlan |-> DefaultVlan, action |-> "strip"]
           start == [p \in Ports |-> [pvid |-> DefaultVlan, mode |-> "access"]]
<1>1. /\ port_cfg' = start
      /\ vlan_db' = [v \in Vlans |->
            IF v = DefaultVlan
            THEN [valid |-> TRUE, member |-> Ports, untagged |-> Ports] ELSE NoVlan]
      /\ vlan_csr' = [port |-> start,
                      member |-> [vlan_csr.member EXCEPT ![DefaultVlan] = Ports],
                      untagged |-> [vlan_csr.untagged EXCEPT ![DefaultVlan] = Ports]]
      /\ UNCHANGED ingress
    BY DEF vlan_init
<1>2. PICK failed \in SUBSET all :
         egress' = [at |-> [t \in EgIndex |->
                              IF t \in all \ failed THEN rule(t) ELSE egress.at[t]],
                    lost |-> (egress.lost \ all) \cup failed]
    BY DEF vlan_init
<1>3. DefaultVlan \in Vlans /\ all \subseteq EgIndex
    BY VlanAssumption, EgressEntryFacts
<1>4. /\ \A v \in Vlans : vlan_db[v] = NoVlan
      /\ \A t \in EgIndex : egress.at[t] = NoRule
      /\ \A t \in InIndex : ingress.at[t] = NoRule
      /\ egress.lost = {}
    BY DEF VlanIInv, NothingBeforeVlanInit
<1>5. \A t \in all : Max(Sharers(t)) \in Sharers(t)
  <2> SUFFICES ASSUME NEW t \in all
               PROVE  Max(Sharers(t)) \in Sharers(t)
    OBVIOUS
  <2> DEFINE S == Sharers(t)
  <2>1. S \in SUBSET Nat /\ S # {} /\ VlanDepth \in Nat /\ \A p \in S : p <= VlanDepth
    BY VlanAssumption
  <2> HIDE DEF S
  <2>2. Max(S) \in S
    BY <2>1, MaxOfNaturals
  <2> QED
    BY <2>2 DEF S
<1>6. \A t \in all : /\ rule(t) \in EgRule /\ rule(t) # NoRule
                     /\ rule(t).port \in Ports /\ rule(t).vlan = DefaultVlan
                     /\ rule(t).action = "strip"
                     /\ VLAN_EGRESS_ENTRY(rule(t).port, DefaultVlan) = t
  <2> SUFFICES ASSUME NEW t \in all
               PROVE  /\ rule(t) \in EgRule /\ rule(t) # NoRule
                      /\ rule(t).port \in Ports /\ rule(t).vlan = DefaultVlan
                      /\ rule(t).action = "strip"
                      /\ VLAN_EGRESS_ENTRY(rule(t).port, DefaultVlan) = t
    OBVIOUS
  <2> DEFINE m == Max(Sharers(t))
  <2>1. m \in Ports /\ VLAN_EGRESS_ENTRY(m, DefaultVlan) = t
    BY <1>5
  <2> HIDE DEF m
  <2>2. rule(t) = [port |-> m, vlan |-> DefaultVlan, action |-> "strip"]
    BY DEF m
  <2>3. rule(t) \in EgRule
    BY <1>3, <2>1, <2>2 DEF EgRule
  <2> QED
    BY <2>1, <2>2, <2>3, VlanRuleAssumption
<1> HIDE DEF rule
<1>7. /\ egress' \in StageOf(EgIndex, EgRule)
      /\ \A t \in EgIndex : egress'.at[t] = IF t \in all \ failed THEN rule(t) ELSE NoRule
      /\ egress'.lost = failed
  <2> DEFINE at == [t \in EgIndex |-> IF t \in all \ failed THEN rule(t) ELSE egress.at[t]]
  <2>1. egress'.at = at /\ egress'.lost = failed
    BY <1>2, <1>4
  <2>2. \A t \in EgIndex : at[t] = IF t \in all \ failed THEN rule(t) ELSE NoRule
    BY <1>4
  <2>3. at \in [EgIndex -> EgRule \cup {NoRule}]
    BY <1>4, <1>6
  <2>4. failed \in SUBSET EgIndex
    BY <1>3
  <2>5. egress' = [at |-> egress'.at, lost |-> egress'.lost]
    BY <1>2
  <2> HIDE DEF all, at
  <2> QED
    BY <2>1, <2>2, <2>3, <2>4, <2>5 DEF StageOf
<1>8. \A v \in Vlans : vlan_db'[v] = IF v = DefaultVlan
                                     THEN [valid |-> TRUE, member |-> Ports, untagged |-> Ports]
                                     ELSE NoVlan
    BY <1>1
<1>9. vlan_db'[DefaultVlan].member = Ports /\ vlan_db'[DefaultVlan].untagged = Ports
    BY <1>3, <1>8
<1>10. EgAtHome'
    BY <1>6, <1>7 DEF EgAtHome
<1>11. EgBacked'
  <2> SUFFICES ASSUME NEW t \in EgIndex, egress'.at[t] # NoRule, t \notin egress'.lost
               PROVE  LET r == egress'.at[t]
                      IN  /\ r.port \in vlan_db'[r.vlan].member
                          /\ r.action = TagOf(r.port, vlan_db'[r.vlan])
    BY DEF EgBacked
  <2>1. t \in all /\ egress'.at[t] = rule(t)
    BY <1>7
  <2> HIDE DEF all
  <2> QED
    BY <1>6, <1>9, <2>1 DEF TagOf
<1>12. AloneInstalled'
  <2> SUFFICES ASSUME NEW w \in Vlans, NEW p \in Ports, p \in vlan_db'[w].member,
                      VLAN_EGRESS_ENTRY(p, w) \notin egress'.lost
               PROVE  egress'.at[VLAN_EGRESS_ENTRY(p, w)] # NoRule
    BY DEF AloneInstalled, VLAN_EGRESS_ENTRY
  <2>1. w = DefaultVlan
    BY <1>8 DEF NoVlan
  <2> DEFINE t == VLAN_EGRESS_ENTRY(p, w)
  <2>2. t \in all /\ t \in EgIndex
    BY <1>3, <2>1
  <2> HIDE DEF all, t
  <2>3. egress'.at[t] = rule(t)
    BY <1>7, <2>2 DEF t
  <2> QED
    BY <1>6, <2>2, <2>3 DEF t
<1>13. RegistersMirror'
  <2>1. /\ start \in [Ports -> [pvid : Vlans \cup {None}, mode : Mode]]
        /\ \A p \in Ports : start[p].pvid \in Vlans
    BY <1>3 DEF Mode
  <2> HIDE DEF start
  <2>2. vlan_csr'.port = port_cfg'
    BY <1>1
  <2>3. \A v \in Vlans : /\ vlan_csr'.member[v] = vlan_db'[v].member
                         /\ vlan_csr'.untagged[v] = vlan_db'[v].untagged
    <3>1. /\ vlan_csr'.member = [vlan_csr.member EXCEPT ![DefaultVlan] = Ports]
          /\ vlan_csr'.untagged = [vlan_csr.untagged EXCEPT ![DefaultVlan] = Ports]
          /\ vlan_csr.member \in [Vlans -> SUBSET Ports]
          /\ vlan_csr.untagged \in [Vlans -> SUBSET Ports]
      BY <1>1 DEF VlanIInv, VlanTypeOK
    <3>2. vlan_csr'.member[DefaultVlan] = Ports /\ vlan_csr'.untagged[DefaultVlan] = Ports
      BY <1>3, <3>1
    <3>3. ASSUME NEW v \in Vlans \ {DefaultVlan}
          PROVE  /\ vlan_csr'.member[v] = vlan_db'[v].member
                 /\ vlan_csr'.untagged[v] = vlan_db'[v].untagged
      <4>1. /\ vlan_csr'.member[v] = vlan_csr.member[v]
            /\ vlan_csr'.untagged[v] = vlan_csr.untagged[v]
        BY <3>1
      <4>2. vlan_db[v] = NoVlan /\ vlan_db'[v] = NoVlan
        BY <1>4, <1>8
      <4>3. /\ vlan_csr.member[v] = vlan_db[v].member
            /\ vlan_csr.untagged[v] = vlan_db[v].untagged
        BY DEF VlanIInv, RegistersMirror
      <4> QED
        BY <4>1, <4>2, <4>3
    <3> QED
      BY <1>9, <3>2, <3>3
  <2>4. \A v \in Vlans : /\ vlan_db'[v].untagged \subseteq vlan_db'[v].member
                         /\ vlan_db'[v].member # {} => vlan_db'[v].valid
    BY <1>8 DEF NoVlan
  <2> QED
    BY <1>1, <2>1, <2>2, <2>3, <2>4 DEF RegistersMirror
<1>14. VlanTypeOK'
  <2>1. start \in [Ports -> [pvid : Vlans \cup {None}, mode : Mode]]
    BY <1>3 DEF Mode
  <2> HIDE DEF start
  <2>2. vlan_db' \in [Vlans -> [valid : BOOLEAN, member : SUBSET Ports, untagged : SUBSET Ports]]
    BY <1>1 DEF NoVlan
  <2>3. vlan_csr' \in [port : [Ports -> [pvid : Vlans \cup {None}, mode : Mode]],
                       member : [Vlans -> SUBSET Ports], untagged : [Vlans -> SUBSET Ports]]
    BY <1>1, <2>1 DEF VlanIInv, VlanTypeOK
  <2>4. vlan_boot' \in 0 .. Len(VlanBootCalls) + 1
    BY VlanAssumption
  <2> QED
    BY <1>1, <1>7, <2>1, <2>2, <2>3, <2>4 DEF VlanIInv, VlanTypeOK
<1>15. IngressInv'
  <2>1. \A p \in Ports, k \in {0, 1} : ingress'.at[VLAN_INGRESS_ENTRY(p, k)] = NoRule
    BY <1>1, <1>4, PortEntryFacts
  <2>2. \A p \in Ports, k \in {0, 1} : Asked(p, k)' <=> Asked(p, k)
    BY <1>1 DEF Asked, VLAN_INGRESS_ENTRY
  <2>3. \A p \in Ports, k \in {0, 1} : AsConfigured(p, k)'
    BY <2>1 DEF AsConfigured, VLAN_INGRESS_ENTRY
  <2> QED
    BY <2>2, <2>3 DEF VlanIInv, IngressInv

<1>16. ChangesOnly(DefaultVlan)
    BY <1>4, <1>7 DEF ChangesOnly
<1>17. NothingBeforeVlanInit'
    BY DEF NothingBeforeVlanInit
<1> QED
    BY <1>10, <1>11, <1>12, <1>13, <1>14, <1>15, <1>16, <1>17 DEF VlanIInv, EgressInv

-----------------------------------------------------------------------------
LEMMA VlanInitHolds ==
    ASSUME VlanInit
    PROVE  VlanIInv
<1>1. VlanTypeOK
  <2>1. EmptyStage(InIndex) \in StageOf(InIndex, InRule)
    BY EmptyFacts
  <2>2. EmptyStage(EgIndex) \in StageOf(EgIndex, EgRule)
    BY EmptyFacts
  <2>3. 0 \in 0 .. Len(VlanBootCalls) + 1
    BY VlanAssumption
  <2>4. port_cfg \in [Ports -> [pvid : Vlans \cup {None}, mode : Mode]]
    BY DEF VlanInit, Mode
  <2> QED
    BY <2>1, <2>2, <2>3, <2>4 DEF VlanInit, VlanTypeOK, NoVlan
<1>2. /\ \A t \in EgIndex : egress.at[t] = NoRule
      /\ \A t \in InIndex : ingress.at[t] = NoRule
      /\ egress.lost = {}
    BY DEF VlanInit, EmptyStage
<1>3. \A v \in Vlans : vlan_db[v] = NoVlan
    BY DEF VlanInit
<1>4. NothingBeforeVlanInit
    BY <1>2, <1>3 DEF NothingBeforeVlanInit
<1>5. RegistersMirror
    BY <1>3 DEF VlanInit, RegistersMirror, NoVlan
<1>6. EgressInv
  <2>1. EgAtHome /\ EgBacked
    BY <1>2 DEF EgAtHome, EgBacked
  <2>2. \A v \in Vlans : vlan_db[v].member = {}
    BY <1>3 DEF NoVlan
  <2> QED
    BY <2>1, <2>2 DEF EgressInv, AloneInstalled
<1>7. IngressInv
  <2>1. \A p \in Ports, k \in {0, 1} : ingress.at[VLAN_INGRESS_ENTRY(p, k)] = NoRule
    BY <1>2, PortEntryFacts
  <2>2. ingress.lost = {}
    BY DEF VlanInit, EmptyStage
  <2> QED
    BY <2>1, <2>2 DEF IngressInv, Asked, AsConfigured

<1> QED
    BY <1>1, <1>4, <1>5, <1>6, <1>7 DEF VlanIInv

(* A call of main or of the operator, whichever it is.                     *)
LEMMA CallStep ==
    ASSUME VlanIInv, Configured, NEW c \in VlanCalls, DoVlan(c)
    PROVE  VlanIInv' /\ \E v \in Vlans : ChangesOnly(v)
<1>1. /\ c.op \in {"create", "delete", "add", "remove", "pvid"} => c.vlan \in Vlans
      /\ c.op \in {"add", "remove", "pvid", "mode"} => c.port \in Ports
      /\ c.op = "add" => c.tagged \in BOOLEAN
      /\ c.op = "mode" => c.mode \in Mode
    BY DEF VlanCalls
<1>2. CASE c.op = "create" /\ vlan_create(c.vlan)
    BY <1>1, <1>2, CreateStep
<1>3. CASE c.op = "delete" /\ vlan_delete(c.vlan)
    BY <1>1, <1>3, DeleteStep
<1>4. CASE c.op = "add" /\ vlan_port_add(c.vlan, c.port, c.tagged)
    BY <1>1, <1>4, PortAddStep
<1>5. CASE c.op = "remove" /\ vlan_port_remove(c.vlan, c.port)
    BY <1>1, <1>5, PortRemoveStep
<1>6. CASE \/ c.op = "pvid" /\ vlan_port_set_pvid(c.port, c.vlan)
           \/ c.op = "mode" /\ vlan_port_set_mode(c.port, c.mode)
  <2>1. c.port \in Ports /\ \/ \E v \in Vlans : vlan_port_set_pvid(c.port, v)
                            \/ \E mode \in Mode : vlan_port_set_mode(c.port, mode)
    BY <1>1, <1>6
  <2>2. VlanIInv' /\ UNCHANGED egress
    BY <2>1, PortCallSteps
  <2> QED
    BY <2>2, VlanAssumption DEF ChangesOnly
<1> QED
    BY <1>2, <1>3, <1>4, <1>5, <1>6 DEF DoVlan

LEMMA VlanStep ==
    ASSUME VlanIInv, [VlanNext]_vlan_vars
    PROVE  VlanIInv' /\ \E v \in Vlans : ChangesOnly(v)
<1>1. CASE VlanBootInit
    BY <1>1, InitStep, VlanAssumption DEF VlanBootInit
<1>2. CASE VlanBootCall
  <2>1. /\ vlan_boot \in 1 .. Len(VlanBootCalls) /\ VlanBootCalls[vlan_boot] \in VlanCalls
        /\ vlan_boot' = vlan_boot + 1
    BY <1>2, VlanAssumption DEF VlanBootCall
  <2>2. Configured
    BY <2>1, VlanAssumption DEF Configured
  <2> QED
    BY <1>2, <2>1, <2>2, CallStep DEF VlanBootCall
<1>3. ASSUME NEW c \in Commands, VlanCommand(c)
      PROVE  VlanIInv' /\ \E v \in Vlans : ChangesOnly(v)
  <2>1. Configured
    BY <1>3, VlanAssumption DEF VlanCommand, Configured
  <2>2. c \in VlanCalls
    BY VlanAssumption
  <2> QED
    BY <1>3, <2>1, <2>2, CallStep DEF VlanCommand
<1>4. CASE UNCHANGED vlan_vars
  <2>1. VlanIInv'
    BY <1>4 DEF vlan_vars, VlanIInv, VlanTypeOK, NothingBeforeVlanInit, RegistersMirror, EgressInv,
        EgAtHome, EgBacked, AloneInstalled, IngressInv, Asked, AsConfigured,
        PortRule
  <2> QED
    BY <1>4, <2>1, VlanAssumption DEF vlan_vars, ChangesOnly
<1> QED
    BY <1>1, <1>2, <1>3, <1>4 DEF VlanNext

(* The VLANs' invariant holds in every state of the firmware.              *)
THEOREM VlanInductiveInvariant == VlanSpec => []VlanIInv
<1>1. VlanIInv /\ [VlanNext]_vlan_vars => VlanIInv'
    BY VlanStep
<1> QED
    BY <1>1, VlanInitHolds, PTL DEF VlanSpec

(* The database, the registers and the rules keep their types: every rule  *)
(* names a port and a VLAN of the switch.                                  *)
THEOREM VlanTypeCorrect == VlanSpec => []VlanTypeOK
<1>1. VlanIInv => VlanTypeOK
    BY DEF VlanIInv
<1> QED
    BY <1>1, VlanInductiveInvariant, PTL

(* A call of vlan.c changes egress rules of one VLAN at most: that the     *)
(* indices of ports meet never lets one VLAN's call reach another's rule.  *)
THEOREM ChangesStayInVlan == VlanSpec => OneVlanPerCall
<1> DEFINE A == \A v, w \in Vlans :
                   v # w =>
                     \/ \A t \in RulesOf(v) : egress'.at[t] = egress.at[t]
                     \/ \A t \in RulesOf(w) : egress'.at[t] = egress.at[t]
<1>1. VlanIInv /\ [VlanNext]_vlan_vars => [A]_vlan_vars
  <2> SUFFICES ASSUME VlanIInv, [VlanNext]_vlan_vars
               PROVE  A
    OBVIOUS
  <2>1. PICK x \in Vlans : ChangesOnly(x)
    BY VlanStep
  <2>2. \A v \in Vlans \ {x} : \A t \in RulesOf(v) : egress'.at[t] = egress.at[t]
    <3> SUFFICES ASSUME NEW v \in Vlans \ {x}, NEW t \in RulesOf(v), egress'.at[t] # egress.at[t]
                 PROVE  FALSE
      OBVIOUS
    <3>1. t \in EgIndex /\ egress.at[t] # NoRule /\ egress.at[t].vlan = v
      BY DEF RulesOf
    <3>2. PICK p \in Ports : t = VLAN_EGRESS_ENTRY(p, x)
      BY <2>1, <3>1 DEF ChangesOnly
    <3>3. VLAN_EGRESS_ENTRY(egress.at[t].port, v) = t
      BY <3>1 DEF VlanIInv, EgressInv, EgAtHome
    <3>4. egress.at[t].port \in Ports
      BY <3>1 DEF VlanIInv, VlanTypeOK, StageOf, EgRule
    <3> QED
      BY <3>2, <3>3, <3>4, EgressEntryFacts
  <2> QED
    BY <2>2
<1> QED
    BY <1>1, VlanInductiveInvariant, PTL DEF VlanSpec, OneVlanPerCall

(* The database, the registers and the rules of stage 6 agree on who is a  *)
(* member of a VLAN and who leaves untagged, wherever the index's last     *)
(* command was applied: every rule that stands does what the database asks *)
(* for its port and VLAN, and a member alone on its index has its rule.    *)
THEOREM TagsFollowMembership == VlanSpec => []MembershipAgrees
<1>1. ASSUME VlanIInv
      PROVE  MembershipAgrees
  <2>1. \A v \in Vlans : /\ vlan_csr.member[v] = vlan_db[v].member
                         /\ vlan_csr.untagged[v] = vlan_db[v].untagged
    BY <1>1 DEF VlanIInv, RegistersMirror
  <2>2. \A v \in Vlans : \A p \in vlan_db[v].member :
           p \in Ports /\ TagOf(p, vlan_db[v]) = WantedTag(p, v)
    BY <1>1 DEF VlanIInv, VlanTypeOK, TagOf, WantedTag
  <2>3. /\ egress \in StageOf(EgIndex, EgRule)
        /\ \A t \in EgIndex : egress.at[t] # NoRule =>
              egress.at[t].port \in Ports /\ egress.at[t].vlan \in Vlans
    BY <1>1 DEF VlanIInv, VlanTypeOK, StageOf, EgRule
  <2>4. ASSUME NEW t \in Installed(egress) \ egress.lost
        PROVE  egress.at[t].action = WantedTag(egress.at[t].port, egress.at[t].vlan)
    <3>1. t \in EgIndex /\ egress.at[t] # NoRule /\ t \notin egress.lost
      BY <2>3 DEF Installed, StageOf
    <3>2. /\ egress.at[t].port \in vlan_db[egress.at[t].vlan].member
          /\ egress.at[t].action = TagOf(egress.at[t].port, vlan_db[egress.at[t].vlan])
      BY <1>1, <3>1 DEF VlanIInv, EgressInv, EgBacked
    <3> QED
      BY <2>2, <2>3, <3>1, <3>2
  <2>5. ASSUME NEW v \in Vlans, NEW p \in vlan_db[v].member, Alone(p, v),
               VLAN_EGRESS_ENTRY(p, v) \notin egress.lost
        PROVE  egress.at[VLAN_EGRESS_ENTRY(p, v)]
                  = [port |-> p, vlan |-> v, action |-> WantedTag(p, v)]
    <3> DEFINE t == VLAN_EGRESS_ENTRY(p, v)
               r == egress.at[t]
    <3>1. p \in Ports /\ t \in EgIndex
      BY <2>2, EgressEntryFacts
    <3>2. r # NoRule
      BY <1>1, <2>5, <3>1 DEF VlanIInv, EgressInv, AloneInstalled
    <3>3. r.port \in Ports /\ r.vlan \in Vlans /\ VLAN_EGRESS_ENTRY(r.port, r.vlan) = t
      BY <1>1, <2>3, <3>1, <3>2 DEF VlanIInv, EgressInv, EgAtHome
    <3>4. r.vlan = v
      BY <3>1, <3>3, EgressEntryFacts
    <3>5. r.port = p
      BY <2>5, <3>3, <3>4 DEF Alone
    <3>6. r.action = WantedTag(p, v)
      BY <2>3, <2>4, <2>5, <3>1, <3>2, <3>4, <3>5 DEF Installed, StageOf
    <3>7. r = [port |-> r.port, vlan |-> r.vlan, action |-> r.action]
      BY <2>3, <3>1, <3>2 DEF StageOf, EgRule
    <3> QED
      BY <3>4, <3>5, <3>6, <3>7
  <2> QED
    BY <2>1, <2>4, <2>5 DEF MembershipAgrees
<1> QED
    BY <1>1, VlanInductiveInvariant, PTL

(* The two ingress rules of a port and its register say what the port's    *)
(* PVID and mode say, whatever calls set these and in whatever order.      *)
THEOREM PortRulesFollow == VlanSpec => []PortRulesAgree
<1>1. ASSUME VlanIInv
      PROVE  PortRulesAgree
  <2>1. \A p \in Ports : vlan_csr.port[p] = port_cfg[p]
    BY <1>1 DEF VlanIInv, RegistersMirror
  <2>2. \A p \in Ports :
           (Asked(p, 0) <=> Asked(p, 1)) /\ AsConfigured(p, 0) /\ AsConfigured(p, 1)
    BY <1>1 DEF VlanIInv, IngressInv
  <2> QED
    BY <2>1, <2>2 DEF PortRulesAgree, Asked, AsConfigured
<1> QED
    BY <1>1, VlanInductiveInvariant, PTL

-----------------------------------------------------------------------------
(* The QoS configuration.                                                  *)

RegFile == [dwrr : [QosPorts -> [Queues -> Words]], word : [Reg -> Words],
            dscp : [Dscps -> Queues]]

(* What the configuration cfg can put into a rate or mode register: what   *)
(* the register's own port asks for, or the upper word of the rate whose   *)
(* register is one below.                                                  *)
Own(cfg, r) ==
    IF r < PortCount THEN cfg[r].pir_bps % WordMod ELSE cfg[r - PortCount].sched_mode

MayHold(cfg, r) ==
    {Own(cfg, r)} \cup {cfg[p].pir_bps \div WordMod : p \in {q \in QosPorts : q + 1 = r}}

Current(regs, cfg) ==
    /\ \A p \in QosPorts : regs.dwrr[p] = cfg[p].dwrr_weight
    /\ \A r \in Reg : regs.word[r] \in MayHold(cfg, r)

QosIInv == QosTypeOK /\ Current(qos_csr, port_qos) /\ DscpAgrees

(* A rate is two words, each of which fits its register.                   *)
LEMMA TwoWords ==
    ASSUME NEW bps \in Bps
    PROVE  bps % WordMod \in Words /\ bps \div WordMod \in Words
<1>1. WordMod \in Nat \ {0} /\ bps \in Nat /\ bps < WordMod * WordMod
    BY QosAssumption DEF Bps
<1>2. bps % WordMod \in 0 .. WordMod - 1 /\ bps \div WordMod \in Nat
    BY <1>1, CutToWidth
<1>3. bps = WordMod * (bps \div WordMod) + (bps % WordMod)
    BY <1>1
<1> DEFINE q == bps \div WordMod
<1> HIDE DEF q
<1>4. ASSUME q >= WordMod
      PROVE  FALSE
  <2>1. q \in Nat /\ WordMod * q =< bps
    BY <1>1, <1>2, <1>3 DEF q
  <2>2. WordMod * WordMod =< WordMod * q
    BY <1>1, <1>4, <2>1
  <2> QED
    BY <1>1, <2>1, <2>2
<1>5. q \in 0 .. WordMod - 1
    BY <1>1, <1>2, <1>4 DEF q
<1> QED
    BY <1>2, <1>5 DEF q, Words

LEMMA DwrrSet ==
    ASSUME NEW regs \in RegFile, NEW p \in QosPorts, NEW weights \in [Queues -> Words]
    PROVE  /\ hal_qos_dwrr_set(regs, p, weights) \in RegFile
           /\ hal_qos_dwrr_set(regs, p, weights).dwrr[p] = weights
           /\ \A q \in QosPorts \ {p} : hal_qos_dwrr_set(regs, p, weights).dwrr[q] = regs.dwrr[q]
           /\ hal_qos_dwrr_set(regs, p, weights).word = regs.word
           /\ hal_qos_dwrr_set(regs, p, weights).dscp = regs.dscp
    BY DEF hal_qos_dwrr_set, RegFile

(* One word register is written.                                           *)
LEMMA WordSet ==
    ASSUME NEW regs \in RegFile, NEW r \in Reg, NEW w \in Words
    PROVE  /\ [regs EXCEPT !.word[r] = w] \in RegFile
           /\ [regs EXCEPT !.word[r] = w].word = [regs.word EXCEPT ![r] = w]
           /\ [regs EXCEPT !.word[r] = w].dwrr = regs.dwrr
           /\ [regs EXCEPT !.word[r] = w].dscp = regs.dscp
<1> DEFINE new == [regs.word EXCEPT ![r] = w]
<1>1. /\ regs.dwrr \in [QosPorts -> [Queues -> Words]] /\ regs.dscp \in [Dscps -> Queues]
      /\ regs.word \in [Reg -> Words]
      /\ regs = [dwrr |-> regs.dwrr, word |-> regs.word, dscp |-> regs.dscp]
    BY DEF RegFile
<1>2. new \in [Reg -> Words]
    BY <1>1
<1>3. [regs EXCEPT !.word[r] = w] = [dwrr |-> regs.dwrr, word |-> new, dscp |-> regs.dscp]
    BY <1>1
<1> HIDE DEF new
<1>4. [dwrr |-> regs.dwrr, word |-> new, dscp |-> regs.dscp] \in RegFile
    BY <1>1, <1>2 DEF RegFile
<1>5. [regs EXCEPT !.word[r] = w].word = new
    BY <1>3
<1> QED
    BY <1>3, <1>4, <1>5 DEF new

LEMMA PirSet ==
    ASSUME NEW regs \in RegFile, NEW p \in QosPorts, NEW bps \in Bps
    PROVE  /\ hal_qos_pir_set(regs, p, bps) \in RegFile
           /\ hal_qos_pir_set(regs, p, bps).word[p] = bps % WordMod
           /\ hal_qos_pir_set(regs, p, bps).word[p + 1] = bps \div WordMod
           /\ \A r \in Reg \ {p, p + 1} :
                 hal_qos_pir_set(regs, p, bps).word[r] = regs.word[r]
           /\ hal_qos_pir_set(regs, p, bps).dwrr = regs.dwrr
           /\ hal_qos_pir_set(regs, p, bps).dscp = regs.dscp
<1>1. p \in Reg /\ p + 1 \in Reg /\ p # p + 1
    BY QosAssumption DEF Reg, QosPorts
<1>2. bps % WordMod \in Words /\ bps \div WordMod \in Words
    BY TwoWords
<1> DEFINE low == bps % WordMod
           high == bps \div WordMod
<1> HIDE DEF low, high
<1>3. hal_qos_pir_set(regs, p, bps) = [regs EXCEPT !.word[p] = low, !.word[p + 1] = high]
    BY DEF hal_qos_pir_set, QOS_REG_PIR, low, high
<1>4. low \in Words /\ high \in Words
    BY <1>2 DEF low, high
<1> DEFINE mid == [regs EXCEPT !.word[p] = low]
<1>5. /\ hal_qos_pir_set(regs, p, bps).word = [[regs.word EXCEPT ![p] = low] EXCEPT ![p + 1] = high]
      /\ hal_qos_pir_set(regs, p, bps).dwrr = regs.dwrr
      /\ hal_qos_pir_set(regs, p, bps).dscp = regs.dscp
      /\ hal_qos_pir_set(regs, p, bps) \in RegFile
  <2>1. /\ mid \in RegFile
        /\ mid.word = [regs.word EXCEPT ![p] = low]
        /\ mid.dwrr = regs.dwrr /\ mid.dscp = regs.dscp
    BY <1>1, <1>4, WordSet
  <2>2. hal_qos_pir_set(regs, p, bps) = [mid EXCEPT !.word[p + 1] = high]
    BY <1>3
  <2> DEFINE next == p + 1
  <2> HIDE DEF mid, next
  <2>3. /\ [mid EXCEPT !.word[next] = high] \in RegFile
        /\ [mid EXCEPT !.word[next] = high].word = [mid.word EXCEPT ![next] = high]
        /\ [mid EXCEPT !.word[next] = high].dwrr = mid.dwrr
        /\ [mid EXCEPT !.word[next] = high].dscp = mid.dscp
    <3>1. next \in Reg
      BY <1>1 DEF next
    <3> QED
      BY <1>4, <2>1, <3>1, WordSet
  <2> QED
    BY <2>1, <2>2, <2>3 DEF next
<1>6. regs.word \in [Reg -> Words]
    BY DEF RegFile
<1> QED
    BY <1>1, <1>5, <1>6 DEF low, high

LEMMA ModeSet ==
    ASSUME NEW regs \in RegFile, NEW p \in QosPorts, NEW mode \in Modes
    PROVE  /\ hal_qos_sched_mode_set(regs, p, mode) \in RegFile
           /\ hal_qos_sched_mode_set(regs, p, mode).word[PortCount + p] = mode
           /\ \A r \in Reg \ {PortCount + p} :
                 hal_qos_sched_mode_set(regs, p, mode).word[r] = regs.word[r]
           /\ hal_qos_sched_mode_set(regs, p, mode).dwrr = regs.dwrr
           /\ hal_qos_sched_mode_set(regs, p, mode).dscp = regs.dscp
<1> DEFINE r == PortCount + p
<1>1. r \in Reg /\ mode \in Words
    BY QosAssumption DEF Reg, QosPorts, Modes, Words
<1>2. hal_qos_sched_mode_set(regs, p, mode) = [regs EXCEPT !.word[r] = mode]
    BY DEF hal_qos_sched_mode_set, QOS_REG_SCHED_MODE
<1> HIDE DEF r
<1>3. /\ hal_qos_sched_mode_set(regs, p, mode) \in RegFile
      /\ hal_qos_sched_mode_set(regs, p, mode).word = [regs.word EXCEPT ![r] = mode]
      /\ hal_qos_sched_mode_set(regs, p, mode).dwrr = regs.dwrr
      /\ hal_qos_sched_mode_set(regs, p, mode).dscp = regs.dscp
    BY <1>1, <1>2, WordSet
<1>4. regs.word \in [Reg -> Words]
    BY DEF RegFile
<1> QED
    BY <1>1, <1>3, <1>4 DEF r

(* One port's registers are written again: its own hold what it asks for,  *)
(* and what is written over another's is an upper word of the present.     *)
LEMMA ApplyPort ==
    ASSUME NEW cfg \in [QosPorts -> Config], NEW regs \in RegFile, NEW p \in QosPorts
    PROVE  /\ qos_apply_port(regs, p, cfg) \in RegFile
           /\ qos_apply_port(regs, p, cfg).dscp = regs.dscp
           /\ qos_apply_port(regs, p, cfg).dwrr[p] = cfg[p].dwrr_weight
           /\ \A q \in QosPorts \ {p} :
                 qos_apply_port(regs, p, cfg).dwrr[q] = regs.dwrr[q]
           /\ \A r \in Reg :
                 \/ qos_apply_port(regs, p, cfg).word[r] \in MayHold(cfg, r)
                 \/ /\ r \notin {p, PortCount + p}
                    /\ qos_apply_port(regs, p, cfg).word[r] = regs.word[r]
<1> DEFINE weights == cfg[p].dwrr_weight
           bps == cfg[p].pir_bps
           mode == cfg[p].sched_mode
           one == hal_qos_dwrr_set(regs, p, weights)
           two == hal_qos_pir_set(one, p, bps)
           three == hal_qos_sched_mode_set(two, p, mode)
<1>1. qos_apply_port(regs, p, cfg) = three
    BY DEF qos_apply_port
<1>2. weights \in [Queues -> Words] /\ bps \in Bps /\ mode \in Modes
    BY DEF Config
<1>3. p \in Nat /\ PortCount \in Nat \ {0} /\ p < PortCount /\ \A r \in Reg : r \in Nat
    BY QosAssumption DEF QosPorts, Reg
<1>4. /\ bps % WordMod \in MayHold(cfg, p) /\ bps \div WordMod \in MayHold(cfg, p + 1)
      /\ mode \in MayHold(cfg, PortCount + p)
    BY <1>3 DEF MayHold, Own
<1> HIDE DEF weights, bps, mode, one, two, three
<1>5. /\ one \in RegFile /\ one.dwrr[p] = weights /\ one.word = regs.word /\ one.dscp = regs.dscp
      /\ \A q \in QosPorts \ {p} : one.dwrr[q] = regs.dwrr[q]
    BY <1>2, DwrrSet DEF one
<1>6. /\ two \in RegFile /\ two.word[p] = bps % WordMod /\ two.word[p + 1] = bps \div WordMod
      /\ \A r \in Reg \ {p, p + 1} : two.word[r] = one.word[r]
      /\ two.dwrr = one.dwrr /\ two.dscp = one.dscp
    BY <1>2, <1>5, PirSet DEF two
<1>7. /\ three \in RegFile /\ three.word[PortCount + p] = mode
      /\ \A r \in Reg \ {PortCount + p} : three.word[r] = two.word[r]
      /\ three.dwrr = two.dwrr /\ three.dscp = two.dscp
    BY <1>2, <1>6, ModeSet DEF three
<1>8. ASSUME NEW r \in Reg
      PROVE  \/ three.word[r] \in MayHold(cfg, r)
             \/ r \notin {p, PortCount + p} /\ three.word[r] = regs.word[r]
  <2>1. CASE r = PortCount + p
    BY <1>4, <1>7, <2>1
  <2>2. CASE r # PortCount + p /\ r = p
    BY <1>4, <1>6, <1>7, <2>2
  <2>3. CASE r # PortCount + p /\ r = p + 1
    BY <1>4, <1>6, <1>7, <2>3
  <2>4. CASE r # PortCount + p /\ r # p /\ r # p + 1
    BY <1>5, <1>6, <1>7, <2>4
  <2> QED
    BY <2>1, <2>2, <2>3, <2>4
<1> QED
    BY <1>1, <1>5, <1>6, <1>7, <1>8 DEF weights

(* The registers after each port: the recursive function of qos_apply_all  *)
(* exists, for its first k entries do for every k.                         *)
AfterEach(f, regs, cfg) ==
    f = [n \in 0 .. PortCount |->
           IF n = 0 THEN regs ELSE qos_apply_port(f[n - 1], n - 1, cfg)]

LEMMA ApplyAllExists ==
    ASSUME NEW regs, NEW cfg
    PROVE  \E f : AfterEach(f, regs, cfg)
<1> DEFINE Run(f, k) == f = [n \in 0 .. k |->
                               IF n = 0 THEN regs ELSE qos_apply_port(f[n - 1], n - 1, cfg)]
           Bad == {k \in Nat : ~ \E f : Run(f, k)}
<1>1. ASSUME Bad # {}
      PROVE  FALSE
  <2>1. PICK m \in Bad : \A y \in Bad : m =< y
    <3>1. Bad \in SUBSET Nat /\ Bad # {}
      BY <1>1
    <3> HIDE DEF Bad
    <3>2. Min(Bad) \in Bad /\ \A y \in Bad : Min(Bad) =< y
      BY <3>1, MinOfNaturals
    <3> QED
      BY <3>2
  <2>2. m \in Nat /\ ~ \E f : Run(f, m)
    OBVIOUS
  <2>3. CASE m = 0
    <3> DEFINE f == [n \in 0 .. m |-> regs]
    <3>1. Run(f, m)
      BY <2>3
    <3> QED
      BY <2>2, <3>1
  <2>4. CASE m # 0
    <3>1. m - 1 \in Nat /\ ~ (m =< m - 1)
      BY <2>2, <2>4
    <3>2. m - 1 \notin Bad
      <4> HIDE DEF Bad
      <4> QED
        BY <2>1, <3>1
    <3>3. PICK g : Run(g, m - 1)
      BY <3>1, <3>2
    <3> DEFINE h == [n \in 0 .. m |->
                       IF n = 0 THEN regs ELSE qos_apply_port(g[n - 1], n - 1, cfg)]
    <3>4. \A n \in 0 .. m - 1 : h[n] = g[n]
      BY <2>2, <3>3
    <3>5. \A n \in 0 .. m : n # 0 => h[n - 1] = g[n - 1]
      BY <2>2, <3>4
    <3>6. Run(h, m)
      BY <3>5
    <3> QED
      BY <2>2, <3>6
  <2> QED
    BY <2>3, <2>4
<1>2. PortCount \in Nat
    BY QosAssumption
<1>3. \E f : Run(f, PortCount)
    BY <1>1, <1>2
<1> QED
    BY <1>3 DEF AfterEach

(* When every port has been applied, no register holds anything older than *)
(* the configuration that was applied.                                     *)
LEMMA ApplyAll ==
    ASSUME NEW cfg \in [QosPorts -> Config], NEW regs \in RegFile
    PROVE  /\ qos_apply_all(regs, cfg) \in RegFile
           /\ qos_apply_all(regs, cfg).dscp = regs.dscp
           /\ Current(qos_apply_all(regs, cfg), cfg)
<1> DEFINE after == CHOOSE f : AfterEach(f, regs, cfg)
<1>1. AfterEach(after, regs, cfg)
  <2>1. \E f : AfterEach(f, regs, cfg)
    BY ApplyAllExists
  <2> QED
    BY <2>1, Zenon
<1>2. qos_apply_all(regs, cfg) = after[PortCount]
    BY DEF qos_apply_all, AfterEach
<1>3. PortCount \in Nat \ {0}
    BY QosAssumption
<1> HIDE DEF after
<1>4. after[0] = regs /\ \A n \in 1 .. PortCount :
                            after[n] = qos_apply_port(after[n - 1], n - 1, cfg)
    BY <1>1, <1>3 DEF AfterEach
<1> DEFINE Done(n) ==
              /\ after[n] \in RegFile /\ after[n].dscp = regs.dscp
              /\ \A p \in QosPorts : p < n => after[n].dwrr[p] = cfg[p].dwrr_weight
              /\ \A r \in Reg : r < n \/ (PortCount =< r /\ r < PortCount + n) =>
                                   after[n].word[r] \in MayHold(cfg, r)
           Bad == {n \in 0 .. PortCount : ~ Done(n)}
<1>5. ASSUME Bad # {}
      PROVE  FALSE
  <2>1. PICK m \in Bad : \A y \in Bad : m =< y
    <3>1. Bad \in SUBSET Nat /\ Bad # {}
      BY <1>3, <1>5
    <3> HIDE DEF Bad
    <3>2. Min(Bad) \in Bad /\ \A y \in Bad : Min(Bad) =< y
      BY <3>1, MinOfNaturals
    <3> QED
      BY <3>2
  <2>2. m \in 0 .. PortCount /\ ~ Done(m)
    OBVIOUS
  <2>3. CASE m = 0
    <3>1. \A p \in QosPorts : ~ (p < 0)
      BY <1>3 DEF QosPorts
    <3>2. \A r \in Reg : ~ (r < 0) /\ ~ (PortCount =< r /\ r < PortCount + 0)
      BY <1>3 DEF Reg
    <3>3. Done(0)
      BY <1>4, <3>1, <3>2
    <3> QED
      BY <2>2, <2>3, <3>3
  <2>4. CASE m # 0
    <3> DEFINE p == m - 1
    <3>1. p \in QosPorts /\ p \in 0 .. PortCount /\ m = p + 1 /\ ~ (m =< p)
      BY <1>3, <2>2, <2>4 DEF QosPorts
    <3>2. p \notin Bad
      <4> HIDE DEF Bad, p
      <4> QED
        BY <2>1, <3>1
    <3>3. Done(p)
      BY <3>1, <3>2
    <3> DEFINE old == after[p]
               new == after[m]
    <3>4. new = qos_apply_port(old, p, cfg)
      BY <1>4, <2>2, <2>4
    <3>5. old \in RegFile /\ old.dscp = regs.dscp
      BY <3>3
    <3>6. /\ new \in RegFile /\ new.dscp = regs.dscp
          /\ new.dwrr[p] = cfg[p].dwrr_weight
          /\ \A q \in QosPorts \ {p} : new.dwrr[q] = old.dwrr[q]
          /\ \A r \in Reg : \/ new.word[r] \in MayHold(cfg, r)
                            \/ r \notin {p, PortCount + p} /\ new.word[r] = old.word[r]
      <4> HIDE DEF p, old, new, Done, Bad
      <4>1. cfg \in [QosPorts -> Config] /\ old \in RegFile /\ p \in QosPorts
        BY <3>1, <3>5
      <4> DEFINE next == qos_apply_port(old, p, cfg)
      <4>2. /\ next \in RegFile /\ next.dscp = old.dscp
            /\ next.dwrr[p] = cfg[p].dwrr_weight
            /\ \A q \in QosPorts \ {p} : next.dwrr[q] = old.dwrr[q]
            /\ \A r \in Reg : \/ next.word[r] \in MayHold(cfg, r)
                              \/ r \notin {p, PortCount + p} /\ next.word[r] = old.word[r]
        BY <4>1, ApplyPort
      <4>3. new = next
        BY <3>4
      <4> HIDE DEF next
      <4> QED
        BY <3>5, <4>2, <4>3
    <3>7. /\ \A q \in QosPorts : q < m => q = p \/ q < p
          /\ \A r \in Reg : r < m \/ (PortCount =< r /\ r < PortCount + m) =>
                \/ r = p \/ r = PortCount + p
                \/ r < p \/ (PortCount =< r /\ r < PortCount + p)
      BY <1>3, <3>1 DEF QosPorts, Reg
    <3>8. \A q \in QosPorts : q < m => new.dwrr[q] = cfg[q].dwrr_weight
      BY <3>3, <3>6, <3>7
    <3>9. \A r \in Reg : r < m \/ (PortCount =< r /\ r < PortCount + m) =>
                                   new.word[r] \in MayHold(cfg, r)
      BY <3>3, <3>6, <3>7
    <3> QED
      BY <2>2, <3>6, <3>8, <3>9
  <2> QED
    BY <2>3, <2>4
<1>6. Done(PortCount)
    BY <1>3, <1>5
<1>7. /\ \A p \in QosPorts : p < PortCount
      /\ \A r \in Reg : r < PortCount \/ (PortCount =< r /\ r < PortCount + PortCount)
    BY <1>3 DEF QosPorts, Reg
<1> QED
    BY <1>2, <1>6, <1>7 DEF Current

-----------------------------------------------------------------------------
(* The calls.                                                              *)
Applied(regs, cfg) == regs \in RegFile /\ cfg \in [QosPorts -> Config] /\ Current(regs, cfg)

LEMMA WeightsCall ==
    ASSUME Applied(qos_csr, port_qos), NEW p \in QosPorts, NEW weights \in [Queues -> Words],
           qos_port_set_weights(p, weights)
    PROVE  Applied(qos_csr', port_qos') /\ qos_csr'.dscp = qos_csr.dscp
<1>1. /\ port_qos' = [port_qos EXCEPT ![p].dwrr_weight = weights]
      /\ qos_csr' = hal_qos_dwrr_set(qos_csr, p, weights)
    BY DEF qos_port_set_weights
<1>2. /\ port_qos' \in [QosPorts -> Config] /\ port_qos'[p].dwrr_weight = weights
      /\ \A q \in QosPorts \ {p} : port_qos'[q] = port_qos[q]
      /\ port_qos'[p].pir_bps = port_qos[p].pir_bps
      /\ port_qos'[p].sched_mode = port_qos[p].sched_mode
    BY <1>1 DEF Applied, Config
<1>3. \A q \in QosPorts : /\ port_qos'[q].pir_bps = port_qos[q].pir_bps
                          /\ port_qos'[q].sched_mode = port_qos[q].sched_mode
    BY <1>2
<1>4. \A r \in Reg : MayHold(port_qos', r) = MayHold(port_qos, r)
  <2>1. \A r \in Reg : IF r < PortCount THEN r \in QosPorts ELSE r - PortCount \in QosPorts
    BY QosAssumption DEF Reg, QosPorts
  <2> QED
    BY <1>3, <2>1 DEF MayHold, Own
<1>5. /\ qos_csr' \in RegFile /\ qos_csr'.dwrr[p] = weights
      /\ \A q \in QosPorts \ {p} : qos_csr'.dwrr[q] = qos_csr.dwrr[q]
      /\ qos_csr'.word = qos_csr.word /\ qos_csr'.dscp = qos_csr.dscp
    BY <1>1, DwrrSet DEF Applied
<1>6. \A q \in QosPorts : qos_csr'.dwrr[q] = port_qos'[q].dwrr_weight
    BY <1>2, <1>5 DEF Applied, Current
<1>7. \A r \in Reg : qos_csr'.word[r] \in MayHold(port_qos', r)
    BY <1>4, <1>5 DEF Applied, Current
<1> QED
    BY <1>2, <1>5, <1>6, <1>7 DEF Applied, Current

LEMMA PirCall ==
    ASSUME Applied(qos_csr, port_qos), NEW p \in QosPorts, NEW bps \in Bps,
           qos_port_set_pir(p, bps)
    PROVE  Applied(qos_csr', port_qos') /\ qos_csr'.dscp = qos_csr.dscp
<1>1. /\ port_qos' = [port_qos EXCEPT ![p].pir_bps = bps]
      /\ qos_csr' = hal_qos_pir_set(qos_csr, p, bps)
    BY DEF qos_port_set_pir
<1>2. /\ port_qos' \in [QosPorts -> Config] /\ port_qos'[p].pir_bps = bps
      /\ \A q \in QosPorts \ {p} : port_qos'[q] = port_qos[q]
      /\ port_qos'[p].dwrr_weight = port_qos[p].dwrr_weight
      /\ port_qos'[p].sched_mode = port_qos[p].sched_mode
    BY <1>1 DEF Applied, Config
<1>3. /\ qos_csr' \in RegFile
      /\ qos_csr'.word[p] = bps % WordMod /\ qos_csr'.word[p + 1] = bps \div WordMod
      /\ \A r \in Reg \ {p, p + 1} : qos_csr'.word[r] = qos_csr.word[r]
      /\ qos_csr'.dwrr = qos_csr.dwrr /\ qos_csr'.dscp = qos_csr.dscp
    BY <1>1, PirSet DEF Applied
<1>4. p \in Nat /\ p < PortCount /\ PortCount \in Nat
    BY QosAssumption DEF QosPorts
<1>5. \A r \in Reg : qos_csr'.word[r] \in MayHold(port_qos', r)
  <2> SUFFICES ASSUME NEW r \in Reg
               PROVE  qos_csr'.word[r] \in MayHold(port_qos', r)
    OBVIOUS
  <2>1. CASE r = p
    BY <1>2, <1>3, <1>4, <2>1 DEF MayHold, Own
  <2>2. CASE r = p + 1
    BY <1>2, <1>3, <1>4, <2>2 DEF MayHold
  <2>3. CASE r \notin {p, p + 1}
    <3>1. qos_csr'.word[r] \in MayHold(port_qos, r)
      BY <1>3, <2>3 DEF Applied, Current
    <3>2. Own(port_qos', r) = Own(port_qos, r)
      <4>1. CASE r < PortCount
        <5>1. r \in QosPorts \ {p}
          BY <2>3, <4>1, QosAssumption DEF Reg, QosPorts
        <5> QED
          BY <1>2, <4>1, <5>1 DEF Own
      <4>2. CASE ~ (r < PortCount)
        <5>1. r - PortCount \in QosPorts
          BY <4>2, QosAssumption DEF Reg, QosPorts
        <5>2. port_qos'[r - PortCount].sched_mode = port_qos[r - PortCount].sched_mode
          BY <1>2, <5>1
        <5> QED
          BY <4>2, <5>2 DEF Own
      <4> QED
        BY <4>1, <4>2
    <3>3. \A q \in QosPorts : q + 1 = r => port_qos'[q] = port_qos[q]
      BY <1>2, <2>3
    <3> QED
      BY <3>1, <3>2, <3>3 DEF MayHold
  <2> QED
    BY <2>1, <2>2, <2>3
<1> QED
    BY <1>2, <1>3, <1>5 DEF Applied, Current

LEMMA ModeCall ==
    ASSUME Applied(qos_csr, port_qos), NEW p \in QosPorts, NEW mode \in Modes, NEW spq \in Nat,
           qos_port_set_mode(p, mode, spq)
    PROVE  Applied(qos_csr', port_qos') /\ qos_csr'.dscp = qos_csr.dscp
<1>1. /\ port_qos' = [port_qos EXCEPT ![p].sched_mode = mode, ![p].sp_queues = spq]
      /\ qos_csr' = hal_qos_sched_mode_set(qos_csr, p, mode)
      /\ spq \in 0 .. QueueCount
    BY QosAssumption DEF qos_port_set_mode
<1>2. /\ port_qos' \in [QosPorts -> Config] /\ port_qos'[p].sched_mode = mode
      /\ \A q \in QosPorts \ {p} : port_qos'[q] = port_qos[q]
      /\ port_qos'[p].dwrr_weight = port_qos[p].dwrr_weight
      /\ port_qos'[p].pir_bps = port_qos[p].pir_bps
    BY <1>1 DEF Applied, Config
<1>3. /\ qos_csr' \in RegFile
      /\ qos_csr'.word[PortCount + p] = mode
      /\ \A r \in Reg \ {PortCount + p} : qos_csr'.word[r] = qos_csr.word[r]
      /\ qos_csr'.dwrr = qos_csr.dwrr /\ qos_csr'.dscp = qos_csr.dscp
    BY <1>1, ModeSet DEF Applied
<1>4. p \in Nat /\ p < PortCount /\ PortCount \in Nat
    BY QosAssumption DEF QosPorts
<1>5. \A q \in QosPorts : port_qos'[q].pir_bps = port_qos[q].pir_bps
    BY <1>2
<1>6. \A r \in Reg : qos_csr'.word[r] \in MayHold(port_qos', r)
  <2> SUFFICES ASSUME NEW r \in Reg
               PROVE  qos_csr'.word[r] \in MayHold(port_qos', r)
    OBVIOUS
  <2>1. CASE r = PortCount + p
    BY <1>2, <1>3, <1>4, <2>1 DEF MayHold, Own
  <2>2. CASE r # PortCount + p
    <3>1. qos_csr'.word[r] \in MayHold(port_qos, r)
      BY <1>3, <2>2 DEF Applied, Current
    <3>2. Own(port_qos', r) = Own(port_qos, r)
      <4>1. CASE r < PortCount
        <5>1. r \in QosPorts
          BY <4>1, QosAssumption DEF Reg, QosPorts
        <5> QED
          BY <1>5, <4>1, <5>1 DEF Own
      <4>2. CASE ~ (r < PortCount)
        <5>1. r - PortCount \in QosPorts \ {p}
          BY <1>4, <2>2, <4>2, QosAssumption DEF Reg, QosPorts
        <5>2. port_qos'[r - PortCount].sched_mode = port_qos[r - PortCount].sched_mode
          BY <1>2, <5>1
        <5> QED
          BY <4>2, <5>2 DEF Own
      <4> QED
        BY <4>1, <4>2
    <3> QED
      BY <1>5, <3>1, <3>2 DEF MayHold
  <2> QED
    BY <2>1, <2>2
<1> QED
    BY <1>2, <1>3, <1>6 DEF Applied, Current

(* The DSCP value's register, rule and map entry are written together.     *)
LEMMA DscpCall ==
    ASSUME QosIInv, qos_boot > 0, NEW d \in Dscps, NEW queue \in Queues, qos_dscp_set(d, queue)
    PROVE  /\ Applied(qos_csr', port_qos')
           /\ dscp_map' \in [Dscps -> Queues] /\ stage5' \in StageOf(Dscps, Queues)
           /\ DscpAgrees'
<1>1. /\ dscp_map' = [dscp_map EXCEPT ![d] = queue]
      /\ qos_csr' = [qos_csr EXCEPT !.dscp[d] = queue]
      /\ port_qos' = port_qos
    BY DEF qos_dscp_set
<1>2. PICK applied \in BOOLEAN : stage5' = hal_tcam_insert(stage5, d, queue, applied)
    BY DEF qos_dscp_set
<1>3. /\ qos_csr \in RegFile /\ dscp_map \in [Dscps -> Queues] /\ port_qos \in [QosPorts -> Config]
      /\ stage5 \in StageOf(Dscps, Queues)
    BY DEF QosIInv, QosTypeOK, RegFile
<1>4. /\ qos_csr' \in RegFile /\ qos_csr'.dscp = [qos_csr.dscp EXCEPT ![d] = queue]
      /\ qos_csr'.dwrr = qos_csr.dwrr /\ qos_csr'.word = qos_csr.word
    BY <1>1, <1>3 DEF RegFile
<1>5. /\ stage5' \in StageOf(Dscps, Queues)
      /\ d \notin stage5'.lost => stage5'.at[d] = queue
      /\ \A u \in Dscps \ {d} :
            stage5'.at[u] = stage5.at[u] /\ (u \in stage5'.lost <=> u \in stage5.lost)
  <2>1. queue \in Queues \cup {NoRule}
    OBVIOUS
  <2> QED
    BY <1>2, <1>3, <2>1, CommandFacts
<1>6. qos_csr.dscp \in [Dscps -> Queues]
    BY <1>3 DEF RegFile
<1>7. DscpAgrees'
  <2> SUFFICES ASSUME NEW u \in Dscps
               PROVE  /\ qos_csr'.dscp[u] = dscp_map'[u]
                      /\ u \notin stage5'.lost => stage5'.at[u] = qos_csr'.dscp[u]
    BY DEF DscpAgrees
  <2>1. CASE u = d
    BY <1>1, <1>3, <1>4, <1>5, <1>6, <2>1
  <2>2. CASE u # d
    <3>1. qos_csr'.dscp[u] = qos_csr.dscp[u] /\ dscp_map'[u] = dscp_map[u]
      BY <1>1, <1>3, <1>4, <1>6, <2>2
    <3> QED
      BY <1>5, <2>2, <3>1 DEF QosIInv, DscpAgrees
  <2> QED
    BY <2>1, <2>2
<1>8. Current(qos_csr', port_qos')
    BY <1>1, <1>4 DEF QosIInv, Current
<1> QED
    BY <1>1, <1>3, <1>4, <1>5, <1>7, <1>8 DEF Applied

LEMMA QosCall ==
    ASSUME QosIInv, qos_boot > 0, qos_boot' \in 1 .. Len(QosBootCalls) + 1,
           NEW c \in QosCalls, DoQos(c)
    PROVE  QosIInv'
<1>1. /\ c.op # "dscp" => c.port \in QosPorts
      /\ c.op = "weight" => c.weights \in [Queues -> Words]
      /\ c.op = "pir" => c.bps \in Bps
      /\ c.op = "mode" => c.mode \in Modes /\ c.spq \in Nat
      /\ c.op = "dscp" => c.dscp \in Dscps /\ c.queue \in Queues
    BY QosAssumption DEF QosCalls
<1>2. Applied(qos_csr, port_qos)
    BY DEF QosIInv, QosTypeOK, Applied, RegFile
<1>3. CASE c.op # "dscp"
  <2>1. /\ Applied(qos_csr', port_qos') /\ qos_csr'.dscp = qos_csr.dscp
        /\ UNCHANGED <<dscp_map, stage5>>
    <3>1. CASE c.op = "weight" /\ qos_port_set_weights(c.port, c.weights)
      <4>1. UNCHANGED <<dscp_map, stage5>>
        BY <3>1 DEF qos_port_set_weights
      <4> QED
        BY <1>1, <1>2, <3>1, <4>1, WeightsCall
    <3>2. CASE c.op = "pir" /\ qos_port_set_pir(c.port, c.bps)
      <4>1. UNCHANGED <<dscp_map, stage5>>
        BY <3>2 DEF qos_port_set_pir
      <4> QED
        BY <1>1, <1>2, <3>2, <4>1, PirCall
    <3>3. CASE c.op = "mode" /\ qos_port_set_mode(c.port, c.mode, c.spq % ByteMod)
      <4>1. UNCHANGED <<dscp_map, stage5>>
        BY <3>3 DEF qos_port_set_mode
      <4>2. c.spq \in Nat /\ ByteMod \in Nat \ {0}
        BY <1>1, <3>3, QosAssumption
      <4> DEFINE n == c.spq
      <4>3. c.spq % ByteMod \in Nat
        <5>1. n \in Nat /\ ByteMod \in Nat \ {0}
          BY <4>2
        <5> HIDE DEF n
        <5>2. n % ByteMod \in Nat
          BY <5>1
        <5> QED
          BY <5>2 DEF n
      <4> QED
        BY <1>1, <1>2, <3>3, <4>1, <4>3, ModeCall
    <3> QED
      BY <1>3, <3>1, <3>2, <3>3 DEF DoQos
  <2>2. DscpAgrees'
    BY <2>1 DEF QosIInv, DscpAgrees
  <2> QED
    BY <2>1, <2>2 DEF QosIInv, QosTypeOK, Applied, RegFile
<1>4. CASE c.op = "dscp"
  <2>1. qos_dscp_set(c.dscp, c.queue)
    BY <1>4 DEF DoQos
  <2>2. /\ Applied(qos_csr', port_qos')
        /\ dscp_map' \in [Dscps -> Queues] /\ stage5' \in StageOf(Dscps, Queues)
        /\ DscpAgrees'
    BY <1>1, <1>4, <2>1, DscpCall
  <2>3. qos_boot' \in 0 .. Len(QosBootCalls) + 1
    BY QosAssumption
  <2> QED
    BY <2>2, <2>3 DEF QosIInv, QosTypeOK, Applied, RegFile
<1> QED
    BY <1>3, <1>4

LEMMA QosInitCall ==
    ASSUME QosIInv, qos_boot' = 1, qos_init
    PROVE  QosIInv'
<1> DEFINE default == [dwrr_weight |-> DefaultWeights, pir_bps |-> 0,
                       sched_mode |-> 0, sp_queues |-> 0]
           regs == [qos_csr EXCEPT !.dscp = DefaultQueue]
<1>1. /\ port_qos' = [p \in QosPorts |-> default] /\ dscp_map' = DefaultQueue
      /\ qos_csr' = qos_apply_all(regs, port_qos')
    BY DEF qos_init
<1>2. PICK failed \in SUBSET Dscps :
         stage5' = [at   |-> [d \in Dscps |-> IF d \in failed THEN stage5.at[d] ELSE dscp_map'[d]],
                    lost |-> failed]
    BY DEF qos_init, qos_apply_dscp_rules
<1>3. port_qos' \in [QosPorts -> Config]
  <2>1. 0 \in Bps
    <3>1. WordMod \in Nat /\ WordMod > 2
      BY QosAssumption
    <3>2. WordMod * WordMod \in Nat /\ WordMod * WordMod > 0
      BY <3>1
    <3> QED
      BY <3>2 DEF Bps
  <2>2. default \in Config
    BY <2>1, QosAssumption DEF Config, Modes
  <2> QED
    BY <1>1, <2>2
<1>4. regs \in RegFile /\ regs.dscp = DefaultQueue
    BY QosAssumption DEF QosIInv, QosTypeOK, RegFile
<1> HIDE DEF regs, default
<1>5. Applied(qos_csr', port_qos') /\ qos_csr'.dscp = DefaultQueue
    BY <1>1, <1>3, <1>4, ApplyAll DEF Applied
<1>6. /\ stage5' \in StageOf(Dscps, Queues) /\ stage5'.lost = failed
      /\ \A d \in Dscps \ failed : stage5'.at[d] = DefaultQueue[d]
  <2>1. stage5 \in StageOf(Dscps, Queues) /\ DefaultQueue \in [Dscps -> Queues]
    BY QosAssumption DEF QosIInv, QosTypeOK
  <2> QED
    BY <1>1, <1>2, <2>1 DEF StageOf
<1>7. DscpAgrees'
    BY <1>1, <1>5, <1>6 DEF DscpAgrees
<1>8. dscp_map' \in [Dscps -> Queues] /\ qos_boot' \in 0 .. Len(QosBootCalls) + 1
    BY <1>1, QosAssumption
<1> QED
    BY <1>5, <1>6, <1>7, <1>8 DEF QosIInv, QosTypeOK, Applied, RegFile

LEMMA QosInitHolds ==
    ASSUME QosInit
    PROVE  QosIInv
<1>1. 0 \in Words /\ 0 \in Bps /\ 0 \in Queues
  <2>1. WordMod \in Nat /\ WordMod > 2 /\ QueueCount \in Nat \ {0}
    BY QosAssumption
  <2>2. WordMod * WordMod \in Nat /\ WordMod * WordMod > 0
    BY <2>1
  <2> QED
    BY <2>1, <2>2 DEF Words, Bps, Queues
<1>2. EmptyStage(Dscps) \in StageOf(Dscps, Queues)
    BY EmptyFacts
<1>3. /\ \A p \in QosPorts : /\ port_qos[p].dwrr_weight = [q \in Queues |-> 0]
                             /\ port_qos[p].pir_bps = 0 /\ port_qos[p].sched_mode = 0
      /\ port_qos \in [QosPorts -> Config]
    BY <1>1, QosAssumption DEF QosInit, Config, Modes
<1>4. qos_csr \in RegFile
    BY <1>1 DEF QosInit, RegFile
<1>5. QosTypeOK
    BY <1>1, <1>2, <1>3, <1>4, QosAssumption DEF QosInit, QosTypeOK, RegFile
<1>6. \A r \in Reg : Own(port_qos, r) = 0
  <2> SUFFICES ASSUME NEW r \in Reg
               PROVE  Own(port_qos, r) = 0
    OBVIOUS
  <2>1. CASE r < PortCount
    <3>1. r \in QosPorts
      BY <2>1, QosAssumption DEF Reg, QosPorts
    <3>2. 0 % WordMod = 0
      BY QosAssumption
    <3> QED
      BY <1>3, <2>1, <3>1, <3>2 DEF Own
  <2>2. CASE ~ (r < PortCount)
    <3>1. r - PortCount \in QosPorts
      BY <2>2, QosAssumption DEF Reg, QosPorts
    <3> QED
      BY <1>3, <2>2, <3>1 DEF Own
  <2> QED
    BY <2>1, <2>2
<1>7. Current(qos_csr, port_qos)
    BY <1>3, <1>6 DEF QosInit, Current, MayHold
<1>8. DscpAgrees
    BY DEF QosInit, DscpAgrees
<1> QED
    BY <1>5, <1>7, <1>8 DEF QosIInv

LEMMA QosStep ==
    ASSUME QosIInv, [QosNext]_qos_vars
    PROVE  QosIInv'
<1>1. CASE QosBootInit
    BY <1>1, QosInitCall DEF QosBootInit
<1>2. CASE QosBootCall
  <2>1. /\ qos_boot \in 1 .. Len(QosBootCalls) /\ QosBootCalls[qos_boot] \in QosCalls
        /\ qos_boot' = qos_boot + 1
    BY <1>2, QosAssumption DEF QosBootCall
  <2>2. qos_boot > 0 /\ qos_boot' \in 1 .. Len(QosBootCalls) + 1
    BY <2>1, QosAssumption
  <2> QED
    BY <1>2, <2>1, <2>2, QosCall DEF QosBootCall
<1>3. ASSUME NEW c \in QosCalls, QosCommand(c)
      PROVE  QosIInv'
  <2>1. qos_boot > 0 /\ qos_boot' \in 1 .. Len(QosBootCalls) + 1
    BY <1>3, QosAssumption DEF QosCommand
  <2> QED
    BY <1>3, <2>1, QosCall DEF QosCommand
<1>4. CASE UNCHANGED qos_vars
    BY <1>4 DEF qos_vars, QosIInv, QosTypeOK, Current, DscpAgrees
<1> QED
    BY <1>1, <1>2, <1>3, <1>4 DEF QosNext

(* The QoS configuration's invariant holds in every state of the firmware. *)
THEOREM QosInductiveInvariant == QosSpec => []QosIInv
<1>1. QosIInv /\ [QosNext]_qos_vars => QosIInv'
    BY QosStep
<1> QED
    BY <1>1, QosInitHolds, PTL DEF QosSpec

(* The configuration, the map, the registers and the rules keep their      *)
(* types: a rate's two words fit their registers, and a DSCP value's queue *)
(* is one the port has.                                                    *)
THEOREM QosTypeCorrect == QosSpec => []QosTypeOK
<1>1. QosIInv => QosTypeOK
    BY DEF QosIInv
<1> QED
    BY <1>1, QosInductiveInvariant, PTL

(* No rate or mode register holds anything older than the configuration,   *)
(* although the two words of a rate overlap the next register: it holds    *)
(* what its port asks for or the upper word of the rate written over it.   *)
THEOREM NothingStale == QosSpec => []WordsAreCurrent
<1>1. ASSUME QosIInv
      PROVE  WordsAreCurrent
  <2> SUFFICES ASSUME NEW p \in QosPorts
               PROVE  /\ qos_csr.dwrr[p] = port_qos[p].dwrr_weight
                      /\ qos_csr.word[p] \in {Low(p)} \cup Over(p)
                      /\ qos_csr.word[PortCount + p]
                            \in {port_qos[p].sched_mode} \cup Over(PortCount + p)
    BY DEF WordsAreCurrent, QOS_REG_PIR, QOS_REG_SCHED_MODE
  <2>1. /\ p \in Reg /\ p < PortCount
        /\ PortCount + p \in Reg /\ ~ (PortCount + p < PortCount) /\ (PortCount + p) - PortCount = p
    BY QosAssumption DEF QosPorts, Reg
  <2>2. \A r \in Reg : MayHold(port_qos, r) = {Own(port_qos, r)} \cup Over(r)
    BY DEF MayHold, Over, High, QOS_REG_PIR
  <2>3. Own(port_qos, p) = Low(p) /\ Own(port_qos, PortCount + p) = port_qos[p].sched_mode
    BY <2>1 DEF Own, Low
  <2> QED
    BY <1>1, <2>1, <2>2, <2>3 DEF QosIInv, Current
<1> QED
    BY <1>1, QosInductiveInvariant, PTL

(* The scheduler's register and the stage-5 rule give a DSCP value the     *)
(* same queue, that of the map, unless the rule's command was lost.        *)
THEOREM OneQueuePerDscp == QosSpec => []DscpAgrees
<1>1. QosIInv => DscpAgrees
    BY DEF QosIInv
<1> QED
    BY <1>1, QosInductiveInvariant, PTL
=============================================================================
