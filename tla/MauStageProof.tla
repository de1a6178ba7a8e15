--------------------------- MODULE MauStageProof ---------------------------
EXTENDS MauStage, WellFoundedInduction, TLAPS

(* A nonempty set of TCAM addresses has a least one, which Min returns:    *)
(* the priority encoder returns an address that matches.                   *)
LEMMA MinOfAddrs ==
    ASSUME NEW S \in SUBSET Addrs, S # {}
    PROVE  Min(S) \in S
<1> DEFINE Less == {p \in Nat \X Nat : p[1] < p[2]}
<1>1. S \subseteq Nat
    BY StageAssumption DEF Addrs
<1>2. IsWellFoundedOn(Less, Nat)
    BY NatLessThanWellFounded DEF OpToRel
<1>3. PICK x \in S : \A y \in S : ~ (<<y, x>> \in Less)
    BY <1>1, <1>2, WFMin, Zenon
<1>4. ASSUME NEW y \in S PROVE x =< y
  <2>1. x \in Nat /\ y \in Nat /\ ~ (y < x)
      BY <1>1, <1>3
  <2>2. QED
      BY <2>1
<1>5. QED
    BY <1>4 DEF Min

(* What a lookup that hits returns: the index of a rule of the table that  *)
(* matches the key.                                                        *)
LEMMA LookupHit ==
    ASSUME NEW tab \in [Addrs -> Rule \cup {NoRule}], NEW k \in Keys,
           Lookup(tab, k) # NoHit
    PROVE  /\ Hits(tab, k) # {}
           /\ Min(Hits(tab, k)) \in Addrs
           /\ tab[Min(Hits(tab, k))] \in Rule
           /\ Lookup(tab, k) = tab[Min(Hits(tab, k))].ptr
<1>1. Hits(tab, k) # {} /\ Lookup(tab, k) = tab[Min(Hits(tab, k))].ptr
    BY DEF Lookup
<1>2. Hits(tab, k) \in SUBSET Addrs
    BY DEF Hits
<1>3. Min(Hits(tab, k)) \in Hits(tab, k)
    BY <1>1, <1>2, MinOfAddrs
<1>4. QED
    BY <1>1, <1>3 DEF Hits

LEMMA LookupType ==
    ASSUME NEW tab \in [Addrs -> Rule \cup {NoRule}], NEW k \in Keys
    PROVE  Lookup(tab, k) \in TableIds \cup {NoHit}
<1>1. CASE Lookup(tab, k) = NoHit
    BY <1>1
<1>2. CASE Lookup(tab, k) # NoHit
    BY <1>2, LookupHit DEF Rule
<1>3. QED
    BY <1>1, <1>2

LEMMA SaysType ==
    ASSUME NEW tab \in [Addrs -> Rule \cup {NoRule}], NEW k \in Keys,
           NEW acts \in [TableIds -> Acts]
    PROVE  Says(tab, acts, k) \in Verdict
    BY LookupType DEF Says, Verdict

(* What a write does to the memories.                                      *)
LEMMA WriteFacts ==
    ASSUME TypeOK, RuleAtHome, NEW w \in Write \cup {NoWrite}, WriteRule(w)
    PROVE  /\ tcam' \in [Addrs -> Rule \cup {NoRule}]
           /\ asram' \in [TableIds -> Acts]
           /\ RuleAtHome'
<1>1. CASE w = NoWrite
    BY <1>1 DEF TypeOK, WriteRule, RuleAtHome
<1>2. CASE w # NoWrite
  <2>1. w \in Write /\ w.table_id \in TableIds /\ w.act \in Acts
      BY <1>2 DEF Write
  <2>2. w.cmd = "INSERT" => w.match \in Matches
      BY <2>1 DEF Write
  <2>3. w.table_id % AddrMod \in Addrs
    <3>1. w.table_id \in Nat /\ AddrMod \in Nat \ {0}
        BY <2>1, StageAssumption
    <3>2. QED
        BY <3>1 DEF Addrs
  <2>4. asram' \in [TableIds -> Acts]
      BY <1>2, <2>1 DEF TypeOK, WriteRule
  <2>5. CASE w.cmd = "FLUSH"
      BY <1>2, <2>4, <2>5 DEF TypeOK, WriteRule, RuleAtHome
  <2>6. CASE w.cmd # "FLUSH"
    <3> DEFINE r == IF w.cmd = "INSERT" THEN [match |-> w.match, ptr |-> w.table_id]
                                        ELSE NoRule
    <3>1. tcam' = [tcam EXCEPT ![w.table_id % AddrMod] = r]
        BY <1>2, <2>6 DEF WriteRule
    <3>2. r \in Rule \cup {NoRule} /\ (r # NoRule => r.ptr = w.table_id)
        BY <2>1, <2>2 DEF Rule
    <3> HIDE DEF r
    <3>3. tcam' \in [Addrs -> Rule \cup {NoRule}]
        BY <2>3, <3>1, <3>2 DEF TypeOK
    <3>4. RuleAtHome'
        BY <2>3, <3>1, <3>2 DEF TypeOK, RuleAtHome
    <3>5. QED
        BY <2>4, <3>3, <3>4
  <2>7. QED
      BY <2>5, <2>6
<1>3. QED
    BY <1>1, <1>2

-----------------------------------------------------------------------------
(* The type invariant.                                                     *)

LEMMA InitType == Init => TypeOK
    BY StageAssumption, GapAssumption
       DEF Init, TypeOK, Verdict, Said, Nothing

LEMMA NextType ==
    ASSUME TypeOK, RuleAtHome, [Next]_vars
    PROVE  TypeOK'
<1>1. CASE UNCHANGED vars
    BY <1>1 DEF TypeOK, vars, pipe
<1>2. ASSUME NEW in \in Keys \cup {Bubble}, NEW w \in Write \cup {NoWrite}, Edge(in, w)
      PROVE  TypeOK'
  <2>1. tcam' \in [Addrs -> Rule \cup {NoRule}] /\ asram' \in [TableIds -> Acts]
      BY <1>2, WriteFacts DEF Edge
  <2>2. /\ ready' \in BOOLEAN /\ wait' \in 0 .. Gap - 1
        /\ s0' \in Keys \cup {Bubble} /\ match_key' \in Keys \cup {Bubble}
      BY <1>2, GapAssumption DEF Edge, Crossbar, TypeOK
  <2>3. s1' \in Keys \cup {Bubble} /\ s2' \in Keys \cup {Bubble} /\ hash' \in Keys \cup {Bubble}
      BY <1>2 DEF Edge, Match, ReadAction, Hash, TypeOK
  <2>4. found' \in TableIds \cup {NoHit}
      BY <1>2, LookupType DEF Edge, Match, TypeOK
  <2>5. act' \in Verdict
      BY <1>2 DEF Edge, ReadAction, TypeOK, Verdict
  <2>6. s3' \in Out \cup {Bubble}
      BY <1>2 DEF Edge, Execute, TypeOK, Out
  <2>7. said' \in [1 .. 3 -> Said]
    <3>1. s0 # Bubble => /\ Says(tcam, asram, s0) \in Verdict
                         /\ Says(tcam', asram', s0) \in Verdict
        BY <2>1, SaysType DEF TypeOK
    <3>2. TakesAway(w, Lookup(tcam, s0)) \in BOOLEAN
        BY DEF TakesAway
    <3> DEFINE first == IF s0 = Bubble THEN Nothing
                        ELSE [may  |-> {Says(tcam, asram, s0), Says(tcam', asram', s0)},
                              gone |-> TakesAway(w, Lookup(tcam, s0))]
    <3>3. first \in Said
        BY <3>1, <3>2 DEF Said, Nothing
    <3>4. said' = [said EXCEPT ![1] = first, ![2] = said[1], ![3] = said[2]]
        BY <1>2 DEF Edge, Remember
    <3> HIDE DEF first
    <3>5. QED
        BY <3>3, <3>4 DEF TypeOK
  <2>8. QED
      BY <2>1, <2>2, <2>3, <2>4, <2>5, <2>6, <2>7 DEF TypeOK
<1>3. QED
    BY <1>1, <1>2 DEF Next

-----------------------------------------------------------------------------
(* Verdicts.                                                               *)

(* What a lookup has found gives, once the write of its edge is done, the  *)
(* verdict of before the edge or of after it, unless the write took the    *)
(* rule away.                                                              *)
LEMMA FoundAllowed ==
    ASSUME TypeOK, RuleAtHome, NEW w \in Write \cup {NoWrite}, WriteRule(w),
           NEW k \in Keys, ~TakesAway(w, Lookup(tcam, k)), Lookup(tcam, k) # NoHit
    PROVE  asram'[Lookup(tcam, k)] \in {Says(tcam, asram, k), Says(tcam', asram', k)}
<1> DEFINE a == Min(Hits(tcam, k))
           p == Lookup(tcam, k)
<1>1. /\ a \in Addrs /\ tcam[a] \in Rule /\ p = tcam[a].ptr
      /\ Hits(tcam, k) # {}
    BY LookupHit DEF TypeOK
<1>2. p \in TableIds /\ p % AddrMod = a /\ tcam[a] # NoRule
    BY <1>1, StageAssumption DEF RuleAtHome, Rule
<1>3. Says(tcam, asram, k) = asram[p]
    BY DEF Says
<1>4. CASE w = NoWrite
    BY <1>3, <1>4 DEF WriteRule
<1>5. CASE w # NoWrite /\ w.table_id # p
    BY <1>2, <1>3, <1>5 DEF WriteRule, TypeOK
<1>6. CASE w # NoWrite /\ w.table_id = p
  <2>1. asram'[p] = w.act /\ (w.cmd = "FLUSH" \/ (w.cmd = "INSERT" /\ w.match = tcam[a].match))
      BY <1>2, <1>6 DEF WriteRule, TakesAway, TypeOK
  <2>2. tcam' = tcam
    <3>1. CASE w.cmd = "FLUSH"
        BY <1>6, <3>1 DEF WriteRule
    <3>2. CASE w.cmd = "INSERT" /\ w.match = tcam[a].match
      <4>1. tcam' = [tcam EXCEPT ![a] = [match |-> tcam[a].match, ptr |-> tcam[a].ptr]]
          BY <1>1, <1>2, <1>6, <3>2 DEF WriteRule
      <4>2. [match |-> tcam[a].match, ptr |-> tcam[a].ptr] = tcam[a]
          BY <1>1 DEF Rule
      <4>3. QED
          BY <1>1, <4>1, <4>2 DEF TypeOK
    <3>3. QED
        BY <2>1, <3>1, <3>2
  <2>3. Says(tcam', asram', k) = asram'[p]
      BY <2>2 DEF Says
  <2>4. QED
      BY <2>3
<1>7. QED
    BY <1>4, <1>5, <1>6

LEMMA InitVerdict == Init => VerdictInv
    BY DEF Init, VerdictInv, RuleAtHome, UntornVerdict

LEMMA NextVerdict ==
    ASSUME TypeOK, VerdictInv, [Next]_vars
    PROVE  VerdictInv'
<1>1. CASE UNCHANGED vars
    BY <1>1 DEF VerdictInv, RuleAtHome, UntornVerdict, vars, pipe
<1>2. ASSUME NEW in \in Keys \cup {Bubble}, NEW w \in Write \cup {NoWrite}, Edge(in, w)
      PROVE  VerdictInv'
  <2>1. RuleAtHome'
      BY <1>2, WriteFacts DEF Edge, VerdictInv
  <2>2. said'[2] = said[1] /\ said'[3] = said[2]
    <3> DEFINE first == IF s0 = Bubble THEN Nothing
                        ELSE [may  |-> {Says(tcam, asram, s0), Says(tcam', asram', s0)},
                              gone |-> TakesAway(w, Lookup(tcam, s0))]
    <3>1. said' = [said EXCEPT ![1] = first, ![2] = said[1], ![3] = said[2]]
        BY <1>2 DEF Edge, Remember
    <3> HIDE DEF first
    <3>2. QED
        BY <3>1 DEF TypeOK
  <2>3. ASSUME s1' # Bubble, ~said'[1].gone
        PROVE  (IF found' = NoHit THEN NoAct ELSE asram'[found']) \in said'[1].may
    <3>1. s0 # Bubble /\ s0 \in Keys /\ found' = Lookup(tcam, s0)
        BY <1>2, <2>3 DEF Edge, Match, TypeOK
    <3>2. said'[1] = [may  |-> {Says(tcam, asram, s0), Says(tcam', asram', s0)},
                      gone |-> TakesAway(w, Lookup(tcam, s0))]
      <4> DEFINE first == [may  |-> {Says(tcam, asram, s0), Says(tcam', asram', s0)},
                           gone |-> TakesAway(w, Lookup(tcam, s0))]
      <4>1. said' = [said EXCEPT ![1] = first, ![2] = said[1], ![3] = said[2]]
          BY <1>2, <3>1 DEF Edge, Remember
      <4> HIDE DEF first
      <4>2. said'[1] = first
          BY <4>1 DEF TypeOK
      <4>3. QED
          BY <4>2 DEF first
    <3>3. CASE found' = NoHit
      <4>1. Says(tcam, asram, s0) = NoAct
          BY <3>1, <3>3 DEF Says
      <4>2. QED
          BY <3>2, <3>3, <4>1
    <3>4. CASE found' # NoHit
      <4>1. ~TakesAway(w, Lookup(tcam, s0))
          BY <2>3, <3>2
      <4>2. asram'[Lookup(tcam, s0)] \in {Says(tcam, asram, s0), Says(tcam', asram', s0)}
          BY <1>2, <3>1, <3>4, <4>1, FoundAllowed DEF Edge, VerdictInv
      <4>3. QED
          BY <3>1, <3>2, <3>4, <4>2
    <3>5. QED
        BY <3>3, <3>4
  <2>4. s2' # Bubble /\ ~said'[2].gone => act' \in said'[2].may
      BY <1>2, <2>2 DEF Edge, ReadAction, VerdictInv
  <2>5. UntornVerdict'
    <3>1. s2 # Bubble /\ ~said[2].gone => act \in said[2].may
        BY DEF VerdictInv
    <3>2. s3' = IF s2 = Bubble THEN Bubble ELSE [key |-> s2, act |-> act, hash |-> hash]
        BY <1>2 DEF Edge, Execute
    <3>3. QED
        BY <2>2, <3>1, <3>2 DEF UntornVerdict
  <2>6. QED
      BY <2>1, <2>3, <2>4, <2>5 DEF VerdictInv
<1>3. QED
    BY <1>1, <1>2 DEF Next

-----------------------------------------------------------------------------
(* Hashes.                                                                 *)

LEMMA NextHash ==
    ASSUME TypeOK, HashInv, [Next]_vars
    PROVE  HashInv'
<1>1. CASE UNCHANGED vars
    BY <1>1 DEF HashInv, OwnHash, vars, pipe
<1>2. ASSUME NEW in \in Keys \cup {Bubble}, NEW w \in Write \cup {NoWrite}, Edge(in, w)
      PROVE  HashInv'
  <2>1. s0' # Bubble => match_key' = s0' /\ wait' > 0
      BY <1>2, GapAssumption DEF Edge, Crossbar
  <2>2. s1' # Bubble => match_key' = s1' /\ hash' = s1'
    <3>1. s0 # Bubble => in = Bubble /\ match_key' = match_key
        BY <1>2 DEF Edge, Crossbar, HashInv, TypeOK
    <3>2. QED
        BY <1>2, <3>1 DEF Edge, Match, Hash, HashInv
  <2>3. s2' # Bubble => hash' = s2'
      BY <1>2 DEF Edge, ReadAction, Hash, HashInv
  <2>4. OwnHash'
      BY <1>2 DEF Edge, Execute, HashInv, OwnHash, TypeOK
  <2>5. QED
      BY <2>1, <2>2, <2>3, <2>4 DEF HashInv
<1>3. QED
    BY <1>1, <1>2 DEF Next

-----------------------------------------------------------------------------

(* Every register of the stage keeps its type, and every vector leaves     *)
(* with the verdict and the hash that are its own.                         *)
THEOREM StageInvariant == Spec => [](TypeOK /\ VerdictInv /\ HashInv)
<1>1. Init => TypeOK /\ VerdictInv /\ HashInv
    BY InitType, InitVerdict DEF Init, HashInv, OwnHash
<1>2. TypeOK /\ VerdictInv /\ HashInv /\ [Next]_vars => (TypeOK /\ VerdictInv /\ HashInv)'
    BY NextType, NextVerdict, NextHash DEF VerdictInv
<1>3. QED
    BY <1>1, <1>2, PTL DEF Spec

(* Every variable of the stage keeps its type.                             *)
THEOREM StageType == Spec => []TypeOK
    BY StageInvariant, PTL

(* A vector leaves with what the rules said before or after the edge of    *)
(* its lookup, unless that edge took away the rule it hit.                 *)
THEOREM VerdictsUntorn == Spec => []UntornVerdict
<1>1. VerdictInv => UntornVerdict
    BY DEF VerdictInv
<1>2. QED
    BY <1>1, StageInvariant, PTL

(* A vector leaves with the hash of its own key, if the parser leaves an   *)
(* edge between vectors.                                                   *)
THEOREM HashesOwn == Spec => []OwnHash
<1>1. HashInv => OwnHash
    BY DEF HashInv
<1>2. QED
    BY <1>1, StageInvariant, PTL
=============================================================================
