------------------------ MODULE ResourceTableProofs ------------------------
(***************************************************************************)
(* The array of entries and links of ResourceTable.tla implements the      *)
(* table of Resource.tla, whatever its size.  Chain(c) says that the links *)
(* from rfree lead through c, which is all of it and has no entry twice;   *)
(* FreeChain, which follows the links, then is c.                          *)
(***************************************************************************)
EXTENDS ResourceTable, Sequences, FiniteSetTheorems, WellFoundedInduction, TLAPS

Id == 1..(RMax - 1)

Chain(c) ==
  /\ \A i, j \in 1..Len(c) : c[i] = c[j] => i = j
  /\ \A i \in 1..Len(c) : /\ rmap[c[i]].type = "NONE"
                          /\ rmap[c[i]].r = IF i = Len(c) THEN 0 ELSE c[i + 1]
  /\ rfree = IF c = <<>> THEN 0 ELSE c[1]

TableInv ==
  /\ TypeOK
  /\ rmap[0].type = "NONE"
  /\ \E c \in Seq(Id) : Chain(c)

\* No more entries are free than there are.
LEMMA ChainBound ==
  ASSUME NEW c \in Seq(Id), Chain(c)
  PROVE  Len(c) \in 0..(RMax - 1)
<1>1. RMax - 1 \in Nat /\ Len(c) \in Nat
  BY TableAssumption
<1>2. /\ IsFiniteSet(Id) /\ Cardinality(Id) = RMax - 1
      /\ IsFiniteSet(1..Len(c)) /\ Cardinality(1..Len(c)) = Len(c)
  <2>1. \A n \in Nat : IsFiniteSet(1..n) /\ Cardinality(1..n) = n
    <3>1. ASSUME NEW n \in Nat PROVE IsFiniteSet(1..n) /\ Cardinality(1..n) = n
      BY FS_Interval
    <3>. QED BY <3>1
  <2>. QED BY <1>1, <2>1 DEF Id
<1>3. c \in [1..Len(c) -> Id]
  OBVIOUS
<1>4. ~(Cardinality(Id) < Cardinality(1..Len(c)))
  <2>1. Cardinality(Id) < Cardinality(1..Len(c)) => \E i, j \in 1..Len(c) : i # j /\ c[i] = c[j]
    BY <1>2, <1>3, FS_PigeonHole
  <2>. QED BY <2>1 DEF Chain
<1>. QED BY <1>1, <1>2, <1>4

\* Following the links gives the chain and then 0.
LEMMA LinkIs ==
  ASSUME NEW c \in Seq(Id), Chain(c)
  PROVE  \A k \in 0..RMax : Link[k] = IF k < Len(c) THEN c[k + 1] ELSE 0
<1>. DEFINE step(f, k) == IF k = 0 THEN rfree ELSE IF f[k - 1] \in Id THEN rmap[f[k - 1]].r ELSE 0
            want == [k \in 0..RMax |-> IF k < Len(c) THEN c[k + 1] ELSE 0]
<1>1. Len(c) \in Nat /\ RMax \in Nat /\ \A i \in 1..Len(c) : c[i] \in Id
  BY TableAssumption
<1>2. ASSUME NEW k \in 0..RMax PROVE want[k] = step(want, k)
  <2>1. CASE k = 0
    <3>1. c = <<>> <=> Len(c) = 0
      OBVIOUS
    <3>. QED BY <1>1, <2>1, <3>1 DEF Chain
  <2>2. CASE k # 0 /\ k - 1 < Len(c)
    <3>1. k \in 1..Len(c) /\ k - 1 \in 0..RMax /\ (k < Len(c) <=> k # Len(c))
      BY <1>1, <2>2
    <3>2. want[k - 1] = c[k] /\ c[k] \in Id
      BY <1>1, <2>2, <3>1
    <3>3. rmap[c[k]].r = IF k = Len(c) THEN 0 ELSE c[k + 1]
      BY <3>1 DEF Chain
    <3>. QED BY <2>2, <3>1, <3>2, <3>3
  <2>3. CASE k # 0 /\ ~(k - 1 < Len(c))
    <3>1. k - 1 \in 0..RMax /\ ~(k < Len(c))
      BY <1>1, <2>3
    <3>2. want[k - 1] = 0 /\ 0 \notin Id
      BY <2>3, <3>1 DEF Id
    <3>. QED BY <2>3, <3>1, <3>2
  <2>. QED BY <2>1, <2>2, <2>3
<1>3. Link = [k \in 0..RMax |-> step(Link, k)]
  <2>1. Link = CHOOSE f : f = [k \in 0..RMax |-> step(f, k)]
    BY DEF Link, Id
  <2>2. want = [k \in 0..RMax |-> step(want, k)]
    BY <1>2
  <2>. HIDE DEF want, step
  <2>. QED BY <2>1, <2>2
<1>4. \A k \in 0..RMax : Link[k] = step(Link, k)
  <2>. HIDE DEF step
  <2>. QED BY <1>3
<1>. DEFINE T == {k \in 0..RMax : Link[k] # want[k]}
<1>5. T = {}
  <2>. SUFFICES ASSUME T # {} PROVE FALSE
    OBVIOUS
  <2>1. PICK x \in T : \A y \in T : <<y, x>> \notin OpToRel(<, Nat)
    <3>1. T \subseteq Nat
      BY <1>1
    <3>. HIDE DEF T
    <3>. QED BY <3>1, NatLessThanWellFounded, WFMin
  <2>2. x \in 0..RMax /\ Link[x] # want[x]
    OBVIOUS
  <2>3. x # 0
    BY <1>2, <1>4, <2>2
  <2>4. x - 1 \in 0..RMax /\ x - 1 < x /\ x - 1 \in Nat /\ x \in Nat
    BY <1>1, <2>2, <2>3
  <2>5. <<x - 1, x>> \in OpToRel(<, Nat)
    BY <2>4 DEF OpToRel
  <2>6. Link[x - 1] = want[x - 1]
    BY <2>1, <2>4, <2>5
  <2>7. Link[x] = step(Link, x) /\ want[x] = step(want, x)
    BY <1>2, <1>4, <2>2
  <2>8. step(Link, x) = step(want, x)
    <3>. HIDE DEF want
    <3>. QED BY <2>3, <2>6
  <2>. QED BY <2>2, <2>7, <2>8
<1>. QED BY <1>5

LEMMA ChainIs == \A c \in Seq(Id) : Chain(c) => FreeChain = c
<1>. SUFFICES ASSUME NEW c \in Seq(Id), Chain(c) PROVE FreeChain = c
  OBVIOUS
<1>1. Len(c) \in 0..(RMax - 1) /\ RMax \in Nat
  BY ChainBound, TableAssumption
<1>2. /\ \A k \in 0..RMax : Link[k] = IF k < Len(c) THEN c[k + 1] ELSE 0
      /\ \A i \in 1..Len(c) : c[i] \in Id /\ c[i] # 0
  <2>1. \A k \in 0..RMax : Link[k] = IF k < Len(c) THEN c[k + 1] ELSE 0
    BY LinkIs
  <2>2. \A i \in 1..Len(c) : c[i] \in Id
    OBVIOUS
  <2>3. 0 \notin Id
    BY DEF Id
  <2>. QED BY <2>1, <2>2, <2>3
<1>3. {k \in 0..RMax : Link[k] # 0} = 0..(Len(c) - 1)
  <2>1. ASSUME NEW k \in 0..RMax PROVE Link[k] # 0 <=> k < Len(c)
    <3>1. k < Len(c) => k + 1 \in 1..Len(c)
      BY <1>1
    <3>. QED BY <1>2, <3>1
  <2>2. \A k \in 0..(Len(c) - 1) : k \in 0..RMax /\ k < Len(c)
    BY <1>1
  <2>3. \A k \in 0..RMax : k < Len(c) => k \in 0..(Len(c) - 1)
    BY <1>1
  <2>. QED BY <2>1, <2>2, <2>3
<1>4. Cardinality({k \in 0..RMax : Link[k] # 0}) = Len(c)
  <2>1. \A n \in Nat : Cardinality(0..(n - 1)) = n
    <3>1. ASSUME NEW n \in Nat PROVE Cardinality(0..(n - 1)) = n
      <4>1. n - 1 \in Int /\ 0 \in Int /\ (0 > n - 1 <=> n = 0) /\ n - 1 - 0 + 1 = n
        OBVIOUS
      <4>. QED BY <4>1, FS_Interval
    <3>. QED BY <3>1
  <2>2. PICK n \in Nat : n = Len(c)
    OBVIOUS
  <2>. QED BY <1>3, <2>1, <2>2
<1>5. \A k \in 1..Len(c) : Link[k - 1] = c[k]
  <2>1. \A k \in 1..Len(c) : k - 1 \in 0..RMax /\ k - 1 < Len(c) /\ (k - 1) + 1 = k
    BY <1>1
  <2>. QED BY <1>2, <2>1
<1>6. FreeChain = [k \in 1..Len(c) |-> c[k]]
  BY <1>4, <1>5 DEF FreeChain
<1>. QED BY <1>6

LEMMA ChainIsThen == (\A c \in Seq(Id) : Chain(c) => FreeChain = c)'
BY ChainIs, PTL

LEMMA TableInit == Init => TableInv /\ Abstract!RsrcInit
<1>. SUFFICES ASSUME Init PROVE TableInv /\ Abstract!RsrcInit
  OBVIOUS
<1>. DEFINE c == [i \in 1..(RMax - 1) |-> i]
<1>1. RMax \in Nat \ {0, 1} /\ RMax - 1 \in Nat
  BY TableAssumption
<1>2. c \in Seq(Id) /\ Len(c) = RMax - 1
  BY <1>1 DEF Id
<1>3. /\ \A i \in 0..(RMax - 1) : /\ rmap[i].type = "NONE"
                                  /\ rmap[i].r = IF i = RMax - 1 THEN 0 ELSE i + 1
      /\ rfree = 1
  BY DEF Init, Index
<1>4. TypeOK
  <2>1. \A i \in Index : (IF i = RMax - 1 THEN 0 ELSE i + 1) \in Index \cup {Data}
    BY <1>1 DEF Index
  <2>. QED BY <1>1, <2>1 DEF Init, TypeOK, Index
<1>5. \A i \in 1..(RMax - 1) : /\ c[i] = i /\ i \in 0..(RMax - 1)
                               /\ i # RMax - 1 => c[i + 1] = i + 1
  BY <1>1
<1>6. c # <<>> /\ c[1] = 1
  BY <1>1, <1>2, <1>5
<1>. HIDE DEF c
<1>7. Chain(c)
  BY <1>2, <1>3, <1>5, <1>6 DEF Chain
<1>8. FreeChain = c
  BY <1>2, <1>7, ChainIs
<1>9. Abstract!RsrcInit
  <2>1. [i \in 1..(RMax - 1) |-> rmap[i].type] = [i \in 1..(RMax - 1) |-> "NONE"]
    BY <1>3, <1>5
  <2>. QED BY <1>8, <2>1 DEF Abstract!RsrcInit, Abstract!Id, c
<1>. QED BY <1>1, <1>2, <1>3, <1>4, <1>7, <1>9 DEF TableInv

LEMMA NewKeeps ==
  ASSUME TableInv, NEW type \in Kind, rsrc_new(type)
  PROVE  TableInv' /\ Abstract!rsrc_new(type)
<1>1. PICK c \in Seq(Id) : Chain(c)
  BY DEF TableInv
<1>2. /\ rmap \in [Index -> [type : Kind \cup {"NONE"}, r : Index \cup {Data}]]
      /\ rfree \in Index /\ rmap[0].type = "NONE" /\ FreeChain = c
  BY <1>1, ChainIs DEF TableInv, TypeOK
<1>3. RMax - 1 \in Nat /\ 0 \in Index /\ 0 \notin Id /\ Id \subseteq Index /\ Len(c) \in Nat
  BY TableAssumption DEF Id, Index
<1>4. CASE rfree # 0 /\ rfree' = rmap[rfree].r /\ rmap' = [rmap EXCEPT ![rfree] = [type |-> type, r |-> Data]]
  <2>1. /\ c # <<>> /\ rfree = c[1] /\ rfree \in Id /\ Head(c) = c[1] /\ 1 \in 1..Len(c)
    BY <1>1, <1>4 DEF Chain
  <2>2. PICK d \in Seq(Id) : d = Tail(c)
    <3>1. Tail(c) \in Seq(Id)
      BY <2>1
    <3>. QED BY <3>1
  <2>3. /\ Len(d) = Len(c) - 1
        /\ \A i \in 1..Len(d) : d[i] = c[i + 1] /\ i + 1 \in 1..Len(c)
    BY <2>1, <2>2
  <2>4. /\ \A i \in 1..Len(d) : d[i] # rfree /\ d[i] \in Id
    BY <1>1, <2>1, <2>3 DEF Chain
  <2>5. /\ \A i \in Index : i # rfree => rmap'[i] = rmap[i]
        /\ rmap'[rfree] = [type |-> type, r |-> Data]
    BY <1>2, <1>3, <1>4, <2>1
  <2>6. rfree' = IF Len(c) = 1 THEN 0 ELSE c[2]
    <3>1. rmap[c[1]].r = IF 1 = Len(c) THEN 0 ELSE c[1 + 1]
      BY <1>1, <2>1 DEF Chain
    <3>. QED BY <1>4, <2>1, <3>1
  <2>7. rfree' = IF d = <<>> THEN 0 ELSE d[1]
    <3>1. d = <<>> <=> Len(d) = 0
      OBVIOUS
    <3>2. Len(d) # 0 => d[1] = c[2]
      BY <1>3, <2>3
    <3>. QED BY <1>3, <2>3, <2>6, <3>1, <3>2
  <2>8. TypeOK'
    <3>1. rfree' \in Index
      <4>1. Len(c) # 1 => c[2] \in Id
        <5>1. PICK n \in Nat : n = Len(c) /\ 1 \in 1..n
          BY <1>3, <2>1
        <5>2. n # 1 => 2 \in 1..n
          BY <5>1
        <5>3. \A i \in 1..Len(c) : c[i] \in Id
          OBVIOUS
        <5>. QED BY <5>1, <5>2, <5>3
      <4>. QED BY <1>3, <2>6, <4>1
    <3>2. [type |-> type, r |-> Data] \in [type : Kind \cup {"NONE"}, r : Index \cup {Data}]
      OBVIOUS
    <3>3. rmap' \in [Index -> [type : Kind \cup {"NONE"}, r : Index \cup {Data}]]
      BY <1>2, <1>4, <3>2
    <3>. QED BY <3>1, <3>3 DEF TypeOK
  <2>9. Chain(d)'
    <3>1. \A i, j \in 1..Len(d) : d[i] = d[j] => i = j
      <4>1. \A i, j \in 1..Len(d) : c[i + 1] = c[j + 1] => i + 1 = j + 1
        BY <1>1, <2>3 DEF Chain
      <4>2. \A i, j \in 1..Len(d) : i + 1 = j + 1 => i = j
        OBVIOUS
      <4>. QED BY <2>3, <4>1, <4>2
    <3>2. ASSUME NEW i \in 1..Len(d)
          PROVE  rmap'[d[i]].type = "NONE" /\ rmap'[d[i]].r = IF i = Len(d) THEN 0 ELSE d[i + 1]
      <4>1. rmap'[d[i]] = rmap[d[i]]
        BY <1>3, <2>4, <2>5
      <4>2. /\ rmap[c[i + 1]].type = "NONE"
            /\ rmap[c[i + 1]].r = IF i + 1 = Len(c) THEN 0 ELSE c[(i + 1) + 1]
        BY <1>1, <2>3 DEF Chain
      <4>3. /\ i + 1 = Len(c) <=> i = Len(d)
            /\ i # Len(d) => d[i + 1] = c[(i + 1) + 1]
        BY <1>3, <2>3
      <4>. QED BY <2>3, <4>1, <4>2, <4>3
    <3>. QED BY <2>7, <3>1, <3>2 DEF Chain
  <2>10. rmap'[0].type = "NONE"
    BY <1>2, <1>3, <2>1, <2>5
  <2>11. FreeChain' = d
    BY <2>9, ChainIsThen
  <2>12. [i \in 1..(RMax - 1) |-> rmap'[i].type]
           = [[i \in 1..(RMax - 1) |-> rmap[i].type] EXCEPT ![Head(c)] = type]
    <3>1. \A i \in 1..(RMax - 1) : rmap'[i].type = IF i = Head(c) THEN type ELSE rmap[i].type
      BY <1>3, <2>1, <2>5 DEF Id
    <3>. QED BY <2>1, <3>1
  <2>13. Abstract!rsrc_new(type)
    BY <1>2, <2>1, <2>2, <2>11, <2>12 DEF Abstract!rsrc_new
  <2>. QED BY <2>8, <2>9, <2>10, <2>13 DEF TableInv
<1>5. CASE rfree = 0 /\ UNCHANGED vars
  <2>1. c = <<>>
    <3>1. c # <<>> => c[1] \in Id
      OBVIOUS
    <3>. QED BY <1>1, <1>3, <1>5, <3>1 DEF Chain
  <2>2. UNCHANGED <<rmap, rfree>>
    BY <1>5 DEF vars
  <2>3. Chain(c)'
    BY <1>1, <2>2 DEF Chain
  <2>4. FreeChain' = c
    BY <2>3, ChainIsThen
  <2>5. TypeOK' /\ rmap'[0].type = "NONE"
    BY <1>2, <2>2 DEF TypeOK
  <2>6. Abstract!rsrc_new(type)
    BY <1>2, <2>1, <2>2, <2>4 DEF Abstract!rsrc_new, Abstract!rsrcVars
  <2>. QED BY <2>3, <2>5, <2>6 DEF TableInv
<1>. QED BY <1>4, <1>5 DEF rsrc_new

LEMMA DelKeeps ==
  ASSUME TableInv, NEW id \in 0..RMax, rsrc_del(id)
  PROVE  TableInv' /\ Abstract!rsrc_del(id)
<1>1. PICK c \in Seq(Id) : Chain(c)
  BY DEF TableInv
<1>2. /\ rmap \in [Index -> [type : Kind \cup {"NONE"}, r : Index \cup {Data}]]
      /\ rfree \in Index /\ rmap[0].type = "NONE" /\ FreeChain = c
  BY <1>1, ChainIs DEF TableInv, TypeOK
<1>3. RMax - 1 \in Nat /\ 0 \in Index /\ 0 \notin Id /\ Id \subseteq Index /\ Len(c) \in Nat
  BY TableAssumption DEF Id, Index
<1>4. /\ id < RMax /\ rmap[id].type # "NONE"
      /\ rmap' = [rmap EXCEPT ![id] = [type |-> "NONE", r |-> rfree]]
      /\ rfree' = id
  BY DEF rsrc_del
<1>5. id \in Id
  <2>1. id # 0
    BY <1>2, <1>4
  <2>. QED BY <1>4, <2>1, TableAssumption DEF Id
<1>6. PICK d \in Seq(Id) : d = <<id>> \o c
  <2>1. <<id>> \in Seq(Id)
    BY <1>5
  <2>2. <<id>> \o c \in Seq(Id)
    BY <2>1
  <2>. QED BY <2>2
<1>7. /\ Len(d) = Len(c) + 1 /\ d[1] = id /\ d # <<>>
      /\ \A i \in 2..Len(d) : d[i] = c[i - 1] /\ i - 1 \in 1..Len(c)
  BY <1>3, <1>5, <1>6
<1>8. /\ \A i \in Index : i # id => rmap'[i] = rmap[i]
      /\ rmap'[id] = [type |-> "NONE", r |-> rfree]
  BY <1>2, <1>3, <1>4, <1>5
<1>9. \A i \in 1..Len(c) : c[i] # id /\ c[i] \in Id
  BY <1>1, <1>4 DEF Chain
<1>10. TypeOK'
  <2>1. [type |-> "NONE", r |-> rfree] \in [type : Kind \cup {"NONE"}, r : Index \cup {Data}]
    BY <1>2
  <2>2. rmap' \in [Index -> [type : Kind \cup {"NONE"}, r : Index \cup {Data}]]
    BY <1>2, <1>4, <2>1
  <2>3. rfree' \in Index
    BY <1>3, <1>4, <1>5
  <2>. QED BY <2>2, <2>3 DEF TypeOK
<1>11. Chain(d)'
  <2>1. \A i \in 1..Len(d) : i = 1 \/ i \in 2..Len(d)
    BY <1>3, <1>7
  <2>2. \A i, j \in 1..Len(d) : d[i] = d[j] => i = j
    <3>1. ASSUME NEW i \in 2..Len(d), NEW j \in 2..Len(d), d[i] = d[j] PROVE i - 1 = j - 1
      <4>1. /\ i - 1 \in 1..Len(c) /\ j - 1 \in 1..Len(c) /\ c[i - 1] = c[j - 1]
        BY <1>7, <3>1
      <4>. QED BY <1>1, <4>1 DEF Chain
    <3>2. \A i, j \in 2..Len(d) : i - 1 = j - 1 => i = j
      OBVIOUS
    <3>3. \A i \in 2..Len(d) : d[i] # d[1]
      BY <1>7, <1>9
    <3>. QED BY <2>1, <3>1, <3>2, <3>3
  <2>3. rmap'[d[1]].type = "NONE" /\ rmap'[d[1]].r = IF 1 = Len(d) THEN 0 ELSE d[2]
    <3>1. rfree = IF c = <<>> THEN 0 ELSE c[1]
      BY <1>1 DEF Chain
    <3>2. (c = <<>> <=> Len(d) = 1) /\ (Len(d) # 1 => d[2] = c[1])
      <4>1. c = <<>> <=> Len(c) = 0
        OBVIOUS
      <4>2. Len(d) # 1 => 2 \in 2..Len(d)
        BY <1>3, <1>7
      <4>. QED BY <1>3, <1>7, <4>1, <4>2
    <3>. QED BY <1>7, <1>8, <3>1, <3>2
  <2>4. ASSUME NEW i \in 2..Len(d)
        PROVE  rmap'[d[i]].type = "NONE" /\ rmap'[d[i]].r = IF i = Len(d) THEN 0 ELSE d[i + 1]
    <3>1. d[i] = c[i - 1] /\ rmap'[d[i]] = rmap[c[i - 1]]
      BY <1>3, <1>7, <1>8, <1>9
    <3>2. /\ rmap[c[i - 1]].type = "NONE"
          /\ rmap[c[i - 1]].r = IF i - 1 = Len(c) THEN 0 ELSE c[(i - 1) + 1]
      BY <1>1, <1>7 DEF Chain
    <3>3. /\ i - 1 = Len(c) <=> i = Len(d)
          /\ i # Len(d) => d[i + 1] = c[(i - 1) + 1]
      <4>1. i # Len(d) => i + 1 \in 2..Len(d) /\ (i + 1) - 1 = (i - 1) + 1
        BY <1>3, <1>7
      <4>. QED BY <1>3, <1>7, <4>1
    <3>. QED BY <3>1, <3>2, <3>3
  <2>. QED BY <1>4, <1>7, <2>1, <2>2, <2>3, <2>4 DEF Chain
<1>12. rmap'[0].type = "NONE"
  BY <1>2, <1>3, <1>5, <1>8
<1>13. FreeChain' = d
  BY <1>11, ChainIsThen
<1>14. Abstract!rsrc_del(id)
  <2>1. [i \in 1..(RMax - 1) |-> rmap'[i].type]
          = [[i \in 1..(RMax - 1) |-> rmap[i].type] EXCEPT ![id] = "NONE"]
    <3>1. \A i \in Id : rmap'[i].type = IF i = id THEN "NONE" ELSE rmap[i].type
      <4>1. rmap'[id].type = "NONE"
        BY <1>8
      <4>. QED BY <1>3, <1>8, <4>1
    <3>. QED BY <1>5, <3>1 DEF Id
  <2>2. id \in 1..(RMax - 1) /\ [i \in 1..(RMax - 1) |-> rmap[i].type][id] # "NONE"
    BY <1>4, <1>5 DEF Id
  <2>. QED BY <1>2, <1>6, <1>13, <2>1, <2>2 DEF Abstract!rsrc_del, Abstract!Id
<1>. QED BY <1>10, <1>11, <1>12, <1>14 DEF TableInv

\* One step per operation; on both sides a full table changes nothing.
LEMMA TableNext == TableInv /\ [Next]_vars => TableInv' /\ [Abstract!RsrcNext]_(Abstract!rsrcVars)
<1>. SUFFICES ASSUME TableInv, [Next]_vars PROVE TableInv' /\ [Abstract!RsrcNext]_(Abstract!rsrcVars)
  OBVIOUS
<1>1. ASSUME NEW type \in Kind, rsrc_new(type) PROVE TableInv' /\ Abstract!RsrcNext
  BY <1>1, NewKeeps DEF Abstract!RsrcNext, Kind, Abstract!Kind
<1>2. ASSUME NEW id \in 0..RMax, rsrc_del(id) PROVE TableInv' /\ Abstract!RsrcNext
  BY <1>2, DelKeeps DEF Abstract!RsrcNext
<1>3. CASE UNCHANGED vars
  <2>1. UNCHANGED <<rmap, rfree>>
    BY <1>3 DEF vars
  <2>2. PICK c \in Seq(Id) : Chain(c)
    BY DEF TableInv
  <2>3. Chain(c)'
    BY <2>1, <2>2 DEF Chain
  <2>4. FreeChain' = FreeChain
    BY <2>2, <2>3, ChainIs, ChainIsThen
  <2>5. TableInv'
    BY <2>1, <2>3 DEF TableInv, TypeOK
  <2>. QED BY <2>1, <2>4, <2>5 DEF Abstract!rsrcVars
<1>. QED BY <1>1, <1>2, <1>3 DEF Next

\* The links of the array never lose, repeat or reorder a free id: every operation
\* is that of the abstract table (resource.c:21-68).
THEOREM TableImplementsResource == Spec => ImplementsResource
<1>1. Spec => []TableInv
  BY TableInit, TableNext, PTL DEF Spec
<1>. QED BY <1>1, TableInit, TableNext, PTL DEF Spec, ImplementsResource, Abstract!RsrcSpec
=============================================================================
