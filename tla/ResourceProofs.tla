--------------------------- MODULE ResourceProofs ---------------------------
(***************************************************************************)
(* The resource table never issues an id that is in use, whatever its size *)
(* and whatever the sequence of rsrc_new and rsrc_del calls.               *)
(***************************************************************************)
EXTENDS Resource, TLAPS

\* What the table guarantees between two kernel operations.
RsrcInv == RsrcTypeOK /\ FreeListSound

\* rsrc_init leaves every id but 0 free, once, in ascending order
\* (resource.c:21-35).
LEMMA RsrcInitSound == RsrcInit => RsrcInv
<1>1. Id \subseteq Nat /\ RMax - 1 \in Nat
  BY RMaxAssumption DEF Id
<1>2. SUFFICES ASSUME RsrcInit PROVE RsrcInv
  OBVIOUS
<1>3. rfree \in Seq(Id) /\ Len(rfree) = RMax - 1 /\ \A i \in 1..Len(rfree) : rfree[i] = i
  BY <1>1, <1>2 DEF RsrcInit, Id
<1>4. RsrcTypeOK
  BY <1>2, <1>3 DEF RsrcInit, RsrcTypeOK
<1>5. FreeListSound
  BY <1>1, <1>2, <1>3 DEF RsrcInit, FreeListSound, Id
<1>. QED BY <1>4, <1>5 DEF RsrcInv

\* rsrc_new keeps the free list exact; the id it returns was free and now has
\* the requested type (resource.c:44-59).
LEMMA RsrcNewSound ==
  ASSUME RsrcInv, NEW kind \in Kind, rsrc_new(kind)
  PROVE  /\ RsrcInv'
         /\ rfree # <<>> => /\ NewId \in Id
                            /\ rtype[NewId] = "NONE"
                            /\ rtype' = [rtype EXCEPT ![NewId] = kind]
<1>1. CASE rfree = <<>>
  BY <1>1 DEF rsrc_new, rsrcVars, RsrcInv, RsrcTypeOK, FreeListSound
<1>2. CASE rfree # <<>>
  <2>1. /\ rtype' = [rtype EXCEPT ![Head(rfree)] = kind]
        /\ rfree' = Tail(rfree)
    BY <1>2 DEF rsrc_new
  <2>2. /\ rtype \in [Id -> Kind \cup {"NONE"}]
        /\ rfree \in Seq(Id)
    BY DEF RsrcInv, RsrcTypeOK
  <2>3. /\ Len(rfree) \in Nat \ {0}
        /\ Head(rfree) = rfree[1]
        /\ rfree[1] \in Id
        /\ Tail(rfree) \in Seq(Id)
        /\ Len(Tail(rfree)) = Len(rfree) - 1
        /\ \A i \in 1..Len(Tail(rfree)) : Tail(rfree)[i] = rfree[i + 1]
    BY <1>2, <2>2
  <2>4. rtype[Head(rfree)] = "NONE"
    BY <2>3 DEF RsrcInv, FreeListSound
  <2>5. RsrcTypeOK'
    BY <2>1, <2>2, <2>3 DEF RsrcTypeOK
  <2>6. ASSUME NEW id \in Id
        PROVE  rtype'[id] = "NONE" <=> \E i \in 1..Len(rfree') : rfree'[i] = id
    <3>1. CASE id = rfree[1]
      <4>1. rtype'[id] # "NONE"
        BY <2>1, <2>2, <2>3, <3>1 DEF Kind
      <4>2. \A i \in 1..Len(rfree') : rfree'[i] # id
        BY <2>1, <2>3, <3>1 DEF RsrcInv, FreeListSound
      <4>. QED BY <4>1, <4>2
    <3>2. CASE id # rfree[1]
      <4>1. rtype'[id] = rtype[id]
        BY <2>1, <2>2, <2>3, <3>2
      <4>2. rtype[id] = "NONE" <=> \E i \in 1..Len(rfree) : rfree[i] = id
        BY DEF RsrcInv, FreeListSound
      <4>3. (\E i \in 1..Len(rfree) : rfree[i] = id) <=> (\E i \in 1..Len(rfree') : rfree'[i] = id)
        <5>1. ASSUME NEW i \in 1..Len(rfree), rfree[i] = id
              PROVE  \E j \in 1..Len(rfree') : rfree'[j] = id
          <6>1. i - 1 \in 1..Len(rfree') /\ rfree'[i - 1] = rfree[i]
            BY <2>1, <2>3, <3>2, <5>1
          <6>. QED BY <5>1, <6>1
        <5>2. ASSUME NEW i \in 1..Len(rfree'), rfree'[i] = id
              PROVE  \E j \in 1..Len(rfree) : rfree[j] = id
          <6>1. i + 1 \in 1..Len(rfree) /\ rfree[i + 1] = id
            BY <2>1, <2>3, <5>2
          <6>. QED BY <6>1
        <5>. QED BY <5>1, <5>2
      <4>. QED BY <4>1, <4>2, <4>3
    <3>. QED BY <3>1, <3>2
  <2>7. \A i, j \in 1..Len(rfree') : rfree'[i] = rfree'[j] => i = j
    BY <2>1, <2>3 DEF RsrcInv, FreeListSound
  <2>8. FreeListSound'
    BY <2>6, <2>7 DEF FreeListSound
  <2>. QED BY <1>2, <2>1, <2>3, <2>4, <2>5, <2>8 DEF RsrcInv, NewId
<1>. QED BY <1>1, <1>2

\* rsrc_del puts an id in use back, once: an id that is already free, or out of
\* range, leaves the table alone (resource.c:61-68).
LEMMA RsrcDelSound ==
  ASSUME RsrcInv, NEW id \in Int, rsrc_del(id)
  PROVE  /\ RsrcInv'
         /\ id \in Id /\ rtype[id] # "NONE" => rtype' = [rtype EXCEPT ![id] = "NONE"]
         /\ ~(id \in Id /\ rtype[id] # "NONE") => UNCHANGED rsrcVars
<1>1. CASE ~(id \in Id /\ rtype[id] # "NONE")
  BY <1>1 DEF rsrc_del, rsrcVars, RsrcInv, RsrcTypeOK, FreeListSound
<1>2. CASE id \in Id /\ rtype[id] # "NONE"
  <2>1. /\ rtype' = [rtype EXCEPT ![id] = "NONE"]
        /\ rfree' = <<id>> \o rfree
    BY <1>2 DEF rsrc_del
  <2>2. /\ rtype \in [Id -> Kind \cup {"NONE"}]
        /\ rfree \in Seq(Id)
        /\ Len(rfree) \in Nat
    BY DEF RsrcInv, RsrcTypeOK
  <2>3. /\ rfree' \in Seq(Id)
        /\ Len(rfree') = Len(rfree) + 1
        /\ rfree'[1] = id
        /\ \A i \in 1..Len(rfree) : rfree'[i + 1] = rfree[i]
    BY <1>2, <2>1, <2>2
  <2>4. \A i \in 1..Len(rfree') : i # 1 => i - 1 \in 1..Len(rfree) /\ rfree'[i] = rfree[i - 1]
    BY <2>2, <2>3
  <2>5. \A i \in 1..Len(rfree) : rfree[i] # id
    BY <1>2 DEF RsrcInv, FreeListSound
  <2>6. RsrcTypeOK'
    BY <1>2, <2>1, <2>2, <2>3 DEF RsrcTypeOK
  <2>7. ASSUME NEW k \in Id
        PROVE  rtype'[k] = "NONE" <=> \E i \in 1..Len(rfree') : rfree'[i] = k
    <3>1. CASE k = id
      BY <2>1, <2>2, <2>3, <3>1
    <3>2. CASE k # id
      <4>1. rtype'[k] = rtype[k]
        BY <2>1, <2>2, <3>2
      <4>2. rtype[k] = "NONE" <=> \E i \in 1..Len(rfree) : rfree[i] = k
        BY DEF RsrcInv, FreeListSound
      <4>3. ASSUME NEW i \in 1..Len(rfree), rfree[i] = k
            PROVE  \E j \in 1..Len(rfree') : rfree'[j] = k
        <5>1. i + 1 \in 1..Len(rfree')
          BY <2>2, <2>3
        <5>. QED BY <2>3, <4>3, <5>1
      <4>4. ASSUME NEW i \in 1..Len(rfree'), rfree'[i] = k
            PROVE  \E j \in 1..Len(rfree) : rfree[j] = k
        BY <2>3, <2>4, <3>2, <4>4
      <4>. QED BY <4>1, <4>2, <4>3, <4>4
    <3>. QED BY <3>1, <3>2
  <2>8. ASSUME NEW i \in 1..Len(rfree'), NEW j \in 1..Len(rfree'), rfree'[i] = rfree'[j]
        PROVE  i = j
    <3>1. CASE i = 1
      BY <2>3, <2>4, <2>5, <2>8, <3>1
    <3>2. CASE j = 1
      BY <2>3, <2>4, <2>5, <2>8, <3>2
    <3>3. CASE i # 1 /\ j # 1
      <4>1. rfree[i - 1] = rfree[j - 1] /\ i - 1 \in 1..Len(rfree) /\ j - 1 \in 1..Len(rfree)
        BY <2>4, <2>8, <3>3
      <4>2. i - 1 = j - 1
        BY <4>1 DEF RsrcInv, FreeListSound
      <4>. QED BY <4>2, <2>3, <2>2
    <3>. QED BY <3>1, <3>2, <3>3
  <2>9. FreeListSound'
    BY <2>7, <2>8 DEF FreeListSound
  <2>. QED BY <1>2, <2>1, <2>6, <2>9 DEF RsrcInv
<1>. QED BY <1>1, <1>2

\* Under any calls the free list holds exactly the ids not in use, each once:
\* rsrc_new cannot issue a live id and rsrc_del cannot lose one.
THEOREM FreeListAlwaysSound == RsrcSpec => []FreeListSound
<1>1. RsrcInit => RsrcInv
  BY RsrcInitSound
<1>2. RsrcInv /\ [RsrcNext]_rsrcVars => RsrcInv'
  <2> SUFFICES ASSUME RsrcInv, [RsrcNext]_rsrcVars PROVE RsrcInv'
    OBVIOUS
  <2>1. ASSUME NEW kind \in Kind, rsrc_new(kind) PROVE RsrcInv'
    BY <2>1, RsrcNewSound
  <2>2. ASSUME NEW id \in 0..RMax, rsrc_del(id) PROVE RsrcInv'
    BY <2>2, RsrcDelSound, RMaxAssumption
  <2>3. CASE UNCHANGED rsrcVars
    BY <2>3 DEF rsrcVars, RsrcInv, RsrcTypeOK, FreeListSound
  <2>. QED BY <2>1, <2>2, <2>3 DEF RsrcNext
<1>3. RsrcInv => FreeListSound
  BY DEF RsrcInv
<1>. QED BY <1>1, <1>2, <1>3, PTL DEF RsrcSpec
=============================================================================
