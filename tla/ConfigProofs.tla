----------------------------- MODULE ConfigProofs -----------------------------
(***************************************************************************)
(* What loading makes of any file, and who holds what it made, for any     *)
(* number of loads, phones and failed allocations.                         *)
(***************************************************************************)
EXTENDS Config, FiniteSetTheorems, NaturalsInduction, WellFoundedInduction, TLAPS

(* The types; that a reference count is never negative is a consequence of *)
(* RefsMatchHolders.                                                       *)
Base ==
  /\ pc \in {"idle", "devices", "general", "apply", "destroyed"}
  /\ load \in 0 .. LastLoad /\ file \in Files /\ global \in 0 .. LastLoad
  /\ todo \subseteq Devices /\ associated \subseteq Lines
  /\ devices \in [Loads -> SUBSET Devices] /\ lines \in [Loads -> SUBSET Lines]
  /\ speeddials \in [Loads -> SUBSET SpeedDials]
  /\ guestCfg \in [Loads -> Devices \cup {None}]
  /\ line \in [Loads -> [Devices -> Lines \cup {None}]]
  /\ dials \in [Loads -> [Devices -> Seq(SpeedDials)]]
  /\ refs \in [Loads -> [Names -> Int]]
  /\ cfg \in [Phones -> 0 .. LastLoad]
  /\ made \in [Phones -> [load : 0 .. LastLoad, device : Devices \cup {None}]]
  /\ ooms \in 0 .. MaxOoms

Loading == pc \in {"devices", "general", "apply"}

(* The last configuration that was ever in force.                          *)
Last == IF Loading THEN load - 1 ELSE load

(* A configuration that was not loaded yet.                                *)
Empty(g) ==
  /\ devices[g] = {} /\ lines[g] = {} /\ speeddials[g] = {} /\ guestCfg[g] = None
  /\ line[g] = [d \in Devices |-> None] /\ dials[g] = [d \in Devices |-> << >>]
  /\ refs[g] = [x \in Names |-> 0]

(* Nobody has a configuration that was not applied, and a device is not    *)
(* newer than its session's configuration.                                 *)
Order ==
  /\ Loading => load \in Loads
  /\ \A g \in Loads : g > load => Empty(g)
  /\ global <= Last
  /\ \A p \in Phones :
       /\ cfg[p] <= Last /\ made[p].load <= Last
       /\ cfg[p] # 0 => made[p].load <= cfg[p]
       /\ made[p] = NoDevice \/ (made[p].load \in Loads /\ made[p].device \in Devices)

(* The devices of the configuration being loaded whose line was found.     *)
Done == devices[load] \ todo

(* What pre_apply_devices_cfg has made of the file so far.                 *)
Building ==
  pc \in {"devices", "general"} =>
    /\ todo \subseteq devices[load] /\ devices[load] \subseteq file.devices
    /\ speeddials[load] = file.speeddials /\ guestCfg[load] = None
    /\ associated \subseteq file.lines
    /\ pc = "devices" => lines[load] = file.lines
    /\ pc = "general" => todo = {} /\ lines[load] = associated
    /\ \A d \in Devices \ Done : line[load][d] = None /\ dials[load][d] = << >>
    /\ \A d \in Done :
         /\ line[load][d] = file.line[d] /\ file.line[d] \in associated
         /\ IsSelection(dials[load][d], file.dials[d], file.speeddials)
    /\ \A d, e \in Done : line[load][d] = line[load][e] => d = e
    /\ \A d \in file.devices \ todo : file.line[d] \in file.lines => file.line[d] \in associated
    /\ ooms = 0 => \A l \in associated : \E d \in Done : line[load][d] = l

(* The lines of a configuration that is applied, or about to be.           *)
LinesOf(g) ==
  /\ \A d \in DevicesOf(g) : line[g][d] # None
  /\ \A d, e \in DevicesOf(g) : line[g][d] = line[g][e] => d = e
  /\ \A d \in devices[g] : line[g][d] \in lines[g]
  /\ guestCfg[g] # None => line[g][guestCfg[g]] \notin lines[g]
  /\ ooms = 0 => \A l \in lines[g] : \E d \in devices[g] : line[g][d] = l

Served ==
  \A g \in Loads : (IsAlive(g, "cfg") /\ (IsLoading(g) => pc = "apply")) => LinesOf(g)

ConfigInv ==
  Base /\ Order /\ Building /\ Served /\ AppliedAsWritten /\ RefsMatchHolders

-----------------------------------------------------------------------------
(* The speed dials that are found.                                         *)

(* Induction, for a set of numbers.                                        *)
LEMMA SetInduction ==
  ASSUME NEW P, P \subseteq Nat, 0 \in P, \A n \in P : n + 1 \in P
  PROVE  \A n \in Nat : n \in P
<1> DEFINE D == Nat \ P
<1> SUFFICES ASSUME D # {} PROVE FALSE
  OBVIOUS
<1>1. PICK d \in D : \A e \in D : ~ (<<e, d>> \in OpToRel(<, Nat))
  <2> HIDE DEF D
  <2>1. D \subseteq Nat
    BY DEF D
  <2> QED
    BY <2>1, NatLessThanWellFounded, WFMin, Zenon
<1>2. d \in Nat /\ d # 0 /\ d - 1 \in Nat
  OBVIOUS
<1>3. d - 1 \in P
  <2>1. <<d - 1, d>> \in Nat \X Nat /\ <<d - 1, d>>[1] = d - 1 /\ <<d - 1, d>>[2] = d
    BY <1>2
  <2>2. <<d - 1, d>> \in OpToRel(<, Nat)
    BY <1>2, <2>1 DEF OpToRel
  <2> QED
    BY <1>1, <1>2, <2>2
<1>4. (d - 1) + 1 = d
  BY <1>2
<1> QED
  BY <1>3, <1>4

(* sccp_device_cfg_build_speeddials keeps what is found, in its order.     *)
LEMMA KnownSelects ==
  ASSUME NEW M, NEW s \in Seq(M), NEW S
  PROVE  Known(s, S) \in Seq(M) /\ IsSelection(Known(s, S), s, S)
<1> DEFINE n == Len(s)
           Next1(f, i) == IF i = 0 THEN << >>
                          ELSE IF s[i] \in S THEN Append(f[i - 1], s[i]) ELSE f[i - 1]
<1>0. n \in Nat /\ \A i \in 1 .. n : s[i] \in M
  OBVIOUS
<1>1. \E f : f = [i \in 0 .. n |-> Next1(f, i)]
  <2> DEFINE IsUp(f, k) == /\ f \in [0 .. k -> Seq(M)]
                           /\ \A i \in 0 .. k : f[i] = Next1(f, i)
             P == {k \in Nat : k <= n => \E f : IsUp(f, k)}
  <2>1. 0 \in P
    <3> DEFINE f == [i \in 0 .. 0 |-> << >>]
    <3>1. IsUp(f, 0)
      OBVIOUS
    <3> QED
      BY <3>1
  <2>2. ASSUME NEW k \in P PROVE k + 1 \in P
    <3> SUFFICES ASSUME k + 1 <= n PROVE \E f : IsUp(f, k + 1)
      <4> HIDE DEF IsUp
      <4> QED
        OBVIOUS
    <3>1. PICK f : IsUp(f, k)
      <4> HIDE DEF IsUp
      <4> QED
        BY <1>0
    <3> DEFINE h == [i \in 0 .. k + 1 |-> IF i = k + 1 THEN Next1(f, k + 1) ELSE f[i]]
    <3>2. k \in Nat /\ k + 1 \in 1 .. n /\ s[k + 1] \in M /\ (k + 1) - 1 = k
      BY <1>0
    <3>3. Next1(f, k + 1) \in Seq(M)
      BY <3>1, <3>2
    <3>4. h \in [0 .. k + 1 -> Seq(M)]
      <4> HIDE DEF Next1
      <4> QED
        BY <3>1, <3>2, <3>3
    <3>5. \A i \in 0 .. k : h[i] = f[i]
      <4> HIDE DEF Next1
      <4> QED
        BY <3>2
    <3>6. h[k + 1] = Next1(f, k + 1)
      <4> HIDE DEF Next1
      <4> QED
        BY <3>2
    <3>7. \A i \in 0 .. k + 1 : h[i] = Next1(h, i)
      <4> SUFFICES ASSUME NEW i \in 0 .. k + 1 PROVE h[i] = Next1(h, i)
        OBVIOUS
      <4>1. i = 0 \/ h[i - 1] = f[i - 1]
        BY <3>2, <3>5
      <4>2. h[i] = Next1(f, i)
        <5> HIDE DEF Next1, h
        <5>1. CASE i = k + 1
          BY <3>6, <5>1
        <5>2. CASE i # k + 1
          <6>1. i \in 0 .. k
            BY <3>2, <5>2
          <6> QED
            BY <3>1, <3>5, <6>1
        <5> QED
          BY <5>1, <5>2
      <4> HIDE DEF h
      <4> QED
        BY <4>1, <4>2
    <3> QED
      BY <3>4, <3>7
  <2>3. n \in P
    <3>1. P \subseteq Nat
      OBVIOUS
    <3> HIDE DEF P
    <3> QED
      BY <1>0, <2>1, <2>2, <3>1, SetInduction
  <2>4. PICK f : IsUp(f, n)
    BY <1>0, <2>3
  <2>5. f = [i \in 0 .. n |-> Next1(f, i)]
    <3> HIDE DEF Next1
    <3> QED
      BY <2>4
  <2> QED
    BY <2>5
<1> DEFINE K == CHOOSE f : f = [i \in 0 .. n |-> Next1(f, i)]
<1>2. K = [i \in 0 .. n |-> Next1(K, i)]
  BY <1>1
<1>3. Known(s, S) = K[n]
  BY DEF Known
<1> HIDE DEF K
<1>4. \A i \in 0 .. n : K[i] = Next1(K, i)
  <2> HIDE DEF Next1
  <2> QED
    BY <1>2
<1> DEFINE Maps(at, l, t, k) ==
             /\ \A i, j \in 1 .. l : i < j => at[i] < at[j]
             /\ \A i \in 1 .. l : t[i] = s[at[i]]
             /\ {at[i] : i \in 1 .. l} = {j \in 1 .. k : s[j] \in S}
           IsSel(t, k) == \E at \in [1 .. Len(t) -> 1 .. k] : Maps(at, Len(t), t, k)
           Q == {k \in Nat : k <= n => K[k] \in Seq(M) /\ IsSel(K[k], k)}
<1>5. 0 \in Q
  <2>1. K[0] = << >>
    BY <1>0, <1>4
  <2>2. IsSel(<< >>, 0)
    <3> DEFINE at == [i \in 1 .. 0 |-> i]
    <3>1. at \in [1 .. Len(<< >>) -> 1 .. 0] /\ Len(<< >>) = 0
      OBVIOUS
    <3>2. 1 .. 0 = {}
      OBVIOUS
    <3> HIDE DEF at
    <3> QED
      BY <3>1, <3>2
  <2>3. K[0] \in Seq(M) /\ IsSel(K[0], 0)
    <3> HIDE DEF IsSel
    <3> QED
      BY <2>1, <2>2
  <2> HIDE DEF IsSel
  <2> QED
    BY <2>3
<1>6. ASSUME NEW k \in Q PROVE k + 1 \in Q
  <2> SUFFICES ASSUME k + 1 <= n PROVE K[k + 1] \in Seq(M) /\ IsSel(K[k + 1], k + 1)
    <3> HIDE DEF IsSel
    <3> QED
      OBVIOUS
  <2>1. /\ k \in Nat /\ k + 1 \in 1 .. n /\ s[k + 1] \in M /\ (k + 1) - 1 = k
        /\ K[k] \in Seq(M) /\ IsSel(K[k], k)
    <3> HIDE DEF IsSel
    <3> QED
      BY <1>0
  <2>2. K[k + 1] = IF s[k + 1] \in S THEN Append(K[k], s[k + 1]) ELSE K[k]
    BY <1>4, <2>1
  <2> DEFINE t == K[k]
             m == Len(t)
  <2>3. PICK at \in [1 .. m -> 1 .. k] :
               /\ \A i, j \in 1 .. m : i < j => at[i] < at[j]
               /\ \A i \in 1 .. m : t[i] = s[at[i]]
               /\ {at[i] : i \in 1 .. m} = {j \in 1 .. k : s[j] \in S}
    BY <2>1
  <2>4. m \in Nat /\ t \in Seq(M)
    BY <2>1
  <2> HIDE DEF t
  <2>5. CASE s[k + 1] \notin S
    <3>1. at \in [1 .. m -> 1 .. k + 1]
      BY <2>1, <2>3
    <3>2. {j \in 1 .. k : s[j] \in S} = {j \in 1 .. k + 1 : s[j] \in S}
      BY <2>1, <2>5
    <3>3. IsSel(t, k + 1)
      BY <2>3, <3>1, <3>2
    <3> HIDE DEF IsSel
    <3> QED
      BY <2>1, <2>2, <2>5, <3>3 DEF t
  <2>6. CASE s[k + 1] \in S
    <3> DEFINE u == Append(t, s[k + 1])
               h == [i \in 1 .. m + 1 |-> IF i = m + 1 THEN k + 1 ELSE at[i]]
    <3>1. /\ u \in Seq(M) /\ Len(u) = m + 1 /\ u[m + 1] = s[k + 1]
          /\ \A i \in 1 .. m : u[i] = t[i]
      BY <2>1, <2>4
    <3>2. /\ \A i \in 1 .. m : h[i] = at[i] /\ at[i] \in 1 .. k
          /\ h[m + 1] = k + 1 /\ h \in [1 .. m + 1 -> 1 .. k + 1]
      BY <2>1, <2>3, <2>4
    <3> HIDE DEF u, h
    <3>3. \A i, j \in 1 .. m + 1 : i < j => h[i] < h[j]
      <4> SUFFICES ASSUME NEW i \in 1 .. m + 1, NEW j \in 1 .. m + 1, i < j
          PROVE  h[i] < h[j]
        OBVIOUS
      <4> HIDE DEF m
      <4>1. i \in 1 .. m
        BY <2>4
      <4>2. CASE j = m + 1
        <5>1. h[i] \in 1 .. k /\ h[j] = k + 1
          BY <3>2, <4>1, <4>2
        <5> QED
          BY <2>1, <5>1
      <4>3. CASE j # m + 1
        <5>1. j \in 1 .. m
          BY <2>4, <4>3
        <5> QED
          BY <2>3, <3>2, <4>1, <5>1
      <4> QED
        BY <4>2, <4>3
    <3>4. \A i \in 1 .. m + 1 : u[i] = s[h[i]]
      <4> SUFFICES ASSUME NEW i \in 1 .. m + 1 PROVE u[i] = s[h[i]]
        OBVIOUS
      <4>1. CASE i = m + 1
        BY <3>1, <3>2, <4>1
      <4>2. CASE i # m + 1
        <5>1. i \in 1 .. m
          BY <2>4, <4>2
        <5>2. u[i] = t[i] /\ h[i] = at[i]
          BY <3>1, <3>2, <5>1
        <5>3. t[i] = s[at[i]]
          BY <2>3, <5>1
        <5> QED
          BY <5>2, <5>3
      <4> QED
        BY <4>1, <4>2
    <3>5. {h[i] : i \in 1 .. m + 1} = {h[i] : i \in 1 .. m} \cup {k + 1}
      BY <2>4, <3>2
    <3>6. {h[i] : i \in 1 .. m} = {at[i] : i \in 1 .. m}
      <4> DEFINE D == 1 .. m
      <4>1. \A i \in D : h[i] = at[i]
        BY <3>2
      <4> HIDE DEF D
      <4>2. {h[i] : i \in D} = {at[i] : i \in D}
        <5> DEFINE A == {h[i] : i \in D}
                   B == {at[i] : i \in D}
        <5>1. ASSUME NEW y \in A PROVE y \in B
          BY <4>1
        <5>2. ASSUME NEW y \in B PROVE y \in A
          BY <4>1
        <5>3. A = B
          <6> HIDE DEF A, B
          <6> QED
            BY <5>1, <5>2
        <5> QED
          BY <5>3
      <4> QED
        BY <4>2 DEF D
    <3>7. {j \in 1 .. k + 1 : s[j] \in S} = {j \in 1 .. k : s[j] \in S} \cup {k + 1}
      BY <2>1, <2>6
    <3>8. {h[i] : i \in 1 .. m + 1} = {j \in 1 .. k + 1 : s[j] \in S}
      BY <2>3, <3>5, <3>6, <3>7
    <3>9. IsSel(u, k + 1)
      <4>1. Maps(h, m + 1, u, k + 1)
        BY <3>3, <3>4, <3>8
      <4> HIDE DEF Maps
      <4> QED
        BY <3>1, <3>2, <4>1
    <3> HIDE DEF IsSel
    <3> QED
      BY <2>1, <2>2, <2>6, <3>1, <3>9 DEF t, u
  <2> QED
    BY <2>5, <2>6
<1>7. n \in Q
  <2>1. Q \subseteq Nat
    OBVIOUS
  <2> HIDE DEF Q
  <2> QED
    BY <1>0, <1>5, <1>6, <2>1, SetInduction
<1>8. K[n] \in Seq(M) /\ IsSel(K[n], n)
  <2> HIDE DEF IsSel
  <2> QED
    BY <1>0, <1>7
<1>9. \A t \in Seq(M) : DOMAIN t = 1 .. Len(t)
  OBVIOUS
<1>10. DOMAIN s = 1 .. n /\ DOMAIN K[n] = 1 .. Len(K[n])
  BY <1>8, <1>9
<1>11. IsSel(K[n], n) => IsSelection(K[n], s, S)
  <2> SUFFICES ASSUME IsSel(K[n], n) PROVE IsSelection(K[n], s, S)
    OBVIOUS
  <2> DEFINE t == K[n]
             l == Len(t)
  <2>1. PICK at \in [1 .. l -> 1 .. n] : Maps(at, l, t, n)
    OBVIOUS
  <2>2. DOMAIN s = 1 .. n /\ DOMAIN t = 1 .. l
    BY <1>10
  <2> HIDE DEF t, l, n
  <2>3. IsSelection(t, s, S)
    <3> DEFINE D == DOMAIN t
               E == DOMAIN s
    <3>1. D = 1 .. l /\ E = 1 .. n
      BY <2>2
    <3> HIDE DEF D, E
    <3>2. /\ at \in [D -> E] /\ (\A i, j \in D : i < j => at[i] < at[j])
          /\ (\A i \in D : t[i] = s[at[i]])
          /\ {at[i] : i \in D} = {j \in E : s[j] \in S}
      BY <2>1, <3>1
    <3> QED
      BY <3>2, Zenon DEF IsSelection, D, E
  <2> QED
    BY <2>3 DEF t
<1> HIDE DEF IsSel
<1> QED
  BY <1>3, <1>8, <1>11

-----------------------------------------------------------------------------
(* Counting: the elements of the sets f[i], for every i of a set.          *)
All(f, S) == UNION {{i} \X f[i] : i \in S}

(* A finite number of finite sets.                                         *)
LEMMA AllFinite ==
  ASSUME NEW f, NEW S, IsFiniteSet(S), \A i \in S : IsFiniteSet(f[i])
  PROVE  IsFiniteSet(All(f, S)) /\ Cardinality(All(f, S)) \in Nat
<1> DEFINE h == [i \in S |-> {i} \X f[i]]
           T == {{i} \X f[i] : i \in S}
<1>1. h \in Surjection(S, T)
  <2>1. h \in [S -> T] /\ \A t \in T : \E i \in S : h[i] = t
    OBVIOUS
  <2> QED
    BY <2>1 DEF Surjection
<1>2. IsFiniteSet(T)
  <2> HIDE DEF h, T
  <2> QED
    BY <1>1, FS_Surjection
<1>3. \A t \in T : IsFiniteSet(t)
  <2> SUFFICES ASSUME NEW i \in S PROVE IsFiniteSet({i} \X f[i])
    OBVIOUS
  <2> QED
    BY FS_Singleton, FS_Product
<1>4. IsFiniteSet(UNION T)
  <2> HIDE DEF T
  <2> QED
    BY <1>2, <1>3, FS_UNION
<1> QED
  BY <1>4, FS_CardinalityType DEF All

(* Those of two disjoint sets are added.                                   *)
LEMMA AllUnion ==
  ASSUME NEW f, NEW S, NEW T, IsFiniteSet(S), IsFiniteSet(T), S \cap T = {},
         \A i \in S \cup T : IsFiniteSet(f[i])
  PROVE  /\ Cardinality(All(f, S)) \in Nat /\ Cardinality(All(f, T)) \in Nat
         /\ Cardinality(All(f, S \cup T)) = Cardinality(All(f, S)) + Cardinality(All(f, T))
<1>1. All(f, S \cup T) = All(f, S) \cup All(f, T)
  BY DEF All
<1>2. All(f, S) \cap All(f, T) = {}
  BY DEF All
<1>3. /\ IsFiniteSet(All(f, S)) /\ Cardinality(All(f, S)) \in Nat
      /\ IsFiniteSet(All(f, T)) /\ Cardinality(All(f, T)) \in Nat
  BY AllFinite
<1>4. Cardinality(All(f, S) \cup All(f, T)) =
        Cardinality(All(f, S)) + Cardinality(All(f, T)) - Cardinality({})
  BY <1>2, <1>3, FS_Union
<1>5. Cardinality({}) = 0
  BY FS_EmptySet
<1> DEFINE u == Cardinality(All(f, S))
           v == Cardinality(All(f, T))
           w == Cardinality(All(f, S \cup T))
<1>6. u \in Nat /\ v \in Nat /\ w = u + v - 0
  BY <1>1, <1>3, <1>4, <1>5, Zenon
<1> HIDE DEF u, v, w
<1>7. w = u + v
  BY <1>6
<1> QED
  BY <1>6, <1>7 DEF u, v, w

(* Those of one.                                                           *)
LEMMA AllOne ==
  ASSUME NEW f, NEW i, IsFiniteSet(f[i])
  PROVE  Cardinality(All(f, {i})) = Cardinality(f[i]) /\ Cardinality(f[i]) \in Nat
<1>1. All(f, {i}) = {i} \X f[i]
  BY DEF All
<1>2. IsFiniteSet({i}) /\ Cardinality({i}) = 1
  BY FS_Singleton
<1>3. Cardinality(f[i]) \in Nat
  BY FS_CardinalityType
<1>4. Cardinality({i} \X f[i]) = 1 * Cardinality(f[i])
  BY <1>2, FS_Product
<1> QED
  BY <1>1, <1>3, <1>4

(* If there are none, there is nothing to count.                           *)
LEMMA AllNone ==
  ASSUME NEW f, NEW S, \A i \in S : f[i] = {}
  PROVE  Cardinality(All(f, S)) = 0
<1>1. All(f, S) = {}
  BY DEF All
<1> QED
  BY <1>1, FS_EmptySet

-----------------------------------------------------------------------------
(* Where devices refer to lines and speed dials.                           *)

(* They are numbers.                                                       *)
LEMMA CountFacts == \A P : Count(P) \in {0, 1} /\ (Count(P) = 1 <=> P)
BY DEF Count

(* What a device refers to.                                                *)
LEMMA PlacesFacts ==
  ASSUME NEW l, NEW s \in Seq(SpeedDials), NEW x
  PROVE  /\ IsFiniteSet(Places(l, s, x)) /\ Cardinality(Places(l, s, x)) \in Nat
         /\ (x # l /\ x \notin SpeedDials) => Places(l, s, x) = {}
         /\ (x # l /\ s = << >>) => Places(l, s, x) = {}
<1>1. Len(s) \in Nat /\ \A i \in 0 .. Len(s) : i # 0 => s[i] \in SpeedDials
  OBVIOUS
<1>2. Places(l, s, x) \subseteq 0 .. Len(s)
  BY DEF Places
<1>3. IsFiniteSet(0 .. Len(s))
  BY <1>1, FS_Interval
<1>4. IsFiniteSet(Places(l, s, x))
  BY <1>2, <1>3, FS_Subset
<1>5. Cardinality(Places(l, s, x)) \in Nat
  BY <1>4, FS_CardinalityType
<1>6. (x # l /\ x \notin SpeedDials) => Places(l, s, x) = {}
  BY <1>1 DEF Places
<1>7. (x # l /\ s = << >>) => Places(l, s, x) = {}
  BY <1>1 DEF Places
<1> QED
  BY <1>4, <1>5, <1>6, <1>7

(* The names of devices, lines and speed dials.                            *)
LEMMA NameFacts ==
  /\ Devices \subseteq Names /\ Lines \subseteq Names /\ SpeedDials \subseteq Names
  /\ "cfg" \in Names /\ None \notin Names
  /\ \A d \in Devices : d \notin Lines /\ d \notin SpeedDials /\ d # "cfg" /\ d # None
  /\ \A l \in Lines : l \notin Devices /\ l \notin SpeedDials /\ l # "cfg" /\ l # None
  /\ \A x \in SpeedDials : x \notin Devices /\ x \notin Lines /\ x # "cfg"
  /\ IsFiniteSet(Devices) /\ IsFiniteSet(Phones) /\ Guest \in Devices
  /\ \A f \in Files : f \in FileType
  /\ LastLoad \in Nat /\ MaxOoms \in Nat
BY ConfigAssumption DEF ConfigAssumption, Names

(* What devices of one configuration refer to.                             *)
LEMMA FromDevicesFacts ==
  ASSUME Base, NEW g \in Loads, NEW x
  PROVE  /\ \A d \in Devices : FromDevice(g, d, x) \in Nat /\ FromDevices(g, {d}, x) = FromDevice(g, d, x)
         /\ \A S \in SUBSET Devices : FromDevices(g, S, x) \in Nat
         /\ \A S, T \in SUBSET Devices : S \cap T = {} =>
              FromDevices(g, S \cup T, x) = FromDevices(g, S, x) + FromDevices(g, T, x)
         /\ x \in Devices \cup {"cfg"} =>
              /\ \A d \in Devices : FromDevice(g, d, x) = 0
              /\ \A S \in SUBSET Devices : FromDevices(g, S, x) = 0
         /\ \A S \in SUBSET Devices :
              ((\A d \in S : line[g][d] = None /\ dials[g][d] = << >>) /\ x \in Names) =>
                FromDevices(g, S, x) = 0
<1> DEFINE f == [d \in Devices |-> PlacesOf(g, d, x)]
<1>1. \A S \in SUBSET Devices : FromDevices(g, S, x) = Cardinality(All(f, S)) /\ IsFiniteSet(S)
  <2> SUFFICES ASSUME NEW S \in SUBSET Devices
      PROVE  FromDevices(g, S, x) = Cardinality(All(f, S)) /\ IsFiniteSet(S)
    OBVIOUS
  <2>1. {{d} \X PlacesOf(g, d, x) : d \in S} = {{d} \X f[d] : d \in S}
    OBVIOUS
  <2>2. IsFiniteSet(S)
    BY NameFacts, FS_Subset
  <2> QED
    BY <2>1, <2>2 DEF FromDevices, All
<1>2. ASSUME NEW d \in Devices
      PROVE  /\ IsFiniteSet(f[d]) /\ FromDevice(g, d, x) = Cardinality(f[d])
             /\ x \in Devices \cup {"cfg"} => f[d] = {}
             /\ (line[g][d] = None /\ dials[g][d] = << >> /\ x \in Names) => f[d] = {}
  <2>1. dials[g][d] \in Seq(SpeedDials) /\ line[g][d] \in Lines \cup {None}
    BY DEF Base
  <2>2. f[d] = Places(line[g][d], dials[g][d], x)
    BY DEF PlacesOf
  <2>3. x \in Devices \cup {"cfg"} => x # line[g][d] /\ x \notin SpeedDials
    BY <2>1, NameFacts
  <2> HIDE DEF f
  <2>4. /\ IsFiniteSet(f[d])
        /\ x \in Devices \cup {"cfg"} => f[d] = {}
        /\ (line[g][d] = None /\ dials[g][d] = << >> /\ x \in Names) => f[d] = {}
    <3> DEFINE l == line[g][d]
               s == dials[g][d]
    <3>1. s \in Seq(SpeedDials) /\ f[d] = Places(l, s, x)
      BY <2>1, <2>2
    <3>2. /\ x \in Devices \cup {"cfg"} => x # l /\ x \notin SpeedDials
          /\ l = None /\ x \in Names => x # l
      BY <2>3, NameFacts
    <3> HIDE DEF l, s
    <3>3. /\ IsFiniteSet(Places(l, s, x))
          /\ (x # l /\ x \notin SpeedDials) => Places(l, s, x) = {}
          /\ (x # l /\ s = << >>) => Places(l, s, x) = {}
      BY <3>1, PlacesFacts
    <3> QED
      BY <3>1, <3>2, <3>3 DEF l, s
  <2> QED
    BY <2>2, <2>4 DEF FromDevice, PlacesOf
<1> HIDE DEF f
<1>3. \A d \in Devices : FromDevice(g, d, x) \in Nat /\ FromDevices(g, {d}, x) = FromDevice(g, d, x)
  <2> SUFFICES ASSUME NEW d \in Devices
      PROVE  FromDevice(g, d, x) \in Nat /\ FromDevices(g, {d}, x) = FromDevice(g, d, x)
    OBVIOUS
  <2>1. Cardinality(All(f, {d})) = Cardinality(f[d]) /\ Cardinality(f[d]) \in Nat
    BY <1>2, AllOne
  <2> QED
    BY <1>1, <1>2, <2>1
<1>4. \A S \in SUBSET Devices : FromDevices(g, S, x) \in Nat
  <2> SUFFICES ASSUME NEW S \in SUBSET Devices PROVE Cardinality(All(f, S)) \in Nat
    BY <1>1
  <2>1. \A d \in S : IsFiniteSet(f[d])
    BY <1>2
  <2> QED
    BY <1>1, <2>1, AllFinite
<1>5. \A S, T \in SUBSET Devices : S \cap T = {} =>
        FromDevices(g, S \cup T, x) = FromDevices(g, S, x) + FromDevices(g, T, x)
  <2> SUFFICES ASSUME NEW S \in SUBSET Devices, NEW T \in SUBSET Devices, S \cap T = {}
      PROVE  Cardinality(All(f, S \cup T)) = Cardinality(All(f, S)) + Cardinality(All(f, T))
    BY <1>1
  <2>1. \A d \in S \cup T : IsFiniteSet(f[d])
    BY <1>2
  <2>2. IsFiniteSet(S) /\ IsFiniteSet(T)
    BY <1>1
  <2> QED
    BY <2>1, <2>2, AllUnion
<1>6. ASSUME x \in Devices \cup {"cfg"}
      PROVE  /\ \A d \in Devices : FromDevice(g, d, x) = 0
             /\ \A S \in SUBSET Devices : FromDevices(g, S, x) = 0
  <2>1. \A d \in Devices : f[d] = {}
    BY <1>2, <1>6
  <2>2. \A S \in SUBSET Devices : Cardinality(All(f, S)) = 0
    <3> SUFFICES ASSUME NEW S \in SUBSET Devices PROVE Cardinality(All(f, S)) = 0
      OBVIOUS
    <3> QED
      BY <2>1, AllNone
  <2> QED
    BY <1>1, <1>2, <2>1, <2>2, FS_EmptySet
<1>7. ASSUME NEW S \in SUBSET Devices, x \in Names,
             \A d \in S : line[g][d] = None /\ dials[g][d] = << >>
      PROVE  FromDevices(g, S, x) = 0
  <2>1. \A d \in S : f[d] = {}
    BY <1>2, <1>7
  <2> QED
    BY <1>1, <2>1, AllNone
<1> QED
  BY <1>3, <1>4, <1>5, <1>6, <1>7

-----------------------------------------------------------------------------
(* The counts of one configuration.                                        *)

Objects == Names \ {"cfg"}
Alive(r) == {d \in Devices : r[d] > 0}

(* Every object has B[x] references, and those of the devices that exist.  *)
Balanced(g, r, B) ==
  \A x \in Objects : r[x] = B[x] + FromDevices(g, Alive(r), x)

(* B[x] and what the operations make of it.                                *)
Plus(B, k) == [x \in Names |-> B[x] + k[x]]
Minus(B, k) == [x \in Names |-> B[x] - k[x]]
One(S) == [x \in Names |-> Count(x \in S)]
Of(g, d) == [x \in Names |-> FromDevice(g, d, x)]

(* References to lines and speed dials come and go.                        *)
LEMMA Shift ==
  ASSUME NEW g, NEW r \in [Names -> Int], NEW B \in [Names -> Int], Balanced(g, r, B),
         NEW k \in [Names -> Int], \A d \in Devices : k[d] = 0,
         Base, g \in Loads
  PROVE  Plus(r, k) \in [Names -> Int] /\ Balanced(g, Plus(r, k), Plus(B, k))
<1>1. Plus(r, k) \in [Names -> Int]
  BY DEF Plus
<1>2. Alive(Plus(r, k)) = Alive(r)
  BY NameFacts DEF Plus, Alive
<1>3. ASSUME NEW x \in Objects
      PROVE  Plus(r, k)[x] = Plus(B, k)[x] + FromDevices(g, Alive(Plus(r, k)), x)
  <2> DEFINE F == FromDevices(g, Alive(r), x)
  <2>1. F \in Nat
    <3>1. Alive(r) \in SUBSET Devices
      BY DEF Alive
    <3> QED
      BY <3>1, FromDevicesFacts
  <2>2. r[x] = B[x] + F
    BY <1>3 DEF Balanced
  <2>3. x \in Names
    BY <1>3 DEF Objects
  <2> HIDE DEF F
  <2>4. Plus(r, k)[x] = Plus(B, k)[x] + F
    BY <2>1, <2>2, <2>3 DEF Plus
  <2> QED
    BY <1>2, <2>4 DEF F
<1> QED
  BY <1>1, <1>3 DEF Balanced

(* An object loses a reference, devices with it what they hold.            *)
LEMMA DropKeeps ==
  ASSUME NEW g, NEW r \in [Names -> Int], NEW B \in [Names -> Int], Balanced(g, r, B),
         NEW S \in SUBSET Devices, \A d \in S : r[d] > 0,
         Base, g \in Loads
  PROVE  /\ DropDevices(g, r, S) \in [Names -> Int]
         /\ DropDevices(g, r, S)["cfg"] = r["cfg"]
         /\ Balanced(g, DropDevices(g, r, S), Minus(B, One(S)))
<1> DEFINE dead == {d \in S : r[d] = 1}
           q == DropDevices(g, r, S)
<1>0. dead \in SUBSET Devices
  OBVIOUS
<1> HIDE DEF dead
<1>1. \A x \in Names : FromDevices(g, dead, x) \in Nat /\ Count(x \in S) \in {0, 1}
  <2> SUFFICES ASSUME NEW x \in Names
      PROVE  FromDevices(g, dead, x) \in Nat /\ Count(x \in S) \in {0, 1}
    OBVIOUS
  <2> QED
    BY <1>0, FromDevicesFacts, CountFacts
<1>2. q = [x \in Names |-> r[x] - Count(x \in S) - FromDevices(g, dead, x)]
  <2> DEFINE t == Taken(r, S)
  <2>1. q = [x \in Names |-> t[x] - FromDevices(g, dead, x)]
    BY Zenon DEF DropDevices, dead
  <2>2. \A x \in Names : t[x] = r[x] - Count(x \in S)
    BY DEF Taken
  <2> HIDE DEF t, q
  <2> QED
    BY <2>1, <2>2
<1> HIDE DEF q
<1>3. q \in [Names -> Int]
  <2> DEFINE c == [x \in Names |-> Count(x \in S)]
             h == [x \in Names |-> FromDevices(g, dead, x)]
  <2>1. \A x \in Names : c[x] \in Int /\ h[x] \in Int /\ q[x] = r[x] - c[x] - h[x]
    BY <1>1, <1>2
  <2>2. q = [x \in Names |-> q[x]]
    BY <1>2
  <2> HIDE DEF c, h
  <2> QED
    BY <2>1, <2>2
<1>4. \A d \in Devices : q[d] = r[d] - Count(d \in S)
  <2> SUFFICES ASSUME NEW d \in Devices PROVE q[d] = r[d] - Count(d \in S)
    OBVIOUS
  <2>1. FromDevices(g, dead, d) = 0
    BY <1>0, FromDevicesFacts
  <2>2. d \in Names
    BY NameFacts
  <2> QED
    BY <1>1, <1>2, <2>1, <2>2
<1>5. Alive(q) = Alive(r) \ dead
  <2> SUFFICES ASSUME NEW d \in Devices
      PROVE  q[d] > 0 <=> (r[d] > 0 /\ d \notin dead)
    BY DEF Alive
  <2>1. r[d] \in Int
    BY NameFacts
  <2>2. CASE d \in S
    <3>1. q[d] = r[d] - 1
      BY <1>4, <2>2 DEF Count
    <3> QED
      BY <2>1, <2>2, <3>1 DEF dead
  <2>3. CASE d \notin S
    <3>1. q[d] = r[d] - 0
      BY <1>4, <2>3 DEF Count
    <3> QED
      BY <2>1, <2>3, <3>1 DEF dead
  <2> QED
    BY <2>2, <2>3
<1>6. /\ Alive(q) \in SUBSET Devices /\ Alive(r) = Alive(q) \cup dead
      /\ Alive(q) \cap dead = {}
  BY <1>5 DEF Alive, dead
<1>7. q["cfg"] = r["cfg"]
  <2>1. FromDevices(g, dead, "cfg") = 0
    BY <1>0, FromDevicesFacts
  <2>2. "cfg" \in Names /\ "cfg" \notin S
    BY NameFacts
  <2>3. Count("cfg" \in S) = 0
    BY <2>2 DEF Count
  <2> QED
    BY <1>2, <2>1, <2>2, <2>3
<1>8. ASSUME NEW x \in Objects
      PROVE  q[x] = Minus(B, One(S))[x] + FromDevices(g, Alive(q), x)
  <2> DEFINE F == FromDevices(g, Alive(q), x)
             G == FromDevices(g, dead, x)
             c == Count(x \in S)
  <2>0. x \in Names
    BY <1>8 DEF Objects
  <2>1. F \in Nat /\ G \in Nat /\ c \in Int
    BY <1>0, <1>1, <1>6, <2>0, FromDevicesFacts
  <2>2. FromDevices(g, Alive(q) \cup dead, x) = F + G
    <3> DEFINE A == Alive(q)
    <3>1. A \in SUBSET Devices /\ dead \in SUBSET Devices /\ A \cap dead = {}
      BY <1>0, <1>6
    <3> HIDE DEF A
    <3>2. \A P, T \in SUBSET Devices : P \cap T = {} =>
            FromDevices(g, P \cup T, x) = FromDevices(g, P, x) + FromDevices(g, T, x)
      BY FromDevicesFacts
    <3>3. FromDevices(g, A \cup dead, x) = FromDevices(g, A, x) + FromDevices(g, dead, x)
      BY <3>1, <3>2
    <3> QED
      BY <3>3 DEF A
  <2>3. r[x] = B[x] + (F + G)
    BY <1>6, <1>8, <2>2 DEF Balanced
  <2>4. q[x] = r[x] - c - G
    BY <1>2, <2>0
  <2>5. Minus(B, One(S))[x] = B[x] - c
    BY <2>0 DEF Minus, One
  <2>6. r[x] \in Int /\ B[x] \in Int
    BY <2>0
  <2> HIDE DEF F, G, c
  <2>7. q[x] = Minus(B, One(S))[x] + F
    BY <2>1, <2>3, <2>4, <2>5, <2>6
  <2> QED
    BY <2>7 DEF F
<1> QED
  BY <1>3, <1>7, <1>8 DEF Balanced, q

(* A device is made from a device configuration.                           *)
LEMMA MakeKeeps ==
  ASSUME NEW g, NEW r \in [Names -> Int], NEW B \in [Names -> Int], Balanced(g, r, B),
         NEW d \in Devices, r[d] > 0,
         Base, g \in Loads
  PROVE  /\ Make(g, d, r) \in [Names -> Int]
         /\ Make(g, d, r)["cfg"] = r["cfg"]
         /\ Balanced(g, Make(g, d, r), Plus(Plus(B, One({d})), Of(g, d)))
<1> DEFINE q == Make(g, d, r)
<1>1. \A x \in Names : FromDevice(g, d, x) \in Nat /\ Count(x = d) \in {0, 1}
  BY FromDevicesFacts, CountFacts
<1>2. q = [x \in Names |-> r[x] + Count(x = d) + FromDevice(g, d, x)]
  BY DEF Make
<1> HIDE DEF q
<1>3. q \in [Names -> Int]
  <2> DEFINE c == [x \in Names |-> Count(x = d)]
             h == [x \in Names |-> FromDevice(g, d, x)]
  <2>1. \A x \in Names : c[x] \in Int /\ h[x] \in Int /\ q[x] = r[x] + c[x] + h[x]
    BY <1>1, <1>2
  <2>2. q = [x \in Names |-> q[x]]
    BY <1>2
  <2> HIDE DEF c, h
  <2> QED
    BY <2>1, <2>2
<1>4. \A x \in Devices \cup {"cfg"} : q[x] = r[x] + Count(x = d)
  <2> SUFFICES ASSUME NEW x \in Devices \cup {"cfg"} PROVE q[x] = r[x] + Count(x = d)
    OBVIOUS
  <2>1. FromDevice(g, d, x) = 0
    BY FromDevicesFacts
  <2>2. x \in Names
    BY NameFacts
  <2> QED
    BY <1>1, <1>2, <2>1, <2>2
<1>5. Alive(q) = Alive(r)
  <2> SUFFICES ASSUME NEW e \in Devices PROVE q[e] > 0 <=> r[e] > 0
    BY DEF Alive
  <2>1. r[e] \in Int
    BY NameFacts
  <2>2. CASE e = d
    <3>1. q[e] = r[e] + 1
      BY <1>4, <2>2 DEF Count
    <3> QED
      BY <2>1, <2>2, <3>1
  <2>3. CASE e # d
    <3>1. q[e] = r[e] + 0
      BY <1>4, <2>3 DEF Count
    <3> QED
      BY <2>1, <3>1
  <2> QED
    BY <2>2, <2>3
<1>6. q["cfg"] = r["cfg"]
  <2>1. "cfg" # d /\ "cfg" \in Names
    BY NameFacts
  <2>2. q["cfg"] = r["cfg"] + 0
    BY <1>4, <2>1 DEF Count
  <2> QED
    BY <2>1, <2>2
<1>7. ASSUME NEW x \in Objects
      PROVE  q[x] = Plus(Plus(B, One({d})), Of(g, d))[x] + FromDevices(g, Alive(q), x)
  <2> DEFINE F == FromDevices(g, Alive(r), x)
             h == FromDevice(g, d, x)
             c == Count(x = d)
  <2>0. x \in Names
    BY <1>7 DEF Objects
  <2>1. F \in Nat /\ h \in Nat /\ c \in Int
    <3>1. Alive(r) \in SUBSET Devices
      BY DEF Alive
    <3> QED
      BY <1>1, <2>0, <3>1, FromDevicesFacts
  <2>2. r[x] = B[x] + F
    BY <1>7 DEF Balanced
  <2>3. q[x] = r[x] + c + h
    BY <1>2, <2>0
  <2>4. Plus(Plus(B, One({d})), Of(g, d))[x] = (B[x] + c) + h
    <3>1. One({d})[x] = c
      BY <2>0 DEF One
    <3>2. Of(g, d)[x] = h
      BY <2>0 DEF Of
    <3> HIDE DEF c, h
    <3> QED
      BY <2>0, <3>1, <3>2 DEF Plus
  <2>5. r[x] \in Int /\ B[x] \in Int
    BY <2>0
  <2> HIDE DEF F, h, c
  <2>6. q[x] = Plus(Plus(B, One({d})), Of(g, d))[x] + F
    BY <2>1, <2>2, <2>3, <2>4, <2>5
  <2> QED
    BY <1>5, <2>6 DEF F
<1> QED
  BY <1>3, <1>6, <1>7 DEF Balanced, q

(* The device is freed.                                                    *)
LEMMA UnmakeKeeps ==
  ASSUME NEW g, NEW r \in [Names -> Int], NEW B \in [Names -> Int], Balanced(g, r, B),
         NEW d \in Devices, r[d] > 0,
         Base, g \in Loads
  PROVE  /\ Unmake(g, d, r) \in [Names -> Int]
         /\ Unmake(g, d, r)["cfg"] = r["cfg"]
         /\ Balanced(g, Unmake(g, d, r), Minus(Minus(B, Of(g, d)), One({d})))
<1> DEFINE k == [x \in Names |-> 0 - FromDevice(g, d, x)]
           q == [x \in Names |-> r[x] - FromDevice(g, d, x)]
<1>1. \A x \in Names : FromDevice(g, d, x) \in Nat
  BY FromDevicesFacts
<1>2. \A x \in Devices \cup {"cfg"} : FromDevice(g, d, x) = 0
  BY FromDevicesFacts
<1>3. /\ k \in [Names -> Int] /\ k["cfg"] = 0 /\ \A e \in Devices : k[e] = 0
  BY <1>1, <1>2, NameFacts
<1>4. q = Plus(r, k) /\ Minus(B, Of(g, d)) = Plus(B, k) /\ Plus(B, k) \in [Names -> Int]
  <2> DEFINE h == [x \in Names |-> FromDevice(g, d, x)]
  <2>1. /\ h \in [Names -> Int] /\ Of(g, d) = h
        /\ q = [x \in Names |-> r[x] - h[x]] /\ k = [x \in Names |-> 0 - h[x]]
    BY <1>1 DEF Of
  <2> HIDE DEF h, q, k
  <2> QED
    BY <2>1 DEF Plus, Minus
<1> HIDE DEF k
<1>5. Plus(r, k) \in [Names -> Int] /\ Balanced(g, Plus(r, k), Plus(B, k))
  BY <1>3, Shift
<1>6. q["cfg"] = r["cfg"] /\ \A e \in {d} : q[e] > 0
  <2>1. q["cfg"] = r["cfg"] + 0 /\ q[d] = r[d] + 0
    BY <1>3, <1>4, NameFacts DEF Plus
  <2>2. r["cfg"] \in Int /\ r[d] \in Int
    BY NameFacts
  <2> HIDE DEF q
  <2> QED
    BY <2>1, <2>2
<1> DEFINE C == Minus(B, Of(g, d))
<1>7. q \in [Names -> Int] /\ C \in [Names -> Int] /\ Balanced(g, q, C) /\ {d} \in SUBSET Devices
  <2> HIDE DEF q
  <2> QED
    BY <1>4, <1>5
<1>8. Unmake(g, d, r) = DropDevices(g, q, {d})
  BY DEF Unmake
<1> HIDE DEF q, C
<1>9. /\ DropDevices(g, q, {d}) \in [Names -> Int]
      /\ DropDevices(g, q, {d})["cfg"] = q["cfg"]
      /\ Balanced(g, DropDevices(g, q, {d}), Minus(C, One({d})))
  BY <1>6, <1>7, DropKeeps
<1> QED
  BY <1>6, <1>8, <1>9 DEF C

-----------------------------------------------------------------------------
(* A configuration: its containers, and the devices made from it.          *)

Contents(g) == DevicesOf(g) \cup lines[g] \cup speeddials[g]
InForce(r, S) == [x \in Names |-> Count(r["cfg"] > 0 /\ x \in S)]

(* The references of its objects, where R[x] are those of devices in use.  *)
Sound(g, r, R) == Balanced(g, r, Plus(InForce(r, Contents(g)), R))

(* The types of the sums.                                                  *)
LEMMA SumTypes ==
  /\ \A r, S : InForce(r, S) \in [Names -> Nat]
  /\ \A S : One(S) \in [Names -> Nat]
  /\ \A B, k \in [Names -> Nat] : Plus(B, k) \in [Names -> Nat]
  /\ \A B, k \in [Names -> Int] : Plus(B, k) \in [Names -> Int] /\ Minus(B, k) \in [Names -> Int]
<1>1. \A P : Count(P) \in Nat
  BY CountFacts
<1>2. /\ \A r, S : InForce(r, S) \in [Names -> Nat]
      /\ \A S : One(S) \in [Names -> Nat]
  BY <1>1 DEF InForce, One
<1>3. /\ \A B, k \in [Names -> Nat] : Plus(B, k) \in [Names -> Nat]
      /\ \A B, k \in [Names -> Int] : Plus(B, k) \in [Names -> Int] /\ Minus(B, k) \in [Names -> Int]
  BY DEF Plus, Minus
<1> QED
  BY <1>2, <1>3

(* What a device refers to is counted.                                     *)
LEMMA OfType ==
  ASSUME Base, NEW g \in Loads, NEW d \in Devices
  PROVE  Of(g, d) \in [Names -> Nat]
<1>1. \A x \in Names : FromDevice(g, d, x) \in Nat
  BY FromDevicesFacts
<1> QED
  BY <1>1 DEF Of

(* Only the sums of the objects matter.                                    *)
LEMMA BalancedSame ==
  ASSUME NEW g, NEW r, NEW B, NEW C, \A x \in Objects : B[x] = C[x], Balanced(g, r, B)
  PROVE  Balanced(g, r, C)
BY DEF Balanced

(* A session takes the configuration in force.                             *)
LEMMA HoldKeeps ==
  ASSUME NEW g, NEW r \in [Names -> Int], NEW R, Sound(g, r, R), r["cfg"] > 0
  PROVE  /\ Added(r, {"cfg"}) \in [Names -> Int]
         /\ Added(r, {"cfg"})["cfg"] = r["cfg"] + 1
         /\ Sound(g, Added(r, {"cfg"}), R)
<1> DEFINE q == Added(r, {"cfg"})
<1>1. q \in [Names -> Int] /\ q["cfg"] = r["cfg"] + 1 /\ \A x \in Objects : q[x] = r[x] + 0
  <2>1. \A x \in Names : Count(x \in {"cfg"}) \in Int
    BY CountFacts
  <2>2. "cfg" \in Names /\ Count("cfg" \in {"cfg"}) = 1
    BY NameFacts DEF Count
  <2>3. \A x \in Objects : x \in Names /\ Count(x \in {"cfg"}) = 0
    BY DEF Count, Objects
  <2> QED
    BY <2>1, <2>2, <2>3 DEF Added
<1> HIDE DEF q
<1>2. \A x \in Objects : q[x] = r[x]
  BY <1>1 DEF Objects
<1>3. Alive(q) = Alive(r)
  BY <1>2, NameFacts DEF Alive, Objects
<1>4. InForce(q, Contents(g)) = InForce(r, Contents(g))
  <2>1. r["cfg"] \in Int
    BY NameFacts
  <2>2. q["cfg"] > 0
    BY <1>1, <2>1
  <2> QED
    BY <2>2 DEF InForce
<1>5. Sound(g, q, R)
  BY <1>2, <1>3, <1>4 DEF Sound, Balanced
<1> QED
  BY <1>1, <1>5 DEF q

(* A session, or the global object, gives it back.                         *)
LEMMA GiveBackKeeps ==
  ASSUME Base, NEW g \in Loads, NEW r \in [Names -> Int], NEW R \in [Names -> Nat],
         Sound(g, r, R), r["cfg"] > 0
  PROVE  /\ DropCfg(g, r) \in [Names -> Int]
         /\ DropCfg(g, r)["cfg"] = r["cfg"] - 1
         /\ Sound(g, DropCfg(g, r), R)
<1>0. r["cfg"] \in Int /\ "cfg" \in Names
  BY NameFacts
<1>1. CASE r["cfg"] > 1
  <2> DEFINE q == Taken(r, {"cfg"})
  <2>1. q \in [Names -> Int] /\ q["cfg"] = r["cfg"] - 1 /\ \A x \in Objects : q[x] = r[x] - 0
    <3>1. \A x \in Names : Count(x \in {"cfg"}) \in Int
      BY CountFacts
    <3>2. "cfg" \in Names /\ Count("cfg" \in {"cfg"}) = 1
      BY NameFacts DEF Count
    <3>3. \A x \in Objects : x \in Names /\ Count(x \in {"cfg"}) = 0
      BY DEF Count, Objects
    <3> QED
      BY <3>1, <3>2, <3>3 DEF Taken
  <2> HIDE DEF q
  <2>2. \A x \in Objects : q[x] = r[x]
    BY <2>1 DEF Objects
  <2>3. Alive(q) = Alive(r)
    BY <2>2, NameFacts DEF Alive, Objects
  <2>4. InForce(q, Contents(g)) = InForce(r, Contents(g))
    <3>1. q["cfg"] > 0
      BY <1>0, <1>1, <2>1
    <3> QED
      BY <1>1, <3>1 DEF InForce
  <2>5. Sound(g, q, R)
    BY <2>2, <2>3, <2>4 DEF Sound, Balanced
  <2>6. q = DropCfg(g, r)
    BY <1>1 DEF q, DropCfg
  <2> QED
    BY <2>1, <2>5, <2>6
<1>2. CASE ~(r["cfg"] > 1)
  <2> DEFINE L == lines[g] \cup speeddials[g]
             D == DevicesOf(g)
             k == [x \in Names |-> 0 - Count(x \in {"cfg"} \cup lines[g] \cup speeddials[g])]
             t == Taken(r, {"cfg"} \cup lines[g] \cup speeddials[g])
             B == Plus(InForce(r, Contents(g)), R)
             C == Plus(B, k)
             q == DropDevices(g, t, D)
  <2>1. r["cfg"] = 1
    BY <1>0, <1>2
  <2>2. D \subseteq Devices /\ L \subseteq Lines \cup SpeedDials /\ Contents(g) = D \cup L
    BY DEF Base, DevicesOf, Contents
  <2>3. \A x \in Names : Count(x \in {"cfg"} \cup lines[g] \cup speeddials[g]) \in Int
    BY CountFacts
  <2>4. /\ k \in [Names -> Int] /\ k["cfg"] = 0 - 1
        /\ \A x \in Objects : k[x] = 0 - Count(x \in L)
        /\ \A d \in Devices : k[d] = 0
    <3>1. "cfg" \in Names /\ Count("cfg" \in {"cfg"} \cup lines[g] \cup speeddials[g]) = 1
      BY NameFacts DEF Count
    <3>2. ASSUME NEW x \in Objects
          PROVE  x \in Names /\ (x \in {"cfg"} \cup lines[g] \cup speeddials[g] <=> x \in L)
      BY <3>2 DEF Objects
    <3>3. ASSUME NEW d \in Devices
          PROVE  d \in Names /\ Count(d \in {"cfg"} \cup lines[g] \cup speeddials[g]) = 0
      BY <2>2, NameFacts DEF Count
    <3>4. \A x \in Objects : k[x] = 0 - Count(x \in L)
      BY <3>2 DEF Count
    <3> QED
      BY <2>3, <3>1, <3>3, <3>4
  <2>5. t = Plus(r, k)
    BY <2>3 DEF Taken, Plus
  <2>6. B \in [Names -> Nat] /\ B \in [Names -> Int] /\ C \in [Names -> Int]
    <3>1. B \in [Names -> Nat]
      BY SumTypes, Zenon
    <3> HIDE DEF k, B
    <3> QED
      BY <2>4, <3>1, SumTypes
  <2>7. t \in [Names -> Int] /\ Balanced(g, t, C)
    <3> HIDE DEF k, t, B
    <3>1. Balanced(g, r, B)
      BY DEF Sound, B
    <3> QED
      BY <2>4, <2>5, <2>6, <3>1, Shift
  <2>8. t["cfg"] = 0
    <3>1. t["cfg"] = r["cfg"] + k["cfg"]
      BY <1>0, <2>5 DEF Plus
    <3> HIDE DEF k, t
    <3> QED
      BY <2>1, <2>4, <3>1
  <2>9. \A d \in D : t[d] > 0
    <3> SUFFICES ASSUME NEW d \in D PROVE t[d] > 0
      OBVIOUS
    <3>1. d \in Devices /\ d \in Names /\ d \in Objects
      BY <2>2, NameFacts DEF Objects
    <3>2. FromDevices(g, Alive(t), d) = 0
      <4>1. Alive(t) \in SUBSET Devices
        BY DEF Alive
      <4> HIDE DEF t
      <4> QED
        BY <3>1, <4>1, FromDevicesFacts
    <3>3. t[d] = C[d] + FromDevices(g, Alive(t), d)
      BY <2>7, <3>1 DEF Balanced
    <3>4. C[d] = B[d] + k[d] /\ B[d] = InForce(r, Contents(g))[d] + R[d]
      BY <3>1 DEF Plus
    <3>5. InForce(r, Contents(g))[d] = 1
      BY <2>1, <2>2, <3>1 DEF InForce, Count
    <3>6. k[d] = 0 /\ R[d] \in Nat
      BY <2>4, <3>1
    <3> HIDE DEF t, C, B, k, D
    <3> QED
      BY <3>2, <3>3, <3>4, <3>5, <3>6
  <2>10. /\ q \in [Names -> Int] /\ q["cfg"] = t["cfg"]
         /\ Balanced(g, q, Minus(C, One(D)))
    <3>1. D \in SUBSET Devices
      BY <2>2
    <3> HIDE DEF t, C, D
    <3> QED
      BY <2>6, <2>7, <2>9, <3>1, DropKeeps
  <2>11. q = DropCfg(g, r)
    BY <1>2, Zenon DEF DropCfg, DevicesOf
  <2>12. Sound(g, q, R)
    <3> DEFINE E == Plus(InForce(q, Contents(g)), R)
    <3>1. ASSUME NEW x \in Objects PROVE Minus(C, One(D))[x] = E[x]
      <4>0. x \in Names
        BY <3>1 DEF Objects
      <4>1. InForce(q, Contents(g))[x] = 0
        BY <2>8, <2>10, <4>0 DEF InForce, Count
      <4>2. E[x] = 0 + R[x] /\ R[x] \in Nat
        BY <4>0, <4>1 DEF Plus
      <4>3. InForce(r, Contents(g))[x] = Count(x \in Contents(g))
        BY <2>1, <4>0 DEF InForce, Count
      <4>4. Count(x \in Contents(g)) = Count(x \in D) + Count(x \in L)
        <5>1. ~(x \in D /\ x \in L)
          BY <2>2, NameFacts
        <5>2. x \in Contents(g) <=> (x \in D \/ x \in L)
          BY <2>2
        <5> HIDE DEF D, L
        <5> QED
          BY <5>1, <5>2 DEF Count
      <4>5. C[x] = (Count(x \in Contents(g)) + R[x]) + (0 - Count(x \in L))
        <5>1. C[x] = B[x] + k[x] /\ B[x] = InForce(r, Contents(g))[x] + R[x]
          BY <4>0 DEF Plus
        <5>2. k[x] = 0 - Count(x \in L)
          BY <2>4, <3>1
        <5> HIDE DEF B, C, k, L
        <5> QED
          BY <4>3, <5>1, <5>2
      <4>6. Minus(C, One(D))[x] = C[x] - Count(x \in D)
        BY <4>0 DEF Minus, One
      <4> DEFINE u == Count(x \in D)
                 v == Count(x \in L)
                 w == Count(x \in Contents(g))
      <4>7. u \in Int /\ v \in Int /\ w = u + v
        BY <4>4, CountFacts
      <4> HIDE DEF u, v, w, E, C
      <4>8. C[x] = (w + R[x]) + (0 - v) /\ Minus(C, One(D))[x] = C[x] - u
        BY <4>5, <4>6 DEF u, v, w
      <4> QED
        BY <4>2, <4>7, <4>8
    <3> HIDE DEF E, C
    <3>2. Balanced(g, q, E)
      <4> HIDE DEF q
      <4> QED
        BY <2>10, <3>1, BalancedSame
    <3> QED
      BY <3>2 DEF Sound, E
  <2>13. q["cfg"] = r["cfg"] - 1
    <3> HIDE DEF q, t
    <3> QED
      BY <2>1, <2>8, <2>10
  <2> HIDE DEF q
  <2> QED
    BY <2>10, <2>11, <2>12, <2>13
<1> QED
  BY <1>1, <1>2

-----------------------------------------------------------------------------
(* The devices that sessions have made.                                    *)

Made == [load : 0 .. LastLoad, device : Devices \cup {None}]

(* A device that a session has is one of a configuration.                  *)
IsKnown(m, g) == m \in Made /\ (m.load = g => m.device \in Devices)

(* What the devices of the phones of Q, out of the configuration, hold.    *)
Using(mm, g, Q) == {p \in Q : mm[p].load = g}
Names1(mm, g, Q, x) == {p \in Q : mm[p].load = g /\ mm[p].device = x}
Places1(mm, g, Q, x) == UNION {{p} \X PlacesOf(g, mm[p].device, x) : p \in Using(mm, g, Q)}
ByPhones(mm, g, Q) ==
  [x \in Names |-> Cardinality(Names1(mm, g, Q, x)) + Cardinality(Places1(mm, g, Q, x))]

(* They are counted.                                                       *)
LEMMA ByPhonesType ==
  ASSUME Base, NEW g \in Loads, NEW mm, NEW Q \in SUBSET Phones, \A p \in Q : IsKnown(mm[p], g)
  PROVE  /\ ByPhones(mm, g, Q) \in [Names -> Nat]
         /\ \A x \in Names :
              /\ Cardinality(Names1(mm, g, Q, x)) \in Nat
              /\ Cardinality(Places1(mm, g, Q, x)) \in Nat
         /\ (\A p \in Q : mm[p].load # g) => \A x \in Names : ByPhones(mm, g, Q)[x] = 0
<1>1. \A T \in SUBSET Q : IsFiniteSet(T) /\ Cardinality(T) \in Nat
  BY NameFacts, FS_Subset, FS_CardinalityType
<1>2. ASSUME NEW x \in Names
      PROVE  /\ Cardinality(Names1(mm, g, Q, x)) \in Nat
             /\ Cardinality(Places1(mm, g, Q, x)) \in Nat
             /\ (\A p \in Q : mm[p].load # g) =>
                  Names1(mm, g, Q, x) = {} /\ Places1(mm, g, Q, x) = {}
  <2> DEFINE U == Using(mm, g, Q)
             f == [p \in U |-> PlacesOf(g, mm[p].device, x)]
  <2>1. U \in SUBSET Q /\ Names1(mm, g, Q, x) \in SUBSET Q
    BY DEF Using, Names1
  <2>2. Cardinality(Names1(mm, g, Q, x)) \in Nat
    BY <1>1, <2>1
  <2>3. \A p \in U : IsFiniteSet(f[p])
    <3> SUFFICES ASSUME NEW p \in U PROVE IsFiniteSet(PlacesOf(g, mm[p].device, x))
      OBVIOUS
    <3> DEFINE d == mm[p].device
    <3>1. d \in Devices
      BY <2>1 DEF Using, IsKnown
    <3>2. dials[g][d] \in Seq(SpeedDials)
      BY <3>1 DEF Base
    <3> HIDE DEF d
    <3>3. IsFiniteSet(Places(line[g][d], dials[g][d], x))
      BY <3>2, PlacesFacts
    <3> QED
      BY <3>3 DEF PlacesOf, d
  <2>4. Places1(mm, g, Q, x) = All(f, U)
    <3>1. {{p} \X PlacesOf(g, mm[p].device, x) : p \in U} = {{p} \X f[p] : p \in U}
      OBVIOUS
    <3> QED
      BY <3>1 DEF Places1, All
  <2>5. Cardinality(Places1(mm, g, Q, x)) \in Nat
    <3>1. IsFiniteSet(U)
      BY <1>1, <2>1
    <3> HIDE DEF f, U
    <3>2. Cardinality(All(f, U)) \in Nat
      BY <2>3, <3>1, AllFinite
    <3> QED
      BY <2>4, <3>2
  <2>6. (\A p \in Q : mm[p].load # g) =>
          Names1(mm, g, Q, x) = {} /\ Places1(mm, g, Q, x) = {}
    BY DEF Names1, Places1, Using
  <2> QED
    BY <2>2, <2>5, <2>6
<1>3. ByPhones(mm, g, Q) \in [Names -> Nat]
  BY <1>2 DEF ByPhones
<1>4. ASSUME \A p \in Q : mm[p].load # g, NEW x \in Names PROVE ByPhones(mm, g, Q)[x] = 0
  <2>1. Names1(mm, g, Q, x) = {} /\ Places1(mm, g, Q, x) = {}
    BY <1>2, <1>4
  <2>2. Cardinality({}) = 0
    BY FS_EmptySet
  <2>3. ByPhones(mm, g, Q)[x] = Cardinality({}) + Cardinality({})
    BY <2>1 DEF ByPhones
  <2> QED
    BY <2>2, <2>3
<1> QED
  BY <1>2, <1>3, <1>4

(* One of them apart.                                                      *)
LEMMA ByPhonesSplit ==
  ASSUME Base, NEW g \in Loads, NEW mm, \A p \in Phones : IsKnown(mm[p], g), NEW p \in Phones
  PROVE  /\ mm[p].load = g =>
              ByPhones(mm, g, Phones) =
                Plus(Plus(ByPhones(mm, g, Phones \ {p}), One({mm[p].device})), Of(g, mm[p].device))
         /\ mm[p].load # g => ByPhones(mm, g, Phones) = ByPhones(mm, g, Phones \ {p})
<1> DEFINE O == Phones \ {p}
<1>1. /\ \A x \in Names : /\ Cardinality(Names1(mm, g, O, x)) \in Nat
                          /\ Cardinality(Places1(mm, g, O, x)) \in Nat
  <2>1. O \in SUBSET Phones /\ \A q \in O : IsKnown(mm[q], g)
    OBVIOUS
  <2> HIDE DEF O
  <2> QED
    BY <2>1, ByPhonesType
<1>2. CASE mm[p].load # g
  <2>1. Using(mm, g, Phones) = Using(mm, g, O)
    BY <1>2 DEF Using
  <2>2. \A x : Names1(mm, g, Phones, x) = Names1(mm, g, O, x)
    BY <1>2 DEF Names1
  <2>3. \A x : Places1(mm, g, Phones, x) = Places1(mm, g, O, x)
    BY <2>1 DEF Places1
  <2> QED
    BY <1>2, <2>2, <2>3 DEF ByPhones
<1>3. CASE mm[p].load = g
  <2> DEFINE d == mm[p].device
  <2>0. d \in Devices
    BY <1>3 DEF IsKnown
  <2>1. \A x \in Names : FromDevice(g, d, x) \in Nat
    <3> HIDE DEF d
    <3> QED
      BY <2>0, FromDevicesFacts
  <2>2. ASSUME NEW x \in Names
        PROVE  /\ Cardinality(Names1(mm, g, Phones, x)) =
                    Cardinality(Names1(mm, g, O, x)) + Count(x = d)
               /\ Cardinality(Places1(mm, g, Phones, x)) =
                    Cardinality(Places1(mm, g, O, x)) + FromDevice(g, d, x)
    <3>1. IsFiniteSet(Names1(mm, g, O, x)) /\ p \notin Names1(mm, g, O, x)
      <4>1. Names1(mm, g, O, x) \subseteq Phones /\ p \notin Names1(mm, g, O, x)
        BY DEF Names1
      <4> QED
        BY <4>1, NameFacts, FS_Subset
    <3>2. Cardinality(Names1(mm, g, Phones, x)) = Cardinality(Names1(mm, g, O, x)) + Count(x = d)
      <4>1. CASE x = d
        <5>1. Names1(mm, g, Phones, x) = Names1(mm, g, O, x) \cup {p}
          BY <1>3, <4>1 DEF Names1
        <5>2. Cardinality(Names1(mm, g, O, x) \cup {p}) = Cardinality(Names1(mm, g, O, x)) + 1
          BY <3>1, FS_AddElement
        <5>3. Count(x = d) = 1
          BY <4>1 DEF Count
        <5> HIDE DEF O
        <5> QED
          BY <5>1, <5>2, <5>3
      <4>2. CASE x # d
        <5>1. Names1(mm, g, Phones, x) = Names1(mm, g, O, x)
          BY <1>3, <4>2 DEF Names1
        <5>2. Count(x = d) = 0
          BY <4>2 DEF Count
        <5> HIDE DEF O
        <5> QED
          BY <1>1, <5>1, <5>2
      <4> QED
        BY <4>1, <4>2
    <3>3. Cardinality(Places1(mm, g, Phones, x)) =
            Cardinality(Places1(mm, g, O, x)) + FromDevice(g, d, x)
      <4> DEFINE U == Using(mm, g, O)
                 V == Using(mm, g, Phones)
                 f == [q \in V |-> PlacesOf(g, mm[q].device, x)]
      <4>1. V = U \cup {p} /\ U \cap {p} = {} /\ V \subseteq Phones /\ U \subseteq O
        BY <1>3 DEF Using
      <4>2. Places1(mm, g, Phones, x) = All(f, V) /\ Places1(mm, g, O, x) = All(f, U)
        <5>1. {{q} \X PlacesOf(g, mm[q].device, x) : q \in V} = {{q} \X f[q] : q \in V}
          OBVIOUS
        <5>2. {{q} \X PlacesOf(g, mm[q].device, x) : q \in U} = {{q} \X f[q] : q \in U}
          BY <4>1
        <5> QED
          BY <5>1, <5>2 DEF Places1, All
      <4>3. \A q \in V : IsFiniteSet(f[q])
        <5> SUFFICES ASSUME NEW q \in V PROVE IsFiniteSet(PlacesOf(g, mm[q].device, x))
          OBVIOUS
        <5> DEFINE e == mm[q].device
        <5>1. e \in Devices
          BY DEF Using, IsKnown
        <5>2. dials[g][e] \in Seq(SpeedDials)
          BY <5>1 DEF Base
        <5> HIDE DEF e
        <5>3. IsFiniteSet(Places(line[g][e], dials[g][e], x))
          BY <5>2, PlacesFacts
        <5> QED
          BY <5>3 DEF PlacesOf, e
      <4>4. f[p] = PlacesOf(g, d, x) /\ IsFiniteSet(f[p])
        BY <4>1, <4>3
      <4>5. IsFiniteSet(U) /\ IsFiniteSet({p})
        BY <4>1, NameFacts, FS_Subset
      <4> HIDE DEF f, U, V
      <4>6. Cardinality(All(f, U \cup {p})) = Cardinality(All(f, U)) + Cardinality(All(f, {p}))
        BY <4>1, <4>3, <4>5, AllUnion
      <4>7. Cardinality(All(f, {p})) = Cardinality(f[p])
        BY <4>4, AllOne
      <4>8. Cardinality(f[p]) = FromDevice(g, d, x)
        BY <4>4 DEF FromDevice
      <4> QED
        BY <4>1, <4>2, <4>6, <4>7, <4>8
    <3> HIDE DEF O, d
    <3> QED
      BY <3>2, <3>3
  <2>3. ASSUME NEW x \in Names
        PROVE  ByPhones(mm, g, Phones)[x] = Plus(Plus(ByPhones(mm, g, O), One({d})), Of(g, d))[x]
    <3> DEFINE u == Cardinality(Names1(mm, g, O, x))
               v == Cardinality(Places1(mm, g, O, x))
               c == Count(x = d)
               h == FromDevice(g, d, x)
    <3>1. u \in Nat /\ v \in Nat /\ c \in Int /\ h \in Nat
      BY <1>1, <2>1, CountFacts
    <3>2. ByPhones(mm, g, Phones)[x] = (u + c) + (v + h)
      BY <2>2 DEF ByPhones
    <3>3. ByPhones(mm, g, O)[x] = u + v
      BY DEF ByPhones
    <3>4. One({d})[x] = c /\ Of(g, d)[x] = h
      BY DEF One, Of
    <3>5. Plus(Plus(ByPhones(mm, g, O), One({d})), Of(g, d))[x] =
            (ByPhones(mm, g, O)[x] + One({d})[x]) + Of(g, d)[x]
      BY DEF Plus
    <3> HIDE DEF u, v, c, h, d, O
    <3> QED
      BY <3>1, <3>2, <3>3, <3>4, <3>5
  <2>4. /\ ByPhones(mm, g, Phones) = [x \in Names |-> ByPhones(mm, g, Phones)[x]]
        /\ \A B, k : Plus(B, k) = [x \in Names |-> Plus(B, k)[x]]
    BY DEF ByPhones, Plus
  <2> HIDE DEF d, O
  <2>5. ByPhones(mm, g, Phones) = Plus(Plus(ByPhones(mm, g, O), One({d})), Of(g, d))
    BY <2>3, <2>4
  <2> QED
    BY <1>3, <2>5 DEF d, O
<1> QED
  BY <1>2, <1>3

(* A device is made.                                                       *)
LEMMA SoundMake ==
  ASSUME Base, NEW g \in Loads, NEW r \in [Names -> Int], NEW R \in [Names -> Nat],
         Sound(g, r, R), NEW d \in Devices, r["cfg"] > 0, d \in DevicesOf(g)
  PROVE  /\ Make(g, d, r) \in [Names -> Int] /\ Make(g, d, r)["cfg"] = r["cfg"]
         /\ Sound(g, Make(g, d, r), Plus(Plus(R, One({d})), Of(g, d)))
<1> DEFINE I == InForce(r, Contents(g))
           B == Plus(I, R)
           q == Make(g, d, r)
<1>1. I \in [Names -> Nat] /\ One({d}) \in [Names -> Nat] /\ Of(g, d) \in [Names -> Nat]
  BY SumTypes, OfType
<1>2. B \in [Names -> Nat] /\ B \in [Names -> Int]
  <2>1. B \in [Names -> Nat]
    BY <1>1, SumTypes
  <2> HIDE DEF B
  <2> QED
    BY <2>1
<1>3. r[d] > 0
  <2>1. FromDevices(g, Alive(r), d) = 0
    <3>1. Alive(r) \in SUBSET Devices
      BY DEF Alive
    <3> QED
      BY <3>1, FromDevicesFacts
  <2>2. d \in Objects /\ d \in Names
    BY NameFacts DEF Objects
  <2>3. r[d] = B[d] + 0 /\ B[d] = I[d] + R[d]
    BY <2>1, <2>2 DEF Sound, Balanced, Plus
  <2>4. I[d] = 1
    BY <2>2 DEF InForce, Contents, Count
  <2>5. R[d] \in Nat
    BY <2>2
  <2> HIDE DEF B, I
  <2> QED
    BY <2>3, <2>4, <2>5
<1>4. Balanced(g, r, B)
  BY DEF Sound
<1> HIDE DEF B
<1>5. /\ q \in [Names -> Int] /\ q["cfg"] = r["cfg"]
      /\ Balanced(g, q, Plus(Plus(B, One({d})), Of(g, d)))
  BY <1>2, <1>3, <1>4, MakeKeeps
<1> HIDE DEF q
<1>6. InForce(q, Contents(g)) = I
  BY <1>5 DEF InForce
<1> DEFINE C == Plus(I, Plus(Plus(R, One({d})), Of(g, d)))
           F == Plus(Plus(B, One({d})), Of(g, d))
<1>7. \A x \in Objects : F[x] = C[x]
  <2> SUFFICES ASSUME NEW x \in Objects PROVE F[x] = C[x]
    OBVIOUS
  <2>1. x \in Names
    BY DEF Objects
  <2> DEFINE c == One({d})[x]
             h == Of(g, d)[x]
             i == I[x]
             s == R[x]
  <2>2. c \in Nat /\ h \in Nat /\ i \in Nat /\ s \in Nat
    <3> HIDE DEF I
    <3> QED
      BY <1>1, <2>1
  <2>3. C[x] = i + ((s + c) + h)
    BY <2>1 DEF Plus
  <2>4. F[x] = ((i + s) + c) + h
    BY <2>1 DEF Plus, B
  <2> HIDE DEF c, h, i, s, C, F
  <2> QED
    BY <2>2, <2>3, <2>4
<1> HIDE DEF C, F, I
<1>8. Balanced(g, q, C)
  <2>1. Balanced(g, q, F)
    BY <1>5 DEF F
  <2> QED
    BY <1>7, <2>1, BalancedSame
<1>9. Sound(g, q, Plus(Plus(R, One({d})), Of(g, d)))
  BY <1>6, <1>8 DEF Sound, C
<1> QED
  BY <1>5, <1>9 DEF q

(* A device is freed.                                                      *)
LEMMA SoundUnmake ==
  ASSUME Base, NEW g \in Loads, NEW r \in [Names -> Int], NEW R \in [Names -> Nat],
         NEW d \in Devices, Sound(g, r, Plus(Plus(R, One({d})), Of(g, d)))
  PROVE  /\ Unmake(g, d, r) \in [Names -> Int] /\ Unmake(g, d, r)["cfg"] = r["cfg"]
         /\ Sound(g, Unmake(g, d, r), R)
<1> DEFINE I == InForce(r, Contents(g))
           T == Plus(Plus(R, One({d})), Of(g, d))
           B == Plus(I, T)
           q == Unmake(g, d, r)
<1>1. I \in [Names -> Nat] /\ One({d}) \in [Names -> Nat] /\ Of(g, d) \in [Names -> Nat]
  BY SumTypes, OfType
<1>2. B \in [Names -> Nat] /\ B \in [Names -> Int]
  <2>1. Plus(R, One({d})) \in [Names -> Nat]
    BY <1>1, SumTypes
  <2>2. T \in [Names -> Nat]
    BY <1>1, <2>1, SumTypes
  <2>3. B \in [Names -> Nat]
    BY <1>1, <2>2, SumTypes
  <2> HIDE DEF B
  <2> QED
    BY <2>3
<1>3. \A x \in Names : B[x] = I[x] + ((R[x] + One({d})[x]) + Of(g, d)[x])
  BY DEF Plus
<1>4. r[d] > 0
  <2>1. FromDevices(g, Alive(r), d) = 0
    <3>1. Alive(r) \in SUBSET Devices
      BY DEF Alive
    <3> QED
      BY <3>1, FromDevicesFacts
  <2>2. d \in Objects /\ d \in Names
    BY NameFacts DEF Objects
  <2>3. r[d] = B[d] + 0
    BY <2>1, <2>2 DEF Sound, Balanced
  <2>4. One({d})[d] = 1
    BY <2>2 DEF One, Count
  <2>5. R[d] \in Nat /\ I[d] \in Nat /\ Of(g, d)[d] \in Nat
    <3> HIDE DEF I
    <3> QED
      BY <1>1, <2>2
  <2> HIDE DEF B, I
  <2> QED
    BY <1>3, <2>2, <2>3, <2>4, <2>5
<1>5. Balanced(g, r, B)
  BY DEF Sound
<1> HIDE DEF B
<1>6. /\ q \in [Names -> Int] /\ q["cfg"] = r["cfg"]
      /\ Balanced(g, q, Minus(Minus(B, Of(g, d)), One({d})))
  BY <1>2, <1>4, <1>5, UnmakeKeeps
<1> HIDE DEF q
<1>7. InForce(q, Contents(g)) = I
  BY <1>6 DEF InForce
<1> DEFINE C == Plus(I, R)
           F == Minus(Minus(B, Of(g, d)), One({d}))
<1>8. \A x \in Objects : F[x] = C[x]
  <2> SUFFICES ASSUME NEW x \in Objects PROVE F[x] = C[x]
    OBVIOUS
  <2>1. x \in Names
    BY DEF Objects
  <2> DEFINE c == One({d})[x]
             h == Of(g, d)[x]
             i == I[x]
             s == R[x]
  <2>2. c \in Nat /\ h \in Nat /\ i \in Nat /\ s \in Nat
    <3> HIDE DEF I
    <3> QED
      BY <1>1, <2>1
  <2>3. C[x] = i + s
    BY <2>1 DEF Plus
  <2>4. F[x] = (B[x] - h) - c
    BY <2>1 DEF Minus
  <2>5. B[x] = i + ((s + c) + h)
    BY <1>3, <2>1
  <2> HIDE DEF c, h, i, s, C, F
  <2> QED
    BY <2>2, <2>3, <2>4, <2>5
<1> HIDE DEF C, F, I
<1>9. Balanced(g, q, C)
  <2>1. Balanced(g, q, F)
    BY <1>6 DEF F
  <2> QED
    BY <1>8, <2>1, BalancedSame
<1>10. Sound(g, q, R)
  BY <1>7, <1>9 DEF Sound, C
<1> QED
  BY <1>6, <1>10 DEF q

-----------------------------------------------------------------------------
(* RefsMatchHolders, one configuration at a time.                          *)

(* The references of the objects of g, from what they depend on.           *)
Fair(ln, dl, S, r, mm, g) ==
  \A x \in Objects :
    r[x] = (Count(r["cfg"] > 0 /\ x \in S)
            + (Cardinality({p \in Phones : mm[p].load = g /\ mm[p].device = x})
               + Cardinality(UNION {{p} \X Places(ln[mm[p].device], dl[mm[p].device], x) :
                                      p \in {q \in Phones : mm[q].load = g}})))
           + Cardinality(UNION {{d} \X Places(ln[d], dl[d], x) : d \in Alive(r)})

(* Those of the configuration itself.                                      *)
Sessions(c, g) == {p \in Phones : c[p] = g}
CfgHeld(g) ==
  refs[g]["cfg"] = Count(IsLoading(g)) + Count(global = g) + Cardinality(Sessions(cfg, g))

AllFair ==
  \A g \in Loads : CfgHeld(g) /\ Fair(line[g], dials[g], Contents(g), refs[g], made, g)

(* The two ways to say it are the same.                                    *)
LEMMA FairIsSound ==
  ASSUME NEW g, NEW r, NEW mm
  PROVE  Fair(line[g], dials[g], Contents(g), r, mm, g) <=>
           Sound(g, r, ByPhones(mm, g, Phones))
<1> DEFINE R == ByPhones(mm, g, Phones)
           S == Contents(g)
           B == Plus(InForce(r, S), R)
<1>1. ASSUME NEW x \in Objects
      PROVE  /\ B[x] = Count(r["cfg"] > 0 /\ x \in S)
                       + (Cardinality({p \in Phones : mm[p].load = g /\ mm[p].device = x})
                          + Cardinality(UNION {{p} \X Places(line[g][mm[p].device],
                                                            dials[g][mm[p].device], x) :
                                                 p \in {q \in Phones : mm[q].load = g}}))
             /\ FromDevices(g, Alive(r), x) =
                  Cardinality(UNION {{d} \X Places(line[g][d], dials[g][d], x) : d \in Alive(r)})
  <2>1. x \in Names
    BY <1>1 DEF Objects
  <2>2. InForce(r, S)[x] = Count(r["cfg"] > 0 /\ x \in S)
    BY <2>1 DEF InForce
  <2>3. R[x] = Cardinality({p \in Phones : mm[p].load = g /\ mm[p].device = x})
               + Cardinality(UNION {{p} \X Places(line[g][mm[p].device],
                                                 dials[g][mm[p].device], x) :
                                      p \in {q \in Phones : mm[q].load = g}})
    BY <2>1 DEF ByPhones, Names1, Places1, Using, PlacesOf
  <2>4. B[x] = InForce(r, S)[x] + R[x]
    BY <2>1 DEF Plus
  <2>5. FromDevices(g, Alive(r), x) =
          Cardinality(UNION {{d} \X Places(line[g][d], dials[g][d], x) : d \in Alive(r)})
    BY DEF FromDevices, PlacesOf
  <2> HIDE DEF R, B, S
  <2> QED
    BY <2>2, <2>3, <2>4, <2>5
<1>2. Sound(g, r, R) <=> \A x \in Objects : r[x] = B[x] + FromDevices(g, Alive(r), x)
  BY DEF Sound, Balanced
<1> HIDE DEF R, B, S
<1>3. (\A x \in Objects : r[x] = B[x] + FromDevices(g, Alive(r), x)) <=>
        Fair(line[g], dials[g], S, r, mm, g)
  BY <1>1, Zenon DEF Fair
<1> QED
  BY <1>2, <1>3 DEF R, S

(* The devices that sessions have are those of a configuration.            *)
LEMMA MadeKnown ==
  ASSUME Base, Order, NEW g \in Loads
  PROVE  \A p \in Phones : IsKnown(made[p], g)
<1> SUFFICES ASSUME NEW p \in Phones PROVE IsKnown(made[p], g)
  OBVIOUS
<1>1. made[p] \in Made
  BY DEF Base, Made
<1>2. g # 0
  BY DEF Loads
<1>3. made[p].load = g => made[p].device \in Devices
  BY <1>2 DEF Order, NoDevice
<1> QED
  BY <1>1, <1>3 DEF IsKnown

(* How many sessions have a configuration.                                 *)
LEMMA SessionsType ==
  \A c, g : IsFiniteSet(Sessions(c, g)) /\ Cardinality(Sessions(c, g)) \in Nat
<1> SUFFICES ASSUME NEW c, NEW g
    PROVE  IsFiniteSet(Sessions(c, g)) /\ Cardinality(Sessions(c, g)) \in Nat
  OBVIOUS
<1>1. Sessions(c, g) \subseteq Phones
  BY DEF Sessions
<1> QED
  BY <1>1, NameFacts, FS_Subset, FS_CardinalityType

(* RefsMatchHolders says that all configurations are fair.                 *)
LEMMA HoldersAre == (Base /\ Order) => (RefsMatchHolders <=> AllFair)
<1> SUFFICES ASSUME Base, Order, NEW g \in Loads
    PROVE  (\A x \in Names : refs[g][x] = Holders(g, x)) <=>
             (CfgHeld(g) /\ Fair(line[g], dials[g], Contents(g), refs[g], made, g))
  BY DEF RefsMatchHolders, AllFair
<1>1. refs[g]["cfg"] = Holders(g, "cfg") <=> CfgHeld(g)
  BY DEF Holders, CfgHeld, Sessions
<1>2. ASSUME NEW x \in Objects
      PROVE  Holders(g, x) =
               (Count(refs[g]["cfg"] > 0 /\ x \in Contents(g))
                + (Cardinality({p \in Phones : made[p].load = g /\ made[p].device = x})
                   + Cardinality(UNION {{p} \X Places(line[g][made[p].device],
                                                     dials[g][made[p].device], x) :
                                          p \in {q \in Phones : made[q].load = g}})))
               + Cardinality(UNION {{d} \X Places(line[g][d], dials[g][d], x) :
                                      d \in Alive(refs[g])})
  <2> DEFINE c == Count(refs[g]["cfg"] > 0 /\ x \in Contents(g))
             u == Cardinality({p \in Phones : made[p].load = g /\ made[p].device = x})
             v == Cardinality(UNION {{p} \X Places(line[g][made[p].device],
                                                  dials[g][made[p].device], x) :
                                       p \in {q \in Phones : made[q].load = g}})
             h == Cardinality(UNION {{d} \X Places(line[g][d], dials[g][d], x) :
                                       d \in Alive(refs[g])})
  <2>1. x # "cfg" /\ x \in Names
    BY <1>2 DEF Objects
  <2>2. u \in Nat /\ v \in Nat
    <3>1. /\ Cardinality(Names1(made, g, Phones, x)) \in Nat
          /\ Cardinality(Places1(made, g, Phones, x)) \in Nat
      BY <2>1, MadeKnown, ByPhonesType
    <3>2. v = Cardinality(Places1(made, g, Phones, x))
      BY DEF Places1, Using, PlacesOf
    <3>3. u = Cardinality(Names1(made, g, Phones, x))
      BY DEF Names1
    <3> HIDE DEF u, v
    <3> QED
      BY <3>1, <3>2, <3>3
  <2>3. h \in Nat /\ h = FromDevices(g, Alive(refs[g]), x)
    <3>1. h = FromDevices(g, Alive(refs[g]), x)
      BY DEF FromDevices, PlacesOf
    <3>2. Alive(refs[g]) \in SUBSET Devices
      BY DEF Alive
    <3> HIDE DEF h
    <3> QED
      BY <3>1, <3>2, FromDevicesFacts
  <2>4. c \in Int
    BY CountFacts
  <2>5. Holders(g, x) = c + h + u + v
    <3>1. Count(IsAlive(g, "cfg") /\ x \in DevicesOf(g) \cup lines[g] \cup speeddials[g]) = c
      BY DEF IsAlive, Contents
    <3>2. FromDevices(g, {d \in Devices : IsAlive(g, d)}, x) = h
      <4>1. {d \in Devices : IsAlive(g, d)} = Alive(refs[g])
        BY DEF IsAlive, Alive
      <4> HIDE DEF h
      <4> QED
        BY <2>3, <4>1
    <3>3. Cardinality({p \in MadeFrom(g) : made[p].device = x}) = u
      <4>1. {p \in MadeFrom(g) : made[p].device = x} =
              {p \in Phones : made[p].load = g /\ made[p].device = x}
        BY DEF MadeFrom
      <4> QED
        BY <4>1
    <3>4. Cardinality(UNION {{p} \X PlacesOf(g, made[p].device, x) : p \in MadeFrom(g)}) = v
      BY DEF MadeFrom, PlacesOf
    <3> HIDE DEF c, u, v, h
    <3> QED
      BY <2>1, <3>1, <3>2, <3>3, <3>4 DEF Holders
  <2> HIDE DEF c, u, v, h
  <2>6. Holders(g, x) = (c + (u + v)) + h
    BY <2>2, <2>3, <2>4, <2>5
  <2> QED
    BY <2>6 DEF c, u, v, h
<1>3. (\A x \in Objects : refs[g][x] = Holders(g, x)) <=>
        Fair(line[g], dials[g], Contents(g), refs[g], made, g)
  BY <1>2, Zenon DEF Fair
<1>4. Names = Objects \cup {"cfg"}
  BY NameFacts DEF Objects
<1> QED
  BY <1>1, <1>3, <1>4

(* The next state's.                                                       *)
LEMMA HoldersAreNext == (Base' /\ Order') => (RefsMatchHolders' <=> AllFair')
BY HoldersAre, PTL

(* A session has another configuration.                                    *)
LEMMA SessionsMove ==
  ASSUME NEW c \in [Phones -> 0 .. LastLoad], NEW e \in [Phones -> 0 .. LastLoad],
         NEW p \in Phones, \A q \in Phones \ {p} : e[q] = c[q],
         NEW g, NEW u \in {0, 1}, NEW v \in {0, 1}, u = 1 <=> c[p] = g, v = 1 <=> e[p] = g
  PROVE  Cardinality(Sessions(e, g)) =
           Cardinality(Sessions(c, g)) - u + v
<1> DEFINE S == {q \in Phones \ {p} : c[q] = g}
<1>1. IsFiniteSet(S) /\ p \notin S
  BY NameFacts, FS_Subset
<1>2. ASSUME NEW a \in [Phones -> 0 .. LastLoad], \A q \in Phones \ {p} : a[q] = c[q]
      PROVE  Cardinality(Sessions(a, g)) = Cardinality(S) + Count(a[p] = g)
  <2>1. Cardinality(S) \in Nat
    BY <1>1, FS_CardinalityType
  <2>2. CASE a[p] = g
    <3>1. Sessions(a, g) = S \cup {p}
      BY <1>2, <2>2 DEF Sessions
    <3>2. Cardinality(S \cup {p}) = Cardinality(S) + 1
      BY <1>1, FS_AddElement
    <3> HIDE DEF S
    <3> QED
      BY <2>2, <3>1, <3>2 DEF Count
  <2>3. CASE a[p] # g
    <3>1. Sessions(a, g) = S
      BY <1>2, <2>3 DEF Sessions
    <3> HIDE DEF S
    <3> QED
      BY <2>1, <2>3, <3>1 DEF Count
  <2> QED
    BY <2>2, <2>3
<1>4. Cardinality(S) \in Nat
  BY <1>1, FS_CardinalityType
<1> HIDE DEF S
<1>5. Cardinality(Sessions(c, g)) = Cardinality(S) + Count(c[p] = g)
  BY <1>2
<1>6. Cardinality(Sessions(e, g)) = Cardinality(S) + Count(e[p] = g)
  BY <1>2
<1> DEFINE w == Cardinality(S)
<1>7. Count(c[p] = g) = u /\ Count(e[p] = g) = v
  BY DEF Count
<1>8. /\ w \in Nat /\ Cardinality(Sessions(c, g)) = w + u /\ Cardinality(Sessions(e, g)) = w + v
  BY <1>4, <1>5, <1>6, <1>7
<1> HIDE DEF w
<1> QED
  BY <1>8

(* A configuration that somebody has is in force, or loading.              *)
LEMMA CfgAlive ==
  ASSUME Base, Order, AllFair, NEW g \in Loads
  PROVE  /\ refs[g]["cfg"] \in Nat
         /\ IsLoading(g) => refs[g]["cfg"] = 1 /\ global # g /\ (\A p \in Phones : cfg[p] # g /\ made[p].load # g)
         /\ global = g => refs[g]["cfg"] > 0
         /\ \A p \in Phones : cfg[p] = g => refs[g]["cfg"] > 0
         /\ refs[g]["cfg"] > 0 => IsLoading(g) \/ global = g \/ \E p \in Phones : cfg[p] = g
<1> DEFINE u == Count(IsLoading(g))
           v == Count(global = g)
           w == Cardinality(Sessions(cfg, g))
           r == refs[g]["cfg"]
<1>1. u \in {0, 1} /\ v \in {0, 1} /\ w \in Nat /\ r = u + v + w
  BY CountFacts, SessionsType DEF AllFair, CfgHeld
<1>2. (IsLoading(g) <=> u = 1) /\ (global = g <=> v = 1)
  BY DEF Count
<1>3. w = 0 <=> \A p \in Phones : cfg[p] # g
  <2>1. w = 0 <=> Sessions(cfg, g) = {}
    BY SessionsType, FS_EmptySet
  <2> QED
    BY <2>1 DEF Sessions
<1>4. IsLoading(g) => global # g /\ \A p \in Phones : cfg[p] # g /\ made[p].load # g
  <2> SUFFICES ASSUME IsLoading(g)
      PROVE global # g /\ \A p \in Phones : cfg[p] # g /\ made[p].load # g
    OBVIOUS
  <2>1. load = g /\ Last = g - 1 /\ g \in Nat
    BY DEF IsLoading, Last, Loading, Loads
  <2>2. /\ global <= Last /\ global \in Int
        /\ \A p \in Phones : cfg[p] <= Last /\ made[p].load <= Last /\ cfg[p] \in Int /\ made[p].load \in Int
    BY DEF Order, Base
  <2> QED
    BY <2>1, <2>2
<1> HIDE DEF u, v, w, r
<1>5. /\ r \in Nat
      /\ IsLoading(g) => r = 1 /\ global # g /\ (\A p \in Phones : cfg[p] # g /\ made[p].load # g)
      /\ global = g => r > 0
      /\ \A p \in Phones : cfg[p] = g => r > 0
      /\ r > 0 => IsLoading(g) \/ global = g \/ \E p \in Phones : cfg[p] = g
  <2>1. r \in Nat
    BY <1>1
  <2>2. IsLoading(g) => r = 1
    BY <1>1, <1>2, <1>3, <1>4
  <2>3. global = g => r > 0
    BY <1>1, <1>2
  <2>4. \A p \in Phones : cfg[p] = g => r > 0
    BY <1>1, <1>3
  <2>5. r > 0 => IsLoading(g) \/ global = g \/ \E p \in Phones : cfg[p] = g
    BY <1>1, <1>2, <1>3
  <2> QED
    BY <1>4, <2>1, <2>2, <2>3, <2>4, <2>5
<1> QED
  BY <1>5 DEF r

(* When nothing is built, each configuration is looked at as it is.        *)
LEMMA BuiltStep ==
  ASSUME UNCHANGED built,
         \A g \in Loads : CfgHeld(g)' /\ Sound(g, refs'[g], ByPhones(made', g, Phones))
  PROVE  AllFair'
<1> SUFFICES ASSUME NEW g \in Loads
    PROVE  CfgHeld(g)' /\ Fair(line[g], dials[g], Contents(g), refs[g], made, g)'
  BY DEF AllFair
<1>1. line' = line /\ dials' = dials
  BY DEF built
<1>2. Contents(g)' = Contents(g)
  BY DEF built, Contents, DevicesOf
<1>3. Fair(line[g], dials[g], Contents(g), refs'[g], made', g)
  BY FairIsSound
<1> QED
  BY <1>1, <1>2, <1>3

-----------------------------------------------------------------------------
(* What each operation does to the references.                             *)

RefsType == refs \in [Loads -> [Names -> Int]]

(* Nothing else of a configuration is changed.                             *)
LEMMA SoundNow ==
  ASSUME Base, Order, AllFair, NEW g \in Loads
  PROVE  /\ refs[g] \in [Names -> Int]
         /\ ByPhones(made, g, Phones) \in [Names -> Nat]
         /\ Sound(g, refs[g], ByPhones(made, g, Phones))
         /\ CfgHeld(g)
<1>1. refs[g] \in [Names -> Int]
  BY DEF Base
<1>2. \A p \in Phones : IsKnown(made[p], g)
  BY MadeKnown
<1>3. ByPhones(made, g, Phones) \in [Names -> Nat]
  BY <1>2, ByPhonesType
<1>4. Fair(line[g], dials[g], Contents(g), refs[g], made, g) /\ CfgHeld(g)
  BY DEF AllFair
<1>5. Sound(g, refs[g], ByPhones(made, g, Phones))
  BY <1>4, FairIsSound
<1> QED
  BY <1>1, <1>3, <1>4, <1>5

(* The sessions that have g, and the references to it, change together.    *)
LEMMA CfgHeldStep ==
  ASSUME Base, Order, AllFair, UNCHANGED <<pc, load>>, NEW g \in Loads,
         NEW u \in {0, 1}, NEW v \in {0, 1}, NEW s \in {0, 1}, NEW t \in {0, 1},
         refs'[g]["cfg"] = refs[g]["cfg"] - u + v - s + t,
         Cardinality(Sessions(cfg', g)) = Cardinality(Sessions(cfg, g)) - u + v,
         Count(global' = g) = Count(global = g) - s + t
  PROVE  CfgHeld(g)'
<1>1. IsLoading(g)' <=> IsLoading(g)
  BY DEF IsLoading
<1> DEFINE i == Count(IsLoading(g))
           j == Count(global = g)
           w == Cardinality(Sessions(cfg, g))
<1>2. i \in Int /\ j \in Int /\ w \in Nat /\ refs[g]["cfg"] = i + j + w
  <2>1. refs[g]["cfg"] = i + j + w
    BY DEF AllFair, CfgHeld
  <2>2. i \in Int /\ j \in Int
    BY CountFacts
  <2>3. w \in Nat
    BY SessionsType
  <2> QED
    BY <2>1, <2>2, <2>3
<1>3. Count(IsLoading(g)') = i
  BY <1>1 DEF Count
<1>4. /\ Count(global' = g) = j - s + t
      /\ Cardinality(Sessions(cfg', g)) = w - u + v
      /\ refs'[g]["cfg"] = (i + j + w) - u + v - s + t
  BY <1>2
<1> HIDE DEF i, j, w
<1>5. refs'[g]["cfg"] = i + (j - s + t) + (w - u + v)
  BY <1>2, <1>4
<1> QED
  BY <1>3, <1>4, <1>5 DEF CfgHeld

(* A session starts.                                                       *)
LEMMA CreateRefs ==
  ASSUME Base, Order, AllFair, NEW p \in Phones, sccp_session_create(p)
  PROVE  RefsType' /\ AllFair'
<1>1. /\ cfg' = [cfg EXCEPT ![p] = global]
      /\ refs' = [refs EXCEPT ![global] = Added(refs[global], {"cfg"})]
      /\ UNCHANGED <<pc, load, global, made>> /\ UNCHANGED built
      /\ global \in Loads /\ cfg[p] = 0
  BY DEF sccp_session_create, loading, Base, Loads
<1>2. /\ refs[global] \in [Names -> Int]
      /\ Sound(global, refs[global], ByPhones(made, global, Phones))
      /\ refs[global]["cfg"] > 0
  BY <1>1, SoundNow, CfgAlive
<1> DEFINE e == Added(refs[global], {"cfg"})
<1>3. /\ e \in [Names -> Int] /\ e["cfg"] = refs[global]["cfg"] + 1
      /\ Sound(global, e, ByPhones(made, global, Phones))
  BY <1>2, HoldKeeps
<1> HIDE DEF e
<1>4. refs \in [Loads -> [Names -> Int]] /\ refs' = [refs EXCEPT ![global] = e]
  BY <1>1 DEF Base, e
<1>5. RefsType'
  BY <1>1, <1>3, <1>4 DEF RefsType
<1>6. ASSUME NEW g \in Loads
      PROVE  CfgHeld(g)' /\ Sound(g, refs'[g], ByPhones(made', g, Phones))
  <2>1. CASE g = global
    <3>1. refs'[g] = e /\ refs'[g]["cfg"] = refs[g]["cfg"] + 1
      BY <1>1, <1>3, <1>4, <2>1
    <3>2. Cardinality(Sessions(cfg', g)) = Cardinality(Sessions(cfg, g)) - 0 + 1
      <4>1. cfg[p] # g /\ 0 \in {0, 1} /\ 1 \in {0, 1}
        BY <1>1 DEF Loads
      <4>2. /\ cfg \in [Phones -> 0 .. LastLoad] /\ cfg' \in [Phones -> 0 .. LastLoad]
            /\ cfg'[p] = global /\ \A q \in Phones \ {p} : cfg'[q] = cfg[q]
        BY <1>1 DEF Base
      <4> QED
        BY <2>1, <4>1, <4>2, SessionsMove
    <3>3. Count(global' = g) = Count(global = g) - 0 + 0
      BY <1>1, CountFacts
    <3>4. refs[g]["cfg"] \in Int
      BY NameFacts, SoundNow
    <3>5. refs'[g]["cfg"] = refs[g]["cfg"] - 0 + 1 - 0 + 0
      BY <3>1, <3>4
    <3>6. CfgHeld(g)'
      BY <1>1, <3>2, <3>3, <3>5, CfgHeldStep
    <3> QED
      BY <1>1, <1>3, <2>1, <3>1, <3>6
  <2>2. CASE g # global
    <3>1. refs'[g] = refs[g]
      BY <1>1, <1>4, <2>2
    <3>2. Cardinality(Sessions(cfg', g)) = Cardinality(Sessions(cfg, g)) - 0 + 0
      <4>1. cfg[p] # g /\ 0 \in {0, 1} /\ 1 \in {0, 1}
        BY <1>1 DEF Loads
      <4>2. /\ cfg \in [Phones -> 0 .. LastLoad] /\ cfg' \in [Phones -> 0 .. LastLoad]
            /\ cfg'[p] = global /\ \A q \in Phones \ {p} : cfg'[q] = cfg[q]
        BY <1>1 DEF Base
      <4> QED
        BY <2>2, <4>1, <4>2, SessionsMove
    <3>3. Count(global' = g) = Count(global = g) - 0 + 0
      BY <1>1, CountFacts
    <3>4. refs[g]["cfg"] \in Int
      BY NameFacts, SoundNow
    <3>5. refs'[g]["cfg"] = refs[g]["cfg"] - 0 + 0 - 0 + 0
      BY <3>1, <3>4
    <3>6. CfgHeld(g)'
      BY <1>1, <3>2, <3>3, <3>5, CfgHeldStep
    <3> QED
      BY <1>1, <3>1, <3>6, SoundNow
  <2> QED
    BY <2>1, <2>2
<1> QED
  BY <1>1, <1>5, <1>6, BuiltStep

(* A session or the global object gives a configuration back: one of the   *)
(* two has it no more.                                                     *)
LEMMA GiveBackRefs ==
  ASSUME Base, Order, AllFair, UNCHANGED <<pc, load, made>>, UNCHANGED built,
         NEW h \in Loads, refs[h]["cfg"] > 0,
         refs' = [refs EXCEPT ![h] = DropCfg(h, refs[h])],
         \A g \in Loads :
           \/ /\ Cardinality(Sessions(cfg', g)) = Cardinality(Sessions(cfg, g)) - Count(g = h)
              /\ Count(global' = g) = Count(global = g)
           \/ /\ Cardinality(Sessions(cfg', g)) = Cardinality(Sessions(cfg, g))
              /\ Count(global' = g) = Count(global = g) - Count(g = h)
  PROVE  RefsType' /\ AllFair'
<1> DEFINE e == DropCfg(h, refs[h])
<1>1. /\ e \in [Names -> Int] /\ e["cfg"] = refs[h]["cfg"] - 1
      /\ Sound(h, e, ByPhones(made, h, Phones))
  BY SoundNow, GiveBackKeeps
<1> HIDE DEF e
<1>2. refs \in [Loads -> [Names -> Int]] /\ refs' = [refs EXCEPT ![h] = e]
  BY DEF Base, e
<1>3. RefsType'
  BY <1>1, <1>2 DEF RefsType
<1>4. ASSUME NEW g \in Loads
      PROVE  CfgHeld(g)' /\ Sound(g, refs'[g], ByPhones(made', g, Phones))
  <2> DEFINE c == Count(g = h)
  <2>1. c \in {0, 1} /\ 0 \in {0, 1}
    BY CountFacts
  <2>2. refs[g]["cfg"] \in Int
    BY NameFacts, SoundNow
  <2>3. refs'[g]["cfg"] = refs[g]["cfg"] - c
    <3>1. CASE g = h
      BY <1>1, <1>2, <3>1 DEF Count
    <3>2. CASE g # h
      BY <1>2, <2>2, <3>2 DEF Count
    <3> QED
      BY <3>1, <3>2
  <2> DEFINE w == Cardinality(Sessions(cfg, g))
             x == Cardinality(Sessions(cfg', g))
             i == Count(global = g)
             j == Count(global' = g)
             r == refs[g]["cfg"]
             q == refs'[g]["cfg"]
  <2>4. /\ w \in Nat /\ x \in Nat /\ i \in Int /\ j \in Int /\ r \in Int
        /\ q = r - c
        /\ (x = w - c /\ j = i) \/ (x = w /\ j = i - c)
    BY <2>2, <2>3, CountFacts, SessionsType
  <2> HIDE DEF w, x, i, j, c, r, q
  <2>5. \/ x = w - c + 0 /\ j = i - 0 + 0 /\ q = r - c + 0 - 0 + 0
        \/ x = w - 0 + 0 /\ j = i - c + 0 /\ q = r - 0 + 0 - c + 0
    BY <2>1, <2>4
  <2>6. ASSUME x = w - c + 0 /\ j = i - 0 + 0 /\ q = r - c + 0 - 0 + 0
        PROVE  CfgHeld(g)'
    <3>1. /\ Cardinality(Sessions(cfg', g)) = Cardinality(Sessions(cfg, g)) - c + 0
          /\ Count(global' = g) = Count(global = g) - 0 + 0
          /\ refs'[g]["cfg"] = refs[g]["cfg"] - c + 0 - 0 + 0
      BY <2>6 DEF w, x, i, j, r, q
    <3> QED
      BY <2>1, <3>1, CfgHeldStep
  <2>7. ASSUME x = w - 0 + 0 /\ j = i - c + 0 /\ q = r - 0 + 0 - c + 0
        PROVE  CfgHeld(g)'
    <3>1. /\ Cardinality(Sessions(cfg', g)) = Cardinality(Sessions(cfg, g)) - 0 + 0
          /\ Count(global' = g) = Count(global = g) - c + 0
          /\ refs'[g]["cfg"] = refs[g]["cfg"] - 0 + 0 - c + 0
      BY <2>7 DEF w, x, i, j, r, q
    <3> QED
      BY <2>1, <3>1, CfgHeldStep
  <2>8. Sound(g, refs'[g], ByPhones(made', g, Phones))
    <3>1. CASE g = h
      BY <1>1, <1>2, <3>1
    <3>2. CASE g # h
      <4>1. refs'[g] = refs[g]
        BY <1>2, <3>2
      <4> QED
        BY <4>1, SoundNow
    <3> QED
      BY <3>1, <3>2
  <2> QED
    BY <2>5, <2>6, <2>7, <2>8
<1> QED
  BY <1>3, <1>4, BuiltStep

(* A session ends.                                                         *)
LEMMA EndRefs ==
  ASSUME Base, Order, AllFair, NEW p \in Phones, EndSession(p)
  PROVE  RefsType' /\ AllFair'
<1> DEFINE h == cfg[p]
<1>1. /\ cfg' = [cfg EXCEPT ![p] = 0]
      /\ refs' = [refs EXCEPT ![h] = DropCfg(h, refs[h])]
      /\ UNCHANGED <<pc, load, made>> /\ UNCHANGED built /\ global' = global
      /\ h \in Loads
  BY DEF EndSession, loading, Base, Loads
<1>2. refs[h]["cfg"] > 0
  BY <1>1, CfgAlive
<1>3. ASSUME NEW g \in Loads
      PROVE  /\ Cardinality(Sessions(cfg', g)) = Cardinality(Sessions(cfg, g)) - Count(g = h)
             /\ Count(global' = g) = Count(global = g)
  <2> DEFINE u == Count(g = h)
             v == Cardinality(Sessions(cfg, g))
  <2>1. u \in {0, 1} /\ 0 \in {0, 1} /\ (u = 1 <=> cfg[p] = g) /\ 0 # g
    BY CountFacts DEF Count, Loads
  <2>2. /\ cfg \in [Phones -> 0 .. LastLoad] /\ cfg' \in [Phones -> 0 .. LastLoad]
        /\ cfg'[p] = 0 /\ (\A q \in Phones \ {p} : cfg'[q] = cfg[q])
        /\ v \in Nat
    BY <1>1, NameFacts, SessionsType DEF Base
  <2> HIDE DEF u
  <2>3. Cardinality(Sessions(cfg', g)) = Cardinality(Sessions(cfg, g)) - u + 0
    BY <2>1, <2>2, SessionsMove
  <2> HIDE DEF v
  <2>4. Cardinality(Sessions(cfg', g)) = v - u
    BY <2>1, <2>2, <2>3 DEF v
  <2> QED
    BY <1>1, <2>4 DEF u, v
<1> HIDE DEF h
<1> QED
  BY <1>1, <1>2, <1>3, GiveBackRefs

(* The last one is given up.                                               *)
LEMMA DestroyRefs ==
  ASSUME Base, Order, AllFair, Destroy
  PROVE  RefsType' /\ AllFair'
<1>1. /\ global' = 0 /\ refs' = [refs EXCEPT ![global] = DropCfg(global, refs[global])]
      /\ UNCHANGED <<load, made, cfg>> /\ UNCHANGED built
      /\ global \in Loads /\ pc = "idle" /\ pc' = "destroyed"
  BY DEF Destroy, Base, Loads
<1> DEFINE e == DropCfg(global, refs[global])
<1>2. refs[global]["cfg"] > 0
  BY <1>1, CfgAlive
<1>3. /\ e \in [Names -> Int] /\ e["cfg"] = refs[global]["cfg"] - 1
      /\ Sound(global, e, ByPhones(made, global, Phones))
  BY <1>1, <1>2, SoundNow, GiveBackKeeps
<1> HIDE DEF e
<1>4. refs \in [Loads -> [Names -> Int]] /\ refs' = [refs EXCEPT ![global] = e]
  BY <1>1 DEF Base, e
<1>5. RefsType'
  BY <1>1, <1>3, <1>4 DEF RefsType
<1>6. ASSUME NEW g \in Loads
      PROVE  CfgHeld(g)' /\ Sound(g, refs'[g], ByPhones(made', g, Phones))
  <2>1. Count(IsLoading(g)) = 0 /\ Count(IsLoading(g)') = 0 /\ Count(global' = g) = 0
    BY <1>1 DEF IsLoading, Count, Loads
  <2> DEFINE w == Cardinality(Sessions(cfg, g))
  <2>2. w \in Nat /\ Cardinality(Sessions(cfg', g)) = w
    BY <1>1, SessionsType
  <2>3. refs[g]["cfg"] = 0 + Count(global = g) + w
    BY <2>1, SoundNow DEF CfgHeld
  <2> HIDE DEF w
  <2>4. CASE g = global
    <3>1. refs'[g] = e /\ refs'[g]["cfg"] = refs[g]["cfg"] - 1
      BY <1>1, <1>3, <1>4, <2>4
    <3>2. refs'[g]["cfg"] = 0 + 0 + w
      BY <2>2, <2>3, <2>4, <3>1 DEF Count
    <3>3. CfgHeld(g)'
      BY <2>1, <2>2, <3>2 DEF CfgHeld
    <3> QED
      BY <1>1, <1>3, <2>4, <3>1, <3>3
  <2>5. CASE g # global
    <3>1. refs'[g] = refs[g]
      BY <1>1, <1>4, <2>5
    <3>2. refs'[g]["cfg"] = 0 + 0 + w
      BY <2>2, <2>3, <2>5, <3>1 DEF Count
    <3>3. CfgHeld(g)'
      BY <2>1, <2>2, <3>2 DEF CfgHeld
    <3> QED
      BY <1>1, <3>1, <3>3, SoundNow
  <2> QED
    BY <2>4, <2>5
<1> QED
  BY <1>1, <1>5, <1>6, BuiltStep

(* The device of a session is another one, or none.                        *)
LEMMA MadeMoves ==
  ASSUME Base, Order, NEW p \in Phones, NEW mm, \A q \in Phones \ {p} : mm[q] = made[q],
         NEW g \in Loads, IsKnown(mm[p], g)
  PROVE  /\ ByPhones(made, g, Phones \ {p}) \in [Names -> Nat]
         /\ made[p].load # g => ByPhones(made, g, Phones) = ByPhones(made, g, Phones \ {p})
         /\ mm[p].load # g => ByPhones(mm, g, Phones) = ByPhones(made, g, Phones \ {p})
         /\ made[p].load = g =>
              ByPhones(made, g, Phones) =
                Plus(Plus(ByPhones(made, g, Phones \ {p}), One({made[p].device})), Of(g, made[p].device))
         /\ mm[p].load = g =>
              ByPhones(mm, g, Phones) =
                Plus(Plus(ByPhones(made, g, Phones \ {p}), One({mm[p].device})), Of(g, mm[p].device))
<1> DEFINE O == Phones \ {p}
<1>1. \A q \in Phones : IsKnown(made[q], g) /\ IsKnown(mm[q], g)
  <2>1. \A q \in Phones : IsKnown(made[q], g)
    BY MadeKnown
  <2>2. ASSUME NEW q \in Phones PROVE IsKnown(mm[q], g)
    BY <2>1
  <2> QED
    BY <2>1, <2>2
<1>2. O \in SUBSET Phones /\ \A q \in O : IsKnown(made[q], g)
  BY <1>1
<1>3. ByPhones(made, g, O) \in [Names -> Nat]
  <2> HIDE DEF O
  <2> QED
    BY <1>2, ByPhonesType
<1>4. ByPhones(mm, g, O) = ByPhones(made, g, O)
  <2>1. Using(mm, g, O) = Using(made, g, O)
    BY DEF Using
  <2>2. \A x : Names1(mm, g, O, x) = Names1(made, g, O, x)
    BY DEF Names1
  <2>3. ASSUME NEW x PROVE Places1(mm, g, O, x) = Places1(made, g, O, x)
    <3> DEFINE U == Using(made, g, O)
    <3>1. \A q \in U : mm[q] = made[q]
      BY DEF Using
    <3> HIDE DEF U
    <3>2. {{q} \X PlacesOf(g, mm[q].device, x) : q \in U} =
            {{q} \X PlacesOf(g, made[q].device, x) : q \in U}
      <4>1. ASSUME NEW q \in U PROVE PlacesOf(g, mm[q].device, x) = PlacesOf(g, made[q].device, x)
        BY <3>1
      <4> QED
        BY <4>1
    <3> QED
      BY <2>1, <3>2 DEF Places1, U
  <2> HIDE DEF O
  <2> QED
    BY <2>2, <2>3 DEF ByPhones
<1>5. /\ made[p].load = g =>
           ByPhones(made, g, Phones) =
             Plus(Plus(ByPhones(made, g, Phones \ {p}), One({made[p].device})), Of(g, made[p].device))
      /\ made[p].load # g => ByPhones(made, g, Phones) = ByPhones(made, g, Phones \ {p})
  BY <1>1, ByPhonesSplit
<1>6. /\ mm[p].load = g =>
           ByPhones(mm, g, Phones) =
             Plus(Plus(ByPhones(mm, g, Phones \ {p}), One({mm[p].device})), Of(g, mm[p].device))
      /\ mm[p].load # g => ByPhones(mm, g, Phones) = ByPhones(mm, g, Phones \ {p})
  BY <1>1, ByPhonesSplit
<1> QED
  BY <1>3, <1>4, <1>5, <1>6

(* sccp_cfg_find_device_or_guest finds a device of the configuration.      *)
LEMMA FoundFacts ==
  ASSUME Base, NEW g \in Loads, NEW p, Found(g, p) # None
  PROVE  Found(g, p) \in Devices /\ Found(g, p) \in DevicesOf(g)
BY DEF Base, Found, DevicesOf

(* What is known of the counts is not changed by what happens to devices.  *)
LEMMA SameCfgHeld ==
  ASSUME Base, Order, AllFair, UNCHANGED <<pc, load, global, cfg>>, NEW g \in Loads,
         refs'[g]["cfg"] = refs[g]["cfg"]
  PROVE  CfgHeld(g)'
<1>1. IsLoading(g)' <=> IsLoading(g)
  BY DEF IsLoading
<1>2. CfgHeld(g)
  BY SoundNow
<1> QED
  BY <1>1, <1>2 DEF CfgHeld, Count

(* A phone registers.                                                      *)
LEMMA RegisterRefs ==
  ASSUME Base, Order, AllFair, NEW p \in Phones, sccp_session_handle_msg_register(p)
  PROVE  RefsType' /\ AllFair'
<1> DEFINE h == cfg[p]
           d == Found(h, p)
           e == Make(h, d, refs[h])
<1>1. /\ UNCHANGED <<pc, load, global, cfg>> /\ UNCHANGED built
      /\ made' = [made EXCEPT ![p] = [load |-> h, device |-> d]]
      /\ refs' = [refs EXCEPT ![h] = e]
      /\ h \in Loads /\ made[p] = NoDevice /\ d # None
  BY DEF sccp_session_handle_msg_register, loading, Base, Loads
<1>2. d \in Devices /\ d \in DevicesOf(h) /\ refs[h]["cfg"] > 0
  BY <1>1, FoundFacts, CfgAlive
<1>3. /\ \A q \in Phones \ {p} : made'[q] = made[q]
      /\ made'[p].load = h /\ made'[p].device = d
      /\ \A g \in Loads : IsKnown(made'[p], g) /\ made[p].load # g
  BY <1>1, <1>2 DEF Base, NoDevice, Loads, IsKnown, Made
<1> DEFINE O(g) == ByPhones(made, g, Phones \ {p})
<1> HIDE DEF h, d, e
<1>4. ASSUME NEW g \in Loads
      PROVE  /\ O(g) \in [Names -> Nat] /\ Sound(g, refs[g], O(g))
             /\ g # h => ByPhones(made', g, Phones) = O(g)
             /\ g = h => ByPhones(made', g, Phones) = Plus(Plus(O(g), One({d})), Of(g, d))
  <2>1. /\ ByPhones(made, g, Phones \ {p}) \in [Names -> Nat]
        /\ made[p].load # g => ByPhones(made, g, Phones) = ByPhones(made, g, Phones \ {p})
        /\ made'[p].load # g => ByPhones(made', g, Phones) = ByPhones(made, g, Phones \ {p})
        /\ made'[p].load = g =>
             ByPhones(made', g, Phones) =
               Plus(Plus(ByPhones(made, g, Phones \ {p}), One({made'[p].device})), Of(g, made'[p].device))
    BY <1>3, MadeMoves
  <2>2. Sound(g, refs[g], ByPhones(made, g, Phones))
    BY SoundNow
  <2> QED
    BY <1>3, <2>1, <2>2
<1>5. refs[h] \in [Names -> Int]
  BY <1>1, SoundNow
<1>6. /\ e \in [Names -> Int] /\ e["cfg"] = refs[h]["cfg"]
      /\ Sound(h, e, Plus(Plus(O(h), One({d})), Of(h, d)))
  <2>1. O(h) \in [Names -> Nat] /\ Sound(h, refs[h], O(h))
    BY <1>1, <1>4
  <2> HIDE DEF O
  <2> QED
    BY <1>1, <1>2, <1>5, <2>1, SoundMake DEF e
<1>7. RefsType'
  BY <1>1, <1>6 DEF RefsType, Base
<1>8. ASSUME NEW g \in Loads
      PROVE  refs'[g] = (IF g = h THEN e ELSE refs[g])
  BY <1>1 DEF Base
<1>9. ASSUME NEW g \in Loads
      PROVE  CfgHeld(g)' /\ Sound(g, refs'[g], ByPhones(made', g, Phones))
  <2> HIDE DEF O
  <2>1. refs'[g]["cfg"] = refs[g]["cfg"]
    BY <1>6, <1>8
  <2>2. CfgHeld(g)'
    BY <1>1, <2>1, SameCfgHeld
  <2>3. Sound(g, refs'[g], ByPhones(made', g, Phones))
    BY <1>4, <1>6, <1>8
  <2> QED
    BY <2>2, <2>3
<1> QED
  BY <1>1, <1>7, <1>9, BuiltStep

(* The device goes.                                                        *)
LEMMA FreeRefs ==
  ASSUME Base, Order, AllFair, NEW p \in Phones, FreeDevice(p)
  PROVE  RefsType' /\ AllFair'
<1> DEFINE h == made[p].load
           d == made[p].device
           e == Unmake(h, d, refs[h])
<1>1. /\ UNCHANGED <<pc, load, global, cfg>> /\ UNCHANGED built
      /\ made' = [made EXCEPT ![p] = NoDevice]
      /\ refs' = [refs EXCEPT ![h] = e]
      /\ h \in Loads /\ d \in Devices
  BY DEF FreeDevice, loading, Order
<1>2. /\ \A q \in Phones \ {p} : made'[q] = made[q]
      /\ \A g \in Loads : IsKnown(made'[p], g) /\ made'[p].load # g
  BY <1>1, NameFacts DEF Base, NoDevice, Loads, IsKnown, Made
<1> DEFINE O(g) == ByPhones(made, g, Phones \ {p})
<1>3. ASSUME NEW g \in Loads
      PROVE  /\ O(g) \in [Names -> Nat] /\ ByPhones(made', g, Phones) = O(g)
             /\ g # h => Sound(g, refs[g], O(g))
             /\ g = h => Sound(g, refs[g], Plus(Plus(O(g), One({d})), Of(g, d)))
  <2>1. /\ ByPhones(made, g, Phones \ {p}) \in [Names -> Nat]
        /\ made[p].load # g => ByPhones(made, g, Phones) = ByPhones(made, g, Phones \ {p})
        /\ made'[p].load # g => ByPhones(made', g, Phones) = ByPhones(made, g, Phones \ {p})
        /\ made[p].load = g =>
             ByPhones(made, g, Phones) =
               Plus(Plus(ByPhones(made, g, Phones \ {p}), One({made[p].device})), Of(g, made[p].device))
    BY <1>2, MadeMoves
  <2>2. Sound(g, refs[g], ByPhones(made, g, Phones))
    BY SoundNow
  <2> QED
    BY <1>2, <2>1, <2>2
<1> HIDE DEF h, d, e
<1>4. refs[h] \in [Names -> Int]
  BY <1>1, SoundNow
<1>5. e \in [Names -> Int] /\ e["cfg"] = refs[h]["cfg"] /\ Sound(h, e, O(h))
  <2>1. O(h) \in [Names -> Nat] /\ Sound(h, refs[h], Plus(Plus(O(h), One({d})), Of(h, d)))
    BY <1>1, <1>3
  <2> HIDE DEF O
  <2> QED
    BY <1>1, <1>4, <2>1, SoundUnmake DEF e
<1>6. RefsType'
  BY <1>1, <1>5 DEF RefsType, Base
<1>7. ASSUME NEW g \in Loads
      PROVE  refs'[g] = (IF g = h THEN e ELSE refs[g])
  BY <1>1 DEF Base
<1>8. ASSUME NEW g \in Loads
      PROVE  CfgHeld(g)' /\ Sound(g, refs'[g], ByPhones(made', g, Phones))
  <2> HIDE DEF O
  <2>1. refs'[g]["cfg"] = refs[g]["cfg"]
    BY <1>5, <1>7
  <2>2. CfgHeld(g)'
    BY <1>1, <2>1, SameCfgHeld
  <2>3. Sound(g, refs'[g], ByPhones(made', g, Phones))
    BY <1>3, <1>5, <1>7
  <2> QED
    BY <2>2, <2>3
<1> QED
  BY <1>1, <1>6, <1>8, BuiltStep

(* The session's configuration is exchanged for the one in force.          *)
LEMMA Swapped ==
  ASSUME Base, Order, AllFair, NEW old \in Loads, NEW new \in Loads, old # new,
         refs[old]["cfg"] > 0, refs[new]["cfg"] > 0,
         NEW s, s = [refs EXCEPT ![new] = Added(refs[new], {"cfg"}),
                                 ![old] = DropCfg(old, refs[old])]
  PROVE  /\ s \in [Loads -> [Names -> Int]]
         /\ \A g \in Loads :
              /\ Sound(g, s[g], ByPhones(made, g, Phones))
              /\ g = old => s[g]["cfg"] = refs[g]["cfg"] - 1
              /\ g = new => s[g]["cfg"] = refs[g]["cfg"] + 1
              /\ g # old /\ g # new => s[g] = refs[g]
<1> DEFINE a == Added(refs[new], {"cfg"})
           b == DropCfg(old, refs[old])
<1>1. /\ a \in [Names -> Int] /\ a["cfg"] = refs[new]["cfg"] + 1
      /\ Sound(new, a, ByPhones(made, new, Phones))
  BY SoundNow, HoldKeeps
<1>2. /\ b \in [Names -> Int] /\ b["cfg"] = refs[old]["cfg"] - 1
      /\ Sound(old, b, ByPhones(made, old, Phones))
  BY SoundNow, GiveBackKeeps
<1>3. /\ refs \in [Loads -> [Names -> Int]]
      /\ s = [refs EXCEPT ![new] = a, ![old] = b]
  BY DEF Base
<1> HIDE DEF a, b
<1>4. s \in [Loads -> [Names -> Int]]
  BY <1>1, <1>2, <1>3
<1>5. ASSUME NEW g \in Loads
      PROVE  /\ g = old => s[g] = b
             /\ g = new => s[g] = a
             /\ g # old /\ g # new => s[g] = refs[g]
  BY <1>3
<1>6. ASSUME NEW g \in Loads
      PROVE  Sound(g, s[g], ByPhones(made, g, Phones))
  <2>1. Sound(g, refs[g], ByPhones(made, g, Phones))
    BY SoundNow
  <2> QED
    BY <1>1, <1>2, <1>5, <2>1
<1> QED
  BY <1>1, <1>2, <1>4, <1>5, <1>6

(* A session gets the new configuration.                                   *)
LEMMA ReloadRefs ==
  ASSUME Base, Order, AllFair, NEW p \in Phones, process_reload_config(p)
  PROVE  RefsType' /\ AllFair'
<1> DEFINE old == cfg[p]
           new == global
           s == [refs EXCEPT ![new] = Added(refs[new], {"cfg"}), ![old] = DropCfg(old, refs[old])]
           m == made[p].load
           c == made[p].device
           d == Found(new, p)
<1>1. /\ UNCHANGED <<pc, load, global>> /\ UNCHANGED built
      /\ cfg' = [cfg EXCEPT ![p] = new]
      /\ old \in Loads /\ new \in Loads /\ old # new /\ new > old
      /\ \/ refs' = s /\ made' = made
         \/ /\ made[p] # NoDevice /\ d # None
            /\ made' = [made EXCEPT ![p] = [load |-> new, device |-> d]]
            /\ refs' = sccp_device_reload_config(s, made[p], new, d)
  <2>1. old \in 0 .. LastLoad /\ new \in 0 .. LastLoad /\ LastLoad \in Nat
    BY NameFacts DEF Base
  <2>2. old # 0 /\ new > old
    BY DEF process_reload_config
  <2>3. old \in Loads /\ new \in Loads /\ old # new
    BY <2>1, <2>2 DEF Loads
  <2>4. \/ refs' = s /\ made' = made
        \/ /\ made[p] # NoDevice /\ d # None
           /\ made' = [made EXCEPT ![p] = [load |-> new, device |-> d]]
           /\ refs' = sccp_device_reload_config(s, made[p], new, d)
    <3>1. s = [refs EXCEPT ![new] = Added(@, {"cfg"}), ![old] = DropCfg(old, @)]
      BY <2>3 DEF Base
    <3> HIDE DEF s
    <3> QED
      BY <3>1 DEF process_reload_config
  <2> QED
    BY <2>2, <2>3, <2>4 DEF process_reload_config, loading
<1>2. refs[old]["cfg"] > 0 /\ refs[new]["cfg"] > 0
  BY <1>1, CfgAlive
<1>3. /\ s \in [Loads -> [Names -> Int]]
      /\ \A g \in Loads :
           /\ Sound(g, s[g], ByPhones(made, g, Phones))
           /\ g = old => s[g]["cfg"] = refs[g]["cfg"] - 1
           /\ g = new => s[g]["cfg"] = refs[g]["cfg"] + 1
           /\ g # old /\ g # new => s[g] = refs[g]
  <2> HIDE DEF old, new
  <2> QED
    BY <1>1, <1>2, Swapped
<1> HIDE DEF s
<1>4. ASSUME NEW g \in Loads, refs'[g]["cfg"] = s[g]["cfg"]
      PROVE  CfgHeld(g)'
  <2>1. /\ cfg \in [Phones -> 0 .. LastLoad] /\ cfg' \in [Phones -> 0 .. LastLoad]
        /\ cfg'[p] = new /\ cfg[p] = old /\ old # new
        /\ \A q \in Phones \ {p} : cfg'[q] = cfg[q]
    BY <1>1 DEF Base
  <2> HIDE DEF old, new
  <2>2. Count(global' = g) = Count(global = g) - 0 + 0
    BY <1>1, CountFacts
  <2>3. refs[g]["cfg"] \in Int /\ 0 \in {0, 1} /\ 1 \in {0, 1}
    BY NameFacts, SoundNow
  <2>4. CASE g = old
    <3>1. Cardinality(Sessions(cfg', g)) = Cardinality(Sessions(cfg, g)) - 1 + 0
      BY <2>1, <2>3, <2>4, SessionsMove
    <3>2. refs'[g]["cfg"] = refs[g]["cfg"] - 1 + 0 - 0 + 0
      BY <1>3, <1>4, <2>3, <2>4
    <3> QED
      BY <1>1, <2>2, <2>3, <3>1, <3>2, CfgHeldStep
  <2>5. CASE g = new
    <3>1. Cardinality(Sessions(cfg', g)) = Cardinality(Sessions(cfg, g)) - 0 + 1
      BY <2>1, <2>3, <2>5, SessionsMove
    <3>2. refs'[g]["cfg"] = refs[g]["cfg"] - 0 + 1 - 0 + 0
      BY <1>3, <1>4, <2>3, <2>5
    <3> QED
      BY <1>1, <2>2, <2>3, <3>1, <3>2, CfgHeldStep
  <2>6. CASE g # old /\ g # new
    <3>1. Cardinality(Sessions(cfg', g)) = Cardinality(Sessions(cfg, g)) - 0 + 0
      BY <2>1, <2>3, <2>6, SessionsMove
    <3>2. refs'[g]["cfg"] = refs[g]["cfg"] - 0 + 0 - 0 + 0
      BY <1>3, <1>4, <2>3, <2>6
    <3> QED
      BY <1>1, <2>2, <2>3, <3>1, <3>2, CfgHeldStep
  <2> QED
    BY <2>4, <2>5, <2>6
<1>5. CASE refs' = s /\ made' = made
  <2>1. \A g \in Loads : CfgHeld(g)' /\ Sound(g, refs'[g], ByPhones(made', g, Phones))
    BY <1>3, <1>4, <1>5
  <2>2. RefsType'
    BY <1>3, <1>5 DEF RefsType
  <2> QED
    BY <1>1, <2>1, <2>2, BuiltStep
<1>6. CASE /\ made[p] # NoDevice /\ d # None
           /\ made' = [made EXCEPT ![p] = [load |-> new, device |-> d]]
           /\ refs' = sccp_device_reload_config(s, made[p], new, d)
  <2> DEFINE x == Unmake(m, c, s[m])
             y == Make(new, d, s[new])
  <2>1. m \in Loads /\ c \in Devices /\ m # new
    <3>1. m \in Loads /\ c \in Devices /\ m <= old
      BY <1>1, <1>6 DEF Order, Loads
    <3>2. old \in Nat /\ new \in Nat /\ m \in Nat
      BY <1>1, <3>1 DEF Loads
    <3> QED
      BY <1>1, <3>1, <3>2
  <2>2. d \in Devices /\ d \in DevicesOf(new)
    BY <1>1, <1>6, FoundFacts
  <2>3. /\ \A q \in Phones \ {p} : made'[q] = made[q]
        /\ made'[p].load = new /\ made'[p].device = d
        /\ \A g \in Loads : IsKnown(made'[p], g)
    <3>1. new \in 0 .. LastLoad
      BY DEF Base
    <3>2. made' = [made EXCEPT ![p] = [load |-> new, device |-> d]] /\ made \in [Phones -> Made]
      BY <1>6 DEF Base, Made
    <3> HIDE DEF new, d
    <3>3. /\ \A q \in Phones \ {p} : made'[q] = made[q]
          /\ made'[p] = [load |-> new, device |-> d]
      BY <3>2
    <3> QED
      BY <2>2, <3>1, <3>3 DEF IsKnown, Made
  <2>4. refs' = [s EXCEPT ![m] = x, ![new] = y]
    <3>1. refs' = [s EXCEPT ![m] = Unmake(m, c, @), ![new] = Make(new, d, @)]
      BY <1>6 DEF sccp_device_reload_config
    <3> HIDE DEF d, c, m, new, old
    <3> QED
      BY <1>1, <1>3, <2>1, <3>1
  <2> DEFINE O(g) == ByPhones(made, g, Phones \ {p})
  <2>5. ASSUME NEW g \in Loads
        PROVE  /\ O(g) \in [Names -> Nat]
               /\ g # m => Sound(g, s[g], O(g))
               /\ g = m => Sound(g, s[g], Plus(Plus(O(g), One({c})), Of(g, c)))
               /\ g # new => ByPhones(made', g, Phones) = O(g)
               /\ g = new => ByPhones(made', g, Phones) = Plus(Plus(O(g), One({d})), Of(g, d))
    <3>1. /\ ByPhones(made, g, Phones \ {p}) \in [Names -> Nat]
          /\ made[p].load # g => ByPhones(made, g, Phones) = ByPhones(made, g, Phones \ {p})
          /\ made'[p].load # g => ByPhones(made', g, Phones) = ByPhones(made, g, Phones \ {p})
          /\ made[p].load = g =>
               ByPhones(made, g, Phones) =
                 Plus(Plus(ByPhones(made, g, Phones \ {p}), One({made[p].device})), Of(g, made[p].device))
          /\ made'[p].load = g =>
               ByPhones(made', g, Phones) =
                 Plus(Plus(ByPhones(made, g, Phones \ {p}), One({made'[p].device})), Of(g, made'[p].device))
      BY <2>3, MadeMoves
    <3>2. Sound(g, s[g], ByPhones(made, g, Phones))
      BY <1>3
    <3> QED
      BY <2>3, <3>1, <3>2
  <2> HIDE DEF m, c, d, new, old, x, y
  <2>6. x \in [Names -> Int] /\ x["cfg"] = s[m]["cfg"] /\ Sound(m, x, O(m))
    <3>1. O(m) \in [Names -> Nat] /\ Sound(m, s[m], Plus(Plus(O(m), One({c})), Of(m, c)))
      BY <2>1, <2>5
    <3>2. s[m] \in [Names -> Int]
      BY <1>3, <2>1
    <3> HIDE DEF O
    <3> QED
      BY <2>1, <3>1, <3>2, SoundUnmake DEF x
  <2>7. /\ y \in [Names -> Int] /\ y["cfg"] = s[new]["cfg"]
        /\ Sound(new, y, Plus(Plus(O(new), One({d})), Of(new, d)))
    <3>1. O(new) \in [Names -> Nat] /\ Sound(new, s[new], O(new))
      BY <1>1, <2>1, <2>5
    <3>2. s[new] \in [Names -> Int]
      BY <1>1, <1>3
    <3>3. s[new]["cfg"] > 0
      <4>1. refs[new]["cfg"] \in Int /\ s[new]["cfg"] = refs[new]["cfg"] + 1
        BY <1>1, <1>3, NameFacts, SoundNow
      <4> QED
        BY <1>2, <4>1
    <3> HIDE DEF O
    <3> QED
      BY <1>1, <2>2, <3>1, <3>2, <3>3, SoundMake DEF y
  <2>8. RefsType'
    BY <1>3, <2>4, <2>6, <2>7 DEF RefsType
  <2>9. ASSUME NEW g \in Loads
        PROVE  /\ g = new => refs'[g] = y
               /\ g = m => refs'[g] = x
               /\ g # m /\ g # new => refs'[g] = s[g]
    BY <1>3, <2>1, <2>4
  <2>10. ASSUME NEW g \in Loads
         PROVE  CfgHeld(g)' /\ Sound(g, refs'[g], ByPhones(made', g, Phones))
    <3> HIDE DEF O
    <3>1. refs'[g]["cfg"] = s[g]["cfg"]
      BY <2>6, <2>7, <2>9
    <3>2. CfgHeld(g)'
      BY <1>4, <3>1
    <3>3. Sound(g, refs'[g], ByPhones(made', g, Phones))
      BY <2>1, <2>5, <2>6, <2>7, <2>9
    <3> QED
      BY <3>2, <3>3
  <2> QED
    BY <1>1, <2>8, <2>10, BuiltStep
<1> QED
  BY <1>1, <1>5, <1>6

-----------------------------------------------------------------------------
(* Loading: nobody has the configuration yet.                              *)

FD(ln, dl, T, x) == Cardinality(UNION {{d} \X Places(ln[d], dl[d], x) : d \in T})

(* With no devices made from it, only its own objects refer to its objects. *)
LEMMA FairUnused ==
  ASSUME NEW ln, NEW dl, NEW S, NEW r, NEW mm, NEW g, \A p \in Phones : mm[p].load # g,
         \A x \in Objects : r[x] = Count(r["cfg"] > 0 /\ x \in S) + FD(ln, dl, Alive(r), x)
  PROVE  Fair(ln, dl, S, r, mm, g)
<1>1. ASSUME NEW x \in Objects
      PROVE  r[x] = (Count(r["cfg"] > 0 /\ x \in S)
            + (Cardinality({p \in Phones : mm[p].load = g /\ mm[p].device = x})
               + Cardinality(UNION {{p} \X Places(ln[mm[p].device], dl[mm[p].device], x) :
                                      p \in {q \in Phones : mm[q].load = g}})))
           + Cardinality(UNION {{d} \X Places(ln[d], dl[d], x) : d \in Alive(r)})
  <2>1. {p \in Phones : mm[p].load = g /\ mm[p].device = x} = {}
    OBVIOUS
  <2>2. UNION {{p} \X Places(ln[mm[p].device], dl[mm[p].device], x) :
                 p \in {q \in Phones : mm[q].load = g}} = {}
    OBVIOUS
  <2> DEFINE c == Count(r["cfg"] > 0 /\ x \in S)
  <2>3. c \in Int
    BY CountFacts
  <2>4. r[x] = c + FD(ln, dl, Alive(r), x)
    BY <1>1
  <2> HIDE DEF c
  <2>5. c + (0 + 0) = c
    BY <2>3
  <2>6. r[x] = (c + (Cardinality({}) + Cardinality({}))) + FD(ln, dl, Alive(r), x)
    BY <2>4, <2>5, FS_EmptySet
  <2>7. FD(ln, dl, Alive(r), x) = Cardinality(UNION {{d} \X Places(ln[d], dl[d], x) : d \in Alive(r)})
    BY DEF FD
  <2> HIDE DEF FD
  <2> QED
    BY <2>1, <2>2, <2>6, <2>7, Zenon DEF c
<1> QED
  BY <1>1, Zenon DEF Fair

(* What is known of the configuration that is being loaded.                *)
LEMMA LoadNow ==
  ASSUME Base, Order, AllFair, Loading
  PROVE  /\ load \in Loads /\ refs[load] \in [Names -> Int] /\ refs[load]["cfg"] = 1
         /\ \A p \in Phones : made[p].load # load /\ cfg[p] # load
         /\ global # load
         /\ Balanced(load, refs[load], One(Contents(load)))
<1>1. load \in Loads /\ IsLoading(load)
  BY DEF Order, Loading, IsLoading
<1>2. /\ refs[load]["cfg"] = 1 /\ global # load
      /\ \A p \in Phones : made[p].load # load /\ cfg[p] # load
  BY <1>1, CfgAlive
<1>3. /\ refs[load] \in [Names -> Int]
      /\ ByPhones(made, load, Phones) \in [Names -> Nat]
      /\ Sound(load, refs[load], ByPhones(made, load, Phones))
  BY <1>1, SoundNow
<1>4. \A x \in Names : ByPhones(made, load, Phones)[x] = 0
  <2>1. \A p \in Phones : IsKnown(made[p], load)
    BY <1>1, MadeKnown
  <2> QED
    BY <1>1, <1>2, <2>1, ByPhonesType
<1> DEFINE I == InForce(refs[load], Contents(load))
           R == ByPhones(made, load, Phones)
<1>5. ASSUME NEW x \in Objects PROVE Plus(I, R)[x] = One(Contents(load))[x]
  <2>1. x \in Names
    BY <1>5 DEF Objects
  <2>2. I[x] = Count(x \in Contents(load)) /\ One(Contents(load))[x] = Count(x \in Contents(load))
    BY <1>2, <2>1 DEF InForce, One, Count
  <2>3. Plus(I, R)[x] = I[x] + R[x] /\ R[x] = 0
    BY <1>4, <2>1 DEF Plus
  <2>4. Count(x \in Contents(load)) \in Int
    BY CountFacts
  <2> HIDE DEF I, R
  <2> QED
    BY <2>2, <2>3, <2>4
<1>6. Balanced(load, refs[load], Plus(I, R))
  BY <1>3 DEF Sound
<1> HIDE DEF I, R
<1>7. Balanced(load, refs[load], One(Contents(load)))
  BY <1>5, <1>6, BalancedSame
<1> QED
  BY <1>1, <1>2, <1>3, <1>7

(* A step that changes only the configuration being loaded, which gets the *)
(* counts e and has the objects of S.                                      *)
LoadMove(e, S) ==
  /\ Loading /\ Loading' /\ UNCHANGED <<load, global, cfg, made>>
  /\ e \in [Names -> Int] /\ e["cfg"] = 1 /\ refs' = [refs EXCEPT ![load] = e]
  /\ \A g \in Loads \ {load} :
       /\ line'[g] = line[g] /\ dials'[g] = dials[g] /\ devices'[g] = devices[g]
       /\ lines'[g] = lines[g] /\ speeddials'[g] = speeddials[g] /\ guestCfg'[g] = guestCfg[g]
  /\ S = devices'[load] \cup ({guestCfg'[load]} \ {None}) \cup lines'[load] \cup speeddials'[load]
  /\ \A x \in Objects : e[x] = Count(x \in S) + FD(line'[load], dials'[load], Alive(e), x)

(* Its counts are right if they are those of its objects.                  *)
LEMMA LoadStep ==
  ASSUME Base, Order, AllFair, NEW e, NEW S, LoadMove(e, S)
  PROVE  RefsType' /\ AllFair'
<1> USE DEF LoadMove
<1>1. RefsType'
  BY DEF RefsType, Base
<1>2. load \in Loads /\ (\A p \in Phones : made[p].load # load) /\ refs[load]["cfg"] = 1
  BY LoadNow
<1>3. ASSUME NEW g \in Loads PROVE IsLoading(g)' <=> IsLoading(g)
  BY DEF IsLoading, Loading
<1>4. ASSUME NEW g \in Loads
      PROVE  CfgHeld(g)' /\ Fair(line'[g], dials'[g], Contents(g)', refs'[g], made', g)
  <2>1. refs'[g]["cfg"] = refs[g]["cfg"]
    BY <1>2 DEF Base
  <2>2. CfgHeld(g)'
    BY <1>3, <2>1, SoundNow DEF CfgHeld, Count
  <2>3. CASE g = load
    <3>1. refs'[g] = e
      BY <1>2, <2>3 DEF Base
    <3>2. Contents(g)' = S
      BY <2>3 DEF Contents, DevicesOf
    <3>3. \A x \in Objects : e[x] = Count(e["cfg"] > 0 /\ x \in S) + FD(line'[g], dials'[g], Alive(e), x)
      <4>1. \A x : Count(e["cfg"] > 0 /\ x \in S) = Count(x \in S)
        BY DEF Count
      <4> QED
        BY <2>3, <4>1
    <3>4. Fair(line'[g], dials'[g], S, e, made', g)
      BY <1>2, <2>3, <3>3, FairUnused
    <3> QED
      BY <2>2, <3>1, <3>2, <3>4
  <2>4. CASE g # load
    <3>1. refs'[g] = refs[g] /\ line'[g] = line[g] /\ dials'[g] = dials[g] /\ made' = made
      BY <1>2, <2>4 DEF Base
    <3>2. Contents(g)' = Contents(g)
      BY <2>4 DEF Contents, DevicesOf
    <3>3. Fair(line[g], dials[g], Contents(g), refs[g], made, g)
      BY DEF AllFair
    <3> QED
      BY <2>2, <3>1, <3>2, <3>3
  <2> QED
    BY <2>3, <2>4
<1>5. AllFair'
  BY <1>4 DEF AllFair
<1> QED
  BY <1>1, <1>5

(* The file is read.                                                       *)
LEMMA ReadRefs ==
  ASSUME Base, Order, AllFair, Read
  PROVE  RefsType' /\ AllFair'
<1> DEFINE h == load + 1
<1>1. PICK f \in Files :
        /\ load' = h /\ pc = "idle" /\ pc' = "devices" /\ h \in Loads
        /\ devices' = [devices EXCEPT ![h] = f.devices]
        /\ lines' = [lines EXCEPT ![h] = f.lines]
        /\ speeddials' = [speeddials EXCEPT ![h] = f.speeddials]
        /\ refs' = [refs EXCEPT ![h] =
                      Added(refs[h], {"cfg"} \cup f.devices \cup f.lines \cup f.speeddials)]
        /\ UNCHANGED <<guestCfg, line, dials, global, cfg, made>>
  <2>1. load \in 0 .. LastLoad /\ load < LastLoad /\ LastLoad \in Nat
    BY NameFacts DEF Read, Base
  <2>2. h \in Loads
    BY <2>1 DEF Loads
  <2> QED
    BY <2>2, Zenon DEF Read
<1>2. /\ f.devices \subseteq Devices /\ f.lines \subseteq Lines /\ f.speeddials \subseteq SpeedDials
  BY NameFacts DEF FileType
<1>3. h > load /\ load \in Nat /\ global < h /\ \A p \in Phones : cfg[p] < h /\ made[p].load < h
  <2>1. load \in Nat
    BY DEF Base
  <2>2. Last = load
    BY <1>1 DEF Last, Loading
  <2>3. /\ global <= Last /\ global \in Int
        /\ \A p \in Phones : cfg[p] <= Last /\ made[p].load <= Last /\ cfg[p] \in Int /\ made[p].load \in Int
    BY DEF Order, Base
  <2> QED
    BY <2>1, <2>2, <2>3
<1> DEFINE S == f.devices \cup f.lines \cup f.speeddials
           e == Added(refs[h], {"cfg"} \cup f.devices \cup f.lines \cup f.speeddials)
<1>4. Empty(h)
  BY <1>1, <1>3 DEF Order
<1>5. e \in [Names -> Int] /\ e["cfg"] = 1 /\ \A x \in Objects : e[x] = Count(x \in S)
  <2>1. \A x \in Names : refs[h][x] = 0
    BY <1>4 DEF Empty
  <2>2. \A x \in Names : e[x] = 0 + Count(x \in {"cfg"} \cup f.devices \cup f.lines \cup f.speeddials)
    BY <2>1 DEF Added
  <2>3. \A x \in Names : Count(x \in {"cfg"} \cup f.devices \cup f.lines \cup f.speeddials) \in Int
    BY CountFacts
  <2>4. ASSUME NEW x \in Objects
        PROVE  x \in Names /\ Count(x \in {"cfg"} \cup f.devices \cup f.lines \cup f.speeddials) = Count(x \in S)
    BY DEF Objects, Count
  <2>5. Count("cfg" \in {"cfg"} \cup f.devices \cup f.lines \cup f.speeddials) = 1 /\ "cfg" \in Names
    BY NameFacts DEF Count
  <2>6. e = [x \in Names |-> e[x]]
    BY DEF Added
  <2> HIDE DEF e
  <2>7. \A x \in Objects : e[x] = Count(x \in S)
    <3> SUFFICES ASSUME NEW x \in Objects PROVE e[x] = Count(x \in S)
      OBVIOUS
    <3>1. e[x] = 0 + Count(x \in S) /\ Count(x \in S) \in Int
      BY <2>2, <2>4, CountFacts
    <3> HIDE DEF S
    <3> QED
      BY <3>1
  <2>8. e["cfg"] = 0 + 1
    BY <2>2, <2>5
  <2>9. \A x \in Names : e[x] \in Int
    BY <2>2, <2>3
  <2> QED
    BY <2>6, <2>7, <2>8, <2>9
<1> HIDE DEF e
<1>6. ASSUME NEW x \in Objects PROVE e[x] = Count(x \in S) + FD(line[h], dials[h], Alive(e), x)
  <2>1. FromDevices(h, Alive(e), x) = 0
    <3>1. Alive(e) \in SUBSET Devices /\ x \in Names
      BY <1>6 DEF Alive, Objects
    <3>2. \A d \in Alive(e) : line[h][d] = None /\ dials[h][d] = << >>
      BY <1>4, <3>1 DEF Empty
    <3> QED
      BY <1>1, <3>1, <3>2, FromDevicesFacts
  <2>2. FD(line[h], dials[h], Alive(e), x) = 0
    BY <2>1 DEF FD, FromDevices, PlacesOf
  <2>3. e[x] = Count(x \in S) /\ Count(x \in S) \in Int
    BY <1>5, <1>6, CountFacts
  <2> HIDE DEF S
  <2> QED
    BY <2>2, <2>3
<1>7. refs \in [Loads -> [Names -> Int]] /\ refs' = [refs EXCEPT ![h] = e]
  BY <1>1 DEF Base, e
<1>8. RefsType'
  BY <1>1, <1>5, <1>7 DEF RefsType
<1>9. ASSUME NEW g \in Loads
      PROVE  CfgHeld(g)' /\ Fair(line'[g], dials'[g], Contents(g)', refs'[g], made', g)
  <2>1. CASE g = h
    <3>1. refs'[g] = e
      BY <1>7, <2>1
    <3>2. Contents(g)' = S
      <4>1. guestCfg'[g] = None
        BY <1>1, <1>4, <2>1 DEF Empty
      <4>2. devices'[g] = f.devices /\ lines'[g] = f.lines /\ speeddials'[g] = f.speeddials
        BY <1>1, <2>1 DEF Base
      <4> QED
        BY <4>1, <4>2 DEF Contents, DevicesOf
    <3>3. ASSUME NEW x \in Objects
          PROVE  e[x] = Count(e["cfg"] > 0 /\ x \in S) + FD(line[h], dials[h], Alive(e), x)
      <4>1. Count(e["cfg"] > 0 /\ x \in S) = Count(x \in S)
        BY <1>5 DEF Count
      <4> HIDE DEF S
      <4> QED
        BY <1>6, <4>1
    <3>4. Fair(line[h], dials[h], S, e, made, h)
      <4>1. \A p \in Phones : made[p].load # h
        BY <1>3 DEF Base
      <4> HIDE DEF h, S
      <4> QED
        BY <3>3, <4>1, FairUnused
    <3>5. CfgHeld(g)'
      <4>1. Count(IsLoading(g)') = 1 /\ Count(global' = g) = 0
        BY <1>1, <1>3, <2>1 DEF IsLoading, Count, Base
      <4>2. Sessions(cfg', g) = {}
        BY <1>1, <1>3, <2>1 DEF Sessions, Base
      <4> QED
        BY <1>5, <3>1, <4>1, <4>2, FS_EmptySet DEF CfgHeld
    <3> QED
      BY <1>1, <2>1, <3>1, <3>2, <3>4, <3>5
  <2>2. CASE g # h
    <3>1. /\ refs'[g] = refs[g] /\ devices'[g] = devices[g] /\ lines'[g] = lines[g]
          /\ speeddials'[g] = speeddials[g]
      BY <1>1, <1>7, <2>2 DEF Base
    <3>2. Contents(g)' = Contents(g)
      BY <1>1, <3>1 DEF Contents, DevicesOf
    <3>3. ~IsLoading(g) /\ ~(IsLoading(g)')
      BY <1>1, <2>2 DEF IsLoading
    <3>4. CfgHeld(g)'
      BY <1>1, <3>1, <3>3, SoundNow DEF CfgHeld, Count
    <3>5. Fair(line[g], dials[g], Contents(g), refs[g], made, g)
      BY DEF AllFair
    <3> QED
      BY <1>1, <3>1, <3>2, <3>4, <3>5
  <2> QED
    BY <2>1, <2>2
<1>10. AllFair'
  BY <1>9 DEF AllFair
<1> QED
  BY <1>8, <1>10

(* What was read is given back.                                            *)
LEMMA ReadFailsRefs ==
  ASSUME Base, Order, AllFair, ReadFails
  PROVE  RefsType' /\ AllFair'
<1>1. /\ pc = "devices" /\ pc' = "idle" /\ Loading
      /\ refs' = [refs EXCEPT ![load] = DropCfg(load, refs[load])]
      /\ UNCHANGED <<load, global, cfg, made>> /\ UNCHANGED built
  BY DEF ReadFails, Loading
<1>2. /\ load \in Loads /\ refs[load] \in [Names -> Int] /\ refs[load]["cfg"] = 1
      /\ \A p \in Phones : made[p].load # load /\ cfg[p] # load
      /\ global # load
  BY <1>1, LoadNow
<1> DEFINE e == DropCfg(load, refs[load])
<1>3. /\ e \in [Names -> Int] /\ e["cfg"] = refs[load]["cfg"] - 1
      /\ Sound(load, e, ByPhones(made, load, Phones))
  BY <1>2, SoundNow, GiveBackKeeps
<1> HIDE DEF e
<1>4. refs \in [Loads -> [Names -> Int]] /\ refs' = [refs EXCEPT ![load] = e]
  BY <1>1 DEF Base, e
<1>5. RefsType'
  BY <1>2, <1>3, <1>4 DEF RefsType
<1>6. ASSUME NEW g \in Loads
      PROVE  CfgHeld(g)' /\ Sound(g, refs'[g], ByPhones(made', g, Phones))
  <2>1. CASE g = load
    <3>1. refs'[g] = e
      BY <1>2, <1>4, <2>1
    <3>2. Count(IsLoading(g)') = 0 /\ Count(global' = g) = 0
      BY <1>1, <1>2, <2>1 DEF IsLoading, Count
    <3>3. Sessions(cfg', g) = {}
      BY <1>1, <1>2, <2>1 DEF Sessions
    <3>4. CfgHeld(g)'
      BY <1>2, <1>3, <3>1, <3>2, <3>3, FS_EmptySet DEF CfgHeld
    <3> QED
      BY <1>1, <1>3, <2>1, <3>1, <3>4
  <2>2. CASE g # load
    <3>1. refs'[g] = refs[g]
      BY <1>2, <1>4, <2>2
    <3>2. ~IsLoading(g) /\ ~(IsLoading(g)')
      BY <1>1, <2>2 DEF IsLoading
    <3>3. CfgHeld(g)'
      BY <1>1, <3>1, <3>2, SoundNow DEF CfgHeld, Count
    <3> QED
      BY <1>1, <3>1, <3>3, SoundNow
  <2> QED
    BY <2>1, <2>2
<1> QED
  BY <1>1, <1>5, <1>6, BuiltStep

(* The new configuration is in force.                                      *)
LEMMA ApplyRefs ==
  ASSUME Base, Order, AllFair, Apply
  PROVE  RefsType' /\ AllFair'
<1>1. /\ pc = "apply" /\ pc' = "idle" /\ Loading /\ global' = load
      /\ refs' = IF global = 0 THEN refs ELSE [refs EXCEPT ![global] = DropCfg(global, refs[global])]
      /\ UNCHANGED <<load, cfg, made>> /\ UNCHANGED built
  BY DEF Apply, Loading
<1>2. /\ load \in Loads /\ refs[load] \in [Names -> Int] /\ refs[load]["cfg"] = 1
      /\ \A p \in Phones : made[p].load # load /\ cfg[p] # load
      /\ global # load
  BY <1>1, LoadNow
<1> DEFINE e == DropCfg(global, refs[global])
<1>3. ASSUME global \in Loads
      PROVE  /\ e \in [Names -> Int] /\ e["cfg"] = refs[global]["cfg"] - 1
             /\ Sound(global, e, ByPhones(made, global, Phones))
  <2>1. refs[global]["cfg"] > 0
    BY <1>3, CfgAlive
  <2> QED
    BY <1>3, <2>1, SoundNow, GiveBackKeeps
<1> HIDE DEF e
<1>4. /\ refs \in [Loads -> [Names -> Int]] /\ (global = 0 \/ global \in Loads)
      /\ refs' = IF global = 0 THEN refs ELSE [refs EXCEPT ![global] = e]
  BY <1>1 DEF Base, e, Loads
<1>5. RefsType'
  BY <1>3, <1>4 DEF RefsType
<1>6. ASSUME NEW g \in Loads
      PROVE  CfgHeld(g)' /\ Sound(g, refs'[g], ByPhones(made', g, Phones))
  <2>0. ~(IsLoading(g)')
    BY <1>1 DEF IsLoading
  <2>1. CASE g = load
    <3>1. refs'[g] = refs[g]
      BY <1>2, <1>4, <2>1
    <3>2. Count(IsLoading(g)') = 0 /\ Count(global' = g) = 1
      BY <1>1, <1>2, <2>0, <2>1 DEF Count
    <3>3. Sessions(cfg', g) = {}
      BY <1>1, <1>2, <2>1 DEF Sessions
    <3>4. CfgHeld(g)'
      BY <1>2, <2>1, <3>1, <3>2, <3>3, FS_EmptySet DEF CfgHeld
    <3> QED
      BY <1>1, <3>1, <3>4, SoundNow
  <2>2. CASE g # load /\ g # global
    <3>1. refs'[g] = refs[g]
      BY <1>4, <2>2
    <3>2. ~IsLoading(g) /\ Count(global' = g) = Count(global = g)
      BY <1>1, <2>2 DEF IsLoading, Count
    <3>3. CfgHeld(g)'
      BY <1>1, <2>0, <3>1, <3>2, SoundNow DEF CfgHeld, Count
    <3> QED
      BY <1>1, <3>1, <3>3, SoundNow
  <2>3. CASE g # load /\ g = global
    <3>1. refs'[g] = e /\ global \in Loads
      BY <1>4, <2>3 DEF Loads
    <3> DEFINE w == Cardinality(Sessions(cfg, g))
    <3>2. /\ w \in Nat /\ Cardinality(Sessions(cfg', g)) = w
      BY <1>1, SessionsType
    <3>3. ~IsLoading(g)
      BY <2>3 DEF IsLoading
    <3>4. refs[g]["cfg"] = 0 + 1 + w
      <4>1. Count(IsLoading(g)) = 0 /\ Count(global = g) = 1
        BY <2>3, <3>3 DEF Count
      <4> QED
        BY <4>1, SoundNow DEF CfgHeld
    <3>5. Count(IsLoading(g)') = 0 /\ Count(global' = g) = 0
      BY <1>1, <2>0, <2>3 DEF Count
    <3> HIDE DEF w
    <3>6. refs'[g]["cfg"] = 0 + 0 + w
      BY <1>3, <2>3, <3>1, <3>2, <3>4
    <3>7. CfgHeld(g)'
      BY <3>2, <3>5, <3>6 DEF CfgHeld
    <3> QED
      BY <1>1, <1>3, <2>3, <3>1, <3>7
  <2> QED
    BY <2>1, <2>2, <2>3
<1> QED
  BY <1>1, <1>5, <1>6, BuiltStep

(* The same, when its devices refer to what they did: they have become D,  *)
(* the lines L, the guest device h, and B[x] the references of x.          *)
LoadKeeps(e, S, D, L, h, B) ==
  /\ Loading /\ Loading'
  /\ UNCHANGED <<load, line, dials, speeddials, global, cfg, made>>
  /\ devices' = [devices EXCEPT ![load] = D] /\ lines' = [lines EXCEPT ![load] = L]
  /\ guestCfg' = [guestCfg EXCEPT ![load] = h]
  /\ S = D \cup ({h} \ {None}) \cup L \cup speeddials[load]
  /\ e \in [Names -> Int] /\ e["cfg"] = 1 /\ refs' = [refs EXCEPT ![load] = e]
  /\ Balanced(load, e, B) /\ \A x \in Objects : B[x] = Count(x \in S)

LEMMA LoadStepBalanced ==
  ASSUME Base, Order, AllFair,
         NEW e, NEW S, NEW D, NEW L, NEW h, NEW B, LoadKeeps(e, S, D, L, h, B)
  PROVE  RefsType' /\ AllFair'
<1> USE DEF LoadKeeps
<1>1. load \in Loads
  BY LoadNow
<1>2. /\ \A g \in Loads \ {load} :
           /\ line'[g] = line[g] /\ dials'[g] = dials[g] /\ devices'[g] = devices[g]
           /\ lines'[g] = lines[g] /\ speeddials'[g] = speeddials[g] /\ guestCfg'[g] = guestCfg[g]
      /\ devices'[load] = D /\ lines'[load] = L /\ guestCfg'[load] = h
      /\ speeddials'[load] = speeddials[load]
  BY <1>1 DEF Base
<1>3. S = devices'[load] \cup ({guestCfg'[load]} \ {None}) \cup lines'[load] \cup speeddials'[load]
  BY <1>2
<1>4. \A x \in Objects : e[x] = Count(x \in S) + FD(line'[load], dials'[load], Alive(e), x)
  <2> SUFFICES ASSUME NEW x \in Objects
      PROVE  e[x] = Count(x \in S) + FD(line[load], dials[load], Alive(e), x)
    OBVIOUS
  <2>1. e[x] = B[x] + FromDevices(load, Alive(e), x)
    BY DEF Balanced
  <2>2. FromDevices(load, Alive(e), x) = FD(line[load], dials[load], Alive(e), x)
    BY DEF FromDevices, PlacesOf, FD
  <2> QED
    BY <2>1, <2>2
<1>5. LoadMove(e, S)
  BY <1>2, <1>3, <1>4 DEF LoadMove
<1> HIDE DEF LoadKeeps
<1> QED
  BY <1>5, LoadStep

(* A device leaves its container.                                          *)
LEMMA DropDeviceRefs ==
  ASSUME Base, Order, AllFair, pc = "devices", pc' = pc, Building, NEW d \in todo,
         devices' = [devices EXCEPT ![load] = devices[load] \ {d}],
         refs' = [refs EXCEPT ![load] = DropDevices(load, refs[load], {d})],
         UNCHANGED <<load, lines, speeddials, guestCfg, line, dials, global, cfg, made>>
  PROVE  RefsType' /\ AllFair'
<1> DEFINE r == refs[load]
           e == DropDevices(load, r, {d})
           D == devices[load] \ {d}
           L == lines[load]
           h == guestCfg[load]
           S == D \cup ({h} \ {None}) \cup L \cup speeddials[load]
           B == Minus(One(Contents(load)), One({d}))
<1>0. Loading /\ Loading'
  BY DEF Loading
<1>1. /\ load \in Loads /\ r \in [Names -> Int] /\ r["cfg"] = 1
      /\ Balanced(load, r, One(Contents(load)))
  BY <1>0, LoadNow
<1>2. d \in devices[load] /\ d \in Devices /\ h = None
  BY DEF Building, Base
<1>3. \A x : x \in S <=> (x \in Contents(load) /\ x # d)
  <2>1. lines[load] \subseteq Lines /\ speeddials[load] \subseteq SpeedDials
    BY <1>1 DEF Base
  <2> QED
    BY <1>2, <2>1, NameFacts DEF Contents, DevicesOf
<1>4. r[d] > 0
  <2>1. Alive(r) \in SUBSET Devices
    BY DEF Alive
  <2>2. FromDevices(load, Alive(r), d) = 0
    BY <1>1, <1>2, <2>1, FromDevicesFacts
  <2>3. d \in Names /\ d \in Objects
    BY <1>2, NameFacts DEF Objects
  <2>4. One(Contents(load))[d] = 1
    BY <1>2, <2>3 DEF One, Count, Contents, DevicesOf
  <2>5. r[d] = One(Contents(load))[d] + FromDevices(load, Alive(r), d)
    BY <1>1, <2>3 DEF Balanced
  <2> HIDE DEF r
  <2> QED
    BY <2>2, <2>4, <2>5
<1>5. /\ e \in [Names -> Int] /\ e["cfg"] = r["cfg"] /\ Balanced(load, e, B)
  <2>1. One(Contents(load)) \in [Names -> Int]
    <3>1. One(Contents(load)) \in [Names -> Nat]
      BY SumTypes
    <3> QED
      BY <3>1
  <2>2. {d} \in SUBSET Devices /\ \A x \in {d} : r[x] > 0
    BY <1>2, <1>4
  <2> HIDE DEF r
  <2> QED
    BY <1>1, <2>1, <2>2, DropKeeps
<1>6. ASSUME NEW x \in Objects PROVE B[x] = Count(x \in S)
  <2>1. x \in Names
    BY <1>6 DEF Objects
  <2>2. B[x] = Count(x \in Contents(load)) - Count(x \in {d})
    BY <2>1 DEF Minus, One
  <2>3. d \in Contents(load)
    BY <1>2 DEF Contents, DevicesOf
  <2> HIDE DEF B, S
  <2>4. CASE x = d
    <3>1. Count(x \in Contents(load)) = 1 /\ Count(x \in {d}) = 1 /\ Count(x \in S) = 0
      BY <1>3, <2>3, <2>4 DEF Count
    <3> QED
      BY <2>2, <3>1
  <2>5. CASE x # d
    <3>1. Count(x \in {d}) = 0 /\ Count(x \in S) = Count(x \in Contents(load))
      BY <1>3, <2>5 DEF Count
    <3>2. Count(x \in Contents(load)) \in Int
      BY CountFacts
    <3> QED
      BY <2>2, <3>1, <3>2
  <2> QED
    BY <2>4, <2>5
<1>7. /\ devices' = [devices EXCEPT ![load] = D]
      /\ lines' = [lines EXCEPT ![load] = L]
      /\ guestCfg' = [guestCfg EXCEPT ![load] = h]
  BY <1>1 DEF Base
<1>8. refs' = [refs EXCEPT ![load] = e]
  OBVIOUS
<1>9. e["cfg"] = 1
  BY <1>1, <1>5
<1>10. S = D \cup ({h} \ {None}) \cup L \cup speeddials[load]
  OBVIOUS
<1> HIDE DEF r, e, D, L, h, S, B
<1>11. LoadKeeps(e, S, D, L, h, B)
  BY <1>0, <1>5, <1>6, <1>7, <1>8, <1>9, <1>10 DEF LoadKeeps
<1> QED
  BY <1>11, LoadStepBalanced

(* A device d of T gets a line and speed dials.                            *)
Gains(ln, dl, lm, dm, T, d, l, s) ==
  /\ ln \in [Devices -> Lines \cup {None}] /\ dl \in [Devices -> Seq(SpeedDials)]
  /\ T \in SUBSET Devices /\ d \in T /\ ln[d] = None /\ dl[d] = << >>
  /\ s \in Seq(SpeedDials) /\ lm[d] = l /\ dm[d] = s
  /\ \A e \in T \ {d} : lm[e] = ln[e] /\ dm[e] = dl[e]

LEMMA FDAdd ==
  ASSUME NEW ln, NEW dl, NEW lm, NEW dm, NEW T, NEW d, NEW l, NEW s,
         Gains(ln, dl, lm, dm, T, d, l, s), NEW x \in Names
  PROVE  /\ FD(ln, dl, T, x) \in Nat /\ Cardinality(Places(l, s, x)) \in Nat
         /\ FD(lm, dm, T, x) = FD(ln, dl, T, x) + Cardinality(Places(l, s, x))
<1> USE DEF Gains
<1> DEFINE f == [e \in T |-> Places(ln[e], dl[e], x)]
           h == [e \in T |-> IF e = d THEN Places(l, s, x) ELSE Places(ln[e], dl[e], x)]
           U == T \ {d}
<1>1. IsFiniteSet(U) /\ IsFiniteSet({d}) /\ T = U \cup {d} /\ U \cap {d} = {}
  BY NameFacts, FS_Subset
<1>2. /\ \A e \in T : IsFiniteSet(f[e])
      /\ f[d] = {} /\ h[d] = Places(l, s, x) /\ IsFiniteSet(Places(l, s, x))
      /\ \A e \in U : h[e] = f[e]
  <2>1. \A e \in T : ln[e] \in Lines \cup {None} /\ dl[e] \in Seq(SpeedDials)
    OBVIOUS
  <2>2. ASSUME NEW e \in T PROVE IsFiniteSet(Places(ln[e], dl[e], x))
    BY <2>1, PlacesFacts
  <2>3. Places(None, << >>, x) = {}
    <3>1. x # None /\ << >> \in Seq(SpeedDials)
      BY NameFacts
    <3> QED
      BY <3>1, PlacesFacts
  <2>4. IsFiniteSet(Places(l, s, x))
    BY PlacesFacts
  <2> QED
    BY <2>2, <2>3, <2>4
<1>3. FD(ln, dl, T, x) = Cardinality(All(f, T))
  <2>1. {{e} \X Places(ln[e], dl[e], x) : e \in T} = {{e} \X f[e] : e \in T}
    OBVIOUS
  <2> QED
    BY <2>1 DEF FD, All
<1>4. FD(lm, dm, T, x) = Cardinality(All(h, T))
  <2>1. ASSUME NEW e \in T PROVE Places(lm[e], dm[e], x) = h[e]
    OBVIOUS
  <2> HIDE DEF h
  <2>2. {{e} \X Places(lm[e], dm[e], x) : e \in T} = {{e} \X h[e] : e \in T}
    BY <2>1
  <2> QED
    BY <2>2 DEF FD, All
<1> HIDE DEF f, h, U
<1>5. All(h, U) = All(f, U)
  <2>1. {{e} \X h[e] : e \in U} = {{e} \X f[e] : e \in U}
    BY <1>2
  <2> QED
    BY <2>1 DEF All
<1>6. /\ Cardinality(All(f, U)) \in Nat
      /\ Cardinality(All(f, U \cup {d})) = Cardinality(All(f, U)) + Cardinality(All(f, {d}))
  <2>1. \A e \in U \cup {d} : IsFiniteSet(f[e])
    BY <1>1, <1>2
  <2> QED
    BY <1>1, <2>1, AllUnion
<1>7. Cardinality(All(h, U \cup {d})) = Cardinality(All(h, U)) + Cardinality(All(h, {d}))
  <2>1. \A e \in U \cup {d} : IsFiniteSet(h[e])
    BY <1>1, <1>2
  <2> QED
    BY <1>1, <2>1, AllUnion
<1>8. Cardinality(All(f, {d})) = 0
  <2>1. \A e \in {d} : f[e] = {}
    BY <1>2
  <2> QED
    BY <2>1, AllNone
<1>9. /\ Cardinality(All(h, {d})) = Cardinality(Places(l, s, x))
      /\ Cardinality(Places(l, s, x)) \in Nat
  <2>1. IsFiniteSet(h[d])
    BY <1>2
  <2>2. Cardinality(All(h, {d})) = Cardinality(h[d]) /\ Cardinality(h[d]) \in Nat
    BY <2>1, AllOne
  <2> QED
    BY <1>2, <2>2
<1> DEFINE u == Cardinality(All(f, U))
           v == Cardinality(Places(l, s, x))
<1>10. /\ u \in Nat /\ v \in Nat
       /\ FD(ln, dl, T, x) = u + 0
       /\ FD(lm, dm, T, x) = u + v
  BY <1>1, <1>3, <1>4, <1>5, <1>6, <1>7, <1>8, <1>9
<1> HIDE DEF u, v
<1> QED
  BY <1>10 DEF v

(* It refers to them.                                                      *)
LEMMA AddDeviceRefs ==
  ASSUME Base, Order, AllFair, pc = "devices", pc' = pc, Building, NEW d \in todo,
         NEW l \in Lines, NEW s \in Seq(SpeedDials),
         line' = [line EXCEPT ![load][d] = l],
         dials' = [dials EXCEPT ![load][d] = s],
         refs' = [refs EXCEPT ![load] =
                    [x \in Names |-> refs[load][x] + Cardinality(Places(l, s, x))]],
         UNCHANGED <<load, devices, lines, speeddials, guestCfg, global, cfg, made>>
  PROVE  RefsType' /\ AllFair'
<1> DEFINE r == refs[load]
           e == [x \in Names |-> r[x] + Cardinality(Places(l, s, x))]
           S == Contents(load)
<1>0. Loading /\ Loading'
  BY DEF Loading
<1>1. /\ load \in Loads /\ r \in [Names -> Int] /\ r["cfg"] = 1
      /\ Balanced(load, r, One(Contents(load)))
  BY <1>0, LoadNow
<1>2. d \in devices[load] /\ d \in Devices /\ line[load][d] = None /\ dials[load][d] = << >>
  BY DEF Building, Base, Done
<1>3. /\ \A x \in Names : Cardinality(Places(l, s, x)) \in Nat
      /\ \A x \in Devices \cup {"cfg"} : Cardinality(Places(l, s, x)) = 0
  <2>1. \A x \in Names : Cardinality(Places(l, s, x)) \in Nat
    BY PlacesFacts
  <2>2. ASSUME NEW x \in Devices \cup {"cfg"} PROVE Cardinality(Places(l, s, x)) = 0
    <3>1. x # l /\ x \notin SpeedDials
      BY NameFacts
    <3>2. Places(l, s, x) = {}
      BY <3>1, PlacesFacts
    <3> QED
      BY <3>2, FS_EmptySet
  <2> QED
    BY <2>1, <2>2
<1>4. e \in [Names -> Int] /\ \A x \in Devices \cup {"cfg"} : e[x] = r[x] + 0
  <2> HIDE DEF r
  <2> QED
    BY <1>1, <1>3, NameFacts
<1>5. refs' = [refs EXCEPT ![load] = e]
  OBVIOUS
<1>6. \A x \in Names : e[x] = r[x] + Cardinality(Places(l, s, x))
  OBVIOUS
<1> HIDE DEF e
<1>7. Alive(e) = Alive(r) /\ e["cfg"] = 1
  <2>1. \A x \in Devices \cup {"cfg"} : e[x] = r[x]
    <3>1. \A x \in Devices \cup {"cfg"} : r[x] \in Int
      <4> HIDE DEF r
      <4> QED
        BY <1>1, NameFacts
    <3> HIDE DEF r
    <3> QED
      BY <1>4, <3>1
  <2> HIDE DEF r
  <2> QED
    BY <1>1, <2>1 DEF Alive
<1>8. d \in Alive(r) /\ Alive(r) \in SUBSET Devices
  <2>1. Alive(r) \in SUBSET Devices
    BY DEF Alive
  <2>2. FromDevices(load, Alive(r), d) = 0
    BY <1>1, <1>2, <2>1, FromDevicesFacts
  <2>3. d \in Names /\ d \in Objects
    BY <1>2, NameFacts DEF Objects
  <2>4. One(Contents(load))[d] = 1
    BY <1>2, <2>3 DEF One, Count, Contents, DevicesOf
  <2>5. r[d] = One(Contents(load))[d] + FromDevices(load, Alive(r), d)
    BY <1>1, <2>3 DEF Balanced
  <2>6. r[d] > 0
    <3> HIDE DEF r
    <3> QED
      BY <2>2, <2>4, <2>5
  <2> QED
    BY <1>2, <2>1, <2>6 DEF Alive
<1> DEFINE ln == line[load]
           dl == dials[load]
<1>9. /\ ln \in [Devices -> Lines \cup {None}] /\ dl \in [Devices -> Seq(SpeedDials)]
      /\ line'[load] = [ln EXCEPT ![d] = l] /\ dials'[load] = [dl EXCEPT ![d] = s]
      /\ ln[d] = None /\ dl[d] = << >>
      /\ \A g \in Loads \ {load} : line'[g] = line[g] /\ dials'[g] = dials[g]
  BY <1>1, <1>2 DEF Base
<1>10. ASSUME NEW x \in Objects
       PROVE  e[x] = Count(x \in S) + FD(line'[load], dials'[load], Alive(e), x)
  <2>1. x \in Names
    BY <1>10 DEF Objects
  <2>2. r[x] = Count(x \in S) + FD(ln, dl, Alive(r), x)
    <3>1. r[x] = One(Contents(load))[x] + FromDevices(load, Alive(r), x)
      BY <1>1, <1>10 DEF Balanced
    <3>2. One(Contents(load))[x] = Count(x \in S)
      BY <2>1 DEF One
    <3>3. FromDevices(load, Alive(r), x) = FD(ln, dl, Alive(r), x)
      BY DEF FromDevices, PlacesOf, FD
    <3> HIDE DEF r, ln, dl, S
    <3> QED
      BY <3>1, <3>2, <3>3
  <2> DEFINE F == FD(ln, dl, Alive(r), x)
             P == Cardinality(Places(l, s, x))
             c == Count(x \in S)
  <2>3. F \in Nat /\ P \in Nat /\ FD(line'[load], dials'[load], Alive(r), x) = F + P
    <3> DEFINE T == Alive(r)
               lm == line'[load]
               dm == dials'[load]
    <3>1. T \in SUBSET Devices /\ d \in T
      BY <1>8
    <3>2. /\ lm[d] = l /\ dm[d] = s /\ \A g \in T \ {d} : lm[g] = ln[g] /\ dm[g] = dl[g]
      <4>1. T \subseteq Devices
        BY <3>1
      <4>2. lm = [ln EXCEPT ![d] = l] /\ dm = [dl EXCEPT ![d] = s]
        BY <1>9
      <4>3. /\ ln \in [Devices -> Lines \cup {None}] /\ dl \in [Devices -> Seq(SpeedDials)]
            /\ d \in Devices
        BY <1>2, <1>9
      <4> HIDE DEF T, ln, dl, lm, dm
      <4> QED
        BY <4>1, <4>2, <4>3
    <3>3. ln \in [Devices -> Lines \cup {None}] /\ dl \in [Devices -> Seq(SpeedDials)]
      BY <1>9
    <3>4. ln[d] = None /\ dl[d] = << >>
      BY <1>9
    <3> HIDE DEF T, lm, dm, ln, dl
    <3>5. Gains(ln, dl, lm, dm, T, d, l, s)
      BY <3>1, <3>2, <3>3, <3>4 DEF Gains
    <3>6. /\ FD(ln, dl, T, x) \in Nat /\ Cardinality(Places(l, s, x)) \in Nat
          /\ FD(lm, dm, T, x) = FD(ln, dl, T, x) + Cardinality(Places(l, s, x))
      BY <2>1, <3>5, FDAdd
    <3> QED
      BY <3>6 DEF T, lm, dm
  <2>4. c \in Int /\ e[x] = (c + F) + P
    BY <1>6, <2>1, <2>2, CountFacts
  <2>5. FD(line'[load], dials'[load], Alive(e), x) = F + P
    BY <1>7, <1>9, <2>3
  <2> HIDE DEF F, P, c
  <2>6. e[x] = c + (F + P)
    BY <2>3, <2>4
  <2> QED
    BY <2>5, <2>6 DEF c
<1>11. S = devices'[load] \cup ({guestCfg'[load]} \ {None}) \cup lines'[load] \cup speeddials'[load]
  BY DEF Contents, DevicesOf
<1> HIDE DEF S
<1>12. \A g \in Loads \ {load} :
         /\ line'[g] = line[g] /\ dials'[g] = dials[g] /\ devices'[g] = devices[g]
         /\ lines'[g] = lines[g] /\ speeddials'[g] = speeddials[g] /\ guestCfg'[g] = guestCfg[g]
  BY <1>9
<1>13. UNCHANGED <<load, global, cfg, made>>
  OBVIOUS
<1>14. LoadMove(e, S)
  BY <1>0, <1>4, <1>5, <1>7, <1>10, <1>11, <1>12, <1>13 DEF LoadMove
<1> QED
  BY <1>14, LoadStep

(* One device is looked at.                                                *)
LEMMA PreApplyDeviceRefs ==
  ASSUME Base, Order, AllFair, Building, NEW d \in Devices, PreApplyDevice(d)
  PROVE  RefsType' /\ AllFair'
<1>1. /\ pc = "devices" /\ pc' = pc /\ d \in todo
      /\ UNCHANGED <<load, lines, speeddials, guestCfg, global, cfg, made>>
  BY DEF PreApplyDevice
<1> DEFINE s == Known(file.dials[d], speeddials[load])
           l == file.line[d]
<1>2. \/ /\ devices' = [devices EXCEPT ![load] = devices[load] \ {d}]
         /\ refs' = [refs EXCEPT ![load] = DropDevices(load, refs[load], {d})]
         /\ UNCHANGED <<line, dials>>
      \/ /\ LineIsFree(d)
         /\ line' = [line EXCEPT ![load][d] = l]
         /\ dials' = [dials EXCEPT ![load][d] = s]
         /\ refs' = [refs EXCEPT ![load] =
                       [x \in Names |-> refs[load][x] + Cardinality(Places(l, dials'[load][d], x))]]
         /\ UNCHANGED devices
  BY DEF PreApplyDevice
<1>3. load \in Loads
  BY <1>1, LoadNow DEF Loading
<1>4. s \in Seq(SpeedDials)
  <2>1. file.dials[d] \in Seq(SpeedDials)
    BY NameFacts DEF Base, FileType
  <2> QED
    BY <2>1, KnownSelects
<1> HIDE DEF s, l
<1>5. CASE /\ devices' = [devices EXCEPT ![load] = devices[load] \ {d}]
           /\ refs' = [refs EXCEPT ![load] = DropDevices(load, refs[load], {d})]
           /\ UNCHANGED <<line, dials>>
  BY <1>1, <1>5, DropDeviceRefs
<1>6. CASE /\ LineIsFree(d)
           /\ line' = [line EXCEPT ![load][d] = l]
           /\ dials' = [dials EXCEPT ![load][d] = s]
           /\ refs' = [refs EXCEPT ![load] =
                         [x \in Names |-> refs[load][x] + Cardinality(Places(l, dials'[load][d], x))]]
           /\ UNCHANGED devices
  <2>1. dials'[load][d] = s
    BY <1>3, <1>6 DEF Base
  <2>2. l \in Lines
    BY <1>3, <1>6 DEF LineIsFree, Base, l
  <2>3. refs' = [refs EXCEPT ![load] =
                   [x \in Names |-> refs[load][x] + Cardinality(Places(l, s, x))]]
    <3> DEFINE t == dials'[load][d]
    <3>1. refs' = [refs EXCEPT ![load] =
                     [x \in Names |-> refs[load][x] + Cardinality(Places(l, t, x))]]
      BY <1>6
    <3>2. t = s
      BY <2>1
    <3> HIDE DEF t
    <3> QED
      BY <3>1, <3>2, Zenon
  <2> QED
    BY <1>1, <1>4, <1>6, <2>2, <2>3, AddDeviceRefs
<1> QED
  BY <1>2, <1>5, <1>6

(* The lines that no device has go.                                        *)
LEMMA PreApplyLinesRefs ==
  ASSUME Base, Order, AllFair, Building, PreApplyLines
  PROVE  RefsType' /\ AllFair'
<1> DEFINE r == refs[load]
           G == lines[load] \ associated
           e == Taken(r, G)
           k == [x \in Names |-> 0 - Count(x \in G)]
           L == lines[load] \cap associated
           D == devices[load]
           h == guestCfg[load]
           S == D \cup ({h} \ {None}) \cup L \cup speeddials[load]
           B == Plus(One(Contents(load)), k)
<1>1. /\ pc = "devices" /\ pc' = "general" /\ Loading /\ Loading'
      /\ UNCHANGED <<load, devices, speeddials, guestCfg, line, dials, global, cfg, made>>
      /\ lines' = [lines EXCEPT ![load] = L] /\ refs' = [refs EXCEPT ![load] = e]
  BY DEF PreApplyLines, Loading
<1>2. /\ load \in Loads /\ r \in [Names -> Int] /\ r["cfg"] = 1
      /\ Balanced(load, r, One(Contents(load)))
  BY <1>1, LoadNow
<1>3. /\ \A x : Count(x \in G) \in Int
      /\ \A x \in Devices \cup {"cfg"} : Count(x \in G) = 0
  <2>1. G \subseteq Lines
    BY <1>2 DEF Base
  <2>2. \A x \in Devices \cup {"cfg"} : x \notin G
    BY <2>1, NameFacts
  <2> HIDE DEF G
  <2> QED
    BY <2>2, CountFacts DEF Count
<1>4. /\ k \in [Names -> Int] /\ k["cfg"] = 0 /\ (\A d \in Devices : k[d] = 0)
      /\ e = Plus(r, k)
  <2>1. \A x \in Names : r[x] \in Int
    BY <1>2
  <2> HIDE DEF r, G
  <2>2. k \in [Names -> Int] /\ k["cfg"] = 0 /\ \A d \in Devices : k[d] = 0
    BY <1>3, NameFacts
  <2>3. e = Plus(r, k)
    BY <1>3, <2>1 DEF Taken, Plus
  <2> QED
    BY <2>2, <2>3
<1> HIDE DEF e, k
<1>5. One(Contents(load)) \in [Names -> Int]
  <2>1. One(Contents(load)) \in [Names -> Nat]
    BY SumTypes
  <2> QED
    BY <2>1
<1>6. e \in [Names -> Int] /\ Balanced(load, e, B)
  <2> HIDE DEF r
  <2> QED
    BY <1>2, <1>4, <1>5, Shift
<1>7. e["cfg"] = 1
  <2>1. e["cfg"] = r["cfg"] + k["cfg"]
    BY <1>4, NameFacts DEF Plus
  <2> HIDE DEF r
  <2> QED
    BY <1>2, <1>4, <2>1
<1>8. \A x : x \in S <=> (x \in Contents(load) /\ x \notin G)
  <2>1. devices[load] \subseteq Devices /\ speeddials[load] \subseteq SpeedDials /\ lines[load] \subseteq Lines
    BY <1>2 DEF Base
  <2>2. h = None
    BY <1>1 DEF Building
  <2> QED
    BY <2>1, <2>2, NameFacts DEF Contents, DevicesOf
<1>9. ASSUME NEW x \in Objects PROVE B[x] = Count(x \in S)
  <2>1. x \in Names
    BY <1>9 DEF Objects
  <2>2. B[x] = Count(x \in Contents(load)) + (0 - Count(x \in G))
    BY <2>1 DEF Plus, One, k
  <2>3. x \in G => x \in Contents(load)
    BY DEF Contents
  <2> HIDE DEF B, S, G
  <2>4. CASE x \in G
    <3>1. Count(x \in Contents(load)) = 1 /\ Count(x \in G) = 1 /\ Count(x \in S) = 0
      BY <1>8, <2>3, <2>4 DEF Count
    <3> QED
      BY <2>2, <3>1
  <2>5. CASE x \notin G
    <3>1. Count(x \in G) = 0 /\ Count(x \in S) = Count(x \in Contents(load))
      BY <1>8, <2>5 DEF Count
    <3>2. Count(x \in Contents(load)) \in Int
      BY CountFacts
    <3> QED
      BY <2>2, <3>1, <3>2
  <2> QED
    BY <2>4, <2>5
<1>10. /\ devices' = [devices EXCEPT ![load] = D]
       /\ guestCfg' = [guestCfg EXCEPT ![load] = h]
  BY <1>1, <1>2 DEF Base
<1>11. S = D \cup ({h} \ {None}) \cup L \cup speeddials[load]
  OBVIOUS
<1> HIDE DEF D, L, h, S, B
<1>12. LoadKeeps(e, S, D, L, h, B)
  BY <1>1, <1>6, <1>7, <1>9, <1>10, <1>11 DEF LoadKeeps
<1> QED
  BY <1>12, LoadStepBalanced

(* The guest device leaves its container, and its line its own.            *)
LEMMA PreApplyGeneralRefs ==
  ASSUME Base, Order, AllFair, Building, PreApplyGeneral
  PROVE  RefsType' /\ AllFair'
<1> DEFINE l == line[load][Guest]
           q == refs[load]
           r == Taken(Added(q, {Guest}), {Guest, l})
           e == IF file.guest THEN r ELSE DropDevices(load, r, {Guest})
           D == devices[load] \ {Guest}
           L == lines[load] \ {l}
           h == IF file.guest THEN Guest ELSE None
           S == D \cup ({h} \ {None}) \cup L \cup speeddials[load]
           k == [x \in Names |-> 0 - Count(x = l)]
           C == Plus(One(Contents(load)), k)
           B == IF file.guest THEN C ELSE Minus(C, One({Guest}))
<1>1. /\ pc = "general" /\ pc' = "apply" /\ Loading /\ Loading'
      /\ UNCHANGED <<load, speeddials, line, dials, global, cfg, made>>
  BY DEF PreApplyGeneral, Loading
<1>2. /\ load \in Loads /\ q \in [Names -> Int] /\ q["cfg"] = 1
      /\ Balanced(load, q, One(Contents(load)))
  BY <1>1, LoadNow
<1>3. CASE Guest \notin devices[load]
  <2> DEFINE DD == devices[load]
             LL == lines[load]
             hh == guestCfg[load]
             SS == Contents(load)
  <2>1. UNCHANGED <<devices, lines, guestCfg, refs>>
    BY <1>3 DEF PreApplyGeneral
  <2>2. /\ devices' = [devices EXCEPT ![load] = DD] /\ lines' = [lines EXCEPT ![load] = LL]
        /\ guestCfg' = [guestCfg EXCEPT ![load] = hh] /\ refs' = [refs EXCEPT ![load] = q]
    BY <1>2, <2>1 DEF Base
  <2>3. SS = DD \cup ({hh} \ {None}) \cup LL \cup speeddials[load]
    BY DEF Contents, DevicesOf
  <2>4. \A x \in Objects : One(Contents(load))[x] = Count(x \in SS)
    BY DEF One, Objects
  <2> DEFINE BB == One(Contents(load))
  <2>5. q \in [Names -> Int] /\ q["cfg"] = 1 /\ Balanced(load, q, BB)
    BY <1>2
  <2> HIDE DEF DD, LL, hh, q, SS, BB
  <2>6. \A x \in Objects : BB[x] = Count(x \in SS)
    BY <2>4 DEF BB
  <2>7. LoadKeeps(q, SS, DD, LL, hh, BB)
    BY <1>1, <2>2, <2>3, <2>5, <2>6 DEF LoadKeeps
  <2> QED
    BY <2>7, LoadStepBalanced
<1>4. CASE Guest \in devices[load]
  <2>1. /\ devices' = [devices EXCEPT ![load] = D] /\ lines' = [lines EXCEPT ![load] = L]
        /\ guestCfg' = [guestCfg EXCEPT ![load] = h] /\ refs' = [refs EXCEPT ![load] = e]
    BY <1>4 DEF PreApplyGeneral
  <2>2. /\ l \in lines[load] /\ l \in Lines /\ guestCfg[load] = None
        /\ devices[load] \subseteq Devices /\ speeddials[load] \subseteq SpeedDials
        /\ lines[load] \subseteq Lines /\ Guest \in Devices
    BY <1>1, <1>2, <1>4, NameFacts DEF Building, Done, Base
  <2>3. k \in [Names -> Int] /\ k["cfg"] = 0 /\ \A d \in Devices : k[d] = 0
    <3>1. \A x : Count(x = l) \in Int
      BY CountFacts
    <3>2. \A x \in Devices \cup {"cfg"} : Count(x = l) = 0
      BY <2>2, NameFacts DEF Count
    <3> HIDE DEF l
    <3> QED
      BY <3>1, <3>2, NameFacts
  <2>4. r = Plus(q, k)
    <3>1. ASSUME NEW x \in Names
          PROVE  (q[x] + Count(x \in {Guest})) - Count(x \in {Guest, l}) = q[x] + (0 - Count(x = l))
      <4>1. q[x] \in Int
        BY <1>2
      <4>2. Guest # l
        BY <2>2, NameFacts
      <4> HIDE DEF q, l
      <4>3. CASE x = Guest
        BY <4>1, <4>2, <4>3 DEF Count
      <4>4. CASE x = l
        BY <4>1, <4>2, <4>4 DEF Count
      <4>5. CASE x # Guest /\ x # l
        BY <4>1, <4>5 DEF Count
      <4> QED
        BY <4>3, <4>4, <4>5
    <3>2. r = [x \in Names |-> (q[x] + Count(x \in {Guest})) - Count(x \in {Guest, l})]
      <4> HIDE DEF q, l
      <4> QED
        BY DEF Taken, Added
    <3>3. Plus(q, k) = [x \in Names |-> q[x] + (0 - Count(x = l))]
      <4> HIDE DEF q, l
      <4> QED
        BY DEF Plus
    <3> HIDE DEF q, l, r, k
    <3> QED
      BY <3>1, <3>2, <3>3
  <2>5. One(Contents(load)) \in [Names -> Int] /\ C \in [Names -> Int] /\ One({Guest}) \in [Names -> Int]
    <3>1. One(Contents(load)) \in [Names -> Nat] /\ One({Guest}) \in [Names -> Nat]
      BY SumTypes
    <3>2. One(Contents(load)) \in [Names -> Int] /\ One({Guest}) \in [Names -> Int]
      BY <3>1
    <3> HIDE DEF k
    <3> QED
      BY <2>3, <3>2, SumTypes
  <2>6. r \in [Names -> Int] /\ Balanced(load, r, C)
    <3> HIDE DEF q, k, r
    <3> QED
      BY <1>2, <2>3, <2>4, <2>5, Shift
  <2>7. r["cfg"] = 1
    <3>1. r["cfg"] = q["cfg"] + k["cfg"]
      BY <2>4, NameFacts DEF Plus
    <3> HIDE DEF q, k, r
    <3> QED
      BY <1>2, <2>3, <3>1
  <2>8. r[Guest] > 0
    <3>1. Alive(r) \in SUBSET Devices
      BY DEF Alive
    <3> HIDE DEF r
    <3>2. FromDevices(load, Alive(r), Guest) = 0
      BY <1>2, <2>2, <3>1, FromDevicesFacts
    <3>3. Guest \in Names /\ Guest \in Objects
      BY <2>2, NameFacts DEF Objects
    <3>4. One(Contents(load))[Guest] = 1
      BY <1>4, <3>3 DEF One, Count, Contents, DevicesOf
    <3>5. C[Guest] = One(Contents(load))[Guest] + k[Guest] /\ k[Guest] = 0
      <4>1. k[Guest] = 0
        BY <2>2, <2>3
      <4> HIDE DEF k
      <4> QED
        BY <3>3, <4>1 DEF Plus
    <3>6. r[Guest] = C[Guest] + FromDevices(load, Alive(r), Guest)
      BY <2>6, <3>3 DEF Balanced
    <3> HIDE DEF C, k
    <3> QED
      BY <3>2, <3>4, <3>5, <3>6
  <2>9. /\ DropDevices(load, r, {Guest}) \in [Names -> Int]
        /\ DropDevices(load, r, {Guest})["cfg"] = r["cfg"]
        /\ Balanced(load, DropDevices(load, r, {Guest}), Minus(C, One({Guest})))
    <3>1. {Guest} \in SUBSET Devices /\ \A x \in {Guest} : r[x] > 0
      BY <2>2, <2>8
    <3> HIDE DEF r, C
    <3> QED
      BY <1>2, <2>5, <2>6, <3>1, DropKeeps
  <2>10. e \in [Names -> Int] /\ e["cfg"] = 1 /\ Balanced(load, e, B)
    <3> HIDE DEF r, C
    <3> QED
      BY <2>6, <2>7, <2>9
  <2>11. \A x : x \in S <=> (x \in Contents(load) /\ x # l /\ (x = Guest => file.guest))
    <3>1. l \notin Devices /\ l \notin SpeedDials /\ Guest \notin Lines /\ Guest \notin SpeedDials /\ Guest # None
      BY <2>2, NameFacts
    <3> QED
      BY <1>4, <2>2, <3>1 DEF Contents, DevicesOf
  <2>12. ASSUME NEW x \in Objects PROVE B[x] = Count(x \in S)
    <3>1. x \in Names
      BY <2>12 DEF Objects
    <3>2. C[x] = Count(x \in Contents(load)) + (0 - Count(x = l))
      BY <3>1 DEF Plus, One
    <3>3. Minus(C, One({Guest}))[x] = C[x] - Count(x = Guest)
      <4>1. Count(x \in {Guest}) = Count(x = Guest)
        BY DEF Count
      <4> HIDE DEF C
      <4> QED
        BY <3>1, <4>1 DEF Minus, One
    <3>4. l \in Contents(load) /\ Guest \in Contents(load) /\ Guest # l
      BY <1>4, <2>2, NameFacts DEF Contents, DevicesOf
    <3>5. B[x] = IF file.guest THEN C[x] ELSE Minus(C, One({Guest}))[x]
      <4> HIDE DEF C
      <4> QED
        OBVIOUS
    <3> HIDE DEF B, C, S, l
    <3>6. CASE x = l
      <4>1. Count(x \in Contents(load)) = 1 /\ Count(x = l) = 1 /\ Count(x = Guest) = 0 /\ Count(x \in S) = 0
        BY <2>11, <3>4, <3>6 DEF Count
      <4> QED
        BY <3>2, <3>3, <3>5, <4>1
    <3>7. CASE x = Guest
      <4>1. /\ Count(x \in Contents(load)) = 1 /\ Count(x = l) = 0 /\ Count(x = Guest) = 1
            /\ Count(x \in S) = Count(file.guest)
        BY <2>11, <3>4, <3>7 DEF Count
      <4> QED
        BY <3>2, <3>3, <3>5, <4>1 DEF Count
    <3>8. CASE x # l /\ x # Guest
      <4>1. Count(x = l) = 0 /\ Count(x = Guest) = 0 /\ Count(x \in S) = Count(x \in Contents(load))
        BY <2>11, <3>8 DEF Count
      <4>2. Count(x \in Contents(load)) \in Int
        BY CountFacts
      <4> QED
        BY <3>2, <3>3, <3>5, <4>1, <4>2
    <3> QED
      BY <3>6, <3>7, <3>8
  <2>13. S = D \cup ({h} \ {None}) \cup L \cup speeddials[load]
    OBVIOUS
  <2> HIDE DEF e, D, L, h, S, B
  <2>14. LoadKeeps(e, S, D, L, h, B)
    BY <1>1, <2>1, <2>10, <2>12, <2>13 DEF LoadKeeps
  <2> QED
    BY <2>14, LoadStepBalanced
<1> QED
  BY <1>3, <1>4

-----------------------------------------------------------------------------
(* All steps keep the references.                                          *)

LEMMA RefsStep ==
  ASSUME Base, Order, Building, AllFair, [Next]_vars
  PROVE  RefsType' /\ AllFair'
<1>1. CASE Read
  BY <1>1, ReadRefs
<1>2. CASE ReadFails
  BY <1>2, ReadFailsRefs
<1>3. ASSUME NEW d \in Devices, PreApplyDevice(d) PROVE RefsType' /\ AllFair'
  BY <1>3, PreApplyDeviceRefs
<1>4. CASE PreApplyLines
  BY <1>4, PreApplyLinesRefs
<1>5. CASE PreApplyGeneral
  BY <1>5, PreApplyGeneralRefs
<1>6. CASE Apply
  BY <1>6, ApplyRefs
<1>7. CASE Destroy
  BY <1>7, DestroyRefs
<1>8. ASSUME NEW p \in Phones, sccp_session_create(p) PROVE RefsType' /\ AllFair'
  BY <1>8, CreateRefs
<1>9. ASSUME NEW p \in Phones, sccp_session_handle_msg_register(p) PROVE RefsType' /\ AllFair'
  BY <1>9, RegisterRefs
<1>10. ASSUME NEW p \in Phones, process_reload_config(p) PROVE RefsType' /\ AllFair'
  BY <1>10, ReloadRefs
<1>11. ASSUME NEW p \in Phones, EndSession(p) PROVE RefsType' /\ AllFair'
  BY <1>11, EndRefs
<1>12. ASSUME NEW p \in Phones, FreeDevice(p) PROVE RefsType' /\ AllFair'
  BY <1>12, FreeRefs
<1>13. CASE UNCHANGED vars
  <2>1. UNCHANGED built /\ UNCHANGED <<pc, load, refs, global, cfg, made>>
    BY <1>13 DEF vars, loading
  <2>2. \A g \in Loads : CfgHeld(g)' /\ Sound(g, refs'[g], ByPhones(made', g, Phones))
    <3> SUFFICES ASSUME NEW g \in Loads
        PROVE  CfgHeld(g)' /\ Sound(g, refs'[g], ByPhones(made', g, Phones))
      OBVIOUS
    <3>1. refs'[g]["cfg"] = refs[g]["cfg"]
      BY <2>1
    <3> QED
      BY <2>1, <3>1, SameCfgHeld, SoundNow
  <2>3. RefsType'
    BY <2>1 DEF Base, RefsType
  <2> QED
    BY <2>1, <2>2, <2>3, BuiltStep
<1> QED
  BY <1>1, <1>2, <1>3, <1>4, <1>5, <1>6, <1>7, <1>8, <1>9, <1>10, <1>11, <1>12, <1>13 DEF Next

-----------------------------------------------------------------------------
(* The types, and what sessions may have.                                  *)

LEMMA BaseStep ==
  ASSUME Base, Order, Building, RefsType', [Next]_vars
  PROVE  Base'
<1> USE DEF RefsType
<1>0. LastLoad \in Nat /\ MaxOoms \in Nat /\ \A f \in Files : f \in FileType
  BY NameFacts
<1>1. CASE Read
  <2>1. PICK f \in Files :
          /\ file' = f /\ load' = load + 1 /\ todo' = f.devices
          /\ devices' = [devices EXCEPT ![load'] = f.devices]
          /\ lines' = [lines EXCEPT ![load'] = f.lines]
          /\ speeddials' = [speeddials EXCEPT ![load'] = f.speeddials]
    BY <1>1 DEF Read
  <2>2. f.devices \in SUBSET Devices /\ f.lines \in SUBSET Lines /\ f.speeddials \in SUBSET SpeedDials
    BY <1>0 DEF FileType
  <2>3. /\ load < LastLoad /\ pc' = "devices" /\ associated' = {}
        /\ UNCHANGED <<guestCfg, line, dials, global, cfg, made, ooms>>
    BY <1>1 DEF Read
  <2>4. load' \in 0 .. LastLoad
    BY <1>0, <2>1, <2>3 DEF Base
  <2>5. /\ devices' \in [Loads -> SUBSET Devices] /\ lines' \in [Loads -> SUBSET Lines]
        /\ speeddials' \in [Loads -> SUBSET SpeedDials]
    BY <2>1, <2>2 DEF Base
  <2> QED
    BY <2>1, <2>2, <2>3, <2>4, <2>5 DEF Base
<1>2. CASE ReadFails
  <2>1. pc' = "idle" /\ UNCHANGED <<load, file, todo, associated, built, global, cfg, made, ooms>>
    BY <1>2 DEF ReadFails
  <2> QED
    BY <2>1 DEF Base, built
<1>3. ASSUME NEW d \in Devices, PreApplyDevice(d) PROVE Base'
  <2>1. /\ UNCHANGED <<pc, load, file, lines, speeddials, guestCfg, global, cfg, made>>
        /\ todo' = todo \ {d}
    BY <1>3 DEF PreApplyDevice
  <2>2. load \in Loads
    BY <1>3 DEF PreApplyDevice, Order, Loading
  <2>3. devices' \in [Loads -> SUBSET Devices]
    <3>1. devices' = devices \/ devices' = [devices EXCEPT ![load] = devices[load] \ {d}]
      BY <1>3 DEF PreApplyDevice
    <3>2. devices \in [Loads -> SUBSET Devices] /\ devices[load] \ {d} \in SUBSET Devices
      BY <2>2 DEF Base
    <3> QED
      BY <2>2, <3>1, <3>2
  <2>4. associated' \subseteq Lines
    <3>1. associated' = associated \/ (LineIsFree(d) /\ associated' = associated \cup {file.line[d]})
      BY <1>3 DEF PreApplyDevice
    <3> QED
      BY <2>2, <3>1 DEF Base, LineIsFree
  <2>5. ooms' \in 0 .. MaxOoms
    <3>1. ooms' = ooms \/ (ooms < MaxOoms /\ ooms' = ooms + 1)
      BY <1>3 DEF PreApplyDevice
    <3> QED
      BY <1>0, <3>1 DEF Base
  <2>6. line' \in [Loads -> [Devices -> Lines \cup {None}]] /\ dials' \in [Loads -> [Devices -> Seq(SpeedDials)]]
    <3> DEFINE s == Known(file.dials[d], speeddials[load])
               l == file.line[d]
    <3>1. \/ UNCHANGED <<line, dials>>
          \/ LineIsFree(d) /\ line' = [line EXCEPT ![load][d] = l] /\ dials' = [dials EXCEPT ![load][d] = s]
      BY <1>3 DEF PreApplyDevice
    <3>2. s \in Seq(SpeedDials)
      <4>1. file.dials[d] \in Seq(SpeedDials)
        BY <1>0 DEF Base, FileType
      <4> QED
        BY <4>1, KnownSelects
    <3>3. LineIsFree(d) => l \in Lines
      BY <2>2 DEF Base, LineIsFree
    <3> HIDE DEF s, l
    <3>4. CASE UNCHANGED <<line, dials>>
      BY <3>4 DEF Base
    <3>5. CASE /\ LineIsFree(d) /\ line' = [line EXCEPT ![load][d] = l]
               /\ dials' = [dials EXCEPT ![load][d] = s]
      <4> DEFINE a == [line[load] EXCEPT ![d] = l]
                 b == [dials[load] EXCEPT ![d] = s]
      <4>1. a \in [Devices -> Lines \cup {None}] /\ b \in [Devices -> Seq(SpeedDials)]
        BY <2>2, <3>2, <3>3, <3>5 DEF Base
      <4>2. line' = [line EXCEPT ![load] = a] /\ dials' = [dials EXCEPT ![load] = b]
        BY <3>5
      <4> HIDE DEF a, b
      <4> QED
        BY <2>2, <4>1, <4>2 DEF Base
    <3> QED
      BY <3>1, <3>4, <3>5
  <2> QED
    BY <2>1, <2>3, <2>4, <2>5, <2>6 DEF Base
<1>4. CASE PreApplyLines
  <2>1. /\ lines' = [lines EXCEPT ![load] = lines[load] \cap associated] /\ pc' = "general"
        /\ UNCHANGED <<load, file, todo, associated, devices, speeddials, guestCfg, line, dials,
                       global, cfg, made, ooms>>
    BY <1>4 DEF PreApplyLines
  <2>2. load \in Loads
    BY <1>4 DEF PreApplyLines, Order, Loading
  <2>3. lines' \in [Loads -> SUBSET Lines]
    BY <2>1, <2>2 DEF Base
  <2> QED
    BY <2>1, <2>3 DEF Base
<1>5. CASE PreApplyGeneral
  <2>1. /\ pc' = "apply"
        /\ UNCHANGED <<load, file, todo, associated, speeddials, line, dials, global, cfg, made, ooms>>
    BY <1>5 DEF PreApplyGeneral
  <2>2. load \in Loads
    BY <1>5 DEF PreApplyGeneral, Order, Loading
  <2>3. /\ devices' \in [Loads -> SUBSET Devices] /\ lines' \in [Loads -> SUBSET Lines]
        /\ guestCfg' \in [Loads -> Devices \cup {None}]
    <3>1. CASE Guest \in devices[load]
      <4>1. /\ devices' = [devices EXCEPT ![load] = devices[load] \ {Guest}]
            /\ lines' = [lines EXCEPT ![load] = lines[load] \ {line[load][Guest]}]
            /\ guestCfg' = [guestCfg EXCEPT ![load] = IF file.guest THEN Guest ELSE None]
        BY <1>5, <3>1 DEF PreApplyGeneral
      <4>2. (IF file.guest THEN Guest ELSE None) \in Devices \cup {None}
        BY NameFacts
      <4> QED
        BY <2>2, <4>1, <4>2 DEF Base
    <3>2. CASE Guest \notin devices[load]
      <4>1. UNCHANGED <<devices, lines, guestCfg>>
        BY <1>5, <3>2 DEF PreApplyGeneral
      <4> QED
        BY <4>1 DEF Base
    <3> QED
      BY <3>1, <3>2
  <2> QED
    BY <2>1, <2>3 DEF Base
<1>6. CASE Apply
  BY <1>6 DEF Apply, Base, built
<1>7. CASE Destroy
  BY <1>0, <1>7 DEF Destroy, Base, built
<1>8. ASSUME NEW p \in Phones, sccp_session_create(p) PROVE Base'
  BY <1>8 DEF sccp_session_create, Base, loading, built
<1>9. ASSUME NEW p \in Phones, sccp_session_handle_msg_register(p) PROVE Base'
  <2>1. /\ made' = [made EXCEPT ![p] = [load |-> cfg[p], device |-> Found(cfg[p], p)]]
        /\ cfg[p] \in Loads /\ UNCHANGED <<loading, built, global, cfg>>
    BY <1>9 DEF sccp_session_handle_msg_register, Base, Loads
  <2>2. Found(cfg[p], p) \in Devices
    BY <1>9, <2>1, FoundFacts DEF sccp_session_handle_msg_register
  <2> DEFINE m == [load |-> cfg[p], device |-> Found(cfg[p], p)]
  <2>3. m \in [load : 0 .. LastLoad, device : Devices \cup {None}]
    BY <2>2 DEF Base
  <2> HIDE DEF m
  <2>4. made' \in [Phones -> [load : 0 .. LastLoad, device : Devices \cup {None}]]
    <3>1. made' = [made EXCEPT ![p] = m] /\ made \in [Phones -> [load : 0 .. LastLoad, device : Devices \cup {None}]]
      BY <2>1 DEF m, Base
    <3> QED
      BY <2>3, <3>1
  <2> QED
    BY <2>1, <2>4 DEF Base, loading, built
<1>10. ASSUME NEW p \in Phones, process_reload_config(p) PROVE Base'
  <2>1. /\ cfg' = [cfg EXCEPT ![p] = global] /\ UNCHANGED <<loading, built, global>>
        /\ \/ UNCHANGED made
           \/ /\ Found(global, p) # None
              /\ made' = [made EXCEPT ![p] = [load |-> global, device |-> Found(global, p)]]
        /\ cfg[p] # 0 /\ global > cfg[p]
    BY <1>10 DEF process_reload_config
  <2>2. global \in Loads
    BY <2>1 DEF Base, Loads
  <2>3. made' \in [Phones -> [load : 0 .. LastLoad, device : Devices \cup {None}]]
    <3>1. CASE UNCHANGED made
      BY <3>1 DEF Base
    <3>2. CASE /\ Found(global, p) # None
               /\ made' = [made EXCEPT ![p] = [load |-> global, device |-> Found(global, p)]]
      <4> DEFINE m == [load |-> global, device |-> Found(global, p)]
      <4>1. m \in [load : 0 .. LastLoad, device : Devices \cup {None}]
        BY <2>2, <3>2, FoundFacts DEF Base
      <4> HIDE DEF m
      <4>2. made' = [made EXCEPT ![p] = m] /\ made \in [Phones -> [load : 0 .. LastLoad, device : Devices \cup {None}]]
        BY <3>2 DEF m, Base
      <4> QED
        BY <4>1, <4>2
    <3> QED
      BY <2>1, <3>1, <3>2
  <2>4. cfg' \in [Phones -> 0 .. LastLoad]
    BY <2>1 DEF Base
  <2> QED
    BY <2>1, <2>3, <2>4 DEF Base, loading, built
<1>11. ASSUME NEW p \in Phones, EndSession(p) PROVE Base'
  BY <1>0, <1>11 DEF EndSession, Base, loading, built
<1>12. ASSUME NEW p \in Phones, FreeDevice(p) PROVE Base'
  <2>1. made' = [made EXCEPT ![p] = NoDevice] /\ UNCHANGED <<loading, built, global, cfg>>
    BY <1>12 DEF FreeDevice
  <2>2. NoDevice \in [load : 0 .. LastLoad, device : Devices \cup {None}]
    BY <1>0 DEF NoDevice
  <2>3. made' \in [Phones -> [load : 0 .. LastLoad, device : Devices \cup {None}]]
    BY <2>1, <2>2 DEF Base
  <2> QED
    BY <2>1, <2>3 DEF Base, loading, built
<1>13. CASE UNCHANGED vars
  BY <1>13 DEF vars, loading, built, Base
<1> QED
  BY <1>1, <1>2, <1>3, <1>4, <1>5, <1>6, <1>7, <1>8, <1>9, <1>10, <1>11, <1>12, <1>13 DEF Next

(* The configurations that are not loaded yet are left alone.              *)
Untouched ==
  \A g \in Loads : g > load' =>
    /\ devices'[g] = devices[g] /\ lines'[g] = lines[g] /\ speeddials'[g] = speeddials[g]
    /\ guestCfg'[g] = guestCfg[g] /\ line'[g] = line[g] /\ dials'[g] = dials[g]
    /\ refs'[g] = refs[g]

LEMMA EmptyStep ==
  ASSUME Order, Untouched, load' >= load, load \in Int, load' \in Int
  PROVE  \A g \in Loads : g > load' => Empty(g)'
<1> SUFFICES ASSUME NEW g \in Loads, g > load' PROVE Empty(g)'
  OBVIOUS
<1>1. Empty(g)
  BY DEF Order, Loads
<1> QED
  BY <1>1 DEF Untouched, Empty

LEMMA OrderStep ==
  ASSUME Base, Order, [Next]_vars
  PROVE  Order'
<1>0. /\ LastLoad \in Nat /\ load \in Nat /\ global \in Nat /\ Last \in Int /\ Last <= load
      /\ \A p \in Phones : cfg[p] \in Nat /\ made[p].load \in Nat
      /\ \A p \in Phones : cfg[p] <= load /\ made[p].load <= load
      /\ global <= load
  <2>1. LastLoad \in Nat /\ load \in Nat /\ global \in Nat /\ \A p \in Phones : cfg[p] \in Nat /\ made[p].load \in Nat
    BY NameFacts DEF Base
  <2>2. Last \in Int /\ Last <= load
    BY <2>1 DEF Last
  <2> QED
    BY <2>1, <2>2 DEF Order
<1>00. LastLoad \in Nat /\ \A g \in Loads : g \in Nat
  BY NameFacts DEF Loads
<1>1. CASE Read
  <2>1. /\ pc = "idle" /\ load' = load + 1 /\ load < LastLoad /\ pc' = "devices"
        /\ UNCHANGED <<guestCfg, line, dials, global, cfg, made>>
        /\ \E f \in Files :
             /\ devices' = [devices EXCEPT ![load'] = f.devices]
             /\ lines' = [lines EXCEPT ![load'] = f.lines]
             /\ speeddials' = [speeddials EXCEPT ![load'] = f.speeddials]
             /\ refs' = [refs EXCEPT ![load'] =
                           Added(refs[load'], {"cfg"} \cup f.devices \cup f.lines \cup f.speeddials)]
    BY <1>1, Zenon DEF Read
  <2>2. load' \in Loads /\ Last = load /\ Last' = load
    BY <1>0, <2>1 DEF Loads, Last, Loading
  <2>3. Untouched
    BY <1>00, <2>1, <2>2 DEF Untouched, Base
  <2>4. \A g \in Loads : g > load' => Empty(g)'
    BY <1>0, <2>1, <2>3, EmptyStep
  <2> QED
    BY <2>1, <2>2, <2>4 DEF Order
<1>2. CASE ReadFails
  <2>1. /\ pc = "devices" /\ pc' = "idle" /\ UNCHANGED <<load, built, global, cfg, made>>
        /\ \E e : refs' = [refs EXCEPT ![load] = e]
    BY <1>2 DEF ReadFails
  <2>2. load \in Loads /\ Last = load - 1 /\ Last' = load /\ ~Loading'
    BY <2>1 DEF Order, Last, Loading
  <2>3. Untouched
    BY <1>0, <1>00, <2>1, <2>2 DEF Untouched, Base, built
  <2>4. \A g \in Loads : g > load' => Empty(g)'
    BY <1>0, <2>1, <2>3, EmptyStep
  <2> QED
    BY <1>0, <2>1, <2>2, <2>4 DEF Order
<1>3. ASSUME NEW d \in Devices, PreApplyDevice(d) PROVE Order'
  <2>1. /\ pc = "devices" /\ pc' = pc
        /\ UNCHANGED <<load, lines, speeddials, guestCfg, global, cfg, made>>
        /\ \E e : refs' = [refs EXCEPT ![load] = e]
        /\ \E e : devices' = [devices EXCEPT ![load] = e]
        /\ \E e : line' = [line EXCEPT ![load] = e]
        /\ \E e : dials' = [dials EXCEPT ![load] = e]
    <3>1. /\ devices = [devices EXCEPT ![load] = devices[load]]
          /\ line = [line EXCEPT ![load] = line[load]]
          /\ dials = [dials EXCEPT ![load] = dials[load]]
      BY DEF Base
    <3>2. \/ UNCHANGED <<line, dials>> /\ devices' = [devices EXCEPT ![load] = devices[load] \ {d}]
          \/ /\ UNCHANGED devices
             /\ \E e : line' = [line EXCEPT ![load] = e]
             /\ \E e : dials' = [dials EXCEPT ![load] = e]
      <4>1. LineIsFree(d) \/ ~LineIsFree(d)
        OBVIOUS
      <4> QED
        BY <1>3 DEF PreApplyDevice
    <3>3. /\ \E e : devices' = [devices EXCEPT ![load] = e]
          /\ \E e : line' = [line EXCEPT ![load] = e]
          /\ \E e : dials' = [dials EXCEPT ![load] = e]
      BY <3>1, <3>2
    <3>4. \E e : refs' = [refs EXCEPT ![load] = e]
      BY <1>3 DEF PreApplyDevice
    <3> QED
      BY <1>3, <3>3, <3>4 DEF PreApplyDevice
  <2>2. load \in Loads /\ Last' = Last
    BY <2>1 DEF Order, Last, Loading
  <2>3. Untouched
    BY <1>0, <1>00, <2>1, <2>2 DEF Untouched, Base
  <2>4. \A g \in Loads : g > load' => Empty(g)'
    BY <1>0, <2>1, <2>3, EmptyStep
  <2> QED
    BY <2>1, <2>2, <2>4 DEF Order
<1>4. CASE PreApplyLines
  <2>1. /\ pc = "devices" /\ pc' = "general"
        /\ UNCHANGED <<load, devices, speeddials, guestCfg, line, dials, global, cfg, made>>
        /\ \E e : refs' = [refs EXCEPT ![load] = e]
        /\ \E e : lines' = [lines EXCEPT ![load] = e]
    BY <1>4 DEF PreApplyLines
  <2>2. load \in Loads /\ Last' = Last
    BY <2>1 DEF Order, Last, Loading
  <2>3. Untouched
    BY <1>0, <1>00, <2>1, <2>2 DEF Untouched, Base
  <2>4. \A g \in Loads : g > load' => Empty(g)'
    BY <1>0, <2>1, <2>3, EmptyStep
  <2> QED
    BY <2>1, <2>2, <2>4 DEF Order
<1>5. CASE PreApplyGeneral
  <2>1. /\ pc = "general" /\ pc' = "apply"
        /\ UNCHANGED <<load, speeddials, line, dials, global, cfg, made>>
        /\ \E e : refs' = [refs EXCEPT ![load] = e]
        /\ \E e : devices' = [devices EXCEPT ![load] = e]
        /\ \E e : lines' = [lines EXCEPT ![load] = e]
        /\ \E e : guestCfg' = [guestCfg EXCEPT ![load] = e]
    <3>1. CASE Guest \in devices[load]
      BY <1>5, <3>1, Zenon DEF PreApplyGeneral
    <3>2. CASE Guest \notin devices[load]
      <4>1. UNCHANGED <<devices, lines, guestCfg, refs>>
        BY <1>5, <3>2 DEF PreApplyGeneral
      <4>2. /\ devices = [devices EXCEPT ![load] = devices[load]]
            /\ lines = [lines EXCEPT ![load] = lines[load]]
            /\ guestCfg = [guestCfg EXCEPT ![load] = guestCfg[load]]
            /\ refs = [refs EXCEPT ![load] = refs[load]]
        BY DEF Base
      <4> QED
        BY <1>5, <4>1, <4>2 DEF PreApplyGeneral
    <3> QED
      BY <3>1, <3>2
  <2>2. load \in Loads /\ Last' = Last
    BY <2>1 DEF Order, Last, Loading
  <2>3. Untouched
    BY <1>0, <1>00, <2>1, <2>2 DEF Untouched, Base
  <2>4. \A g \in Loads : g > load' => Empty(g)'
    BY <1>0, <2>1, <2>3, EmptyStep
  <2> QED
    BY <2>1, <2>2, <2>4 DEF Order
<1>6. CASE Apply
  <2>1. /\ pc = "apply" /\ pc' = "idle" /\ global' = load /\ UNCHANGED <<load, built, cfg, made>>
        /\ refs' = refs \/ \E e : refs' = [refs EXCEPT ![global] = e]
    BY <1>6 DEF Apply
  <2>2. load \in Loads /\ Last = load - 1 /\ Last' = load /\ ~Loading'
    BY <2>1 DEF Order, Last, Loading
  <2>3. Untouched
    BY <1>0, <1>00, <2>1, <2>2 DEF Untouched, Base, built
  <2>4. \A g \in Loads : g > load' => Empty(g)'
    BY <1>0, <2>1, <2>3, EmptyStep
  <2> QED
    BY <1>0, <2>1, <2>2, <2>4 DEF Order
<1>7. CASE Destroy
  <2>1. /\ pc = "idle" /\ pc' = "destroyed" /\ global' = 0 /\ UNCHANGED <<load, built, cfg, made>>
        /\ \E e : refs' = [refs EXCEPT ![global] = e]
    BY <1>7 DEF Destroy
  <2>2. Last' = Last /\ ~Loading' /\ 0 <= Last
    BY <1>0, <2>1 DEF Order, Last, Loading
  <2>3. Untouched
    BY <1>0, <1>00, <2>1 DEF Untouched, Base, built
  <2>4. \A g \in Loads : g > load' => Empty(g)'
    BY <1>0, <2>1, <2>3, EmptyStep
  <2> QED
    BY <1>0, <2>1, <2>2, <2>4 DEF Order
<1>8. ASSUME NEW p \in Phones, sccp_session_create(p) PROVE Order'
  <2>1. /\ cfg[p] = 0 /\ made[p] = NoDevice /\ cfg' = [cfg EXCEPT ![p] = global]
        /\ \E e : refs' = [refs EXCEPT ![global] = e]
        /\ UNCHANGED <<pc, load, global, made>> /\ UNCHANGED built
    BY <1>8 DEF sccp_session_create, loading
  <2>2. Last' = Last /\ (Loading' <=> Loading)
    BY <2>1 DEF Last, Loading
  <2>3. Untouched
    BY <1>0, <1>00, <2>1 DEF Untouched, Base, built
  <2>4. \A g \in Loads : g > load' => Empty(g)'
    BY <1>0, <2>1, <2>3, EmptyStep
  <2>5. \A q \in Phones : cfg'[q] = (IF q = p THEN global ELSE cfg[q])
    BY <2>1 DEF Base
  <2>6. made[p].load = 0
    BY <2>1 DEF NoDevice
  <2> QED
    BY <1>0, <2>1, <2>2, <2>4, <2>5, <2>6 DEF Order
<1>9. ASSUME NEW p \in Phones, sccp_session_handle_msg_register(p) PROVE Order'
  <2> DEFINE d == Found(cfg[p], p)
  <2>1. /\ cfg[p] # 0 /\ made' = [made EXCEPT ![p] = [load |-> cfg[p], device |-> d]]
        /\ \E e : refs' = [refs EXCEPT ![cfg[p]] = e]
        /\ UNCHANGED <<pc, load, global, cfg>> /\ UNCHANGED built /\ d # None
    BY <1>9 DEF sccp_session_handle_msg_register, loading
  <2>2. Last' = Last /\ (Loading' <=> Loading)
    BY <2>1 DEF Last, Loading
  <2>3. Untouched
    BY <1>0, <1>00, <2>1 DEF Untouched, Base, built
  <2>4. \A g \in Loads : g > load' => Empty(g)'
    BY <1>0, <2>1, <2>3, EmptyStep
  <2>5. cfg[p] \in Loads
    BY <2>1 DEF Base, Loads
  <2>6. d \in Devices
    BY <2>1, <2>5, FoundFacts
  <2>7. /\ \A q \in Phones \ {p} : made'[q] = made[q]
        /\ made'[p].load = cfg[p] /\ made'[p].device = d
    BY <2>1 DEF Base
  <2> HIDE DEF d
  <2> QED
    BY <1>0, <2>1, <2>2, <2>4, <2>5, <2>6, <2>7 DEF Order
<1>10. ASSUME NEW p \in Phones, process_reload_config(p) PROVE Order'
  <2> DEFINE d == Found(global, p)
  <2>1. /\ cfg[p] # 0 /\ global > cfg[p] /\ cfg' = [cfg EXCEPT ![p] = global]
        /\ UNCHANGED <<pc, load, global>> /\ UNCHANGED built
        /\ \/ UNCHANGED made
           \/ d # None /\ made' = [made EXCEPT ![p] = [load |-> global, device |-> d]]
    BY <1>10 DEF process_reload_config, loading
  <2>2. Last' = Last /\ (Loading' <=> Loading)
    BY <2>1 DEF Last, Loading
  <2>3. Untouched
    <3>1. ASSUME NEW g \in Loads, g > load' PROVE refs'[g] = refs[g]
      <4>1. g # cfg[p] /\ g # global /\ g # made[p].load
        BY <1>0, <1>00, <2>1, <3>1
      <4> DEFINE s == [refs EXCEPT ![global] = Added(@, {"cfg"}), ![cfg[p]] = DropCfg(cfg[p], @)]
      <4>2. refs' = s \/ refs' = sccp_device_reload_config(s, made[p], global, d)
        BY <1>10 DEF process_reload_config
      <4>3. g \in DOMAIN s /\ s[g] = refs[g]
        BY <4>1 DEF Base
      <4> HIDE DEF s, d
      <4> QED
        BY <4>1, <4>2, <4>3 DEF sccp_device_reload_config
    <3> QED
      BY <2>1, <3>1 DEF Untouched, built
  <2>4. \A g \in Loads : g > load' => Empty(g)'
    BY <1>0, <2>1, <2>3, EmptyStep
  <2>5. global \in Loads
    BY <1>0, <2>1 DEF Base, Loads
  <2>6. \A q \in Phones : cfg'[q] = (IF q = p THEN global ELSE cfg[q])
    BY <2>1 DEF Base
  <2>7. CASE UNCHANGED made
    BY <1>0, <2>1, <2>2, <2>4, <2>6, <2>7 DEF Order
  <2>8. CASE d # None /\ made' = [made EXCEPT ![p] = [load |-> global, device |-> d]]
    <3>1. d \in Devices
      BY <2>5, <2>8, FoundFacts
    <3>2. /\ \A q \in Phones \ {p} : made'[q] = made[q]
          /\ made'[p].load = global /\ made'[p].device = d
      BY <2>8 DEF Base
    <3> HIDE DEF d
    <3> QED
      BY <1>0, <2>1, <2>2, <2>4, <2>5, <2>6, <3>1, <3>2 DEF Order
  <2> QED
    BY <2>1, <2>7, <2>8
<1>11. ASSUME NEW p \in Phones, EndSession(p) PROVE Order'
  <2>1. /\ cfg' = [cfg EXCEPT ![p] = 0]
        /\ \E e : refs' = [refs EXCEPT ![cfg[p]] = e]
        /\ UNCHANGED <<pc, load, global, made>> /\ UNCHANGED built
    BY <1>11 DEF EndSession, loading
  <2>2. Last' = Last /\ (Loading' <=> Loading)
    BY <2>1 DEF Last, Loading
  <2>3. Untouched
    BY <1>0, <1>00, <2>1 DEF Untouched, Base, built
  <2>4. \A g \in Loads : g > load' => Empty(g)'
    BY <1>0, <2>1, <2>3, EmptyStep
  <2>5. \A q \in Phones : cfg'[q] = (IF q = p THEN 0 ELSE cfg[q])
    BY <2>1 DEF Base
  <2>6. 0 <= Last
    BY <1>0 DEF Order
  <2> QED
    BY <1>0, <2>1, <2>2, <2>4, <2>5, <2>6 DEF Order
<1>12. ASSUME NEW p \in Phones, FreeDevice(p) PROVE Order'
  <2>1. /\ made' = [made EXCEPT ![p] = NoDevice] /\ cfg[p] = 0
        /\ \E e : refs' = [refs EXCEPT ![made[p].load] = e]
        /\ UNCHANGED <<pc, load, global, cfg>> /\ UNCHANGED built
    BY <1>12 DEF FreeDevice, loading
  <2>2. Last' = Last /\ (Loading' <=> Loading)
    BY <2>1 DEF Last, Loading
  <2>3. Untouched
    BY <1>0, <1>00, <2>1 DEF Untouched, Base, built
  <2>4. \A g \in Loads : g > load' => Empty(g)'
    BY <1>0, <2>1, <2>3, EmptyStep
  <2>5. \A q \in Phones : made'[q] = (IF q = p THEN NoDevice ELSE made[q])
    BY <2>1 DEF Base
  <2>6. 0 <= Last /\ NoDevice.load = 0
    BY <1>0 DEF Order, NoDevice
  <2> QED
    BY <1>0, <2>1, <2>2, <2>4, <2>5, <2>6 DEF Order
<1>13. CASE UNCHANGED vars
  BY <1>13 DEF vars, loading, built, Order, Last, Loading, Empty
<1> QED
  BY <1>1, <1>2, <1>3, <1>4, <1>5, <1>6, <1>7, <1>8, <1>9, <1>10, <1>11, <1>12, <1>13 DEF Next

-----------------------------------------------------------------------------
(* What loading makes of the file.                                         *)

(* A device is dropped.                                                    *)
LEMMA DropBuilding ==
  ASSUME Base, Building, load \in Loads, pc = "devices", pc' = pc, NEW d \in todo,
         UNCHANGED <<load, file, lines, speeddials, guestCfg, line, dials>>,
         todo' = todo \ {d}, devices' = [devices EXCEPT ![load] = devices[load] \ {d}],
         \/ ~LineIsFree(d) /\ UNCHANGED <<associated, ooms>>
         \/ LineIsFree(d) /\ associated' = associated \cup {file.line[d]} /\ ooms' = ooms + 1
  PROVE  Building'
<1> DEFINE D == devices[load]
           T == todo'
<1>1. devices'[load'] = D \ {d} /\ d \in Devices
  BY DEF Base
<1>2. Done' = Done
  BY <1>1 DEF Done
<1>3. /\ todo \subseteq D /\ D \subseteq file.devices
      /\ speeddials[load] = file.speeddials /\ guestCfg[load] = None
      /\ associated \subseteq file.lines /\ lines[load] = file.lines
      /\ \A e \in Devices \ Done : line[load][e] = None /\ dials[load][e] = << >>
      /\ \A e \in Done :
           /\ line[load][e] = file.line[e] /\ file.line[e] \in associated
           /\ IsSelection(dials[load][e], file.dials[e], file.speeddials)
      /\ \A c, e \in Done : line[load][c] = line[load][e] => c = e
      /\ \A e \in file.devices \ todo : file.line[e] \in file.lines => file.line[e] \in associated
      /\ ooms = 0 => \A l \in associated : \E e \in Done : line[load][e] = l
  BY DEF Building
<1>4. /\ associated \subseteq associated' /\ associated' \subseteq file.lines
      /\ file.line[d] \in file.lines => file.line[d] \in associated'
      /\ ooms' = 0 => ooms = 0 /\ associated' = associated
  BY <1>3 DEF LineIsFree, Base
<1>5. /\ T \subseteq D \ {d} /\ D \ {d} \subseteq file.devices
      /\ \A e \in file.devices \ T : file.line[e] \in file.lines => file.line[e] \in associated'
  BY <1>3, <1>4
<1>6. \A e \in Done :
        /\ line[load][e] = file.line[e] /\ file.line[e] \in associated'
        /\ IsSelection(dials[load][e], file.dials[e], file.speeddials)
  BY <1>3, <1>4
<1>7. ooms' = 0 => \A l \in associated' : \E e \in Done : line[load][e] = l
  BY <1>3, <1>4
<1> HIDE DEF D, T
<1> QED
  BY <1>1, <1>2, <1>3, <1>4, <1>5, <1>6, <1>7 DEF Building, T

(* A device gets its line and its speed dials.                             *)
LEMMA AddBuilding ==
  ASSUME Base, Building, load \in Loads, pc = "devices", pc' = pc, NEW d \in todo, LineIsFree(d),
         UNCHANGED <<load, file, devices, lines, speeddials, guestCfg, ooms>>,
         todo' = todo \ {d}, associated' = associated \cup {file.line[d]},
         line' = [line EXCEPT ![load][d] = file.line[d]],
         NEW s, IsSelection(s, file.dials[d], file.speeddials),
         dials' = [dials EXCEPT ![load][d] = s]
  PROVE  Building'
<1>1. /\ todo \subseteq devices[load] /\ devices[load] \subseteq file.devices
      /\ speeddials[load] = file.speeddials /\ guestCfg[load] = None
      /\ associated \subseteq file.lines /\ lines[load] = file.lines
      /\ \A e \in Devices \ Done : line[load][e] = None /\ dials[load][e] = << >>
      /\ \A e \in Done :
           /\ line[load][e] = file.line[e] /\ file.line[e] \in associated
           /\ IsSelection(dials[load][e], file.dials[e], file.speeddials)
      /\ \A c, e \in Done : line[load][c] = line[load][e] => c = e
      /\ \A e \in file.devices \ todo : file.line[e] \in file.lines => file.line[e] \in associated
      /\ ooms = 0 => \A l \in associated : \E e \in Done : line[load][e] = l
  BY DEF Building
<1> DEFINE l == file.line[d]
           D == Done'
<1>2. d \in devices[load] /\ d \in Devices /\ D = Done \cup {d} /\ d \notin Done /\ Done \subseteq Devices
  BY <1>1 DEF Base, Done
<1>3. l \in file.lines /\ l \notin associated
  BY <1>1 DEF LineIsFree
<1>4. /\ line'[load][d] = l /\ dials'[load][d] = s
      /\ \A e \in Devices \ {d} : line'[load][e] = line[load][e] /\ dials'[load][e] = dials[load][e]
  BY <1>2 DEF Base
<1> HIDE DEF l, D
<1>5. associated' = associated \cup {l}
  BY DEF l
<1>6. \A e \in Devices \ D : line'[load][e] = None /\ dials'[load][e] = << >>
  BY <1>1, <1>2, <1>4
<1>7. \A e \in D :
        /\ line'[load][e] = file.line[e] /\ file.line[e] \in associated'
        /\ IsSelection(dials'[load][e], file.dials[e], file.speeddials)
  <2> SUFFICES ASSUME NEW e \in D
      PROVE  /\ line'[load][e] = file.line[e] /\ file.line[e] \in associated'
             /\ IsSelection(dials'[load][e], file.dials[e], file.speeddials)
    OBVIOUS
  <2>1. CASE e = d
    BY <1>4, <1>5, <2>1 DEF l
  <2>2. CASE e # d
    <3>1. e \in Done /\ e \in Devices \ {d}
      BY <1>2, <2>2
    <3>2. line'[load][e] = line[load][e] /\ dials'[load][e] = dials[load][e]
      BY <1>4, <3>1
    <3> QED
      BY <1>1, <1>5, <3>1, <3>2
  <2> QED
    BY <2>1, <2>2
<1>8. \A c, e \in D : line'[load][c] = line'[load][e] => c = e
  <2> SUFFICES ASSUME NEW c \in D, NEW e \in D, line'[load][c] = line'[load][e], c # e
      PROVE  FALSE
    OBVIOUS
  <2>1. \A b \in Done : line'[load][b] = line[load][b] /\ line[load][b] \in associated
    BY <1>1, <1>2, <1>4
  <2>2. CASE c # d /\ e # d
    BY <1>1, <1>2, <2>1, <2>2
  <2>3. CASE c = d
    BY <1>2, <1>3, <1>4, <2>1, <2>3
  <2>4. CASE e = d
    BY <1>2, <1>3, <1>4, <2>1, <2>4
  <2> QED
    BY <2>2, <2>3, <2>4
<1>9. \A e \in file.devices \ todo' : file.line[e] \in file.lines => file.line[e] \in associated'
  BY <1>1, <1>5 DEF l
<1>10. ooms' = 0 => \A k \in associated' : \E e \in D : line'[load][e] = k
  <2> SUFFICES ASSUME ooms = 0, NEW k \in associated' PROVE \E e \in D : line'[load][e] = k
    OBVIOUS
  <2>1. CASE k = l
    BY <1>2, <1>4, <2>1
  <2>2. CASE k # l
    <3>1. PICK e \in Done : line[load][e] = k
      BY <1>1, <1>5, <2>2
    <3>2. e \in D /\ line'[load][e] = k
      BY <1>2, <1>4, <3>1
    <3> QED
      BY <3>2
  <2> QED
    BY <2>1, <2>2
<1>11. /\ todo' \subseteq devices'[load] /\ devices'[load] \subseteq file.devices
       /\ associated' \subseteq file.lines
  BY <1>1, <1>3, <1>5
<1> QED
  BY <1>1, <1>6, <1>7, <1>8, <1>9, <1>10, <1>11 DEF Building, D

LEMMA BuildingStep ==
  ASSUME Base, Order, Building, [Next]_vars
  PROVE  Building'
<1>0. Loading => load \in Loads
  BY DEF Order
<1>1. CASE Read
  <2>1. PICK f \in Files :
          /\ file' = f /\ load' = load + 1 /\ todo' = f.devices /\ associated' = {} /\ pc' = "devices"
          /\ devices' = [devices EXCEPT ![load'] = f.devices]
          /\ lines' = [lines EXCEPT ![load'] = f.lines]
          /\ speeddials' = [speeddials EXCEPT ![load'] = f.speeddials]
          /\ UNCHANGED <<guestCfg, line, dials>>
    BY <1>1 DEF Read
  <2>2. load \in Nat /\ load' \in Loads /\ load' > load
    <3>1. load \in 0 .. LastLoad /\ load < LastLoad /\ LastLoad \in Nat
      BY <1>1, NameFacts DEF Read, Base
    <3> QED
      BY <2>1, <3>1 DEF Loads
  <2>3. Empty(load')
    BY <2>2 DEF Order
  <2>4. /\ devices'[load'] = f.devices /\ lines'[load'] = f.lines /\ speeddials'[load'] = f.speeddials
        /\ guestCfg'[load'] = None
        /\ \A d \in Devices : line'[load'][d] = None /\ dials'[load'][d] = << >>
    <3>1. guestCfg[load'] = None /\ \A d \in Devices : line[load'][d] = None /\ dials[load'][d] = << >>
      BY <2>3 DEF Empty
    <3> QED
      BY <2>1, <2>2, <3>1 DEF Base
  <2>5. Done' = {}
    BY <2>1, <2>4 DEF Done
  <2> QED
    BY <2>1, <2>4, <2>5 DEF Building
<1>2. CASE ReadFails
  BY <1>2 DEF ReadFails, Building
<1>3. ASSUME NEW d \in Devices, PreApplyDevice(d) PROVE Building'
  <2> DEFINE s == Known(file.dials[d], speeddials[load])
  <2>1. /\ pc = "devices" /\ pc' = pc /\ d \in todo /\ todo' = todo \ {d}
        /\ UNCHANGED <<load, file, lines, speeddials, guestCfg>> /\ load \in Loads
    BY <1>0, <1>3 DEF PreApplyDevice, Loading
  <2>2. IsSelection(s, file.dials[d], file.speeddials)
    <3>1. file.dials[d] \in Seq(SpeedDials)
      BY NameFacts DEF Base, FileType
    <3>2. speeddials[load] = file.speeddials
      BY <2>1 DEF Building
    <3> QED
      BY <3>1, <3>2, KnownSelects
  <2>3. \/ /\ ~LineIsFree(d) /\ UNCHANGED <<associated, line, dials, ooms>>
           /\ devices' = [devices EXCEPT ![load] = devices[load] \ {d}]
        \/ /\ LineIsFree(d) /\ associated' = associated \cup {file.line[d]}
           /\ line' = [line EXCEPT ![load][d] = file.line[d]]
           /\ dials' = [dials EXCEPT ![load][d] = s] /\ UNCHANGED <<devices, ooms>>
        \/ /\ LineIsFree(d) /\ associated' = associated \cup {file.line[d]} /\ ooms' = ooms + 1
           /\ devices' = [devices EXCEPT ![load] = devices[load] \ {d}]
           /\ UNCHANGED <<line, dials>>
    BY <1>3 DEF PreApplyDevice
  <2> HIDE DEF s
  <2>4. CASE /\ ~LineIsFree(d) /\ UNCHANGED <<associated, line, dials, ooms>>
             /\ devices' = [devices EXCEPT ![load] = devices[load] \ {d}]
    BY <2>1, <2>4, DropBuilding
  <2>5. CASE /\ LineIsFree(d) /\ associated' = associated \cup {file.line[d]}
             /\ line' = [line EXCEPT ![load][d] = file.line[d]]
             /\ dials' = [dials EXCEPT ![load][d] = s] /\ UNCHANGED <<devices, ooms>>
    BY <2>1, <2>2, <2>5, AddBuilding
  <2>6. CASE /\ LineIsFree(d) /\ associated' = associated \cup {file.line[d]} /\ ooms' = ooms + 1
             /\ devices' = [devices EXCEPT ![load] = devices[load] \ {d}]
             /\ UNCHANGED <<line, dials>>
    BY <2>1, <2>6, DropBuilding
  <2> QED
    BY <2>3, <2>4, <2>5, <2>6
<1>4. CASE PreApplyLines
  <2>1. /\ pc = "devices" /\ pc' = "general" /\ todo = {} /\ load \in Loads
        /\ lines' = [lines EXCEPT ![load] = lines[load] \cap associated]
        /\ UNCHANGED <<load, file, todo, associated, devices, speeddials, guestCfg, line, dials, ooms>>
    BY <1>0, <1>4 DEF PreApplyLines, Loading
  <2>2. Done' = Done /\ lines'[load] = lines[load] \cap associated
    BY <2>1 DEF Done, Base
  <2>3. lines[load] = file.lines /\ associated \subseteq file.lines
    BY <2>1 DEF Building
  <2>4. lines'[load] = associated
    BY <2>2, <2>3
  <2> QED
    BY <2>1, <2>2, <2>4 DEF Building
<1>5. CASE PreApplyGeneral
  BY <1>5 DEF PreApplyGeneral, Building
<1>6. CASE Apply
  BY <1>6 DEF Apply, Building
<1>7. CASE Destroy
  BY <1>7 DEF Destroy, Building
<1>8. ASSUME UNCHANGED <<loading, built>> PROVE Building'
  <2>1. UNCHANGED <<pc, load, file, todo, associated, ooms, devices, lines, speeddials, guestCfg, line, dials>>
    BY <1>8 DEF loading, built
  <2>2. Done' = Done
    BY <2>1 DEF Done
  <2> QED
    BY <2>1, <2>2 DEF Building
<1>9. ASSUME NEW p \in Phones,
             \/ sccp_session_create(p) \/ sccp_session_handle_msg_register(p)
             \/ process_reload_config(p) \/ EndSession(p) \/ FreeDevice(p)
      PROVE  UNCHANGED <<loading, built>>
  BY <1>9 DEF sccp_session_create, sccp_session_handle_msg_register, process_reload_config,
       EndSession, FreeDevice
<1>10. CASE UNCHANGED vars
  BY <1>8, <1>10 DEF vars
<1> QED
  BY <1>1, <1>2, <1>3, <1>4, <1>5, <1>6, <1>7, <1>8, <1>9, <1>10 DEF Next

(* What is applied is as the file says.                                    *)
LEMMA WrittenStep ==
  ASSUME Base, Order, Building, AppliedAsWritten, [Next]_vars
  PROVE  AppliedAsWritten'
<1>1. CASE PreApplyGeneral
  <2> SUFFICES ASSUME ooms' = 0 PROVE AppliedAsWritten'
    BY DEF AppliedAsWritten
  <2>1. /\ pc = "general" /\ load \in Loads /\ ooms = 0
        /\ UNCHANGED <<load, file, todo, associated, speeddials, line, dials>>
    BY <1>1 DEF PreApplyGeneral, Order, Loading
  <2>2. /\ todo = {} /\ devices[load] \subseteq file.devices /\ Done = devices[load]
        /\ guestCfg[load] = None
        /\ \A d \in Done :
             /\ line[load][d] = file.line[d]
             /\ IsSelection(dials[load][d], file.dials[d], file.speeddials)
        /\ \A d \in file.devices : file.line[d] \in file.lines => file.line[d] \in associated
        /\ \A l \in associated : \E d \in Done : line[load][d] = l
    BY <2>1 DEF Building, Done
  <2>3. /\ \A d \in DevicesOf(load)' : d \in devices[load]
        /\ \A d \in devices[load] : d \in DevicesOf(load)' \/ (d = Guest /\ ~file.guest)
    <3>1. CASE Guest \in devices[load]
      <4>1. /\ devices' = [devices EXCEPT ![load] = devices[load] \ {Guest}]
            /\ guestCfg' = [guestCfg EXCEPT ![load] = IF file.guest THEN Guest ELSE None]
        BY <1>1, <3>1 DEF PreApplyGeneral
      <4>2. /\ devices'[load'] = devices[load] \ {Guest}
            /\ guestCfg'[load'] = IF file.guest THEN Guest ELSE None
        BY <2>1, <4>1 DEF Base
      <4>3. Guest # None
        BY NameFacts
      <4> QED
        BY <2>1, <3>1, <4>2, <4>3 DEF DevicesOf
    <3>2. CASE Guest \notin devices[load]
      <4>1. UNCHANGED <<devices, guestCfg>>
        BY <1>1, <3>2 DEF PreApplyGeneral
      <4> QED
        BY <2>1, <2>2, <4>1 DEF DevicesOf
    <3> QED
      BY <3>1, <3>2
  <2> DEFINE O == DevicesOf(load)'
  <2> HIDE DEF O
  <2>4. /\ \A d \in O : d \in devices[load]
        /\ \A d \in devices[load] : d \in O \/ (d = Guest /\ ~file.guest)
    BY <2>3 DEF O
  <2>5. \A l \in file.lines :
          {d \in file.devices : file.line[d] = l} # {} =>
            \/ \E d \in {e \in file.devices : file.line[e] = l} \cap O : line[load][d] = l
            \/ Guest \in {d \in file.devices : file.line[d] = l} /\ ~file.guest
    <3> SUFFICES ASSUME NEW l \in file.lines, NEW c \in file.devices, file.line[c] = l
        PROVE  \/ \E d \in {e \in file.devices : file.line[e] = l} \cap O : line[load][d] = l
               \/ Guest \in {d \in file.devices : file.line[d] = l} /\ ~file.guest
      OBVIOUS
    <3>1. l \in associated
      BY <2>2
    <3>2. PICK d \in Done : line[load][d] = l
      BY <2>2, <3>1
    <3>3. d \in file.devices /\ file.line[d] = l /\ d \in devices[load]
      BY <2>2, <3>2
    <3> QED
      BY <2>4, <3>2, <3>3
  <2>6. \A d \in O : /\ d \in file.devices /\ line[load][d] = file.line[d]
                     /\ IsSelection(dials[load][d], file.dials[d], file.speeddials)
    BY <2>2, <2>4
  <2>7. line' = line /\ dials' = dials /\ file' = file /\ load' = load
    BY <2>1
  <2> QED
    BY <2>5, <2>6, <2>7, Zenon DEF AppliedAsWritten, O
<1>2. ASSUME UNCHANGED <<loading, built>> PROVE AppliedAsWritten'
  <2>1. UNCHANGED <<pc, load, file, ooms, devices, guestCfg, line, dials>>
    BY <1>2 DEF loading, built
  <2>2. DevicesOf(load)' = DevicesOf(load)
    BY <2>1 DEF DevicesOf
  <2> QED
    BY <2>1, <2>2 DEF AppliedAsWritten
<1>3. ASSUME NEW p \in Phones,
             \/ sccp_session_create(p) \/ sccp_session_handle_msg_register(p)
             \/ process_reload_config(p) \/ EndSession(p) \/ FreeDevice(p)
      PROVE  UNCHANGED <<loading, built>>
  BY <1>3 DEF sccp_session_create, sccp_session_handle_msg_register, process_reload_config,
       EndSession, FreeDevice
<1>4. CASE UNCHANGED vars
  BY <1>2, <1>4 DEF vars
<1>5. ASSUME \/ Read \/ ReadFails \/ (\E d \in Devices : PreApplyDevice(d)) \/ PreApplyLines
             \/ Apply \/ Destroy
      PROVE  AppliedAsWritten'
  <2>1. pc' # "apply"
    BY <1>5 DEF Read, ReadFails, PreApplyDevice, PreApplyLines, Apply, Destroy
  <2> QED
    BY <2>1 DEF AppliedAsWritten
<1> QED
  BY <1>1, <1>2, <1>3, <1>4, <1>5 DEF Next

(* A configuration that is alive is being loaded, in force or a session's. *)
UsedOnly ==
  \A g \in Loads : IsAlive(g, "cfg") =>
    IsLoading(g) \/ global = g \/ \E p \in Phones : cfg[p] = g

(* And these are alive.                                                    *)
LEMMA UsedNow == (Base /\ Order /\ AllFair) => UsedOnly
<1> SUFFICES ASSUME Base, Order, AllFair, NEW g \in Loads, refs[g]["cfg"] > 0
    PROVE  IsLoading(g) \/ global = g \/ \E p \in Phones : cfg[p] = g
  BY DEF UsedOnly, IsAlive
<1> QED
  BY CfgAlive

(* So they are after a step.                                               *)
LEMMA UsedNext == (Base' /\ Order' /\ AllFair') => UsedOnly'
BY UsedNow, PTL

(* What a step leaves of a configuration that was applied.                 *)
LinesKept(g) ==
  /\ IsAlive(g, "cfg") /\ (IsLoading(g) => pc = "apply")
  /\ devices'[g] = devices[g] /\ lines'[g] = lines[g]
  /\ guestCfg'[g] = guestCfg[g] /\ line'[g] = line[g]
  /\ ooms' = 0 => ooms = 0

(* A configuration that is alive was so before the step, with the same     *)
(* lines, unless the step has just prepared it.                            *)
LEMMA ServedBefore ==
  ASSUME Base, Order, AllFair, Base', Order', AllFair', [Next]_vars,
         NEW g \in Loads, IsAlive(g, "cfg")', IsLoading(g)' => pc' = "apply"
  PROVE  (PreApplyGeneral /\ g = load) \/ LinesKept(g)
<1>0. /\ load \in Nat /\ ooms \in Nat
      /\ Loading => load \in Loads
  BY NameFacts DEF Base, Order
<1>1. IsLoading(g)' \/ global' = g \/ \E p \in Phones : cfg'[p] = g
  BY UsedNext DEF UsedOnly
<1>2. /\ IsLoading(g) => IsAlive(g, "cfg")
      /\ global = g => IsAlive(g, "cfg") /\ ~IsLoading(g)
      /\ \A p \in Phones : cfg[p] = g => IsAlive(g, "cfg") /\ ~IsLoading(g)
  BY CfgAlive DEF IsAlive
<1>3. CASE Read
  <2>1. PICK f \in Files :
          /\ load' = load + 1 /\ pc = "idle" /\ pc' = "devices"
          /\ devices' = [devices EXCEPT ![load'] = f.devices]
          /\ lines' = [lines EXCEPT ![load'] = f.lines]
          /\ \E e : refs' = [refs EXCEPT ![load'] = e]
          /\ UNCHANGED <<guestCfg, line, ooms>>
    BY <1>3 DEF Read
  <2>2. g # load'
    BY <2>1 DEF IsLoading
  <2>3. devices'[g] = devices[g] /\ lines'[g] = lines[g] /\ refs'[g] = refs[g]
    BY <2>1, <2>2 DEF Base
  <2> QED
    BY <2>1, <2>3 DEF LinesKept, IsAlive, IsLoading
<1>4. CASE ReadFails
  <2>1. pc' = "idle" /\ UNCHANGED <<global, cfg, ooms>> /\ UNCHANGED built
    BY <1>4 DEF ReadFails
  <2>2. global = g \/ \E p \in Phones : cfg[p] = g
    BY <1>1, <2>1 DEF IsLoading
  <2> QED
    BY <1>2, <2>1, <2>2 DEF LinesKept, built
<1>5. ASSUME NEW d \in Devices, PreApplyDevice(d) PROVE LinesKept(g)
  <2>1. /\ pc = "devices" /\ pc' = pc /\ load' = load
        /\ \E e : refs' = [refs EXCEPT ![load] = e]
        /\ devices' = devices \/ \E e : devices' = [devices EXCEPT ![load] = e]
        /\ line' = line \/ \E e : line' = [line EXCEPT ![load] = e]
        /\ UNCHANGED <<lines, guestCfg>> /\ (ooms' = ooms \/ ooms' = ooms + 1)
    BY <1>5 DEF PreApplyDevice
  <2>2. g # load
    BY <2>1 DEF IsLoading
  <2>3. devices'[g] = devices[g] /\ line'[g] = line[g] /\ refs'[g] = refs[g]
    BY <2>1, <2>2 DEF Base
  <2> QED
    BY <1>0, <2>1, <2>2, <2>3 DEF LinesKept, IsAlive, IsLoading
<1>6. CASE PreApplyLines
  <2>1. /\ pc = "devices" /\ pc' = "general" /\ load' = load
        /\ \E e : refs' = [refs EXCEPT ![load] = e]
        /\ \E e : lines' = [lines EXCEPT ![load] = e]
        /\ UNCHANGED <<devices, guestCfg, line, ooms>>
    BY <1>6 DEF PreApplyLines
  <2>2. g # load
    BY <2>1 DEF IsLoading
  <2>3. lines'[g] = lines[g] /\ refs'[g] = refs[g]
    BY <2>1, <2>2 DEF Base
  <2> QED
    BY <2>1, <2>2, <2>3 DEF LinesKept, IsAlive, IsLoading
<1>7. CASE PreApplyGeneral /\ g # load
  <2>1. /\ load' = load
        /\ refs' = refs \/ \E e : refs' = [refs EXCEPT ![load] = e]
        /\ lines' = lines \/ \E e : lines' = [lines EXCEPT ![load] = e]
        /\ devices' = devices \/ \E e : devices' = [devices EXCEPT ![load] = e]
        /\ guestCfg' = guestCfg \/ \E e : guestCfg' = [guestCfg EXCEPT ![load] = e]
        /\ UNCHANGED <<line, ooms>>
    BY <1>7 DEF PreApplyGeneral
  <2>2. /\ lines'[g] = lines[g] /\ refs'[g] = refs[g] /\ devices'[g] = devices[g]
        /\ guestCfg'[g] = guestCfg[g]
    BY <1>7, <2>1 DEF Base
  <2> QED
    BY <1>7, <2>1, <2>2 DEF LinesKept, IsAlive, IsLoading
<1>8. CASE Apply
  <2>1. pc = "apply" /\ pc' = "idle" /\ global' = load /\ cfg' = cfg /\ ooms' = ooms /\ UNCHANGED built
    BY <1>8 DEF Apply
  <2>2. IsLoading(g) \/ \E p \in Phones : cfg[p] = g
    BY <1>1, <2>1 DEF IsLoading
  <2> QED
    BY <1>2, <2>1, <2>2 DEF LinesKept, built
<1>9. CASE Destroy
  <2>1. pc' = "destroyed" /\ global' = 0 /\ cfg' = cfg /\ ooms' = ooms /\ UNCHANGED built
    BY <1>9 DEF Destroy
  <2>2. \E p \in Phones : cfg[p] = g
    BY <1>1, <2>1 DEF IsLoading, Loads
  <2> QED
    BY <1>2, <2>1, <2>2 DEF LinesKept, built
<1>10. ASSUME UNCHANGED <<loading, built, global>>,
              \A p \in Phones : cfg'[p] = g => cfg[p] = g \/ global = g
       PROVE  LinesKept(g)
  <2>1. UNCHANGED <<pc, load, ooms, devices, lines, guestCfg, line, global>>
    BY <1>10 DEF loading, built
  <2>2. (IsLoading(g)' <=> IsLoading(g)) /\ pc' = pc
    BY <2>1 DEF IsLoading
  <2>3. IsLoading(g) \/ global = g \/ \E p \in Phones : cfg[p] = g
    BY <1>1, <1>10, <2>1, <2>2
  <2> QED
    BY <1>2, <2>1, <2>2, <2>3 DEF LinesKept
<1>11. ASSUME NEW p \in Phones,
              \/ sccp_session_create(p) \/ sccp_session_handle_msg_register(p)
              \/ process_reload_config(p) \/ EndSession(p) \/ FreeDevice(p)
       PROVE  LinesKept(g)
  <2>1. UNCHANGED <<loading, built, global>>
    BY <1>11 DEF sccp_session_create, sccp_session_handle_msg_register, process_reload_config,
         EndSession, FreeDevice
  <2>2. cfg' = cfg \/ cfg' = [cfg EXCEPT ![p] = global] \/ cfg' = [cfg EXCEPT ![p] = 0]
    BY <1>11 DEF sccp_session_create, sccp_session_handle_msg_register, process_reload_config,
         EndSession, FreeDevice
  <2>3. \A q \in Phones : cfg'[q] = g => cfg[q] = g \/ global = g
    BY <2>2 DEF Base, Loads
  <2> QED
    BY <1>10, <2>1, <2>3
<1>12. CASE UNCHANGED vars
  <2>1. UNCHANGED <<loading, built, global>> /\ cfg' = cfg
    BY <1>12 DEF vars
  <2> QED
    BY <1>10, <2>1
<1> QED
  BY <1>3, <1>4, <1>5, <1>6, <1>7, <1>8, <1>9, <1>11, <1>12 DEF Next

(* With the guest device out of the container, the lines are as they are   *)
(* to be.                                                                  *)
LEMMA PreparedLines ==
  ASSUME Base, Order, Building, PreApplyGeneral
  PROVE  LinesOf(load)'
<1>1. /\ pc = "general" /\ load \in Loads /\ load' = load /\ ooms' = ooms /\ line' = line
  BY DEF PreApplyGeneral, Order, Loading
<1> DEFINE D == devices[load]
           L == lines[load]
           l == line[load]
<1>2. /\ guestCfg[load] = None
      /\ \A d \in D : l[d] \in L /\ l[d] \in Lines
      /\ \A d, e \in D : l[d] = l[e] => d = e
      /\ ooms = 0 => \A k \in L : \E d \in D : l[d] = k
  <2>1. Done = D /\ L = associated
    BY <1>1 DEF Building, Done
  <2> QED
    BY <1>1, <2>1 DEF Building, Base
<1>3. None \notin Lines /\ None # Guest
  BY NameFacts DEF Names
<1>4. CASE Guest \in D
  <2>1. /\ devices' = [devices EXCEPT ![load] = D \ {Guest}]
        /\ lines' = [lines EXCEPT ![load] = L \ {l[Guest]}]
        /\ guestCfg' = [guestCfg EXCEPT ![load] = IF file.guest THEN Guest ELSE None]
    BY <1>4 DEF PreApplyGeneral
  <2>2. /\ devices'[load] = D \ {Guest} /\ lines'[load] = L \ {l[Guest]}
        /\ guestCfg'[load] = Guest \/ guestCfg'[load] = None
    BY <1>1, <2>1 DEF Base
  <2> HIDE DEF D, L, l
  <2>3. DevicesOf(load)' \subseteq D
    BY <1>1, <1>3, <1>4, <2>2 DEF DevicesOf
  <2>4. \A d \in D \ {Guest} : l[d] \in L \ {l[Guest]}
    BY <1>2, <1>4
  <2>5. ooms = 0 => \A k \in L \ {l[Guest]} : \E d \in D \ {Guest} : l[d] = k
    BY <1>2
  <2>6. l = line'[load'] /\ load' = load
    BY <1>1 DEF l
  <2>7. guestCfg'[load] # None => l[guestCfg'[load]] \notin L \ {l[Guest]}
    BY <2>2
  <2>8. /\ \A d \in DevicesOf(load)' : l[d] # None
        /\ \A d, e \in DevicesOf(load)' : l[d] = l[e] => d = e
    BY <1>2, <1>3, <2>3
  <2> QED
    BY <1>1, <2>2, <2>4, <2>5, <2>6, <2>7, <2>8 DEF LinesOf
<1>5. CASE Guest \notin D
  <2>1. UNCHANGED <<devices, lines, guestCfg>>
    BY <1>5 DEF PreApplyGeneral
  <2>2. DevicesOf(load)' = D
    BY <1>1, <1>2, <2>1 DEF DevicesOf
  <2>3. /\ devices'[load'] = D /\ lines'[load'] = L /\ line'[load'] = l /\ guestCfg'[load'] = None
    BY <1>1, <1>2, <2>1
  <2> HIDE DEF D, L, l
  <2> QED
    BY <1>1, <1>2, <1>3, <2>2, <2>3 DEF LinesOf
<1> QED
  BY <1>4, <1>5

(* The lines of every configuration in use are as they are to be.          *)
LEMMA ServedStep ==
  ASSUME Base, Order, Building, AllFair, Served, [Next]_vars, Base', Order', AllFair'
  PROVE  Served'
<1> SUFFICES ASSUME NEW g \in Loads, IsAlive(g, "cfg")', IsLoading(g)' => pc' = "apply"
    PROVE  LinesOf(g)'
  BY DEF Served
<1>1. CASE PreApplyGeneral /\ g = load
  <2>1. load' = load
    BY <1>1 DEF PreApplyGeneral
  <2>2. LinesOf(load)'
    BY <1>1, PreparedLines
  <2> QED
    BY <1>1, <2>1, <2>2 DEF LinesOf, DevicesOf
<1>2. CASE LinesKept(g)
  <2>1. LinesOf(g)
    BY <1>2 DEF LinesKept, Served
  <2>2. DevicesOf(g)' = DevicesOf(g)
    BY <1>2 DEF LinesKept, DevicesOf
  <2> QED
    BY <1>2, <2>1, <2>2 DEF LinesOf, LinesKept
<1> QED
  BY <1>1, <1>2, ServedBefore

-----------------------------------------------------------------------------
(* The theorems.                                                           *)

(* Nothing is loaded at first, and nobody holds anything.                  *)
LEMMA InitBase == Init => Base /\ Order /\ AllFair
<1> SUFFICES ASSUME Init PROVE Base /\ Order /\ AllFair
  OBVIOUS
<1>0. LastLoad \in Nat /\ MaxOoms \in Nat
  BY NameFacts
<1>1. Base
  <2>1. << >> \in Seq(SpeedDials)
    OBVIOUS
  <2>2. [d \in Devices |-> << >>] \in [Devices -> Seq(SpeedDials)]
    BY <2>1
  <2>3. dials \in [Loads -> [Devices -> Seq(SpeedDials)]]
    BY <2>2 DEF Init
  <2>4. line \in [Loads -> [Devices -> Lines \cup {None}]]
    BY DEF Init
  <2>5. /\ refs \in [Loads -> [Names -> Int]]
        /\ made \in [Phones -> [load : 0 .. LastLoad, device : Devices \cup {None}]]
    BY <1>0 DEF Init, NoDevice
  <2>6. /\ devices \in [Loads -> SUBSET Devices] /\ lines \in [Loads -> SUBSET Lines]
        /\ speeddials \in [Loads -> SUBSET SpeedDials]
        /\ guestCfg \in [Loads -> Devices \cup {None}]
        /\ cfg \in [Phones -> 0 .. LastLoad]
    BY <1>0 DEF Init
  <2>7. /\ pc = "idle" /\ load \in 0 .. LastLoad /\ file \in Files /\ global \in 0 .. LastLoad
        /\ todo \subseteq Devices /\ associated \subseteq Lines /\ ooms \in 0 .. MaxOoms
    BY <1>0 DEF Init
  <2> QED
    BY <2>3, <2>4, <2>5, <2>6, <2>7 DEF Base
<1>2. ASSUME NEW g \in Loads PROVE Empty(g)
  BY DEF Init, Empty
<1>3. /\ ~Loading /\ load = 0 /\ global = 0
      /\ \A p \in Phones : cfg[p] = 0 /\ made[p] = NoDevice /\ made[p].load = 0
  BY DEF Init, Loading, NoDevice
<1>4. Order
  BY <1>2, <1>3 DEF Order, Last
<1>5. ASSUME NEW g \in Loads
      PROVE  CfgHeld(g) /\ Fair(line[g], dials[g], Contents(g), refs[g], made, g)
  <2>1. 0 # g
    BY DEF Loads
  <2>2. \A x \in Names : refs[g][x] = 0
    BY <1>2 DEF Empty
  <2>3. Cardinality({}) = 0
    BY FS_EmptySet
  <2>4. CfgHeld(g)
    <3>1. ~IsLoading(g) /\ global # g
      BY <1>3, <2>1 DEF IsLoading, Loading
    <3>2. Sessions(cfg, g) = {}
      BY <1>3, <2>1 DEF Sessions
    <3> QED
      BY <2>2, <2>3, <3>1, <3>2, NameFacts DEF CfgHeld, Count
  <2>5. ASSUME NEW x \in Objects
        PROVE  refs[g][x] =
                 (Count(refs[g]["cfg"] > 0 /\ x \in Contents(g))
                  + (Cardinality({p \in Phones : made[p].load = g /\ made[p].device = x})
                     + Cardinality(UNION {{p} \X Places(line[g][made[p].device],
                                                       dials[g][made[p].device], x) :
                                            p \in {q \in Phones : made[q].load = g}})))
                 + Cardinality(UNION {{d} \X Places(line[g][d], dials[g][d], x) :
                                        d \in Alive(refs[g])})
    <3>1. refs[g][x] = 0 /\ refs[g]["cfg"] = 0
      BY <2>2, NameFacts DEF Objects
    <3>2. Count(refs[g]["cfg"] > 0 /\ x \in Contents(g)) = 0
      BY <3>1 DEF Count
    <3>3. /\ {q \in Phones : made[q].load = g} = {}
          /\ {p \in Phones : made[p].load = g /\ made[p].device = x} = {}
      BY <1>3, <2>1
    <3>4. Alive(refs[g]) = {}
      BY <2>2, NameFacts DEF Alive
    <3>5. /\ UNION {{p} \X Places(line[g][made[p].device], dials[g][made[p].device], x) :
                      p \in {q \in Phones : made[q].load = g}} = {}
          /\ UNION {{d} \X Places(line[g][d], dials[g][d], x) : d \in Alive(refs[g])} = {}
      BY <3>3, <3>4
    <3> DEFINE c == Count(refs[g]["cfg"] > 0 /\ x \in Contents(g))
               u == Cardinality({p \in Phones : made[p].load = g /\ made[p].device = x})
               v == Cardinality(UNION {{p} \X Places(line[g][made[p].device],
                                                    dials[g][made[p].device], x) :
                                         p \in {q \in Phones : made[q].load = g}})
               h == Cardinality(UNION {{d} \X Places(line[g][d], dials[g][d], x) :
                                         d \in Alive(refs[g])})
    <3>6. c = 0 /\ u = 0 /\ v = 0 /\ h = 0
      BY <2>3, <3>2, <3>3, <3>5, Zenon
    <3> HIDE DEF c, u, v, h
    <3>7. refs[g][x] = (c + (u + v)) + h
      BY <3>1, <3>6
    <3> QED
      BY <3>7 DEF c, u, v, h
  <2> QED
    BY <2>4, <2>5, Zenon DEF Fair
<1> QED
  BY <1>1, <1>4, <1>5 DEF AllFair

(* Whatever the files say and whoever holds what they became.              *)
THEOREM ConfigInvariant == Spec => []ConfigInv
<1>1. Init => ConfigInv
  <2> SUFFICES ASSUME Init PROVE ConfigInv
    OBVIOUS
  <2>1. Base /\ Order /\ AllFair
    BY InitBase
  <2>2. RefsMatchHolders
    BY <2>1, HoldersAre
  <2>3. pc = "idle" /\ \A g \in Loads : refs[g]["cfg"] = 0
    BY NameFacts DEF Init
  <2>4. Building /\ AppliedAsWritten /\ Served
    BY <2>3 DEF Building, AppliedAsWritten, Served, IsAlive
  <2> QED
    BY <2>1, <2>2, <2>4 DEF ConfigInv
<1>2. ConfigInv /\ [Next]_vars => ConfigInv'
  <2> SUFFICES ASSUME ConfigInv, [Next]_vars PROVE ConfigInv'
    OBVIOUS
  <2>1. Base /\ Order /\ Building /\ Served /\ AppliedAsWritten /\ AllFair
    BY HoldersAre DEF ConfigInv
  <2>2. RefsType' /\ AllFair'
    BY <2>1, RefsStep
  <2>3. Base'
    BY <2>1, <2>2, BaseStep
  <2>4. Order'
    BY <2>1, OrderStep
  <2>5. Building'
    BY <2>1, BuildingStep
  <2>6. AppliedAsWritten'
    BY <2>1, WrittenStep
  <2>7. Served'
    BY <2>1, <2>2, <2>3, <2>4, ServedStep
  <2>8. RefsMatchHolders'
    BY <2>2, <2>3, <2>4, HoldersAreNext
  <2> QED
    BY <2>3, <2>4, <2>5, <2>6, <2>7, <2>8 DEF ConfigInv
<1> QED
  BY <1>1, <1>2, PTL DEF Spec

(* A count that is that of the holders is not negative.                    *)
LEMMA CountsAreNatural ==
  ASSUME Base, Order, AllFair
  PROVE  refs \in [Loads -> [Names -> Nat]]
<1> SUFFICES ASSUME NEW g \in Loads, NEW x \in Names PROVE refs[g][x] \in Nat
  BY DEF Base
<1>1. CASE x = "cfg"
  BY <1>1, CfgAlive
<1>2. CASE x # "cfg"
  <2> DEFINE c == Count(refs[g]["cfg"] > 0 /\ x \in Contents(g))
             u == Cardinality({p \in Phones : made[p].load = g /\ made[p].device = x})
             v == Cardinality(UNION {{p} \X Places(line[g][made[p].device],
                                                  dials[g][made[p].device], x) :
                                       p \in {q \in Phones : made[q].load = g}})
             h == Cardinality(UNION {{d} \X Places(line[g][d], dials[g][d], x) :
                                       d \in Alive(refs[g])})
  <2>1. x \in Objects
    BY <1>2 DEF Objects
  <2>2. refs[g][x] = (c + (u + v)) + h
    BY <2>1 DEF AllFair, Fair
  <2>3. u \in Nat /\ v \in Nat
    <3>1. /\ Cardinality(Names1(made, g, Phones, x)) \in Nat
          /\ Cardinality(Places1(made, g, Phones, x)) \in Nat
      BY MadeKnown, ByPhonesType
    <3>2. u = Cardinality(Names1(made, g, Phones, x)) /\ v = Cardinality(Places1(made, g, Phones, x))
      BY DEF Names1, Places1, Using, PlacesOf
    <3> HIDE DEF u, v
    <3> QED
      BY <3>1, <3>2
  <2>4. h \in Nat
    <3>1. h = FromDevices(g, Alive(refs[g]), x)
      BY DEF FromDevices, PlacesOf
    <3>2. Alive(refs[g]) \in SUBSET Devices
      BY DEF Alive
    <3> HIDE DEF h
    <3> QED
      BY <3>1, <3>2, FromDevicesFacts
  <2>5. c \in Nat
    BY CountFacts
  <2> HIDE DEF c, u, v, h
  <2> QED
    BY <2>2, <2>3, <2>4, <2>5
<1> QED
  BY <1>1, <1>2

(* Each object of each configuration has as many references as holders,    *)
(* whatever fails while it is loaded and whoever still uses an older one.  *)
THEOREM ConfigReferences == Spec => []ReferencesAreSound
<1>1. ConfigInv => ReferencesAreSound
  <2> SUFFICES ASSUME ConfigInv PROVE ReferencesAreSound
    OBVIOUS
  <2>1. Base /\ Order /\ AllFair /\ RefsMatchHolders
    BY HoldersAre DEF ConfigInv
  <2>2. refs \in [Loads -> [Names -> Nat]]
    BY <2>1, CountsAreNatural
  <2> QED
    BY <2>1, <2>2 DEF ReferencesAreSound, TypeOK, Base
<1> QED
  BY <1>1, ConfigInvariant, PTL

(* In every configuration that is in use a line belongs to one device, and *)
(* the guest device's is no line that can be called.                       *)
THEOREM ConfigLines == Spec => []LinesHaveOneDevice
<1>1. ConfigInv => LinesHaveOneDevice
  BY DEF ConfigInv, Served, LinesOf, LinesHaveOneDevice
<1> QED
  BY <1>1, ConfigInvariant, PTL

(* What is applied is what the file says, in whatever order the container  *)
(* of devices is traversed.                                                *)
THEOREM ConfigAsWritten == Spec => []AppliedAsWritten
<1>1. ConfigInv => AppliedAsWritten
  BY DEF ConfigInv
<1> QED
  BY <1>1, ConfigInvariant, PTL
=============================================================================
