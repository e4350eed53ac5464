--------------------------- MODULE KeyBatchProofs ---------------------------
(***************************************************************************)
(* That a batch is right in every field and for every number of keys.      *)
(*                                                                         *)
(* Rank(ks, k), the number of valid keys before the k-th, is where the     *)
(* first loop packs the Z coordinate of key k and where the second loop    *)
(* looks for its inverse.  The inversion rests on two facts of its loops:  *)
(* fe_out[j] is the product of the elements up to j while j has not been   *)
(* reached by the second, and u is the inverse of fe_out[i].               *)
(***************************************************************************)
EXTENDS KeyBatch, FiniteSetTheorems, TLAPS

Rank(ks, k) == Cardinality({j \in 0..(k - 1) : ScalarOf[ks[j]] # ZeroScalar})

\* How many keys the first loop is done with.
Reached == IF pc = "convert" THEN i ELSE count

Packing ==
    /\ \A k \in 0..(Reached - 1) : gej[k].infinity = ~Valid(k)
    /\ \A k \in 0..(Reached - 1) : Valid(k) =>
          /\ gej[k].scalar = ScalarOf[keys[k]]
          /\ gej[k].z = fe_in[Rank(keys, k)]
    /\ \A j \in 0..(Rank(keys, Reached) - 1) : fe_in[j] \in Units

Lengths ==
    /\ pc = "convert" => out_keys = Rank(keys, i) /\ len = 0
    /\ pc # "convert" => len = Rank(keys, count)
    /\ pc \in {"prefix", "unwind"} => len > 0 /\ out_keys = 0

Products(n) ==
    /\ fe_out[0] = fe_in[0]
    /\ \A j \in 1..n : fe_out[j] = Mul(fe_out[j - 1], fe_in[j])
    /\ \A j \in 0..n : fe_out[j] \in Units

Prefixes == pc = "prefix" => i \in 1..len /\ Products(i - 1)

Unwinding == pc = "unwind" =>
    /\ i \in 0..(len - 1)
    /\ Products(i)
    /\ u \in Units /\ Mul(u, fe_out[i]) = One
    /\ \A j \in (i + 1)..(len - 1) : Mul(fe_in[j], fe_out[j]) = One

Outputs ==
    /\ pc \notin {"affine", "done"} => \A k \in Slots : pubkeys[k] = Blank
    /\ pc \in {"affine", "done"} =>
          /\ out_keys = Rank(keys, i)
          /\ \A k \in 0..(i - 1) : pubkeys[k] = Expected(k)
          /\ \A k \in i..(count - 1) : pubkeys[k] = Blank
    /\ pc = "done" => i = count

IInv == TypeOK /\ Packing /\ Lengths /\ Prefixes /\ Unwinding /\ AllInverted /\ Outputs

-----------------------------------------------------------------------------
\* Counting the valid keys before a key.

LEMMA RankType ==
    ASSUME NEW ks, NEW k \in Nat
    PROVE  Rank(ks, k) \in 0..k /\ IsFiniteSet({j \in 0..(k - 1) : ScalarOf[ks[j]] # ZeroScalar})
<1> DEFINE V == {j \in 0..(k - 1) : ScalarOf[ks[j]] # ZeroScalar}
<1>1. IsFiniteSet(0..(k - 1)) /\ Cardinality(0..(k - 1)) = k
  <2>1. 0 \in Int /\ k - 1 \in Int OBVIOUS
  <2>2. QED BY <2>1, FS_Interval
<1>2. IsFiniteSet(V) /\ Cardinality(V) <= k
  BY <1>1, FS_Subset, V \subseteq 0..(k - 1)
<1>3. Cardinality(V) \in Nat BY <1>2, FS_CardinalityType
<1>4. QED BY <1>2, <1>3 DEF Rank

LEMMA RankZero == ASSUME NEW ks PROVE Rank(ks, 0) = 0
BY RankType, Rank(ks, 0) \in 0..0

LEMMA RankStep ==
    ASSUME NEW ks, NEW k \in Nat
    PROVE  Rank(ks, k + 1) = IF ScalarOf[ks[k]] # ZeroScalar THEN Rank(ks, k) + 1
                             ELSE Rank(ks, k)
<1> DEFINE V(n) == {j \in 0..(n - 1) : ScalarOf[ks[j]] # ZeroScalar}
<1>1. IsFiniteSet(V(k)) /\ k \notin V(k)
  <2>1. IsFiniteSet(V(k)) BY RankType
  <2>2. k \notin V(k) OBVIOUS
  <2>3. QED BY <2>1, <2>2
<1>2. CASE ScalarOf[ks[k]] # ZeroScalar
  <2>1. V(k + 1) = V(k) \cup {k} BY <1>2
  <2>2. Cardinality(V(k) \cup {k}) = Cardinality(V(k)) + 1
    <3> HIDE DEF V
    <3> QED BY <1>1, FS_AddElement
  <2>3. QED BY <1>2, <2>1, <2>2 DEF Rank
<1>3. CASE ScalarOf[ks[k]] = ZeroScalar
  <2>1. V(k + 1) = V(k) BY <1>3
  <2>2. QED BY <1>3, <2>1 DEF Rank
<1>4. QED BY <1>2, <1>3

\* Different valid keys are packed at different places.
LEMMA RankStrict ==
    ASSUME NEW ks, NEW m \in Nat, NEW n \in Nat, m < n, ScalarOf[ks[m]] # ZeroScalar
    PROVE  Rank(ks, m) < Rank(ks, n)
<1> DEFINE V(k) == {j \in 0..(k - 1) : ScalarOf[ks[j]] # ZeroScalar}
<1>1. V(m + 1) \subseteq V(n) OBVIOUS
<1>2. IsFiniteSet(V(n)) BY RankType
<1>3. Cardinality(V(m + 1)) <= Cardinality(V(n))
  <2> HIDE DEF V
  <2> QED BY <1>1, <1>2, FS_Subset
<1>4. Rank(ks, m + 1) <= Rank(ks, n) BY <1>3 DEF Rank
<1>5. Rank(ks, m + 1) = Rank(ks, m) + 1 BY RankStep
<1>6. Rank(ks, m) \in Nat /\ Rank(ks, n) \in Nat
  <2>1. Rank(ks, m) \in 0..m BY RankType
  <2>2. Rank(ks, n) \in 0..n BY RankType
  <2>3. QED BY <2>1, <2>2
<1>7. QED BY <1>4, <1>5, <1>6

-----------------------------------------------------------------------------
\* The algebra of one step of the second loop of secp256k1_fe_inv_all_var.

LEMMA DivideOut ==
    ASSUME NEW a \in Units, NEW b \in Units, NEW v \in Units, Mul(v, Mul(b, a)) = One
    PROVE  Mul(a, Mul(b, v)) = One /\ Mul(v, a) \in Units /\ Mul(Mul(v, a), b) = One
<1>1. Mul(b, a) \in Units /\ Mul(b, v) \in Units /\ Mul(v, a) \in Units
  BY FieldAssumption
<1>2. Mul(a, Mul(b, v)) = Mul(Mul(a, b), v) BY FieldAssumption
<1>3. Mul(a, b) = Mul(b, a) BY FieldAssumption
<1>4. Mul(Mul(b, a), v) = Mul(v, Mul(b, a)) BY <1>1, FieldAssumption
<1>5. Mul(Mul(v, a), b) = Mul(v, Mul(a, b)) BY FieldAssumption
<1>6. QED BY <1>1, <1>2, <1>3, <1>4, <1>5

-----------------------------------------------------------------------------
\* The invariant holds initially.

LEMMA InitIInv == Init => IInv
<1> SUFFICES ASSUME Init PROVE IInv OBVIOUS
<1> USE DEF Init
<1>1. count \in Nat /\ count >= 1 BY KeyAssumption DEF Counts
<1>2. TypeOK
  BY <1>1, KeyAssumption, FieldAssumption DEF TypeOK, Slots, Scalars
<1>3. Rank(keys, 0) = 0 BY RankZero
<1>4. Packing BY <1>3 DEF Packing, Reached
<1>5. Lengths BY <1>3 DEF Lengths
<1>6. Prefixes /\ Unwinding /\ AllInverted BY DEF Prefixes, Unwinding, AllInverted
<1>7. Outputs BY DEF Outputs
<1>8. QED BY <1>2, <1>4, <1>5, <1>6, <1>7 DEF IInv
-----------------------------------------------------------------------------
\* Every step preserves it.

LEMMA ConvertStep == IInv /\ Convert => IInv'
<1> SUFFICES ASSUME IInv, Convert PROVE IInv' OBVIOUS
<1> USE DEF IInv, Convert
<1>1. /\ count \in Nat /\ i \in 0..(count - 1) /\ i + 1 \in Nat
      /\ out_keys = Rank(keys, i) /\ keys[i] \in RawKeys
  <2>1. count \in Nat BY KeyAssumption DEF TypeOK, Counts
  <2>2. i \in 0..(count - 1) BY <2>1 DEF TypeOK
  <2>3. keys[i] \in RawKeys BY <2>2 DEF TypeOK, Slots
  <2>4. out_keys = Rank(keys, i) BY DEF Lengths
  <2>5. i + 1 \in Nat BY <2>1, <2>2
  <2>6. QED BY <2>1, <2>2, <2>3, <2>4, <2>5
<1>2. Rank(keys, i) \in 0..i
  <2>1. i \in Nat BY <1>1
  <2>2. QED BY <2>1, RankType
<1>3. ScalarOf[keys[i]] \in Scalars BY <1>1 DEF Scalars
<1>4. Rank(keys, i + 1) = IF Valid(i) THEN out_keys + 1 ELSE out_keys
  BY <1>1, RankStep DEF Valid
<1>5. \A k \in 0..(i - 1) : Valid(k) => Rank(keys, k) < out_keys
  <2> SUFFICES ASSUME NEW k \in 0..(i - 1), Valid(k) PROVE Rank(keys, k) < out_keys
    OBVIOUS
  <2>1. k \in Nat /\ i \in Nat /\ k < i BY <1>1
  <2>2. QED BY <2>1, <1>1, RankStrict DEF Valid
<1>6. \A k \in 0..(i - 1) : Rank(keys, k) \in Nat
  <2> SUFFICES ASSUME NEW k \in 0..(i - 1) PROVE Rank(keys, k) \in Nat OBVIOUS
  <2>1. k \in Nat BY <1>1
  <2>2. Rank(keys, k) \in 0..k BY <2>1, RankType
  <2>3. QED BY <2>1, <2>2
<1>7. CASE ~Valid(i)
  <2>1. /\ gej' = [gej EXCEPT ![i].infinity = TRUE]
        /\ UNCHANGED <<fe_in, out_keys>>
    BY <1>7 DEF Valid
  <2>2. gej' \in [Slots -> [infinity : BOOLEAN, scalar : Scalars, z : Field]]
    <3>1. i \in Slots /\ gej \in [Slots -> [infinity : BOOLEAN, scalar : Scalars, z : Field]]
      BY <1>1 DEF TypeOK, Slots
    <3>2. [gej[i] EXCEPT !.infinity = TRUE] \in [infinity : BOOLEAN, scalar : Scalars, z : Field]
      BY <3>1, ZenonT(30)
    <3>3. gej' = [gej EXCEPT ![i] = [gej[i] EXCEPT !.infinity = TRUE]] BY <2>1
    <3>4. gej' \in [Slots -> [infinity : BOOLEAN, scalar : Scalars, z : Field]]
      BY <3>1, <3>2, <3>3
    <3>5. Slots' = Slots BY DEF Slots
    <3>6. QED BY <3>4, <3>5
  <2>3. TypeOK' BY <1>1, <2>1, <2>2 DEF TypeOK, Slots
  <2>4. Packing'
    <3>1. gej'[i].infinity = TRUE BY <1>1, <2>1 DEF TypeOK, Slots
    <3>2. \A k \in 0..(i - 1) : gej'[k] = gej[k] BY <1>1, <2>1 DEF TypeOK, Slots
    <3>3. Reached' = i + 1 /\ Reached = i BY DEF Reached
    <3>4. \A k \in 0..i : Valid(k)' = Valid(k) BY DEF Valid
    <3>5. \A k \in 0..i : gej'[k].infinity = ~Valid(k)
      <4> TAKE k \in 0..i
      <4>1. CASE k = i BY <1>7, <3>1, <4>1
      <4>2. CASE k \in 0..(i - 1) BY <3>2, <3>3, <4>2 DEF Packing
      <4>3. QED BY <1>1, <4>1, <4>2
    <3>6. \A k \in 0..i : Valid(k) => /\ gej'[k].scalar = ScalarOf[keys[k]]
                                     /\ gej'[k].z = fe_in'[Rank(keys, k)]
      <4> SUFFICES ASSUME NEW k \in 0..i, Valid(k)
                   PROVE /\ gej'[k].scalar = ScalarOf[keys[k]]
                         /\ gej'[k].z = fe_in'[Rank(keys, k)]
        OBVIOUS
      <4>1. k \in 0..(i - 1) BY <1>1, <1>7
      <4>2. QED BY <2>1, <3>2, <3>3, <4>1 DEF Packing
    <3>7. Rank(keys, i + 1) = Rank(keys, i) BY <1>1, <1>4, <1>7
    <3>8. (Reached - 1)' = i BY <1>1, <3>3
    <3>9. \A j \in 0..(Rank(keys, i + 1) - 1) : fe_in'[j] \in Units
      BY <2>1, <3>3, <3>7 DEF Packing
    <3>10. \A k \in 0..i : gej'[k].infinity = ~Valid(k)' BY <3>4, <3>5
    <3>11. \A k \in 0..i : Valid(k)' => /\ gej'[k].scalar = ScalarOf[keys'[k]]
                                       /\ gej'[k].z = fe_in'[Rank(keys', k)]
      BY <3>4, <3>6
    <3>12. QED BY <3>3, <3>8, <3>9, <3>10, <3>11 DEF Packing
  <2>5. Lengths' BY <1>1, <1>4, <1>7, <2>1 DEF Lengths
  <2>6. Outputs' BY <2>1 DEF Outputs, Slots
  <2>7. QED BY <2>3, <2>4, <2>5, <2>6 DEF Prefixes, Unwinding, AllInverted
<1>8. CASE Valid(i)
  <2>1. PICK z \in Units :
           /\ gej' = [gej EXCEPT ![i] =
                         [infinity |-> FALSE, scalar |-> ScalarOf[keys[i]], z |-> z]]
           /\ fe_in' = [fe_in EXCEPT ![out_keys] = z]
           /\ out_keys' = out_keys + 1
    BY <1>8 DEF Valid
  <2>2. TypeOK'
    BY <1>1, <1>2, <1>3, <2>1 DEF TypeOK, Slots, Units
  <2>3. Packing'
    <3>1. fe_in'[out_keys] = z /\ gej'[i].z = z /\ gej'[i].infinity = FALSE
          /\ gej'[i].scalar = ScalarOf[keys[i]]
      BY <1>1, <1>2, <2>1 DEF TypeOK, Slots
    <3>2. \A k \in 0..(i - 1) : gej'[k] = gej[k]
      BY <1>1, <2>1 DEF TypeOK, Slots
    <3>3. \A j \in 0..(out_keys - 1) : fe_in'[j] = fe_in[j]
      BY <1>1, <1>2, <2>1 DEF TypeOK, Slots
    <3>4. \A k \in 0..(i - 1) : Valid(k) => Rank(keys, k) \in 0..(out_keys - 1)
      BY <1>1, <1>2, <1>5, <1>6
    <3>5. \A k \in 0..i : Valid(k)' = Valid(k) BY DEF Valid
    <3>6. Reached' = i + 1 /\ Reached = i BY DEF Reached
    <3>7. \A k \in 0..i : gej'[k].infinity = ~Valid(k)
      <4> TAKE k \in 0..i
      <4>1. CASE k = i BY <1>8, <3>1, <4>1
      <4>2. CASE k \in 0..(i - 1) BY <3>2, <3>6, <4>2 DEF Packing
      <4>3. QED BY <1>1, <4>1, <4>2
    <3>8. \A k \in 0..i : Valid(k) => /\ gej'[k].scalar = ScalarOf[keys[k]]
                                     /\ gej'[k].z = fe_in'[Rank(keys, k)]
      BY <1>1, <1>8, <3>1, <3>2, <3>3, <3>4, <3>6 DEF Packing
    <3>9. \A j \in 0..out_keys : fe_in'[j] \in Units
      BY <1>1, <1>2, <3>1, <3>3, <3>6 DEF Packing
    <3>10. QED
      BY <1>1, <1>2, <1>4, <1>8, <3>5, <3>6, <3>7, <3>8, <3>9 DEF Packing
  <2>4. Lengths' BY <1>1, <1>4, <1>8, <2>1 DEF Lengths
  <2>5. Outputs' BY <2>1 DEF Outputs, Slots
  <2>6. QED BY <2>2, <2>3, <2>4, <2>5 DEF Prefixes, Unwinding, AllInverted
<1>9. QED BY <1>7, <1>8

\* What the steps after the first loop do not change.
LEMMA AfterConvert ==
    ASSUME IInv, pc # "convert", pc' # "convert",
           UNCHANGED <<keys, count, gej, fe_in, len>>
    PROVE  /\ Packing'
           /\ len' = Rank(keys', count') /\ len \in 0..count /\ count \in Nat \ {0}
           /\ \A j \in 0..(len - 1) : fe_in[j] \in Units
<1>1. count \in Nat \ {0} BY KeyAssumption DEF IInv, TypeOK, Counts
<1>2. len = Rank(keys, count) /\ len \in 0..count BY DEF IInv, Lengths, TypeOK
<1>3. Packing' BY DEF IInv, Packing, Reached, Valid
<1>4. QED BY <1>1, <1>2, <1>3 DEF IInv, Packing, Reached

LEMMA ConvertedStep == IInv /\ Converted => IInv'
<1> SUFFICES ASSUME IInv, Converted PROVE IInv' OBVIOUS
<1> USE DEF IInv, Converted
<1>1. /\ count \in Nat \ {0} /\ i = count /\ len = 0
      /\ out_keys = Rank(keys, count) /\ out_keys \in 0..count
  BY KeyAssumption DEF TypeOK, Lengths, Counts
<1>2. Packing' BY <1>1 DEF Packing, Reached, Valid
<1>3. \A j \in 0..(out_keys - 1) : fe_in[j] \in Units BY <1>1 DEF Packing, Reached
<1>4. CASE out_keys > 0
  <2>1. fe_out'[0] = fe_in[0] BY <1>1, <1>4 DEF TypeOK, Slots
  <2>2. fe_in[0] \in Units /\ fe_in[0] \in Field BY <1>1, <1>3, <1>4 DEF Units
  <2>3. TypeOK' BY <1>1, <1>4, <2>2 DEF TypeOK, Slots
  <2>4. Lengths' BY <1>1, <1>4 DEF Lengths
  <2>5. Prefixes' BY <1>1, <1>4, <2>1, <2>2 DEF Prefixes, Products
  <2>6. Outputs' BY <1>4 DEF Outputs, Slots
  <2>7. QED BY <1>2, <1>4, <2>3, <2>4, <2>5, <2>6 DEF Unwinding, AllInverted
<1>5. CASE ~(out_keys > 0)
  <2>1. out_keys = 0 /\ Rank(keys, 0) = 0 BY <1>1, <1>5, RankZero
  <2>2. TypeOK' BY <1>1, <1>5 DEF TypeOK, Slots
  <2>3. Lengths' BY <1>1, <1>5, <2>1 DEF Lengths
  <2>4. Outputs' BY <1>1, <1>5, <2>1 DEF Outputs, Slots
  <2>5. AllInverted' BY <1>1, <1>5 DEF AllInverted
  <2>6. QED BY <1>2, <1>5, <2>2, <2>3, <2>4, <2>5 DEF Prefixes, Unwinding
<1>6. QED BY <1>4, <1>5

LEMMA PrefixStep == IInv /\ Prefix => IInv'
<1> SUFFICES ASSUME IInv, Prefix PROVE IInv' OBVIOUS
<1> USE DEF IInv, Prefix
<1>1. /\ Packing' /\ len' = Rank(keys', count')
      /\ len \in 0..count /\ count \in Nat \ {0}
      /\ \A j \in 0..(len - 1) : fe_in[j] \in Units
  BY AfterConvert
<1>2. i \in 1..(len - 1) /\ Products(i - 1) BY <1>1 DEF Prefixes, TypeOK
<1>3. fe_out[i - 1] \in Units /\ fe_in[i] \in Units BY <1>1, <1>2 DEF Products
<1>4. Mul(fe_out[i - 1], fe_in[i]) \in Units BY <1>3, FieldAssumption
<1>5. /\ fe_out'[i] = Mul(fe_out[i - 1], fe_in[i])
      /\ \A j \in 0..(i - 1) : fe_out'[j] = fe_out[j]
  BY <1>1, <1>2 DEF TypeOK, Slots
<1>6. TypeOK' BY <1>1, <1>2, <1>4 DEF TypeOK, Slots, Units
<1>7. Lengths' BY <1>1 DEF Lengths
<1>8. Prefixes'
  <2>1. /\ fe_out'[0] = fe_in[0]
        /\ \A j \in 1..i : fe_out'[j] = Mul(fe_out'[j - 1], fe_in[j])
        /\ \A j \in 0..i : fe_out'[j] \in Units
    BY <1>2, <1>4, <1>5 DEF Products
  <2>2. QED BY <1>1, <1>2, <2>1 DEF Prefixes, Products
<1>9. Outputs' BY DEF Outputs, Slots
<1>10. QED BY <1>1, <1>6, <1>7, <1>8, <1>9 DEF Unwinding, AllInverted

LEMMA InvertStep == IInv /\ Invert => IInv'
<1> SUFFICES ASSUME IInv, Invert PROVE IInv' OBVIOUS
<1> USE DEF IInv, Invert
<1>1. /\ Packing' /\ len' = Rank(keys', count')
      /\ len \in 0..count /\ count \in Nat \ {0}
  BY AfterConvert DEF scratchVars
<1>2. i = len /\ i \in 1..len /\ Products(i - 1) BY <1>1 DEF Prefixes, TypeOK
<1>3. fe_out[i - 1] \in Units BY <1>1, <1>2 DEF Products
<1>4. /\ u' \in Units /\ Mul(u', fe_out[i - 1]) = One
  BY <1>3, FieldAssumption
<1>5. TypeOK' BY <1>1, <1>2, <1>4 DEF TypeOK, Slots, Units, scratchVars
<1>6. Lengths' BY <1>1 DEF Lengths
<1>7. Unwinding'
  <2>1. UNCHANGED <<fe_in, fe_out>> BY DEF scratchVars
  <2>2. QED BY <1>1, <1>2, <1>4, <2>1 DEF Unwinding, Products
<1>8. Outputs' BY DEF Outputs, Slots
<1>9. QED BY <1>1, <1>5, <1>6, <1>7, <1>8 DEF Prefixes, AllInverted

LEMMA UnwindStep == IInv /\ Unwind => IInv'
<1> SUFFICES ASSUME IInv, Unwind PROVE IInv' OBVIOUS
<1> USE DEF IInv, Unwind
<1>1. /\ Packing' /\ len' = Rank(keys', count')
      /\ len \in 0..count /\ count \in Nat \ {0}
      /\ \A j \in 0..(len - 1) : fe_in[j] \in Units
  BY AfterConvert
<1>2. /\ i \in 1..(len - 1) /\ Products(i) /\ u \in Units /\ Mul(u, fe_out[i]) = One
      /\ \A j \in (i + 1)..(len - 1) : Mul(fe_in[j], fe_out[j]) = One
  BY <1>1 DEF Unwinding
<1>3. /\ fe_in[i] \in Units /\ fe_out[i - 1] \in Units
      /\ fe_out[i] = Mul(fe_out[i - 1], fe_in[i])
  BY <1>1, <1>2 DEF Products
<1>4. /\ Mul(fe_in[i], Mul(fe_out[i - 1], u)) = One
      /\ Mul(u, fe_in[i]) \in Units
      /\ Mul(Mul(u, fe_in[i]), fe_out[i - 1]) = One
  BY <1>2, <1>3, DivideOut
<1>5. Mul(fe_out[i - 1], u) \in Units BY <1>2, <1>3, FieldAssumption
<1>6. /\ fe_out'[i] = Mul(fe_out[i - 1], u)
      /\ \A j \in 0..(len - 1) : j # i => fe_out'[j] = fe_out[j]
  BY <1>1, <1>2 DEF TypeOK, Slots
<1>7. TypeOK' BY <1>1, <1>2, <1>4, <1>5 DEF TypeOK, Slots, Units
<1>8. Lengths' BY <1>1 DEF Lengths
<1>9. Unwinding'
  <2>1. /\ fe_out'[0] = fe_in[0]
        /\ \A j \in 1..(i - 1) : fe_out'[j] = Mul(fe_out'[j - 1], fe_in[j])
        /\ \A j \in 0..(i - 1) : fe_out'[j] \in Units
    BY <1>1, <1>2, <1>6 DEF Products
  <2>2. \A j \in i..(len - 1) : Mul(fe_in[j], fe_out'[j]) = One
    BY <1>1, <1>2, <1>4, <1>6
  <2>3. u' \in Units /\ Mul(u', fe_out'[i - 1]) = One BY <1>1, <1>2, <1>4, <1>6
  <2>4. i' \in 0..(len' - 1) /\ i' = i - 1 BY <1>1, <1>2
  <2>5. /\ fe_out'[0] = fe_in'[0]
        /\ \A j \in 1..i' : fe_out'[j] = Mul(fe_out'[j - 1], fe_in'[j])
        /\ \A j \in 0..i' : fe_out'[j] \in Units
    BY <2>1, <2>4
  <2>6. \A j \in (i' + 1)..(len' - 1) : Mul(fe_in'[j], fe_out'[j]) = One
    BY <1>1, <1>2, <2>2
  <2>7. QED BY <2>3, <2>4, <2>5, <2>6 DEF Unwinding, Products
<1>10. Outputs' BY DEF Outputs, Slots
<1>11. QED BY <1>1, <1>7, <1>8, <1>9, <1>10 DEF Prefixes, AllInverted

LEMMA InvertedStep == IInv /\ Inverted => IInv'
<1> SUFFICES ASSUME IInv, Inverted PROVE IInv' OBVIOUS
<1> USE DEF IInv, Inverted
<1>1. /\ Packing' /\ len' = Rank(keys', count')
      /\ len \in 0..count /\ count \in Nat \ {0}
      /\ \A j \in 0..(len - 1) : fe_in[j] \in Units
  BY AfterConvert
<1>2. /\ 0 \in 0..(len - 1) /\ fe_out[0] = fe_in[0] /\ u \in Units /\ Mul(u, fe_out[0]) = One
      /\ \A j \in 1..(len - 1) : Mul(fe_in[j], fe_out[j]) = One
  BY <1>1 DEF Unwinding, Products
<1>3. Mul(fe_in[0], u) = One BY <1>1, <1>2, FieldAssumption
<1>4. fe_out'[0] = u /\ \A j \in 1..(len - 1) : fe_out'[j] = fe_out[j]
  BY <1>1, <1>2 DEF TypeOK, Slots
<1>5. TypeOK' BY <1>1, <1>2 DEF TypeOK, Slots
<1>6. Lengths' BY <1>1 DEF Lengths
<1>7. AllInverted' BY <1>1, <1>2, <1>3, <1>4 DEF AllInverted
<1>8. Outputs'
  <2>1. Rank(keys, 0) = 0 BY RankZero
  <2>2. out_keys = 0 BY DEF Lengths
  <2>3. QED BY <2>1, <2>2 DEF Outputs, Slots
<1>9. QED BY <1>1, <1>5, <1>6, <1>7, <1>8 DEF Prefixes, Unwinding

LEMMA SerializeStep == IInv /\ Serialize => IInv'
<1> SUFFICES ASSUME IInv, Serialize PROVE IInv' OBVIOUS
<1> USE DEF IInv, Serialize
<1>1. /\ Packing' /\ len' = Rank(keys', count')
      /\ len \in 0..count /\ count \in Nat \ {0}
      /\ \A j \in 0..(len - 1) : fe_in[j] \in Units
  BY AfterConvert DEF scratchVars
<1>2. i \in 0..(count - 1) /\ i \in Nat /\ out_keys = Rank(keys, i)
  BY <1>1 DEF TypeOK, Outputs
<1>3. Rank(keys, i + 1) = IF Valid(i) THEN out_keys + 1 ELSE out_keys
  BY <1>2, RankStep DEF Valid
<1>4. out_keys \in 0..i BY <1>2, RankType
<1>5. gej[i].infinity = ~Valid(i) BY <1>1, <1>2 DEF Packing, Reached
<1>6. CASE ~Valid(i)
  <2>1. UNCHANGED <<pubkeys, out_keys>> BY <1>5, <1>6
  <2>2. pubkeys[i] = Expected(i) BY <1>1, <1>2, <1>6 DEF Outputs, Expected
  <2>3. TypeOK' BY <1>1, <1>2, <2>1 DEF TypeOK, Slots, scratchVars
  <2>4. Outputs'
    BY <1>1, <1>2, <1>3, <1>6, <2>1, <2>2 DEF Outputs, Expected, Valid, Slots
  <2>5. QED
    BY <1>1, <2>3, <2>4 DEF Lengths, Prefixes, Unwinding, AllInverted, scratchVars
<1>7. CASE Valid(i)
  <2>1. /\ pubkeys' = [pubkeys EXCEPT ![i] =
                  [scalar |-> gej[i].scalar, scale |-> Mul(gej[i].z, fe_out[out_keys])]]
        /\ out_keys' = out_keys + 1
    BY <1>5, <1>7
  <2>2. out_keys < len BY <1>1, <1>2, <1>7, RankStrict DEF Valid
  <2>3. gej[i].scalar = ScalarOf[keys[i]] /\ gej[i].z = fe_in[out_keys]
    BY <1>1, <1>2, <1>7 DEF Packing, Reached
  <2>4. Mul(fe_in[out_keys], fe_out[out_keys]) = One
    BY <1>1, <1>4, <2>2 DEF AllInverted
  <2>5. pubkeys' = [pubkeys EXCEPT ![i] = Expected(i)]
    BY <1>7, <2>1, <2>3, <2>4 DEF Expected
  <2>6. Expected(i) \in [scalar : Scalars, scale : Field]
    BY <1>2, <1>7, FieldAssumption DEF Expected, Scalars, TypeOK, Slots, Units
  <2>7. TypeOK' BY <1>1, <1>2, <1>4, <2>1, <2>5, <2>6 DEF TypeOK, Slots, scratchVars
  <2>8. Outputs'
    <3>1. \A k \in 0..i : pubkeys'[k] = Expected(k)
      <4> TAKE k \in 0..i
      <4>1. pubkeys'[i] = Expected(i) BY <1>2, <2>5 DEF TypeOK, Slots
      <4>2. CASE k \in 0..(i - 1)
        <5>1. pubkeys'[k] = pubkeys[k] BY <1>1, <1>2, <2>5, <4>2 DEF TypeOK, Slots
        <5>2. QED BY <5>1, <4>2 DEF Outputs
      <4>3. QED BY <1>2, <4>1, <4>2
    <3>2. \A k \in (i + 1)..(count - 1) : pubkeys'[k] = Blank
      BY <1>1, <1>2, <2>5 DEF Outputs, TypeOK, Slots
    <3>3. \A k \in 0..i : Expected(k)' = Expected(k) BY DEF Expected, Valid
    <3>4. QED BY <1>2, <1>3, <1>7, <2>1, <3>1, <3>2, <3>3 DEF Outputs
  <2>9. QED
    BY <1>1, <2>7, <2>8 DEF Lengths, Prefixes, Unwinding, AllInverted, scratchVars
<1>8. QED BY <1>6, <1>7

LEMMA ReturnStep == IInv /\ Return => IInv'
<1> SUFFICES ASSUME IInv, Return PROVE IInv' OBVIOUS
<1> USE DEF IInv, Return
<1>1. Packing' /\ len' = Rank(keys', count') BY AfterConvert DEF scratchVars
<1>2. TypeOK' BY DEF TypeOK, Slots, scratchVars
<1>3. Outputs' BY DEF Outputs, Expected, Valid, Slots, scratchVars
<1>4. QED
  BY <1>1, <1>2, <1>3 DEF Lengths, Prefixes, Unwinding, AllInverted, scratchVars

LEMMA StutterStep == IInv /\ UNCHANGED vars => IInv'
BY DEF IInv, vars, scratchVars, TypeOK, Slots, Packing, Reached, Valid, Lengths, Prefixes,
       Unwinding, Products, AllInverted, Outputs, Expected

\* The scratch memory and the indices stay as the loops need them in every
\* reachable state of secp256k1_ec_pubkey_create_serialized_batch.
THEOREM Invariance == Spec => []IInv
<1>1. IInv /\ [Next]_vars => IInv'
  BY ConvertStep, ConvertedStep, PrefixStep, InvertStep, UnwindStep, InvertedStep,
     SerializeStep, ReturnStep, StutterStep DEF Next, Returned
<1>2. QED BY InitIInv, <1>1, PTL DEF Spec

\* Every index the batch uses is within the scratch, which holds field elements.
THEOREM TypeCorrect == Spec => []TypeOK
<1>1. IInv => TypeOK BY DEF IInv
<1>2. QED BY <1>1, Invariance, PTL

\* secp256k1_fe_inv_all_var inverts every element in any field.
THEOREM InvertsAll == Spec => []AllInverted
<1>1. IInv => AllInverted BY DEF IInv
<1>2. QED BY <1>1, Invariance, PTL

\* The output of a batch is the key of each valid private key and blank for the
\* others, and the returned count is right, for every number of keys.
THEOREM BatchCorrect == Spec => []BatchRight
<1>1. IInv => BatchRight
  <2> SUFFICES ASSUME IInv, pc = "done"
               PROVE /\ \A k \in Slots : pubkeys[k] = Expected(k)
                     /\ out_keys = Cardinality({k \in Slots : Valid(k)})
    BY DEF BatchRight
  <2>1. i = count /\ out_keys = Rank(keys, count) /\ \A k \in 0..(i - 1) : pubkeys[k] = Expected(k)
    BY DEF IInv, Outputs
  <2>2. Rank(keys, count) = Cardinality({k \in Slots : Valid(k)}) BY DEF Rank, Slots, Valid
  <2>3. QED BY <2>1, <2>2 DEF Slots
<1>2. QED BY <1>1, Invariance, PTL
=============================================================================
