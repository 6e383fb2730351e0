---------------------------- MODULE OverrideProofs ----------------------------
(***************************************************************************)
(* Proofs about the override pass UpdateFromEnvs (lines 206-300) and       *)
(* parseEnvs (lines 302-391).  The facts rest on the closed form of        *)
(* parseEnvs: the field at which the pass stops depends only on the        *)
(* environment and the schema, never on the record, and a field changes    *)
(* only through an assignment before that field or the map reset at it.    *)
(***************************************************************************)
EXTENDS ConfigTreeProofs

\* parseEnvs writes a field only when its variable is set and the field is
\* not read-only: both the assignment before the stop and the map reset at
\* it (line 378) come after the checks of lines 313-316.
LEMMA ParseEnvsOnlySettable ==
  ASSUME NEW s \in Slots, NEW r \in Records(s), NEW n \in ValuedNames(s),
         ParseEnvs(env, Prefix(s), Schema(s), r).rec[n] # r[n]
  PROVE  Settable(s, n)
<1> DEFINE fs   == Schema(s)
           pfx  == Prefix(s)
           stop == Stop(env, pfx, fs)
           i    == IndexOf(fs, n)
           f    == fs[i]
           sv   == FieldValue(env, pfx, f)
<1>1. ParseEnvs(env, pfx, fs, r).rec[n] =
        CASE i < stop /\ Assigns(f, sv) -> Coerce(f.kind, sv)
          [] i = stop /\ Clears(f, sv)  -> EmptyMap
          [] OTHER                      -> r[n]
  BY DEF ParseEnvs, Records
<1>2. (i < stop /\ Assigns(f, sv)) \/ (i = stop /\ Clears(f, sv))
  BY <1>1, Zenon
<1>3. CASE i < stop /\ Assigns(f, sv)
  BY <1>3 DEF Assigns, Rejects, Settable
<1>4. CASE i = stop /\ Clears(f, sv)
  BY <1>4 DEF Clears, Settable
<1>5. QED
  BY <1>2, <1>3, <1>4

\* A one-element sequence.
LEMMA SingletonSeq ==
  ASSUME NEW S, NEW x \in S
  PROVE  <<x>> \in Seq(S)
  OBVIOUS

\* Every position of the override order names a slot.
LEMMA SlotOrder ==
  \A k \in 1..Len(Order) : Order[k] \in Slots
<1>1. AddonOrder \in Seq(Slots)
  <2>1. AddonOrder \in Seq(STRING)
    BY SchemaAssumption
  <2>2. \A k \in 1..Len(AddonOrder) : AddonOrder[k] \in Slots
    BY DEF Slots, Addons
  <2>3. QED
    BY <2>1, <2>2
<1>2. <<Root>> \in Seq(Slots)
  <2>1. Root \in Slots
    BY DEF Slots
  <2>2. QED
    BY <2>1, SingletonSeq
<1>3. Order \in Seq(Slots)
  BY <1>1, <1>2, ConcatProperties, Zenon DEF Order
<1>4. QED
  BY <1>3

\* An override step replaces each non-nil slot by its parseEnvs result or
\* leaves it as it was.
LEMMA UpdateSlot ==
  ASSUME NEW c, NEW s \in Slots, c[s] # Nil
  PROVE  UpdateResult(c).cfg[s] \in {c[s], ParseEnvs(env, Prefix(s), Schema(s), c[s]).rec}
  BY DEF UpdateResult, PassOf

\* OverrideOnlyFromSetVars: UpdateFromEnvs never changes a field whose
\* variable is unset or empty, nor a read-only field (TotalNodes, an
\* add-on's computed fields), in any slot the file or NewDefault filled,
\* whatever the environment, the schema and the position of the failing
\* field.
THEOREM OverrideOnlySettable ==
  Spec => OverrideOnlyFromSetVars
<1>1. Spec => []IInv
  BY InitIInv, NextIInv, PTL DEF Spec
<1>2. IInv /\ UpdateFromEnvs =>
        \A s \in Slots : cfg[s] # Nil =>
          \A n \in ValuedNames(s) : cfg'[s][n] # cfg[s][n] => Settable(s, n)
  <2> SUFFICES ASSUME IInv, UpdateFromEnvs,
                      NEW s \in Slots, cfg[s] # Nil,
                      NEW n \in ValuedNames(s), cfg'[s][n] # cfg[s][n]
               PROVE  Settable(s, n)
    OBVIOUS
  <2>1. cfg[s] \in Records(s)
    <3>1. IsTree(cfg)
      BY DEF UpdateFromEnvs, IInv
    <3>2. QED
      BY <3>1 DEF IsTree, Slots
  <2>2. cfg'[s] = ParseEnvs(env, Prefix(s), Schema(s), cfg[s]).rec
    BY UpdateSlot DEF UpdateFromEnvs
  <2>3. QED
    BY <2>1, <2>2, ParseEnvsOnlySettable
<1>3. QED
  BY <1>1, <1>2, PTL DEF OverrideOnlyFromSetVars
(***************************************************************************)
(* Idempotence.                                                            *)
(***************************************************************************)
\* A second parseEnvs with the same environment, on the record the first
\* produced, writes the same values again: it stops at the same field,
\* assigns the same coerced values before it and resets the same map.
LEMMA ParseEnvsIdempotent ==
  ASSUME NEW s \in Slots, NEW e, NEW r \in Records(s)
  PROVE  LET pfx == Prefix(s)
             fs == Schema(s)
         IN  LET r1 == ParseEnvs(e, pfx, fs, r).rec
         IN  /\ ParseEnvs(e, pfx, fs, r1).rec = r1
             /\ ParseEnvs(e, pfx, fs, r1).failed = ParseEnvs(e, pfx, fs, r).failed
<1> DEFINE pfx == Prefix(s)
           fs == Schema(s)
           stop == Stop(e, pfx, fs)
           A(n) == IndexOf(fs, n) < stop
                     /\ Assigns(fs[IndexOf(fs, n)], FieldValue(e, pfx, fs[IndexOf(fs, n)]))
           C(n) == IndexOf(fs, n) = stop
                     /\ Clears(fs[IndexOf(fs, n)], FieldValue(e, pfx, fs[IndexOf(fs, n)]))
           V(n) == Coerce(fs[IndexOf(fs, n)].kind, FieldValue(e, pfx, fs[IndexOf(fs, n)]))
           Step(q) == [n \in DOMAIN q |-> CASE A(n) -> V(n) [] C(n) -> EmptyMap [] OTHER -> q[n]]
           r1 == ParseEnvs(e, pfx, fs, r).rec
<1>1. \A q : ParseEnvs(e, pfx, fs, q).rec = Step(q)
  BY DEF ParseEnvs
<1>2. \A q : ParseEnvs(e, pfx, fs, q).failed = (stop =< Len(fs))
  BY DEF ParseEnvs
<1>3. Step(Step(r)) = Step(r)
  <2>1. DOMAIN Step(Step(r)) = DOMAIN Step(r)
    OBVIOUS
  <2>2. ASSUME NEW n \in DOMAIN r PROVE Step(Step(r))[n] = Step(r)[n]
    <3>0. n \in ValuedNames(s) /\ IndexOf(fs, n) \in Int
      BY IndexOfFacts DEF Records
    <3>1. CASE A(n)
      <4>1. ~C(n)
        BY <3>0, <3>1
      <4>2. QED
        BY <3>1, <4>1, Zenon
    <3>2. CASE ~A(n) /\ C(n)
      BY <3>2, Zenon
    <3>3. CASE ~A(n) /\ ~C(n)
      BY <3>3, Zenon
    <3>4. QED
      BY <3>1, <3>2, <3>3
  <2>3. QED
    BY <2>1, <2>2
<1>4. QED
  BY <1>1, <1>2, <1>3

\* Whether a slot's pass fails, panics or succeeds depends on the
\* environment, the schema and whether the slot is nil, never on the
\* values in its record.
LEMMA PassStatusOfNil ==
  ASSUME NEW c, NEW d, NEW s, (c[s] = Nil) <=> (d[s] = Nil)
  PROVE  PassOf(c, s).status = PassOf(d, s).status
  BY DEF PassOf, ParseEnvs

\* UpdateFromEnvs on the tree it has just produced gives it back: the same
\* slot stops the pass, and every slot up to it is parsed again to the same
\* record (lines 206-300).
LEMMA UpdateIdempotent ==
  ASSUME env \in Envs, NEW c, IsTree(c)
  PROVE  UpdateResult(UpdateResult(c).cfg).cfg = UpdateResult(c).cfg
<1> DEFINE c1 == UpdateResult(c).cfg
           Pos(s) == CHOOSE k \in 1..Len(Order) : Order[k] = s
<1>1. \A s \in Slots : c1[s] = IF Pos(s) =< StopSlot(c) THEN PassOf(c, s).rec ELSE c[s]
  BY DEF UpdateResult
<1>2. DOMAIN c1 = Slots /\ IsTree(c1)
  BY UpdateResultType DEF UpdateResult
<1>3. \A s \in Slots : (c1[s] = Nil) <=> (c[s] = Nil)
  <2> SUFFICES ASSUME NEW s \in Slots PROVE (c1[s] = Nil) <=> (c[s] = Nil)
    OBVIOUS
  <2>1. CASE c[s] = Nil
    BY <1>1, <2>1 DEF PassOf
  <2>2. CASE c[s] # Nil
    <3>1. c[s] \in Records(s)
      BY <2>2 DEF IsTree, Slots
    <3>2. PassOf(c, s).rec \in Records(s)
      BY <2>2, <3>1, ParseEnvsType DEF PassOf
    <3>3. c1[s] \in Records(s)
      BY <1>1, <3>1, <3>2
    <3>4. QED
      BY <2>2, <3>3, RunAssumption
  <2>3. QED
    BY <2>1, <2>2
<1>4. StopSlot(c1) = StopSlot(c)
  <2>1. \A k \in 1..Len(Order) : PassOf(c1, Order[k]).status = PassOf(c, Order[k]).status
    <3> SUFFICES ASSUME NEW k \in 1..Len(Order) PROVE PassOf(c1, Order[k]).status = PassOf(c, Order[k]).status
      OBVIOUS
    <3>1. Order[k] \in Slots
      BY SlotOrder
    <3>2. QED
      BY <1>3, <3>1, PassStatusOfNil
  <2>2. QED
    BY <2>1 DEF StopSlot
<1>5. \A s \in Slots : Pos(s) =< StopSlot(c) => PassOf(c1, s).rec = c1[s]
  <2> SUFFICES ASSUME NEW s \in Slots, Pos(s) =< StopSlot(c) PROVE PassOf(c1, s).rec = c1[s]
    OBVIOUS
  <2>1. c1[s] = PassOf(c, s).rec
    BY <1>1
  <2>2. CASE c[s] = Nil
    BY <1>3, <2>1, <2>2 DEF PassOf
  <2>3. CASE c[s] # Nil
    <3>1. c1[s] = ParseEnvs(env, Prefix(s), Schema(s), c[s]).rec /\ c1[s] # Nil
      BY <1>3, <2>1, <2>3 DEF PassOf
    <3>2. ParseEnvs(env, Prefix(s), Schema(s), c1[s]).rec = c1[s]
      <4>1. c[s] \in Records(s)
        BY <2>3 DEF IsTree, Slots
      <4>2. QED
        BY <3>1, <4>1, ParseEnvsIdempotent
    <3>3. QED
      BY <3>1, <3>2 DEF PassOf
  <2>4. QED
    BY <2>2, <2>3
<1>6. QED
  <2>1. UpdateResult(c1).cfg = [s \in Slots |-> IF Pos(s) =< StopSlot(c1) THEN PassOf(c1, s).rec ELSE c1[s]]
    BY DEF UpdateResult
  <2>2. c1 = [s \in Slots |-> c1[s]]
    BY DEF UpdateResult
  <2>3. \A s \in Slots : (IF Pos(s) =< StopSlot(c1) THEN PassOf(c1, s).rec ELSE c1[s]) = c1[s]
    BY <1>4, <1>5
  <2>4. QED
    BY <2>1, <2>2, <2>3

\* PassIdempotent: running the override again on the tree a pass has just
\* produced, with the same environment, changes nothing, even when the
\* first pass returned an error half way through the add-ons.
THEOREM OverrideIdempotent ==
  Spec => PassIdempotent
<1>1. Spec => []IInv
  BY InitIInv, NextIInv, PTL DEF Spec
<1>2. IInv /\ UpdateFromEnvs /\ phase' = "ready" => UpdateResult(cfg').cfg = cfg'
  <2> SUFFICES ASSUME IInv, UpdateFromEnvs PROVE UpdateResult(cfg').cfg = cfg'
    OBVIOUS
  <2>1. IsTree(cfg) /\ cfg' = UpdateResult(cfg).cfg /\ env \in Envs
    BY DEF UpdateFromEnvs, IInv, TypeOK
  <2>2. QED
    BY <2>1, UpdateIdempotent
<1>3. QED
  BY <1>1, <1>2, PTL DEF PassIdempotent

=============================================================================
