-------------------------- MODULE CapsuleSyncProofs --------------------------
(***************************************************************************)
(* What holds of CapsuleSync for any devices, leases, snapshots, offers,   *)
(* expiries and crashes, and for sessions that run beside any other        *)
(* operation, up to the first one that went by an older copy of its store  *)
(* (`overtaken`): until then, a session wrote what one that had loaded its *)
(* store just then would have written, too.                                *)
(*                                                                         *)
(* The argument: the files of a device are sound (Sound) in whatever order *)
(* they came: each lease extends another and there is one of an epoch, and *)
(* the main ops, each under the lease of its epoch, lie on one line.  What *)
(* reload_capsule makes of sound files is what they are (ReloadIs), and    *)
(* every operation that starts from such a copy leaves files that are      *)
(* sound again, more, and with a head that has only moved on.              *)
(*                                                                         *)
(* That devices catch up rests on two more facts: every snapshot, label    *)
(* and offer comes from the files of the device that wrote it (Rooted),    *)
(* and no device without crashes holds back a label whose line and lease   *)
(* it has (Pursued), because every receipt tries each label held back.     *)
(***************************************************************************)
EXTENDS CapsuleSync, FiniteSetTheorems, TLAPS

-----------------------------------------------------------------------------
(* Folds over finite sets.                                                  *)

(* What holds of a set whenever it holds of the set less any one element    *)
(* holds of every subset of a finite set.                                   *)
LEMMA SetInduction ==
  ASSUME NEW S, IsFiniteSet(S), NEW F,
         \A T \in SUBSET S : (\A x \in T : T \ {x} \in F) => T \in F
  PROVE  \A T \in SUBSET S : T \in F
  <1> DEFINE bad == {T \in SUBSET S : T \notin F}
  <1>1. SUFFICES ASSUME bad # {} PROVE FALSE OBVIOUS
  <1>2. FiniteSubsetsOf(S) = SUBSET S BY FS_FiniteSubsetsOfFinite
  <1>3. IsWellFoundedOn(StrictSubsetOrdering(S), SUBSET S)
    BY <1>2, FS_StrictSubsetOrderingWellFounded
  <1>4. bad \subseteq SUBSET S OBVIOUS
  <1> HIDE DEF bad
  <1>5. PICK T \in bad : \A U \in bad : ~(<<U, T>> \in StrictSubsetOrdering(S))
    BY <1>1, <1>3, <1>4, WFMin
  <1>6. T \in SUBSET S /\ T \notin F BY DEF bad
  <1>7. PICK x \in T : T \ {x} \notin F BY <1>6
  <1>8. T \ {x} \in bad BY <1>6, <1>7 DEF bad
  <1>9. <<T \ {x}, T>> \in StrictSubsetOrdering(S)
    <2>1. T \ {x} \in SUBSET S /\ T \in SUBSET S /\ T \ {x} # T BY <1>6, <1>7
    <2> QED BY <2>1 DEF StrictSubsetOrdering
  <1> QED BY <1>5, <1>8, <1>9

(* A finite set that an order without gaps arranges has a last element.     *)
LEMMA LastExists ==
  ASSUME NEW S, IsFiniteSet(S), S # {}, NEW R,
         \A x, y \in S : x = y \/ <<x, y>> \in R \/ <<y, x>> \in R,
         \A x, y, z \in S : <<x, y>> \in R /\ <<y, z>> \in R => <<x, z>> \in R
  PROVE  \E m \in S : \A x \in S : x = m \/ <<x, m>> \in R
  <1> DEFINE Tops(T) == \E m \in T : \A x \in T : x = m \/ <<x, m>> \in R
             F == {T \in SUBSET S : T # {} => Tops(T)}
  <1>1. ASSUME NEW T \in SUBSET S, \A x \in T : T \ {x} \in F PROVE T \in F
    <2>1. SUFFICES ASSUME T # {} PROVE Tops(T) OBVIOUS
    <2>2. PICK x \in T : TRUE BY <2>1
    <2>3. CASE T = {x} BY <2>2, <2>3
    <2>4. CASE T \ {x} # {}
      <3>1. Tops(T \ {x}) BY <1>1, <2>2, <2>4
      <3>2. PICK m \in T \ {x} : \A y \in T \ {x} : y = m \/ <<y, m>> \in R BY <3>1
      <3>3. CASE <<x, m>> \in R BY <3>2, <3>3
      <3>4. CASE <<m, x>> \in R
        <4>1. ASSUME NEW y \in T \ {x} PROVE <<y, x>> \in R
          <5>1. y \in S /\ m \in S /\ x \in S BY <2>2, <3>2
          <5> QED BY <3>2, <3>4, <5>1
        <4> QED BY <2>2, <4>1
      <3> QED BY <2>2, <3>2, <3>3, <3>4
    <2> QED BY <2>2, <2>3, <2>4
  <1> HIDE DEF F
  <1>2. \A T \in SUBSET S : (\A x \in T : T \ {x} \in F) => T \in F BY <1>1
  <1>3. \A T \in SUBSET S : T \in F BY <1>2, SetInduction
  <1>4. S \in F BY <1>3
  <1> QED BY <1>4 DEF F

LEMMA UpFromZero ==
  ASSUME NEW F, 0 \in F, \A n \in Nat : n \in F => n + 1 \in F
  PROVE  \A n \in Nat : n \in F
  <1> DEFINE bad == Nat \ F
  <1>1. SUFFICES ASSUME bad # {} PROVE FALSE OBVIOUS
  <1>2. bad \subseteq Nat OBVIOUS
  <1> HIDE DEF bad
  <1>3. PICK n \in bad : \A m \in bad : ~(<<m, n>> \in OpToRel(<, Nat))
    BY <1>1, <1>2, WFMin, NatLessThanWellFounded
  <1>4. n \in Nat /\ n \notin F BY DEF bad
  <1>5. n # 0 BY <1>4
  <1>6. n - 1 \in Nat /\ (n - 1) + 1 = n /\ n - 1 < n BY <1>4, <1>5
  <1>7. n - 1 \in bad BY <1>4, <1>6 DEF bad
  <1>8. <<n - 1, n>> \in OpToRel(<, Nat) BY <1>4, <1>6 DEF OpToRel
  <1> QED BY <1>3, <1>7, <1>8

\* ch picks an element of every set, op keeps to V, and it folds op over S.
Picks(ch, S)     == \A s \in SUBSET S : s # {} => ch[s] \in s
KeepsTo(op, S, V) == \A x \in S, v \in V : op[<<x, v>>] \in V
Folds(it, S, V, base, ch, op) ==
  /\ it \in [SUBSET S -> V]
  /\ \A s \in SUBSET S :
       it[s] = IF s = {} THEN base ELSE op[<<ch[s], it[s \ {ch[s]}]>>]

(* A fold is defined: each subset has the value its rest gives it.          *)
LEMMA FoldExists ==
  ASSUME NEW S, IsFiniteSet(S), NEW V, NEW base \in V,
         NEW ch, Picks(ch, S), NEW op, KeepsTo(op, S, V)
  PROVE  \E it : Folds(it, S, V, base, ch, op)
  <1> USE DEF Picks, KeepsTo
  <1> DEFINE Small(n) == {s \in SUBSET S : Cardinality(s) <= n}
             Value(g, s) == IF s = {} THEN base ELSE op[<<ch[s], g[s \ {ch[s]}]>>]
             Good(g, n) == /\ g \in [Small(n) -> V]
                           /\ \A s \in Small(n) : g[s] = Value(g, s)
             F == {n \in Nat : \E g : Good(g, n)}
  <1>1. \A s \in SUBSET S : IsFiniteSet(s) /\ Cardinality(s) \in Nat
    BY FS_Subset, FS_CardinalityType
  <1>2. \A s \in SUBSET S : s # {} =>
           s \ {ch[s]} \in SUBSET S /\ Cardinality(s \ {ch[s]}) = Cardinality(s) - 1
    BY <1>1, FS_RemoveElement
  <1>3. \A s \in SUBSET S : Cardinality(s) = 0 <=> s = {} BY <1>1, FS_EmptySet
  <1>4. 0 \in F
    <2> DEFINE g == [s \in Small(0) |-> base]
    <2>1. \A s \in Small(0) : s = {} BY <1>1, <1>3
    <2>2. Good(g, 0) BY <2>1
    <2> QED BY <2>2
  <1>5. ASSUME NEW n \in Nat, n \in F PROVE n + 1 \in F
    <2>1. PICK g : Good(g, n) BY <1>5
    <2> DEFINE h == [s \in Small(n + 1) |-> Value(g, s)]
    <2>2. \A s \in Small(n + 1) : s # {} => s \ {ch[s]} \in Small(n)
      BY <1>1, <1>2
    <2>3. \A s \in Small(n) : s \in Small(n + 1) /\ h[s] = g[s] BY <1>1, <2>1
    <2>4. \A s \in Small(n + 1) : Value(g, s) \in V
      <3> TAKE s \in Small(n + 1)
      <3>1. CASE s = {} BY <3>1
      <3>2. CASE s # {}
        <4>1. ch[s] \in S /\ g[s \ {ch[s]}] \in V BY <2>1, <2>2, <3>2
        <4> QED BY <3>2, <4>1
      <3> QED BY <3>1, <3>2
    <2>5. \A s \in Small(n + 1) : h[s] = Value(h, s)
      <3> TAKE s \in Small(n + 1)
      <3>1. CASE s = {} BY <3>1
      <3>2. CASE s # {}
        <4>1. h[s \ {ch[s]}] = g[s \ {ch[s]}] BY <2>2, <2>3, <3>2
        <4>2. h[s] = Value(g, s) OBVIOUS
        <4> HIDE DEF h
        <4> QED BY <3>2, <4>1, <4>2
      <3> QED BY <3>1, <3>2
    <2>6. Good(h, n + 1) BY <2>4, <2>5
    <2> HIDE DEF h, Good
    <2>7. \E f : Good(f, n + 1) BY <2>6
    <2> QED BY <2>7
  <1>6. Cardinality(S) \in F
    <2> HIDE DEF F
    <2> QED BY <1>1, <1>4, <1>5, UpFromZero
  <1>7. PICK g : Good(g, Cardinality(S)) BY <1>6
  <1>8. Small(Cardinality(S)) = SUBSET S BY FS_Subset
  <1> QED BY <1>7, <1>8 DEF Folds
-----------------------------------------------------------------------------
(* Leases.                                                                  *)

\* The leases of a device: each but the grant extends another, one an epoch.
Linear(L) ==
  /\ IsFiniteSet(L)
  /\ \A l \in L : l.epoch \in Nat /\ l.sig \in Nat
  /\ \A l \in L \ {Grant} : \E k \in L \cup {Grant} : Extends(k, l)
  /\ \A k, l \in L \cup {Grant} : k.epoch = l.epoch => k = l

Highest(w, L) == w \in L \cup {Grant} /\ \A l \in L \cup {Grant} : l.epoch <= w.epoch
Top(L) == CHOOSE w : Highest(w, L)

LEMMA GrantIs == Grant.epoch = 1 /\ Grant.sig = 1 BY DEF Grant

LEMMA TopIs ==
  ASSUME NEW L, Linear(L)
  PROVE  Highest(Top(L), L) /\ Top(L).epoch \in Nat /\ Top(L).sig \in Nat
  <1> DEFINE S == L \cup {Grant}
             R == {p \in S \X S : p[1].epoch < p[2].epoch}
  <1>1. IsFiniteSet(S) /\ S # {} BY FS_AddElement DEF Linear
  <1>2. \A l \in S : l.epoch \in Nat /\ l.sig \in Nat BY GrantIs DEF Linear
  <1>3. \A k, l \in S : k.epoch = l.epoch => k = l BY DEF Linear
  <1> HIDE DEF S
  <1>4. ASSUME NEW k \in S, NEW l \in S PROVE <<k, l>> \in R <=> k.epoch < l.epoch
    <2>1. <<k, l>> \in S \X S /\ <<k, l>>[1] = k /\ <<k, l>>[2] = l OBVIOUS
    <2> QED BY <2>1
  <1> HIDE DEF R
  <1>5. ASSUME NEW x \in S, NEW y \in S PROVE x = y \/ <<x, y>> \in R \/ <<y, x>> \in R
    <2>1. x.epoch < y.epoch \/ y.epoch < x.epoch \/ x.epoch = y.epoch BY <1>2
    <2> QED BY <1>3, <1>4, <2>1
  <1>6. \A x, y, z \in S : <<x, y>> \in R /\ <<y, z>> \in R => <<x, z>> \in R
    BY <1>2, <1>4
  <1>7. PICK w \in S : \A x \in S : x = w \/ <<x, w>> \in R
    BY <1>1, <1>5, <1>6, LastExists
  <1>8. Highest(w, L)
    <2>1. ASSUME NEW x \in S PROVE x.epoch <= w.epoch
      <3>1. x = w \/ x.epoch < w.epoch BY <1>4, <1>7
      <3> QED BY <1>2, <3>1
    <2> QED BY <2>1 DEF Highest, S
  <1>9. Highest(Top(L), L) BY <1>8 DEF Top
  <1> QED BY <1>2, <1>9 DEF Highest, S

LEMMA TopOnly ==
  ASSUME NEW L, Linear(L), NEW w, Highest(w, L)
  PROVE  w = Top(L)
  <1>1. Highest(Top(L), L) BY TopIs
  <1>2. \A l \in L \cup {Grant} : l.epoch \in Nat BY GrantIs DEF Linear
  <1> QED BY <1>1, <1>2 DEF Highest, Linear

(* The leases up to one of them are like that, too.                         *)
LEMMA PrefixLinear ==
  ASSUME NEW L, Linear(L), NEW P \in SUBSET L,
         \A l \in P : \A k \in L \ {Grant} : k.epoch <= l.epoch => k \in P
  PROVE  Linear(P)
  <1>1. IsFiniteSet(P) BY FS_Subset DEF Linear
  <1>2. ASSUME NEW l \in P \ {Grant} PROVE \E k \in P \cup {Grant} : Extends(k, l)
    <2>1. PICK k \in L \cup {Grant} : Extends(k, l) BY DEF Linear
    <2>2. k.epoch \in Nat /\ k.epoch <= l.epoch BY <2>1, GrantIs DEF Extends, Linear
    <2> QED BY <2>1, <2>2
  <1> QED BY <1>1, <1>2 DEF Linear

(* A lease that extends the highest is the new highest.                     *)
LEMMA Grows ==
  ASSUME NEW L, Linear(L), NEW l, l.sig \in Nat, Extends(Top(L), l)
  PROVE  /\ Linear(L \cup {l}) /\ Top(L \cup {l}) = l
         /\ l \notin L \cup {Grant} /\ l.epoch = Top(L).epoch + 1
  <1>1. Highest(Top(L), L) /\ Top(L).epoch \in Nat BY TopIs
  <1>2. l.epoch = Top(L).epoch + 1 BY DEF Extends
  <1>3. \A k \in L \cup {Grant} : k.epoch \in Nat /\ k.epoch < l.epoch
    BY <1>1, <1>2, GrantIs DEF Highest, Linear
  <1>4. l \notin L \cup {Grant} BY <1>3
  <1>5. IsFiniteSet(L \cup {l}) BY FS_AddElement DEF Linear
  <1>6. Linear(L \cup {l})
    <2>1. \A k \in (L \cup {l}) \ {Grant} : \E j \in (L \cup {l}) \cup {Grant} : Extends(j, k)
      BY <1>1 DEF Linear, Highest
    <2>2. \A j, k \in (L \cup {l}) \cup {Grant} : j.epoch = k.epoch => j = k
      BY <1>3 DEF Linear
    <2>3. \A k \in L \cup {l} : k.epoch \in Nat /\ k.sig \in Nat BY <1>1, <1>2 DEF Linear
    <2> QED BY <1>5, <2>1, <2>2, <2>3 DEF Linear
  <1>7. Highest(l, L \cup {l}) BY <1>1, <1>2, <1>3 DEF Highest
  <1> QED BY <1>2, <1>4, <1>6, <1>7, TopOnly

(* And each extends the highest of those below it.                          *)
LEMMA ExtendsRest ==
  ASSUME NEW L, Linear(L), NEW P \in SUBSET (L \ {Grant}),
         \A l \in P : \A k \in L \ {Grant} : k.epoch <= l.epoch => k \in P,
         NEW x \in P, \A k \in P : k.epoch <= x.epoch
  PROVE  /\ Linear(P \ {x}) /\ Extends(Top(P \ {x}), x)
         /\ \A l \in P \ {x} : \A k \in L \ {Grant} : k.epoch <= l.epoch => k \in P \ {x}
  <1> DEFINE Q == P \ {x}
  <1>1. \A l \in L : l.epoch \in Nat /\ l.sig \in Nat BY DEF Linear
  <1>2. \A k, l \in L : k.epoch = l.epoch => k = l BY DEF Linear
  <1>3. \A l \in Q : l.epoch < x.epoch BY <1>1, <1>2
  <1>4. \A l \in Q : \A k \in L \ {Grant} : k.epoch <= l.epoch => k \in Q
    BY <1>1, <1>3
  <1>5. Linear(Q)
    <2>1. Q \in SUBSET L OBVIOUS
    <2> HIDE DEF Q
    <2> QED BY <1>4, <2>1, PrefixLinear
  <1>6. PICK k \in L \cup {Grant} : Extends(k, x) BY DEF Linear
  <1>7. k.epoch \in Nat /\ x.epoch = k.epoch + 1 BY <1>1, <1>6, GrantIs DEF Extends
  <1>8. k \in Q \cup {Grant} BY <1>6, <1>7
  <1>9. Grant.epoch <= k.epoch
    <2>1. CASE k = Grant BY <2>1, GrantIs
    <2>2. CASE k # Grant
      <3>1. PICK j \in L \cup {Grant} : Extends(j, k) BY <1>6, <2>2 DEF Linear
      <3>2. j.epoch \in Nat /\ k.epoch = j.epoch + 1 BY <1>1, <3>1, GrantIs DEF Extends
      <3> QED BY <3>2, GrantIs
    <2> QED BY <2>1, <2>2
  <1>10. Highest(k, Q)
    <2>1. \A l \in Q : l.epoch <= k.epoch BY <1>1, <1>3, <1>7
    <2> QED BY <1>8, <1>9, <2>1 DEF Highest
  <1>11. k = Top(Q) BY <1>5, <1>10, TopOnly
  <1> QED BY <1>4, <1>5, <1>6, <1>11

\* What LoadLeases accepts last among s.
Latest(s) == CHOOSE l \in s : \A k \in s :
               k.epoch < l.epoch \/ (k.epoch = l.epoch /\ k.sig <= l.sig)

LEMMA LatestIs ==
  ASSUME NEW L, Linear(L), NEW s \in SUBSET L, s # {}
  PROVE  Latest(s) \in s /\ \A k \in s : k.epoch <= Latest(s).epoch
  <1> DEFINE R == {p \in s \X s : p[1].epoch < p[2].epoch}
  <1>1. IsFiniteSet(s) BY FS_Subset DEF Linear
  <1>2. \A l \in s : l.epoch \in Nat /\ l.sig \in Nat BY DEF Linear
  <1>3. \A k, l \in s : k.epoch = l.epoch => k = l BY DEF Linear
  <1>4. ASSUME NEW k \in s, NEW l \in s PROVE <<k, l>> \in R <=> k.epoch < l.epoch
    <2>1. <<k, l>> \in s \X s /\ <<k, l>>[1] = k /\ <<k, l>>[2] = l OBVIOUS
    <2> QED BY <2>1
  <1> HIDE DEF R
  <1>5. ASSUME NEW x \in s, NEW y \in s PROVE x = y \/ <<x, y>> \in R \/ <<y, x>> \in R
    <2>1. x.epoch < y.epoch \/ y.epoch < x.epoch \/ x.epoch = y.epoch BY <1>2
    <2> QED BY <1>3, <1>4, <2>1
  <1>6. \A x, y, z \in s : <<x, y>> \in R /\ <<y, z>> \in R => <<x, z>> \in R
    BY <1>2, <1>4
  <1>7. PICK w \in s : \A x \in s : x = w \/ <<x, w>> \in R
    BY <1>1, <1>5, <1>6, LastExists
  <1>8. \A k \in s : k.epoch < w.epoch \/ (k.epoch = w.epoch /\ k.sig <= w.sig)
    <2> TAKE k \in s
    <2>1. k = w \/ k.epoch < w.epoch BY <1>4, <1>7
    <2> QED BY <1>2, <2>1
  <1>9. /\ Latest(s) \in s
        /\ \A k \in s : k.epoch < Latest(s).epoch
                          \/ (k.epoch = Latest(s).epoch /\ k.sig <= Latest(s).sig)
    BY <1>8 DEF Latest
  <1> QED BY <1>2, <1>9

(* reload_capsule accepts every lease of a device, and the highest wins.    *)
LEMMA LoadLeasesIs ==
  ASSUME NEW L, Linear(L)
  PROVE  LoadLeases(L) =
           [snaps |-> {}, leases |-> L \cup {Grant}, winner |-> Top(L), main |-> NoOp]
  <1> DEFINE S == L \ {Grant}
             LL == L \cup {Grant}
             V == [snaps : {{}}, leases : SUBSET LL, winner : LL, main : {NoOp}]
             ch == [s \in SUBSET S |-> Latest(s)]
             op == [p \in S \X V |-> AcceptLease(p[2], p[1])]
             Step(it) == [s \in SUBSET S |-> IF s = {} THEN NewHandle
                                             ELSE AcceptLease(it[s \ {Latest(s)}], Latest(s))]
             Fold == CHOOSE it : it = Step(it)
             All(s) == [snaps |-> {}, leases |-> s \cup {Grant}, winner |-> Top(s),
                        main |-> NoOp]
             Whole(s) == \A l \in s : \A k \in L \ {Grant} : k.epoch <= l.epoch => k \in s
             F == {s \in SUBSET S : Whole(s) => Fold[s] = All(s)}
  <1>1. LoadLeases(L) = Fold[S] BY DEF LoadLeases, MapThenFoldSet, Latest
  <1>2. IsFiniteSet(S) BY FS_RemoveElement DEF Linear
  <1>3. \A s \in SUBSET S : s # {} =>
           Latest(s) \in s /\ \A k \in s : k.epoch <= Latest(s).epoch
    BY LatestIs
  <1>4. \E it : it = Step(it)
    <2>1. NewHandle \in V BY DEF NewHandle
    <2>2. ASSUME NEW x \in S, NEW v \in V PROVE AcceptLease(v, x) \in V
      <3>1. /\ v.snaps = {} /\ v.leases \in SUBSET LL /\ v.winner \in LL /\ v.main = NoOp
            /\ v = [snaps |-> v.snaps, leases |-> v.leases, winner |-> v.winner,
                    main |-> v.main]
        OBVIOUS
      <3>2. PICK l \in SUBSET LL, w \in LL :
              AcceptLease(v, x) = [v EXCEPT !.leases = l, !.winner = w]
        <4>1. v.leases \cup {x} \in SUBSET LL /\ x \in LL BY <3>1
        <4> QED BY <3>1, <4>1 DEF AcceptLease
      <3>3. AcceptLease(v, x) = [snaps |-> {}, leases |-> l, winner |-> w, main |-> NoOp]
        BY <3>1, <3>2
      <3>4. [snaps |-> {}, leases |-> l, winner |-> w, main |-> NoOp] \in V OBVIOUS
      <3> HIDE DEF V
      <3> QED BY <3>3, <3>4
    <2>3. \A x \in S, v \in V : op[<<x, v>>] = AcceptLease(v, x)
      <3> TAKE x \in S, v \in V
      <3>1. <<x, v>> \in S \X V OBVIOUS
      <3> HIDE DEF V, S
      <3> QED BY <3>1
    <2>4. \A s \in SUBSET S : ch[s] = Latest(s) OBVIOUS
    <2> HIDE DEF op, ch, V, S, LL, Fold, F
    <2>5. KeepsTo(op, S, V) BY <2>2, <2>3 DEF KeepsTo
    <2>6. Picks(ch, S) BY <1>3, <2>4 DEF Picks
    <2>7. PICK it : Folds(it, S, V, NewHandle, ch, op) BY <1>2, <2>1, <2>5, <2>6, FoldExists
    <2>8. /\ it \in [SUBSET S -> V]
          /\ \A s \in SUBSET S :
               it[s] = IF s = {} THEN NewHandle ELSE op[<<ch[s], it[s \ {ch[s]}]>>]
      BY <2>7 DEF Folds
    <2>9. ASSUME NEW s \in SUBSET S
          PROVE  it[s] = IF s = {} THEN NewHandle
                         ELSE AcceptLease(it[s \ {Latest(s)}], Latest(s))
      <3>1. CASE s = {} BY <2>8, <3>1
      <3>2. CASE s # {}
        <4>1. ch[s] = Latest(s) /\ Latest(s) \in S /\ s \ {Latest(s)} \in SUBSET S
          BY <1>3, <2>4, <3>2
        <4>2. it[s \ {Latest(s)}] \in V BY <2>8, <4>1
        <4> QED BY <2>3, <2>8, <3>2, <4>1, <4>2
      <3> QED BY <3>1, <3>2
    <2>10. it = [s \in SUBSET S |-> it[s]] BY <2>8
    <2>11. it = Step(it) BY <2>9, <2>10
    <2> QED BY <2>11
  <1>5. Fold = Step(Fold)
    <2> HIDE DEF Step
    <2> QED BY <1>4
  <1> HIDE DEF Fold
  <1>6. /\ Fold[{}] = NewHandle
        /\ \A s \in SUBSET S : s # {} =>
             Fold[s] = AcceptLease(Fold[s \ {Latest(s)}], Latest(s))
    BY <1>5
  <1>7. ASSUME NEW T \in SUBSET S, \A x \in T : T \ {x} \in F PROVE T \in F
    <2>1. SUFFICES ASSUME Whole(T) PROVE Fold[T] = All(T) OBVIOUS
    <2>2. CASE T = {}
      <3>1. Highest(Grant, {}) /\ Linear({}) BY FS_EmptySet, GrantIs DEF Highest, Linear
      <3>2. Top({}) = Grant BY <3>1, TopOnly
      <3> QED BY <1>6, <2>2, <3>2 DEF NewHandle
    <2>3. CASE T # {}
      <3> DEFINE x == Latest(T)
                 Q == T \ {x}
      <3>1. x \in T /\ \A k \in T : k.epoch <= x.epoch BY <1>3, <2>3
      <3>2. T \in SUBSET (L \ {Grant}) OBVIOUS
      <3> HIDE DEF x, S
      <3>3. Linear(Q) /\ Extends(Top(Q), x) /\ Whole(Q)
        BY <2>1, <3>1, <3>2, ExtendsRest
      <3>4. Fold[Q] = All(Q) BY <1>7, <3>1, <3>3
      <3>5. x.sig \in Nat BY <3>1, <3>2 DEF Linear
      <3>6. Top(Q \cup {x}) = x BY <3>3, <3>5, Grows
      <3>7. Q \cup {x} = T BY <3>1
      <3>8. Fold[T] = AcceptLease(Fold[Q], x) BY <1>6, <2>3 DEF x, S
      <3>9. AcceptLease(All(Q), x) =
              [snaps |-> {}, leases |-> (Q \cup {Grant}) \cup {x}, winner |-> x, main |-> NoOp]
        <4>1. AcceptLease([snaps |-> {}, leases |-> Q \cup {Grant}, winner |-> Top(Q),
                           main |-> NoOp], x) =
                [[snaps |-> {}, leases |-> Q \cup {Grant}, winner |-> Top(Q), main |-> NoOp]
                   EXCEPT !.leases = (Q \cup {Grant}) \cup {x}, !.winner = x]
          BY <3>3 DEF AcceptLease, Beats
        <4> QED BY <4>1
      <3>10. (Q \cup {Grant}) \cup {x} = T \cup {Grant} BY <3>7
      <3> QED BY <3>4, <3>6, <3>7, <3>8, <3>9, <3>10
    <2> QED BY <2>2, <2>3
  <1>8. S \in F
    <2> HIDE DEF F
    <2>1. \A T \in SUBSET S : T \in F BY <1>2, <1>7, SetInduction
    <2> QED BY <2>1
  <1>9. Whole(S) OBVIOUS
  <1>10. Fold[S] = All(S) BY <1>8, <1>9
  <1>11. S \cup {Grant} = L \cup {Grant} OBVIOUS
  <1>12. Linear(S) /\ Highest(Top(L), S)
    <2>1. Highest(Top(L), L) BY TopIs
    <2>2. S \in SUBSET L OBVIOUS
    <2>3. Linear(S) BY <1>9, <2>2, PrefixLinear
    <2> QED BY <1>11, <2>1, <2>3 DEF Highest
  <1>13. Top(L) = Top(S) BY <1>12, TopOnly
  <1> QED BY <1>1, <1>10, <1>11, <1>13

-----------------------------------------------------------------------------
(* Snapshots and main ops.                                                  *)

(* A line is its snapshot's, its ancestors' lines are on it, and more       *)
(* snapshots only make it longer.                                           *)
LEMMA LineStarts ==
  ASSUME NEW snaps, NEW id \in SnapIds PROVE Descends(snaps, id, id)
  <1>1. id # NoSnap BY CapsuleAssumption DEF NoSnap
  <1> QED BY <1>1 DEF Descends, Line

LEMMA LineGoesOn ==
  ASSUME NEW snaps, NEW a, NEW b \in SnapIds, NEW c,
         Descends(snaps, c, b), Descends(snaps, b, a)
  PROVE  Descends(snaps, c, a)
  BY DEF Descends, Line

LEMMA LineGrows ==
  ASSUME NEW snaps, NEW more, snaps \subseteq more, NEW a, NEW b, Descends(snaps, b, a)
  PROVE  Descends(more, b, a)
  BY DEF Descends, Line

\* A main op as writers make them, and one before another.
IsOp(o) == o.seq \in Nat \ {0} /\ o.snap \in SnapIds /\ o.epoch \in Nat

Before(snaps, o, p) ==
  Newer(p, o) /\ o.epoch <= p.epoch /\ Descends(snaps, p.snap, o.snap)

LEMMA NewerIs ==
  /\ \A o, p, q : IsOp(o) /\ IsOp(p) /\ IsOp(q) /\ Newer(q, p) /\ Newer(p, o) => Newer(q, o)
  /\ \A o, p : IsOp(o) /\ IsOp(p) /\ Newer(p, o) => ~Newer(o, p)
  /\ \A o : IsOp(o) => ~Newer(o, o)
  /\ \A o : IsOp(o) => Newer(o, NoOp) /\ o # NoOp
  <1>1. SnapIds \subseteq Nat BY CapsuleAssumption
  <1>2. ASSUME NEW o, IsOp(o) PROVE o.seq \in Nat /\ o.seq > 0 /\ o.snap \in Nat
    <2>1. o.seq \in Nat \ {0} BY <1>2 DEF IsOp
    <2>2. o.snap \in Nat BY <1>1, <1>2 DEF IsOp
    <2> QED BY <2>1, <2>2
  <1>3. \A a, b, c, x, y, z \in Nat :
           (c > b \/ (c = b /\ z > y)) /\ (b > a \/ (b = a /\ y > x))
             => (c > a \/ (c = a /\ z > x))
    OBVIOUS
  <1>4. \A o, p, q : IsOp(o) /\ IsOp(p) /\ IsOp(q) /\ Newer(q, p) /\ Newer(p, o) => Newer(q, o)
    BY <1>2, <1>3 DEF Newer
  <1>5. ASSUME NEW o, NEW p, IsOp(o), IsOp(p), Newer(p, o) PROVE ~Newer(o, p)
    <2>1. o.seq \in Nat /\ o.snap \in Nat /\ p.seq \in Nat /\ p.snap \in Nat BY <1>2, <1>5
    <2> QED BY <1>5, <2>1 DEF Newer
  <1>6. \A o : IsOp(o) => ~Newer(o, o) BY <1>5
  <1>7. NoOp.seq = 0 BY DEF NoOp
  <1>8. \A o : IsOp(o) => Newer(o, NoOp) /\ o # NoOp BY <1>2, <1>7 DEF Newer
  <1> QED BY <1>4, <1>5, <1>6, <1>8

\* The files of a device: linear leases, one root, and main ops on one line,
\* each under a lease of the device.
Sound(k) ==
  /\ k = [snaps |-> k.snaps, leases |-> k.leases, ops |-> k.ops, forks |-> k.forks]
  /\ Linear(k.leases)
  /\ \A s \in k.snaps : s.id \in SnapIds
  /\ \A s, t \in k.snaps : s.parent = NoSnap /\ t.parent = NoSnap => s = t
  /\ IsFiniteSet(k.ops)
  /\ \A o \in k.ops :
       /\ IsOp(o)
       /\ \E l \in k.leases \cup {Grant} : l.epoch = o.epoch /\ l.holder = o.by
       /\ \E s \in k.snaps : s.id = o.snap /\ ~Orphan(k.snaps, s)
  /\ \A o, p \in k.ops : o = p \/ Before(k.snaps, o, p) \/ Before(k.snaps, p, o)

Foremost(m, os) ==
  IF os = {} THEN m = NoOp ELSE m \in os /\ \A p \in os : p = m \/ Newer(m, p)
Newest(os) == CHOOSE m : Foremost(m, os)

\* What a device shows of such files.
Shown(k) == [snaps |-> k.snaps, leases |-> k.leases \cup {Grant},
             winner |-> Top(k.leases), main |-> Newest(k.ops)]

\* The main op that is applied last among os.
Youngest(os) == CHOOSE op \in os : \A x \in os :
                  \/ x.epoch < op.epoch
                  \/ x.epoch = op.epoch /\ (x = op \/ Newer(op, x))

LEMMA YoungestIs ==
  ASSUME NEW k, Sound(k), NEW os \in SUBSET k.ops, os # {}
  PROVE  /\ Youngest(os) \in os
         /\ \A p \in os : p = Youngest(os) \/ Before(k.snaps, p, Youngest(os))
  <1> DEFINE R == {p \in os \X os : Before(k.snaps, p[1], p[2])}
  <1>1. IsFiniteSet(os) BY FS_Subset DEF Sound
  <1>2. \A o \in os : IsOp(o) /\ o.epoch \in Nat /\ o.snap \in SnapIds BY DEF Sound, IsOp
  <1>3. \A o, p \in os : o = p \/ Before(k.snaps, o, p) \/ Before(k.snaps, p, o)
    BY DEF Sound
  <1>4. ASSUME NEW o \in os, NEW p \in os PROVE <<o, p>> \in R <=> Before(k.snaps, o, p)
    <2>1. <<o, p>> \in os \X os /\ <<o, p>>[1] = o /\ <<o, p>>[2] = p OBVIOUS
    <2> QED BY <2>1
  <1> HIDE DEF R
  <1>5. \A o, p \in os : o = p \/ <<o, p>> \in R \/ <<p, o>> \in R BY <1>3, <1>4
  <1>6. \A o, p, q \in os : <<o, p>> \in R /\ <<p, q>> \in R => <<o, q>> \in R
    <2> SUFFICES ASSUME NEW o \in os, NEW p \in os, NEW q \in os,
                        Before(k.snaps, o, p), Before(k.snaps, p, q)
                 PROVE  Before(k.snaps, o, q)
      BY <1>4
    <2>1. Newer(q, o) BY <1>2, NewerIs DEF Before
    <2>2. o.epoch <= q.epoch BY <1>2 DEF Before
    <2>3. Descends(k.snaps, q.snap, o.snap) BY <1>2, LineGoesOn DEF Before
    <2> QED BY <2>1, <2>2, <2>3 DEF Before
  <1>7. PICK m \in os : \A p \in os : p = m \/ <<p, m>> \in R
    BY <1>1, <1>5, <1>6, LastExists
  <1>8. \A p \in os : p = m \/ Before(k.snaps, p, m) BY <1>4, <1>7
  <1>9. \A p \in os : p.epoch < m.epoch \/ (p.epoch = m.epoch /\ (p = m \/ Newer(m, p)))
    BY <1>2, <1>8 DEF Before
  <1> DEFINE y == Youngest(os)
  <1>10. /\ y \in os
         /\ \A p \in os : p.epoch < y.epoch \/ (p.epoch = y.epoch /\ (p = y \/ Newer(y, p)))
    BY <1>9 DEF Youngest
  <1> HIDE DEF y
  <1>11. y = m
    <2>1. y = m \/ Before(k.snaps, y, m) BY <1>8, <1>10
    <2>2. y.epoch \in Nat /\ m.epoch \in Nat /\ IsOp(y) /\ IsOp(m) BY <1>2, <1>10
    <2>3. m.epoch < y.epoch \/ m = y \/ Newer(y, m) BY <1>10
    <2>4. CASE m.epoch < y.epoch BY <2>1, <2>2, <2>4 DEF Before
    <2>5. CASE Newer(y, m) BY <2>1, <2>2, <2>5, NewerIs DEF Before
    <2> QED BY <2>3, <2>4, <2>5
  <1> QED BY <1>8, <1>11 DEF y

LEMMA NewestOnly ==
  ASSUME NEW k, Sound(k), NEW os \in SUBSET k.ops, NEW m, Foremost(m, os)
  PROVE  m = Newest(os)
  <1>1. Foremost(Newest(os), os) BY DEF Newest
  <1>2. \A o \in os : IsOp(o) BY DEF Sound
  <1> QED BY <1>1, <1>2, NewerIs DEF Foremost

LEMMA NewestIs ==
  ASSUME NEW k, Sound(k), NEW os \in SUBSET k.ops
  PROVE  /\ Foremost(Newest(os), os)
         /\ os # {} => Newest(os) = Youngest(os)
  <1>1. CASE os = {}
    <2>1. Foremost(NoOp, os) BY <1>1 DEF Foremost
    <2> QED BY <1>1, <2>1 DEF Newest
  <1>2. CASE os # {}
    <2>1. Foremost(Youngest(os), os) BY <1>2, YoungestIs DEF Foremost, Before
    <2> QED BY <2>1, NewestOnly
  <1> QED BY <1>1, <1>2

\* What applying a main op, in the course of a reload, makes of the head.
Replayed(k, op, main) ==
  LET h == [LoadLeases({l \in k.leases : l.epoch <= op.epoch})
              EXCEPT !.snaps = LoadSnaps(k.snaps), !.main = main]
  IN IF MainAllowed(h, op, {}) THEN ApplyMain(h, op).main ELSE main

LEMMA LoadSnapsIs ==
  ASSUME NEW k, Sound(k) PROVE LoadSnaps(k.snaps) = k.snaps
  <1>1. \A s \in k.snaps : s.id \in Nat BY CapsuleAssumption DEF Sound
  <1>2. \A s, t \in k.snaps : s.parent = NoSnap /\ t.parent = NoSnap => s.id <= t.id
    BY <1>1 DEF Sound
  <1> QED BY <1>2 DEF LoadSnaps

(* Each main op is allowed again under the leases up to its own: it was set *)
(* by the holder of that lease, on the line of those set before.            *)
LEMMA ReplayedIs ==
  ASSUME NEW k, Sound(k), NEW op \in k.ops, NEW main,
         main = NoOp \/ (main \in k.ops /\ Before(k.snaps, main, op))
  PROVE  Replayed(k, op, main) = op
  <1> DEFINE P == {l \in k.leases : l.epoch <= op.epoch}
             h == [LoadLeases(P) EXCEPT !.snaps = LoadSnaps(k.snaps), !.main = main]
  <1>1. Linear(k.leases) /\ IsOp(op) BY DEF Sound
  <1>2. PICK l \in k.leases \cup {Grant} : l.epoch = op.epoch /\ l.holder = op.by
    BY DEF Sound
  <1>3. \A j \in k.leases : j.epoch \in Nat BY <1>1 DEF Linear
  <1>4. Linear(P)
    <2>1. P \in SUBSET k.leases OBVIOUS
    <2>2. \A j \in P : \A i \in k.leases \ {Grant} : i.epoch <= j.epoch => i \in P
      BY <1>1, <1>3 DEF IsOp
    <2> HIDE DEF P
    <2> QED BY <1>1, <2>1, <2>2, PrefixLinear
  <1>5. Highest(l, P)
    <2>1. l \in P \cup {Grant} BY <1>1, <1>2 DEF IsOp
    <2>2. Grant.epoch <= l.epoch
      <3>1. CASE l = Grant BY <3>1, GrantIs
      <3>2. CASE l # Grant
        <4>1. PICK j \in k.leases \cup {Grant} : Extends(j, l) BY <1>1, <1>2, <3>2 DEF Linear
        <4>2. j.epoch \in Nat /\ l.epoch = j.epoch + 1 BY <1>3, <4>1, GrantIs DEF Extends
        <4> QED BY <4>2, GrantIs
      <3> QED BY <3>1, <3>2
    <2>3. \A j \in P : j.epoch <= l.epoch BY <1>2
    <2> QED BY <2>1, <2>2, <2>3 DEF Highest
  <1>6. l = Top(P) BY <1>4, <1>5, TopOnly
  <1>7. LoadLeases(P) = [snaps |-> {}, leases |-> P \cup {Grant}, winner |-> l, main |-> NoOp]
    BY <1>4, <1>6, LoadLeasesIs
  <1> HIDE DEF P
  <1>8. h = [snaps |-> k.snaps, leases |-> P \cup {Grant}, winner |-> l, main |-> main]
    <2>1. [LoadLeases(P) EXCEPT !.snaps = LoadSnaps(k.snaps)] =
            [snaps |-> k.snaps, leases |-> P \cup {Grant}, winner |-> l, main |-> NoOp]
      BY <1>7, LoadSnapsIs
    <2>2. [[snaps |-> k.snaps, leases |-> P \cup {Grant}, winner |-> l, main |-> NoOp]
             EXCEPT !.main = main] =
            [snaps |-> k.snaps, leases |-> P \cup {Grant}, winner |-> l, main |-> main]
      OBVIOUS
    <2> QED BY <2>1, <2>2 DEF h
  <1> HIDE DEF h
  <1>9. /\ h.snaps = k.snaps /\ h.winner = l /\ h.main = main
        /\ \A x : [h EXCEPT !.main = x].main = x
    BY <1>8
  <1>10. Newer(op, main)
    BY <1>1, NewerIs DEF Before
  <1>11. MainAllowed(h, op, {})
    <2>1. ActiveLease(h, {}) BY DEF ActiveLease
    <2>2. \E s \in h.snaps : s.id = op.snap /\ ~Orphan(h.snaps, s) BY <1>9 DEF Sound
    <2>3. h.main # NoOp => Descends(h.snaps, op.snap, h.main.snap) BY <1>9 DEF Before
    <2> QED BY <1>2, <1>9, <2>1, <2>2, <2>3 DEF MainAllowed
  <1>12. ApplyMain(h, op).main = op BY <1>9, <1>10 DEF ApplyMain, MainWins
  <1>13. Replayed(k, op, main) = IF MainAllowed(h, op, {}) THEN ApplyMain(h, op).main ELSE main
    BY DEF Replayed, h, P
  <1> QED BY <1>11, <1>12, <1>13

(* reload_capsule shows what the files are: all the snapshots, the highest  *)
(* lease, the newest main op.                                               *)
LEMMA ReloadIs ==
  ASSUME NEW k, Sound(k) PROVE Reload(k) = Shown(k)
  <1> DEFINE S == k.ops
             V == k.ops \cup {NoOp}
             Step(it) == [s \in SUBSET S |-> IF s = {} THEN NoOp
                                             ELSE Replayed(k, Youngest(s), it[s \ {Youngest(s)}])]
             Fold == CHOOSE it : it = Step(it)
             ch == [s \in SUBSET S |-> Youngest(s)]
             op == [p \in S \X V |-> Replayed(k, p[1], p[2])]
             F == {s \in SUBSET S : Fold[s] = Newest(s)}
  <1>1. Reload(k) = [LoadLeases(k.leases) EXCEPT !.snaps = LoadSnaps(k.snaps), !.main = Fold[S]]
    BY DEF Reload, MapThenFoldSet, Replayed, Youngest
  <1>2. IsFiniteSet(S) BY DEF Sound
  <1>3. \A s \in SUBSET S : s # {} =>
           /\ Youngest(s) \in s
           /\ \A p \in s : p = Youngest(s) \/ Before(k.snaps, p, Youngest(s))
    BY YoungestIs
  <1>4. \E it : it = Step(it)
    <2>1. NoOp \in V OBVIOUS
    <2>2. ASSUME NEW x \in S, NEW v \in V PROVE Replayed(k, x, v) \in V
      <3> DEFINE h == [LoadLeases({l \in k.leases : l.epoch <= x.epoch})
                         EXCEPT !.snaps = LoadSnaps(k.snaps), !.main = v]
      <3>1. Linear({l \in k.leases : l.epoch <= x.epoch})
        <4> DEFINE P == {l \in k.leases : l.epoch <= x.epoch}
        <4>1. x.epoch \in Nat /\ \A j \in k.leases : j.epoch \in Nat
          BY DEF Sound, Linear, IsOp
        <4>2. \A j \in P : \A i \in k.leases \ {Grant} : i.epoch <= j.epoch => i \in P
          BY <4>1
        <4>3. P \in SUBSET k.leases OBVIOUS
        <4> HIDE DEF P
        <4>4. Linear(P) BY <4>2, <4>3, PrefixLinear DEF Sound
        <4> QED BY <4>4 DEF P
      <3>2. h.main = v /\ \A y : [h EXCEPT !.main = y].main = y BY <3>1, LoadLeasesIs
      <3>3. Replayed(k, x, v) = IF MainAllowed(h, x, {}) THEN ApplyMain(h, x).main ELSE v
        BY DEF Replayed
      <3> HIDE DEF h
      <3>4. ApplyMain(h, x).main \in {x, v} BY <3>2 DEF ApplyMain
      <3> QED BY <3>3, <3>4
    <2>3. \A x \in S, v \in V : op[<<x, v>>] = Replayed(k, x, v)
      <3> TAKE x \in S, v \in V
      <3>1. <<x, v>> \in S \X V OBVIOUS
      <3> HIDE DEF V, S
      <3> QED BY <3>1
    <2>4. \A s \in SUBSET S : ch[s] = Youngest(s) OBVIOUS
    <2> HIDE DEF op, ch, V, S, Fold, F
    <2>5. KeepsTo(op, S, V) BY <2>2, <2>3 DEF KeepsTo
    <2>6. Picks(ch, S) BY <1>3, <2>4 DEF Picks
    <2>7. PICK it : Folds(it, S, V, NoOp, ch, op) BY <1>2, <2>1, <2>5, <2>6, FoldExists
    <2>8. /\ it \in [SUBSET S -> V]
          /\ \A s \in SUBSET S :
               it[s] = IF s = {} THEN NoOp ELSE op[<<ch[s], it[s \ {ch[s]}]>>]
      BY <2>7 DEF Folds
    <2>9. ASSUME NEW s \in SUBSET S
          PROVE  it[s] = IF s = {} THEN NoOp
                         ELSE Replayed(k, Youngest(s), it[s \ {Youngest(s)}])
      <3>1. CASE s = {} BY <2>8, <3>1
      <3>2. CASE s # {}
        <4>1. ch[s] = Youngest(s) /\ Youngest(s) \in S /\ s \ {Youngest(s)} \in SUBSET S
          BY <1>3, <2>4, <3>2
        <4>2. it[s \ {Youngest(s)}] \in V BY <2>8, <4>1
        <4> QED BY <2>3, <2>8, <3>2, <4>1, <4>2
      <3> QED BY <3>1, <3>2
    <2>10. it = [s \in SUBSET S |-> it[s]] BY <2>8
    <2>11. it = Step(it) BY <2>9, <2>10
    <2> QED BY <2>11
  <1>5. Fold = Step(Fold)
    <2> HIDE DEF Step
    <2> QED BY <1>4
  <1> HIDE DEF Fold
  <1>6. /\ Fold[{}] = NoOp
        /\ \A s \in SUBSET S : s # {} =>
             Fold[s] = Replayed(k, Youngest(s), Fold[s \ {Youngest(s)}])
    BY <1>5
  <1>7. ASSUME NEW T \in SUBSET S, \A x \in T : T \ {x} \in F PROVE T \in F
    <2>1. Foremost(Newest(T), T) /\ (T # {} => Newest(T) = Youngest(T)) BY NewestIs
    <2>2. CASE T = {} BY <1>6, <2>1, <2>2 DEF Foremost
    <2>3. CASE T # {}
      <3> DEFINE x == Youngest(T)
                 Q == T \ {x}
      <3>1. x \in T /\ \A p \in T : p = x \/ Before(k.snaps, p, x) BY <1>3, <2>3
      <3>2. Fold[T] = Replayed(k, x, Fold[Q]) BY <1>6, <2>3
      <3> HIDE DEF x
      <3>3. Fold[Q] = Newest(Q) BY <1>7, <3>1
      <3>4. Foremost(Newest(Q), Q) BY NewestIs
      <3>5. Newest(Q) = NoOp \/ (Newest(Q) \in k.ops /\ Before(k.snaps, Newest(Q), x))
        BY <3>1, <3>4 DEF Foremost
      <3>6. Replayed(k, x, Newest(Q)) = x BY <3>1, <3>5, ReplayedIs
      <3> QED BY <2>1, <2>3, <3>2, <3>3, <3>6 DEF x
    <2> QED BY <2>2, <2>3
  <1>8. S \in F
    <2> HIDE DEF F
    <2>1. \A T \in SUBSET S : T \in F BY <1>2, <1>7, SetInduction
    <2> QED BY <2>1
  <1>9. Fold[k.ops] = Newest(k.ops) BY <1>8
  <1>10. LoadLeases(k.leases) = [snaps |-> {}, leases |-> k.leases \cup {Grant},
                                 winner |-> Top(k.leases), main |-> NoOp]
    BY LoadLeasesIs DEF Sound
  <1>11. LoadSnaps(k.snaps) = k.snaps BY LoadSnapsIs
  <1> HIDE DEF S
  <1>12. Reload(k) = [snaps |-> k.snaps, leases |-> k.leases \cup {Grant},
                      winner |-> Top(k.leases), main |-> Fold[S]]
    <2>1. [LoadLeases(k.leases) EXCEPT !.snaps = LoadSnaps(k.snaps)] =
            [snaps |-> k.snaps, leases |-> k.leases \cup {Grant},
             winner |-> Top(k.leases), main |-> NoOp]
      BY <1>10, <1>11
    <2>2. [[snaps |-> k.snaps, leases |-> k.leases \cup {Grant}, winner |-> Top(k.leases),
            main |-> NoOp] EXCEPT !.main = Fold[S]] =
            [snaps |-> k.snaps, leases |-> k.leases \cup {Grant}, winner |-> Top(k.leases),
             main |-> Fold[S]]
      OBVIOUS
    <2> QED BY <1>1, <2>1, <2>2
  <1> QED BY <1>9, <1>12 DEF Shown, S

-----------------------------------------------------------------------------
(* What the operations on a store make of it.                               *)

Files(sn, ls, os, fs) == [snaps |-> sn, leases |-> ls, ops |-> os, forks |-> fs]

\* The files have only become more, and the head has moved on.
Onward(k, j) ==
  /\ k.snaps \subseteq j.snaps /\ k.leases \subseteq j.leases /\ k.forks \subseteq j.forks
  /\ Newest(k.ops) # NoOp =>
       /\ Newest(j.ops) # NoOp
       /\ Descends(j.snaps, Newest(j.ops).snap, Newest(k.ops).snap)

\* A copy that shows the files behind it.
Right(st) ==
  /\ st = [mem |-> st.mem, disk |-> st.disk]
  /\ Sound(st.disk) /\ st.mem = Shown(st.disk)

LEMMA HeadIs ==
  ASSUME NEW k, Sound(k), Newest(k.ops) # NoOp
  PROVE  Newest(k.ops) \in k.ops /\ IsOp(Newest(k.ops)) /\ Newest(k.ops).snap \in SnapIds
  <1>1. Foremost(Newest(k.ops), k.ops) BY NewestIs
  <1> QED BY <1>1 DEF Foremost, Sound, IsOp

LEMMA OnwardStays ==
  ASSUME NEW k, Sound(k) PROVE Onward(k, k)
  BY HeadIs, LineStarts DEF Onward

LEMMA OnwardGoesOn ==
  ASSUME NEW i, NEW j, NEW k, Sound(j), Onward(i, j), Onward(j, k)
  PROVE  Onward(i, k)
  <1>1. SUFFICES ASSUME Newest(i.ops) # NoOp
                 PROVE  /\ Newest(k.ops) # NoOp
                        /\ Descends(k.snaps, Newest(k.ops).snap, Newest(i.ops).snap)
    BY DEF Onward
  <1>2. Newest(j.ops) # NoOp /\ Newest(j.ops).snap \in SnapIds BY <1>1, HeadIs DEF Onward
  <1>3. Descends(k.snaps, Newest(j.ops).snap, Newest(i.ops).snap)
    BY <1>1, LineGrows DEF Onward
  <1> QED BY <1>2, <1>3, LineGoesOn DEF Onward

(* More snapshots, leases and forks leave the main ops what they are.       *)
LEMMA SoundGrows ==
  ASSUME NEW k, Sound(k),
         NEW sn, k.snaps \subseteq sn, \A s \in sn : s.id \in SnapIds,
         \A s, t \in sn : s.parent = NoSnap /\ t.parent = NoSnap => s = t,
         NEW ls, k.leases \subseteq ls, Linear(ls),
         NEW fs, k.forks \subseteq fs
  PROVE  /\ Sound(Files(sn, ls, k.ops, fs)) /\ Onward(k, Files(sn, ls, k.ops, fs))
  <1> DEFINE j == Files(sn, ls, k.ops, fs)
  <1>1. j.snaps = sn /\ j.leases = ls /\ j.ops = k.ops /\ j.forks = fs
        /\ j = [snaps |-> j.snaps, leases |-> j.leases, ops |-> j.ops, forks |-> j.forks]
    BY DEF Files
  <1> HIDE DEF j
  <1>2. ASSUME NEW o \in k.ops
        PROVE  /\ IsOp(o)
               /\ \E l \in ls \cup {Grant} : l.epoch = o.epoch /\ l.holder = o.by
               /\ \E s \in sn : s.id = o.snap /\ ~Orphan(sn, s)
    <2>1. PICK s \in k.snaps : s.id = o.snap /\ ~Orphan(k.snaps, s) BY DEF Sound
    <2>2. ~Orphan(sn, s) BY <2>1 DEF Orphan, Ids
    <2> QED BY <2>1, <2>2 DEF Sound
  <1>3. \A o, p \in k.ops : o = p \/ Before(sn, o, p) \/ Before(sn, p, o)
    BY LineGrows DEF Sound, Before
  <1>4. Sound(j) BY <1>1, <1>2, <1>3 DEF Sound
  <1>5. Onward(k, j) BY <1>1, HeadIs, LineStarts DEF Onward
  <1> QED BY <1>4, <1>5 DEF j

LEMMA GrantAdded ==
  ASSUME NEW L
  PROVE  Top(L \cup {Grant}) = Top(L) /\ (Linear(L) => Linear(L \cup {Grant}))
  <1>1. (L \cup {Grant}) \cup {Grant} = L \cup {Grant} OBVIOUS
  <1>2. (L \cup {Grant}) \ {Grant} = L \ {Grant} OBVIOUS
  <1>3. Top(L \cup {Grant}) = Top(L) BY <1>1 DEF Top, Highest
  <1>4. ASSUME Linear(L) PROVE Linear(L \cup {Grant})
    <2>1. IsFiniteSet(L \cup {Grant}) BY <1>4, FS_AddElement DEF Linear
    <2> HIDE DEF Grant
    <2> QED BY <1>1, <1>2, <1>4, <2>1, GrantIs DEF Linear
  <1> QED BY <1>3, <1>4

(* import_capsule_records of a capsule the device may not know.             *)
LEMMA AcquaintedIs ==
  ASSUME NEW k, Sound(k), NEW st,
         st = [mem |-> Shown(k), disk |-> [k EXCEPT !.leases = @ \cup {Grant}]]
  PROVE  Right(st) /\ Onward(k, st.disk)
  <1> DEFINE j == Files(k.snaps, k.leases \cup {Grant}, k.ops, k.forks)
  <1>1. Linear(k.leases) /\ k = Files(k.snaps, k.leases, k.ops, k.forks) BY DEF Sound, Files
  <1>2. Sound(j) /\ Onward(k, j)
    <2>1. Linear(k.leases \cup {Grant}) BY <1>1, GrantAdded
    <2> QED BY <2>1, SoundGrows DEF Sound
  <1>3. [k EXCEPT !.leases = @ \cup {Grant}] = j BY <1>1 DEF Files
  <1>4. Shown(j) = Shown(k)
    <2>1. (k.leases \cup {Grant}) \cup {Grant} = k.leases \cup {Grant} OBVIOUS
    <2>2. j.snaps = k.snaps /\ j.leases = k.leases \cup {Grant} /\ j.ops = k.ops BY DEF Files
    <2> HIDE DEF j
    <2> QED BY <2>1, <2>2, GrantAdded DEF Shown
  <1> HIDE DEF j
  <1>5. st.mem = Shown(j) /\ st.disk = j BY <1>3, <1>4
  <1> QED BY <1>2, <1>5 DEF Right

(* A successor of the winner is written and wins.                           *)
LEMMA PutLeaseIs ==
  ASSUME NEW st, Right(st), NEW l, l.sig \in Nat, Extends(st.mem.winner, l)
  PROVE  /\ Right(PutLease(st, l)) /\ Onward(st.disk, PutLease(st, l).disk)
         /\ PutLease(st, l).mem.winner = l
         /\ PutLease(st, l).disk =
              Files(st.disk.snaps, st.disk.leases \cup {l}, st.disk.ops, st.disk.forks)
  <1> DEFINE k == st.disk
             j == Files(k.snaps, k.leases \cup {l}, k.ops, k.forks)
  <1>1. Sound(k) /\ st.mem = Shown(k) BY DEF Right
  <1>2. Linear(k.leases) /\ k = Files(k.snaps, k.leases, k.ops, k.forks)
    BY <1>1 DEF Sound, Files
  <1>3. Linear(k.leases \cup {l}) /\ Top(k.leases \cup {l}) = l
    <2>1. st.mem.winner = Top(k.leases) BY <1>1 DEF Shown
    <2> QED BY <1>2, <2>1, Grows
  <1> HIDE DEF k
  <1>4. Sound(j) /\ Onward(k, j) BY <1>1, <1>3, SoundGrows DEF Sound
  <1>5. [k EXCEPT !.leases = @ \cup {l}] = j BY <1>2 DEF Files
  <1>6. AcceptLease(st.mem, l) = Shown(j)
    <2> DEFINE h == Shown(k)
    <2>1. h = [snaps |-> k.snaps, leases |-> k.leases \cup {Grant}, winner |-> Top(k.leases),
               main |-> Newest(k.ops)]
      BY DEF Shown
    <2>2. AcceptLease(h, l) = [h EXCEPT !.leases = h.leases \cup {l}, !.winner = l]
      BY <1>1, <2>1 DEF AcceptLease, Beats
    <2> HIDE DEF h
    <2>3. [h EXCEPT !.leases = h.leases \cup {l}] =
             [snaps |-> k.snaps, leases |-> (k.leases \cup {Grant}) \cup {l},
              winner |-> Top(k.leases), main |-> Newest(k.ops)]
      BY <2>1
    <2>4. [[snaps |-> k.snaps, leases |-> (k.leases \cup {Grant}) \cup {l},
            winner |-> Top(k.leases), main |-> Newest(k.ops)] EXCEPT !.winner = l] =
             [snaps |-> k.snaps, leases |-> (k.leases \cup {Grant}) \cup {l},
              winner |-> l, main |-> Newest(k.ops)]
      OBVIOUS
    <2>5. Shown(j) = [snaps |-> k.snaps, leases |-> (k.leases \cup {l}) \cup {Grant},
                      winner |-> l, main |-> Newest(k.ops)]
      BY <1>3 DEF Shown, Files
    <2>6. (k.leases \cup {l}) \cup {Grant} = (k.leases \cup {Grant}) \cup {l} OBVIOUS
    <2> QED BY <1>1, <2>2, <2>3, <2>4, <2>5, <2>6 DEF h
  <1>7. PutLease(st, l) = [mem |-> Shown(j), disk |-> j]
    <2>1. Beats(st.mem.winner, l) BY DEF Beats
    <2> QED BY <1>5, <1>6, <2>1 DEF PutLease, k
  <1> HIDE DEF j
  <1>8. PutLease(st, l).mem = Shown(j) /\ PutLease(st, l).disk = j BY <1>7
  <1>9. Shown(j).winner = l BY <1>3 DEF Shown, Files, j
  <1>10. Right(PutLease(st, l)) BY <1>4, <1>7, <1>8 DEF Right
  <1> QED BY <1>4, <1>8, <1>9, <1>10 DEF j, k

(* import_snapshot_record.                                                  *)
LEMMA PutSnapIs ==
  ASSUME NEW st, Right(st), NEW s, s.id \in SnapIds, Insertable(st.mem, s)
  PROVE  /\ Right(PutSnap(st, s)) /\ Onward(st.disk, PutSnap(st, s).disk)
         /\ s \in PutSnap(st, s).disk.snaps
         /\ PutSnap(st, s).mem.main = st.mem.main /\ PutSnap(st, s).mem.winner = st.mem.winner
  <1> DEFINE k == st.disk
             j == Files(k.snaps \cup {s}, k.leases, k.ops, k.forks)
  <1>1. Sound(k) /\ st.mem = Shown(k) BY DEF Right
  <1>2. Linear(k.leases) /\ k = Files(k.snaps, k.leases, k.ops, k.forks)
    BY <1>1 DEF Sound, Files
  <1>3. \A x, y \in k.snaps \cup {s} : x.parent = NoSnap /\ y.parent = NoSnap => x = y
    <2>1. st.mem.snaps = k.snaps BY <1>1 DEF Shown
    <2>2. \A x, y \in k.snaps : x.parent = NoSnap /\ y.parent = NoSnap => x = y
      BY <1>1 DEF Sound
    <2>3. s.parent = NoSnap => \A x \in k.snaps : x.parent = NoSnap => x = s
      BY <2>1 DEF Insertable
    <2> HIDE DEF k
    <2> QED BY <2>2, <2>3
  <1> HIDE DEF k
  <1>4. Sound(j) /\ Onward(k, j)
    <2>1. \A x \in k.snaps \cup {s} : x.id \in SnapIds BY <1>1 DEF Sound
    <2> QED BY <1>1, <1>2, <1>3, <2>1, SoundGrows
  <1>5. [k EXCEPT !.snaps = @ \cup {s}] = j BY <1>2 DEF Files
  <1>6. [st.mem EXCEPT !.snaps = @ \cup {s}] = Shown(j) BY <1>1 DEF Shown, Files
  <1>7. PutSnap(st, s) = [mem |-> Shown(j), disk |-> j] BY <1>5, <1>6 DEF PutSnap, k
  <1>8. s \in j.snaps BY DEF Files
  <1>9. Shown(j).main = st.mem.main /\ Shown(j).winner = st.mem.winner
    BY <1>1 DEF Shown, Files
  <1> HIDE DEF j
  <1>10. PutSnap(st, s).mem = Shown(j) /\ PutSnap(st, s).disk = j BY <1>7
  <1>11. Right(PutSnap(st, s)) BY <1>4, <1>7, <1>10 DEF Right
  <1> QED BY <1>4, <1>8, <1>9, <1>10, <1>11 DEF k

(* A fork label.                                                            *)
LEMMA PutForkIs ==
  ASSUME NEW st, Right(st), NEW id
  PROVE  /\ Right(PutFork(st, id)) /\ Onward(st.disk, PutFork(st, id).disk)
         /\ id \in PutFork(st, id).disk.forks /\ PutFork(st, id).mem = st.mem
  <1> DEFINE k == st.disk
             j == Files(k.snaps, k.leases, k.ops, k.forks \cup {id})
  <1>1. Sound(k) /\ st.mem = Shown(k) BY DEF Right
  <1>2. Linear(k.leases) /\ k = Files(k.snaps, k.leases, k.ops, k.forks)
    BY <1>1 DEF Sound, Files
  <1>3. st = [mem |-> st.mem, disk |-> k] BY DEF Right
  <1> HIDE DEF k
  <1>4. Sound(j) /\ Onward(k, j) BY <1>1, <1>2, SoundGrows DEF Sound
  <1>5. [k EXCEPT !.forks = @ \cup {id}] = j BY <1>2 DEF Files
  <1>6. Shown(j) = Shown(k) BY DEF Shown, Files
  <1>7. id \in j.forks BY DEF Files
  <1> HIDE DEF j
  <1>8. PutFork(st, id) = [mem |-> st.mem, disk |-> j] BY <1>3, <1>5 DEF PutFork
  <1>9. PutFork(st, id).mem = st.mem /\ PutFork(st, id).disk = j BY <1>8
  <1>10. Right(PutFork(st, id)) BY <1>1, <1>4, <1>6, <1>8, <1>9 DEF Right
  <1> QED BY <1>4, <1>7, <1>9, <1>10 DEF k

(* import_label of a main op that apply_label lets pass: it is under the    *)
(* highest lease and on the line of the head, so it comes after all others. *)
LEMMA PutMainIs ==
  ASSUME NEW st, Right(st), NEW op, IsOp(op), NEW ex, MainAllowed(st.mem, op, ex)
  PROVE  /\ Right(PutMain(st, op)) /\ Onward(st.disk, PutMain(st, op).disk)
         /\ PutMain(st, op).disk.snaps = st.disk.snaps
         /\ PutMain(st, op).disk.forks = st.disk.forks
         /\ PutMain(st, op).mem.main \in {op, st.mem.main}
  <1> DEFINE k == st.disk
             m == Newest(k.ops)
             j == Files(k.snaps, k.leases, k.ops \cup {op}, k.forks)
  <1>1. Sound(k) /\ st.mem = Shown(k) /\ st = [mem |-> st.mem, disk |-> k] BY DEF Right
  <1>2. Linear(k.leases) /\ k = Files(k.snaps, k.leases, k.ops, k.forks)
    BY <1>1 DEF Sound, Files
  <1>3. st.mem.main = m /\ st.mem.snaps = k.snaps /\ st.mem.winner = Top(k.leases)
    BY <1>1 DEF Shown
  <1>4. Foremost(m, k.ops) BY <1>1, NewestIs
  <1>5. Highest(Top(k.leases), k.leases) /\ Top(k.leases).epoch \in Nat BY <1>2, TopIs
  <1> HIDE DEF k, m
  <1>6. CASE ~MainWins(st.mem, op)
    <2>1. [st.mem EXCEPT !.main = @] = st.mem BY <1>1 DEF Shown
    <2>2. [k EXCEPT !.ops = @] = k BY <1>2 DEF Files
    <2>3. PutMain(st, op) = [mem |-> [st.mem EXCEPT !.main = @], disk |-> [k EXCEPT !.ops = @]]
      BY <1>6 DEF PutMain, ApplyMain, k
    <2>4. PutMain(st, op) = st BY <1>1, <2>1, <2>2, <2>3
    <2> QED BY <1>1, <2>4, OnwardStays DEF k
  <1>7. CASE MainWins(st.mem, op)
    <2>1. Newer(op, m) /\ (m # NoOp => Descends(k.snaps, op.snap, m.snap))
      BY <1>3, <1>7 DEF MainWins, MainAllowed
    <2>2. op.by = Top(k.leases).holder /\ op.epoch = Top(k.leases).epoch
      BY <1>3 DEF MainAllowed
    <2>3. \E s \in k.snaps : s.id = op.snap /\ ~Orphan(k.snaps, s)
      BY <1>3 DEF MainAllowed
    <2>4. ASSUME NEW p \in k.ops PROVE Before(k.snaps, p, op)
      <3>1. m \in k.ops /\ IsOp(m) /\ m # NoOp /\ IsOp(p)
        BY <1>1, <1>4, NewerIs DEF Foremost, Sound
      <3>2. PICK l \in k.leases \cup {Grant} : l.epoch = p.epoch BY <1>1 DEF Sound
      <3>3. p.epoch <= op.epoch BY <1>5, <2>2, <3>2 DEF Highest
      <3>4. CASE p = m BY <2>1, <3>1, <3>3, <3>4 DEF Before
      <3>5. CASE p # m
        <4>1. Newer(m, p) BY <1>4, <3>5 DEF Foremost
        <4>2. ~Newer(p, m) BY <3>1, <4>1, NewerIs
        <4>3. Before(k.snaps, p, m) BY <1>1, <3>1, <3>5, <4>2 DEF Sound, Before
        <4>4. Newer(op, p) BY <2>1, <3>1, <4>1, NewerIs
        <4>5. m.snap \in SnapIds BY <3>1 DEF IsOp
        <4>6. Descends(k.snaps, op.snap, p.snap)
          BY <2>1, <3>1, <4>3, <4>5, LineGoesOn DEF Before
        <4> QED BY <3>3, <4>4, <4>6 DEF Before
      <3> QED BY <3>4, <3>5
    <2>5. j.snaps = k.snaps /\ j.leases = k.leases /\ j.ops = k.ops \cup {op}
          /\ j.forks = k.forks
          /\ j = [snaps |-> j.snaps, leases |-> j.leases, ops |-> j.ops, forks |-> j.forks]
      BY DEF Files
    <2> HIDE DEF j
    <2>6. Sound(j)
      <3>1. IsFiniteSet(k.ops \cup {op}) BY <1>1, FS_AddElement DEF Sound
      <3>2. \A o \in k.ops \cup {op} :
              /\ IsOp(o)
              /\ \E l \in k.leases \cup {Grant} : l.epoch = o.epoch /\ l.holder = o.by
              /\ \E s \in k.snaps : s.id = o.snap /\ ~Orphan(k.snaps, s)
        BY <1>1, <1>5, <2>2, <2>3 DEF Sound, Highest
      <3>3. \A o, p \in k.ops \cup {op} :
              o = p \/ Before(k.snaps, o, p) \/ Before(k.snaps, p, o)
        BY <1>1, <2>4 DEF Sound
      <3> QED BY <1>1, <2>5, <3>1, <3>2, <3>3 DEF Sound
    <2>7. Foremost(op, j.ops)
      <3>1. \A p \in j.ops : p = op \/ Newer(op, p) BY <2>4, <2>5 DEF Before
      <3> QED BY <2>5, <3>1 DEF Foremost
    <2>8. Newest(j.ops) = op
      <3>1. j.ops \in SUBSET j.ops OBVIOUS
      <3> QED BY <2>6, <2>7, <3>1, NewestOnly
    <2>9. Onward(k, j) BY <2>1, <2>5, <2>8, NewerIs DEF Onward, m
    <2>10. [k EXCEPT !.ops = @ \cup {op}] = j BY <1>2 DEF Files, j
    <2>11. [st.mem EXCEPT !.main = op] = Shown(j) BY <1>1, <2>5, <2>8 DEF Shown
    <2>12. PutMain(st, op) = [mem |-> Shown(j), disk |-> j]
      BY <1>7, <2>10, <2>11 DEF PutMain, ApplyMain, k
    <2>13. PutMain(st, op).mem = Shown(j) /\ PutMain(st, op).disk = j BY <2>12
    <2>14. Shown(j).main = op BY <2>8 DEF Shown
    <2>15. Right(PutMain(st, op)) BY <2>6, <2>12, <2>13 DEF Right
    <2> QED BY <2>5, <2>9, <2>13, <2>14, <2>15 DEF k
  <1> QED BY <1>6, <1>7

\* What WithLeases accepts last among s.
HighestOf(s) == CHOOSE l \in s : \A k \in s : k.epoch <= l.epoch

LEMMA HighestOfIs ==
  ASSUME NEW L, Linear(L), NEW s \in SUBSET L, s # {}
  PROVE  HighestOf(s) \in s /\ \A k \in s : k.epoch <= HighestOf(s).epoch
  BY LatestIs DEF HighestOf

LEMMA AcceptLeaseIs ==
  ASSUME NEW h, NEW l,
         h = [snaps |-> h.snaps, leases |-> h.leases, winner |-> h.winner, main |-> h.main]
  PROVE  AcceptLease(h, l) =
           [snaps |-> h.snaps,
            leases |-> IF Extends(h.winner, l) \/ Races(h.winner, l)
                       THEN h.leases \cup {l} ELSE h.leases,
            winner |-> IF Beats(h.winner, l) THEN l ELSE h.winner, main |-> h.main]
  <1> DEFINE a == IF Extends(h.winner, l) \/ Races(h.winner, l)
                  THEN h.leases \cup {l} ELSE h.leases
             b == IF Beats(h.winner, l) THEN l ELSE h.winner
  <1>1. AcceptLease(h, l) = [h EXCEPT !.leases = a, !.winner = b] BY DEF AcceptLease
  <1> HIDE DEF a, b
  <1>2. [h EXCEPT !.leases = a] =
           [snaps |-> h.snaps, leases |-> a, winner |-> h.winner, main |-> h.main]
    OBVIOUS
  <1>3. [[snaps |-> h.snaps, leases |-> a, winner |-> h.winner, main |-> h.main]
           EXCEPT !.winner = b] =
           [snaps |-> h.snaps, leases |-> a, winner |-> b, main |-> h.main]
    OBVIOUS
  <1>4. AcceptLease(h, l) =
          [snaps |-> h.snaps, leases |-> a, winner |-> b, main |-> h.main]
    BY <1>1, <1>2, <1>3
  <1> QED BY <1>4 DEF a, b

(* The leases of an offer, once they link up with the winner, are accepted  *)
(* one on top of the other and written.                                     *)
LEMMA WithLeasesIs ==
  ASSUME NEW st, Right(st), NEW o, NEW L, Linear(L), o.chain \subseteq L,
         Contiguous(st.mem, o)
  PROVE  /\ Right(WithLeases(st, o)) /\ Onward(st.disk, WithLeases(st, o).disk)
         /\ WithLeases(st, o).disk.snaps = st.disk.snaps
         /\ WithLeases(st, o).disk.ops = st.disk.ops
  <1> DEFINE N == News(st.mem, o)
             w == st.mem.winner
             At(a, b, c) ==
               [mem |-> [snaps |-> st.mem.snaps, leases |-> a, winner |-> b,
                         main |-> st.mem.main],
                disk |-> Files(st.disk.snaps, c, st.disk.ops, st.disk.forks)]
             A == SUBSET (st.mem.leases \cup N)
             B == N \cup {w}
             C == SUBSET (st.disk.leases \cup N)
             V == {At(a, b, c) : a \in A, b \in B, c \in C}
             ch == [s \in SUBSET N |-> HighestOf(s)]
             op == [p \in N \X V |-> PutLease(p[2], p[1])]
             Step(it) == [s \in SUBSET N |-> IF s = {} THEN st
                                             ELSE PutLease(it[s \ {HighestOf(s)}], HighestOf(s))]
             Fold == CHOOSE it : it = Step(it)
             Low(T) == \A l \in T : \A k \in N : k.epoch <= l.epoch => k \in T
             Good(T) == /\ Right(Fold[T]) /\ Onward(st.disk, Fold[T].disk)
                        /\ Fold[T].disk.snaps = st.disk.snaps
                        /\ Fold[T].disk.ops = st.disk.ops
                        /\ T = {} => Fold[T].mem.winner = w
                        /\ T # {} => /\ Fold[T].mem.winner \in T
                                     /\ \A k \in T : k.epoch <= Fold[T].mem.winner.epoch
             F == {T \in SUBSET N : Low(T) => Good(T)}
  <1>1. WithLeases(st, o) = Fold[N] BY DEF WithLeases, MapThenFoldSet, HighestOf
  <1>2. N \subseteq L /\ IsFiniteSet(N) BY FS_Subset DEF News, Linear
  <1>3. \A s \in SUBSET N : s # {} =>
           HighestOf(s) \in s /\ \A k \in s : k.epoch <= HighestOf(s).epoch
    BY <1>2, HighestOfIs
  <1>4. /\ st = [mem |-> st.mem, disk |-> st.disk] /\ Sound(st.disk)
        /\ st.mem = [snaps |-> st.mem.snaps, leases |-> st.mem.leases,
                     winner |-> st.mem.winner, main |-> st.mem.main]
        /\ st.mem.leases = st.disk.leases \cup {Grant} /\ w = Top(st.disk.leases)
        /\ st.disk = Files(st.disk.snaps, st.disk.leases, st.disk.ops, st.disk.forks)
    BY DEF Right, Shown, Sound, Files
  <1>5. \E it : it = Step(it)
    <2>1. st \in V
      <3>1. st = At(st.mem.leases, w, st.disk.leases) BY <1>4
      <3>2. st.mem.leases \in A /\ w \in B /\ st.disk.leases \in C OBVIOUS
      <3> HIDE DEF At, A, B, C
      <3> QED BY <3>1, <3>2
    <2>2. ASSUME NEW x \in N, NEW v \in V PROVE PutLease(v, x) \in V
      <3>1. PICK a \in A, b \in B, c \in C : v = At(a, b, c) OBVIOUS
      <3> DEFINE a2 == IF Extends(b, x) \/ Races(b, x) THEN a \cup {x} ELSE a
                 b2 == IF Beats(b, x) THEN x ELSE b
                 c2 == IF Beats(b, x) THEN c \cup {x} ELSE c
      <3>2. a2 \in A /\ b2 \in B /\ c2 \in C OBVIOUS
      <3>3. /\ v.mem = [snaps |-> st.mem.snaps, leases |-> a, winner |-> b,
                        main |-> st.mem.main]
            /\ v.disk = Files(st.disk.snaps, c, st.disk.ops, st.disk.forks)
        BY <3>1
      <3>4. AcceptLease(v.mem, x) = [snaps |-> st.mem.snaps, leases |-> a2, winner |-> b2,
                                     main |-> st.mem.main]
        <4> DEFINE h == v.mem
        <4>1. /\ h.snaps = st.mem.snaps /\ h.leases = a /\ h.winner = b /\ h.main = st.mem.main
              /\ h = [snaps |-> h.snaps, leases |-> h.leases, winner |-> h.winner,
                       main |-> h.main]
          BY <3>3
        <4> HIDE DEF h
        <4>2. AcceptLease(h, x) =
                [snaps |-> h.snaps,
                 leases |-> IF Extends(h.winner, x) \/ Races(h.winner, x)
                            THEN h.leases \cup {x} ELSE h.leases,
                 winner |-> IF Beats(h.winner, x) THEN x ELSE h.winner, main |-> h.main]
          BY <4>1, AcceptLeaseIs
        <4> QED BY <4>1, <4>2 DEF h
      <3>5. [v.disk EXCEPT !.leases = c2] =
              Files(st.disk.snaps, c2, st.disk.ops, st.disk.forks)
        BY <3>3 DEF Files
      <3>6. PutLease(v, x) = [mem |-> AcceptLease(v.mem, x),
                              disk |-> [v.disk EXCEPT !.leases = c2]]
        BY <3>3 DEF PutLease, Files
      <3> HIDE DEF a2, b2, c2
      <3>7. PutLease(v, x) = At(a2, b2, c2) BY <3>4, <3>5, <3>6
      <3> HIDE DEF At, A, B, C
      <3> QED BY <3>2, <3>7
    <2>3. \A x \in N, v \in V : op[<<x, v>>] = PutLease(v, x)
      <3> HIDE DEF V, N
      <3> TAKE x \in N, v \in V
      <3>1. <<x, v>> \in N \X V OBVIOUS
      <3> QED BY <3>1
    <2>4. \A s \in SUBSET N : ch[s] = HighestOf(s) OBVIOUS
    <2> HIDE DEF op, ch, V, N, Fold, F
    <2>5. KeepsTo(op, N, V) BY <2>2, <2>3 DEF KeepsTo
    <2>6. Picks(ch, N) BY <1>3, <2>4 DEF Picks
    <2>7. PICK it : Folds(it, N, V, st, ch, op) BY <1>2, <2>1, <2>5, <2>6, FoldExists
    <2>8. /\ it \in [SUBSET N -> V]
          /\ \A s \in SUBSET N :
               it[s] = IF s = {} THEN st ELSE op[<<ch[s], it[s \ {ch[s]}]>>]
      BY <2>7 DEF Folds
    <2>9. ASSUME NEW s \in SUBSET N
          PROVE  it[s] = IF s = {} THEN st
                         ELSE PutLease(it[s \ {HighestOf(s)}], HighestOf(s))
      <3>1. CASE s = {} BY <2>8, <3>1
      <3>2. CASE s # {}
        <4>1. ch[s] = HighestOf(s) /\ HighestOf(s) \in N /\ s \ {HighestOf(s)} \in SUBSET N
          BY <1>3, <2>4, <3>2
        <4>2. it[s \ {HighestOf(s)}] \in V BY <2>8, <4>1
        <4> QED BY <2>3, <2>8, <3>2, <4>1, <4>2
      <3> QED BY <3>1, <3>2
    <2>10. it = [s \in SUBSET N |-> it[s]] BY <2>8
    <2>11. it = Step(it) BY <2>9, <2>10
    <2> QED BY <2>11
  <1>6. Fold = Step(Fold)
    <2> HIDE DEF Step
    <2> QED BY <1>5
  <1> HIDE DEF Fold, V, op, ch, A, B, C, At
  <1>7. /\ Fold[{}] = st
        /\ \A s \in SUBSET N : s # {} =>
             Fold[s] = PutLease(Fold[s \ {HighestOf(s)}], HighestOf(s))
    BY <1>6
  <1>8. /\ \A l \in L : l.epoch \in Nat /\ l.sig \in Nat
        /\ \A k, l \in L : k.epoch = l.epoch => k = l
    BY DEF Linear
  <1>9. ASSUME NEW T \in SUBSET N, \A x \in T : T \ {x} \in F PROVE T \in F
    <2>1. SUFFICES ASSUME Low(T) PROVE Good(T) OBVIOUS
    <2>2. CASE T = {} BY <1>4, <1>7, <2>2, OnwardStays
    <2>3. CASE T # {}
      <3> DEFINE x == HighestOf(T)
                 Q == T \ {x}
                 v == Fold[Q]
                 q == v.mem.winner
      <3>1. x \in T /\ x \in L /\ \A k \in T : k.epoch <= x.epoch BY <1>2, <1>3, <2>3
      <3>2. Fold[T] = PutLease(v, x) BY <1>7, <2>3
      <3> HIDE DEF x
      <3>3. \A k \in Q : k \in L /\ k.epoch < x.epoch BY <1>2, <1>8, <3>1
      <3>4. Low(Q)
        <4> SUFFICES ASSUME NEW l \in Q, NEW k \in N, k.epoch <= l.epoch PROVE k \in Q
          OBVIOUS
        <4>1. k \in T BY <2>1
        <4>2. k \in L /\ k.epoch < x.epoch BY <1>2, <1>8, <3>1, <3>3
        <4> QED BY <1>8, <3>1, <4>1, <4>2
      <3>5. Good(Q) BY <1>9, <3>1, <3>4
      <3>6. PICK k \in N \cup {w} : Extends(k, x) BY <3>1 DEF Contiguous
      <3>7. Right(v) /\ Onward(st.disk, v.disk) /\ Sound(v.disk) /\ Linear(v.disk.leases)
            /\ q = Top(v.disk.leases)
        <4>1. Right(v) /\ Onward(st.disk, v.disk) BY <3>5
        <4> HIDE DEF v
        <4>2. Sound(v.disk) /\ v.mem = Shown(v.disk) BY <4>1 DEF Right
        <4>3. Linear(v.disk.leases) BY <4>2 DEF Sound
        <4>4. Shown(v.disk).winner = Top(v.disk.leases) BY DEF Shown
        <4> QED BY <4>1, <4>2, <4>3, <4>4
      <3>8. k = q
        <4>1. CASE k \in N
          <5>1. k \in L /\ k.epoch \in Nat /\ x.epoch = k.epoch + 1
            BY <1>2, <1>8, <3>6, <4>1 DEF Extends
          <5>2. k.epoch <= x.epoch /\ k # x BY <5>1
          <5>3. k \in Q BY <2>1, <3>1, <4>1, <5>2
          <5>4. q \in Q /\ k.epoch <= q.epoch BY <3>5, <5>3
          <5>5. q \in L /\ q.epoch \in Nat /\ q.epoch < x.epoch BY <1>8, <3>3, <5>4
          <5>6. q.epoch = k.epoch BY <5>1, <5>4, <5>5
          <5> QED BY <1>8, <5>1, <5>5, <5>6
        <4>2. CASE k = w /\ Q = {} BY <3>5, <4>2
        <4>3. CASE k = w /\ Q # {}
          <5>1. q \in Q BY <3>5, <4>3
          <5>2. q \in L /\ q.epoch \in Nat /\ q.epoch < x.epoch BY <1>8, <3>3, <5>1
          <5>3. Highest(w, st.disk.leases) /\ w.epoch \in Nat BY <1>4, TopIs DEF Sound
          <5>4. w \in v.disk.leases \cup {Grant} BY <3>7, <5>3 DEF Highest, Onward
          <5>5. Highest(q, v.disk.leases) BY <3>7, TopIs
          <5>6. w.epoch <= q.epoch BY <5>4, <5>5 DEF Highest
          <5>7. x.epoch = w.epoch + 1 BY <3>6, <4>3 DEF Extends
          <5>8. q.epoch = w.epoch BY <5>2, <5>3, <5>6, <5>7
          <5>9. q = w BY <3>7, <5>4, <5>5, <5>8 DEF Linear, Highest
          <5>10. w \in st.mem.leases BY <1>4, <5>3 DEF Highest
          <5>11. q \notin st.mem.leases BY <5>1 DEF News
          <5> QED BY <5>9, <5>10, <5>11
        <4> QED BY <3>6, <4>1, <4>2, <4>3
      <3>9. v.disk.snaps = st.disk.snaps /\ v.disk.ops = st.disk.ops BY <3>5
      <3> HIDE DEF v, q
      <3>10. /\ Right(PutLease(v, x)) /\ Onward(v.disk, PutLease(v, x).disk)
             /\ PutLease(v, x).mem.winner = x
             /\ PutLease(v, x).disk =
                  Files(v.disk.snaps, v.disk.leases \cup {x}, v.disk.ops, v.disk.forks)
        BY <1>8, <3>1, <3>6, <3>7, <3>8, PutLeaseIs DEF q
      <3>11. Onward(st.disk, PutLease(v, x).disk) BY <3>7, <3>10, OnwardGoesOn
      <3>12. PutLease(v, x).disk.snaps = v.disk.snaps /\ PutLease(v, x).disk.ops = v.disk.ops
        BY <3>10 DEF Files
      <3> QED BY <2>3, <3>1, <3>2, <3>9, <3>10, <3>11, <3>12
    <2> QED BY <2>2, <2>3
  <1>10. N \in F
    <2> HIDE DEF F, N
    <2>1. \A T \in SUBSET N : T \in F BY <1>2, <1>9, SetInduction
    <2> QED BY <2>1
  <1>11. Good(N) BY <1>10
  <1> QED BY <1>1, <1>11

\* One label that was held back is tried.
Tried(r, op) == IF MainAllowed(r.store.mem, op, expired)
                THEN [r EXCEPT !.store = PutMain(@, op)]
                ELSE [r EXCEPT !.queue = Append(@, op)]

LEMMA MaxIs ==
  ASSUME NEW n \in Nat, NEW s \in SUBSET (1 .. n), s # {} PROVE Max(s) \in s
  <1> DEFINE R == {p \in s \X s : p[1] < p[2]}
  <1>1. IsFiniteSet(s)
    <2>1. IsFiniteSet(1 .. n) BY FS_Interval
    <2> QED BY <2>1, FS_Subset
  <1>2. \A x \in s : x \in Nat OBVIOUS
  <1>3. ASSUME NEW x \in s, NEW y \in s PROVE <<x, y>> \in R <=> x < y
    <2>1. <<x, y>> \in s \X s /\ <<x, y>>[1] = x /\ <<x, y>>[2] = y OBVIOUS
    <2> QED BY <2>1
  <1> HIDE DEF R
  <1>4. ASSUME NEW x \in s, NEW y \in s PROVE x = y \/ <<x, y>> \in R \/ <<y, x>> \in R
    <2>1. x < y \/ y < x \/ x = y BY <1>2
    <2> QED BY <1>3, <2>1
  <1>5. \A x, y, z \in s : <<x, y>> \in R /\ <<y, z>> \in R => <<x, z>> \in R BY <1>2, <1>3
  <1>6. PICK m \in s : \A x \in s : x = m \/ <<x, m>> \in R
    BY <1>1, <1>4, <1>5, LastExists
  <1>7. ASSUME NEW x \in s PROVE m >= x
    <2>1. x = m \/ x < m BY <1>3, <1>6
    <2> QED BY <1>2, <2>1
  <1> QED BY <1>7 DEF Max

\* f[s] is what trying the labels at the places s of the queue comes to.
TriesAll(f, st, q) ==
  /\ Retry(st, q) = f[DOMAIN q]
  /\ f[{}] = [store |-> st, queue |-> <<>>]
  /\ \A s \in SUBSET DOMAIN q : s # {} =>
       Max(s) \in s /\ f[s] = Tried(f[s \ {Max(s)}], q[Max(s)])

(* Retry goes through the queue from its start.                             *)
LEMMA RetryFolds ==
  ASSUME NEW st, Right(st), NEW Q, NEW q \in Seq(Q)
  PROVE  \E f : TriesAll(f, st, q)
  <1> DEFINE D == DOMAIN q
             base == [store |-> st, queue |-> <<>>]
             At(a, b) ==
               [mem |-> [snaps |-> st.mem.snaps, leases |-> st.mem.leases,
                         winner |-> st.mem.winner, main |-> a],
                disk |-> Files(st.disk.snaps, st.disk.leases, b, st.disk.forks)]
             A == Q \cup {st.mem.main}
             B == SUBSET (st.disk.ops \cup Q)
             R(a, b, p) == [store |-> At(a, b), queue |-> p]
             V == {R(a, b, p) : a \in A, b \in B, p \in Seq(Q)}
             ch == [s \in SUBSET D |-> Max(s)]
             op == [p \in D \X V |-> Tried(p[2], q[p[1]])]
             Step(it) == [s \in SUBSET D |-> IF s = {} THEN base
                                             ELSE Tried(it[s \ {Max(s)}], q[Max(s)])]
             Fold == CHOOSE it : it = Step(it)
  <1>1. Retry(st, q) = Fold[D] BY DEF Retry, FoldLeft, MapThenFoldSet, Tried
  <1>2. D = 1 .. Len(q) /\ Len(q) \in Nat /\ IsFiniteSet(D) /\ \A i \in D : q[i] \in Q
    BY FS_Interval
  <1>3. \A s \in SUBSET D : s # {} => Max(s) \in s BY <1>2, MaxIs
  <1>4. /\ st = [mem |-> st.mem, disk |-> st.disk] /\ Sound(st.disk)
        /\ st.mem = [snaps |-> st.mem.snaps, leases |-> st.mem.leases,
                     winner |-> st.mem.winner, main |-> st.mem.main]
        /\ st.disk = Files(st.disk.snaps, st.disk.leases, st.disk.ops, st.disk.forks)
    BY DEF Right, Shown, Sound, Files
  <1>5. \E it : it = Step(it)
    <2>1. base \in V
      <3>1. st = At(st.mem.main, st.disk.ops) BY <1>4
      <3>2. st.mem.main \in A /\ st.disk.ops \in B OBVIOUS
      <3>3. PICK p : p = <<>> OBVIOUS
      <3>4. <<>> \in Seq(Q) OBVIOUS
      <3>5. p \in Seq(Q) BY <3>3, <3>4
      <3> HIDE DEF At, A, B
      <3>6. base = R(st.mem.main, st.disk.ops, p) BY <3>1, <3>3
      <3> HIDE DEF R, base
      <3> QED BY <3>2, <3>6, <3>5
    <2>2. ASSUME NEW i \in D, NEW v \in V PROVE Tried(v, q[i]) \in V
      <3> DEFINE x == q[i]
      <3>1. x \in Q BY <1>2
      <3>2. PICK a \in A, b \in B, p \in Seq(Q) : v = R(a, b, p)
        OBVIOUS
      <3> HIDE DEF x, V
      <3>3. /\ v.store = At(a, b) /\ v.queue = p
            /\ v = [store |-> v.store, queue |-> v.queue]
        <4> HIDE DEF At
        <4> QED BY <3>2
      <3>4. CASE ~MainAllowed(v.store.mem, x, expired)
        <4>1. Append(p, x) \in Seq(Q) BY <3>1
        <4>2. PICK p2 : p2 = Append(p, x) OBVIOUS
        <4>3. p2 \in Seq(Q) BY <4>1, <4>2
        <4> HIDE DEF At, A, B
        <4>4. Tried(v, x) = [v EXCEPT !.queue = Append(@, x)] BY <3>4 DEF Tried
        <4>5. Tried(v, x) = R(a, b, p2) BY <3>3, <4>2, <4>4
        <4> HIDE DEF R
        <4> QED BY <4>3, <4>5 DEF x, V
      <3>5. CASE MainAllowed(v.store.mem, x, expired)
        <4> DEFINE a2 == IF Newer(x, a) THEN x ELSE a
                   b2 == IF Newer(x, a) THEN b \cup {x} ELSE b
        <4>1. a2 \in A /\ b2 \in B BY <3>1
        <4>2. PutMain(At(a, b), x) = At(a2, b2)
          <5> DEFINE s == At(a, b)
          <5>1. s.mem = [snaps |-> st.mem.snaps, leases |-> st.mem.leases,
                         winner |-> st.mem.winner, main |-> a]
                /\ s.disk = [snaps |-> st.disk.snaps, leases |-> st.disk.leases, ops |-> b,
                             forks |-> st.disk.forks]
            BY DEF Files
          <5> HIDE DEF s
          <5>2. PutMain(s, x) = [mem |-> [s.mem EXCEPT !.main = a2],
                                 disk |-> [s.disk EXCEPT !.ops = b2]]
            BY <5>1 DEF PutMain, ApplyMain, MainWins
          <5> HIDE DEF a2, b2
          <5>3. [s.mem EXCEPT !.main = a2] =
                  [snaps |-> st.mem.snaps, leases |-> st.mem.leases,
                   winner |-> st.mem.winner, main |-> a2]
            BY <5>1
          <5>4. [s.disk EXCEPT !.ops = b2] =
                  [snaps |-> st.disk.snaps, leases |-> st.disk.leases, ops |-> b2,
                   forks |-> st.disk.forks]
            BY <5>1
          <5> QED BY <5>2, <5>3, <5>4 DEF Files, s
        <4> HIDE DEF At, A, B, a2, b2
        <4>3. Tried(v, x) = [v EXCEPT !.store = PutMain(@, x)] BY <3>5 DEF Tried
        <4>4. Tried(v, x) = R(a2, b2, p) BY <3>3, <4>2, <4>3
        <4> HIDE DEF R
        <4> QED BY <4>1, <4>4 DEF x, V
      <3> QED BY <3>4, <3>5 DEF x
    <2> HIDE DEF V, D, base
    <2>3. \A i \in D, v \in V : op[<<i, v>>] = Tried(v, q[i])
      <3> TAKE i \in D, v \in V
      <3>1. <<i, v>> \in D \X V OBVIOUS
      <3> QED BY <3>1
    <2>4. \A s \in SUBSET D : ch[s] = Max(s) OBVIOUS
    <2> HIDE DEF op, ch, Fold
    <2>5. KeepsTo(op, D, V) BY <2>2, <2>3 DEF KeepsTo
    <2>6. Picks(ch, D) BY <1>3, <2>4 DEF Picks
    <2>7. PICK it : Folds(it, D, V, base, ch, op) BY <1>2, <2>1, <2>5, <2>6, FoldExists
    <2>8. /\ it \in [SUBSET D -> V]
          /\ \A s \in SUBSET D :
               it[s] = IF s = {} THEN base ELSE op[<<ch[s], it[s \ {ch[s]}]>>]
      BY <2>7 DEF Folds
    <2>9. ASSUME NEW s \in SUBSET D
          PROVE  it[s] = IF s = {} THEN base ELSE Tried(it[s \ {Max(s)}], q[Max(s)])
      <3>1. CASE s = {} BY <2>8, <3>1
      <3>2. CASE s # {}
        <4>1. ch[s] = Max(s) /\ Max(s) \in D /\ s \ {Max(s)} \in SUBSET D
          BY <1>3, <2>4, <3>2
        <4>2. it[s \ {Max(s)}] \in V BY <2>8, <4>1
        <4> QED BY <2>3, <2>8, <3>2, <4>1, <4>2
      <3> QED BY <3>1, <3>2
    <2>10. it = [s \in SUBSET D |-> it[s]] BY <2>8
    <2>11. it = Step(it) BY <2>9, <2>10
    <2> QED BY <2>11
  <1>6. Fold = Step(Fold)
    <2> HIDE DEF Step
    <2> QED BY <1>5
  <1> HIDE DEF Fold, V, op, ch, A, B, At, R
  <1>7. /\ Fold[{}] = base
        /\ \A s \in SUBSET D : s # {} => Fold[s] = Tried(Fold[s \ {Max(s)}], q[Max(s)])
    BY <1>6
  <1>8. TriesAll(Fold, st, q) BY <1>1, <1>3, <1>7 DEF TriesAll
  <1> QED BY <1>8

(* retry_pending_main_labels: each label it lets pass moves the head on.    *)
LEMMA RetryIs ==
  ASSUME NEW st, Right(st), NEW Q, \A x \in Q : IsOp(x), NEW q \in Seq(Q)
  PROVE  /\ Right(Retry(st, q).store) /\ Onward(st.disk, Retry(st, q).store.disk)
         /\ Retry(st, q).queue \in Seq(Q)
  <1> DEFINE D == DOMAIN q
             base == [store |-> st, queue |-> <<>>]
             Good(r) == /\ Right(r.store) /\ Onward(st.disk, r.store.disk)
                        /\ r.queue \in Seq(Q)
                        /\ r = [store |-> r.store, queue |-> r.queue]
  <1>1. PICK Fold : /\ Retry(st, q) = Fold[D]
                    /\ Fold[{}] = base
                    /\ \A s \in SUBSET D : s # {} =>
                         Max(s) \in s /\ Fold[s] = Tried(Fold[s \ {Max(s)}], q[Max(s)])
    <2>1. PICK f : TriesAll(f, st, q) BY RetryFolds
    <2> QED BY <2>1 DEF TriesAll
  <1> DEFINE F == {T \in SUBSET D : Good(Fold[T])}
  <1>2. IsFiniteSet(D) /\ \A i \in D : q[i] \in Q
    BY FS_Interval
  <1>3. ASSUME NEW T \in SUBSET D, \A x \in T : T \ {x} \in F PROVE T \in F
    <2>1. CASE T = {}
      <3>1. Good(base) BY OnwardStays DEF Right
      <3> QED BY <1>1, <2>1, <3>1
    <2>2. CASE T # {}
      <3> DEFINE x == q[Max(T)]
                 r == Fold[T \ {Max(T)}]
      <3>1. x \in Q /\ IsOp(x) BY <1>1, <1>2, <2>2
      <3>2. Good(r) BY <1>1, <1>3, <2>2
      <3>3. Fold[T] = Tried(r, x) BY <1>1, <2>2
      <3> HIDE DEF x, r
      <3>4. CASE ~MainAllowed(r.store.mem, x, expired)
        <4>1. Tried(r, x) = [store |-> r.store, queue |-> Append(r.queue, x)]
          BY <3>2, <3>4 DEF Tried
        <4>2. Append(r.queue, x) \in Seq(Q) BY <3>1, <3>2
        <4>3. Good(Tried(r, x)) BY <3>2, <4>1, <4>2
        <4> QED BY <3>3, <4>3
      <3>5. CASE MainAllowed(r.store.mem, x, expired)
        <4> DEFINE n == PutMain(r.store, x)
        <4>1. Tried(r, x) = [store |-> n, queue |-> r.queue] BY <3>2, <3>5 DEF Tried
        <4>2. Right(n) /\ Onward(r.store.disk, n.disk) BY <3>1, <3>2, <3>5, PutMainIs
        <4>3. Sound(r.store.disk) BY <3>2 DEF Right
        <4> HIDE DEF n
        <4>4. Onward(st.disk, n.disk) BY <3>2, <4>2, <4>3, OnwardGoesOn
        <4>5. Good(Tried(r, x)) BY <3>2, <4>1, <4>2, <4>4
        <4> QED BY <3>3, <4>5
      <3> QED BY <3>4, <3>5
    <2> QED BY <2>1, <2>2
  <1>4. D \in F
    <2> HIDE DEF F, D
    <2>1. \A T \in SUBSET D : T \in F BY <1>2, <1>3, SetInduction
    <2> QED BY <2>1
  <1>5. Good(Fold[D]) BY <1>4
  <1> QED BY <1>1, <1>5

-----------------------------------------------------------------------------
(* The invariant.                                                           *)

\* What an offer holds comes from the sound files of its sender.
OfferIs(o) ==
  /\ o.snap.id \in SnapIds
  /\ \E L : Linear(L) /\ o.chain \subseteq L
  /\ o.main = NoOp \/ IsOp(o.main)

IsQueue(q) == \E Q : (\A x \in Q : IsOp(x)) /\ q \in Seq(Q)

\* The files k keep the promise of the ack a.
Keeps(k, a) ==
  /\ a.offer.snap \in k.snaps
  /\ a.shelf = "capsule-head" =>
       /\ Newest(k.ops) # NoOp
       /\ Descends(k.snaps, Newest(k.ops).snap, a.offer.main.snap)
  /\ a.shelf = "capsule-fork" => a.offer.snap.id \in k.forks

Settled ==
  /\ disk = [d \in Devices |-> disk[d]] /\ held = [d \in Devices |-> held[d]]
  /\ told = [d \in Devices |-> told[d]]
  /\ \A d \in Devices :
       /\ Sound(disk[d]) /\ IsQueue(held[d])
       /\ told[d] = Newest(disk[d].ops)
  /\ \A o \in offers : OfferIs(o)
  /\ \A a \in acks : a.by \in Devices /\ Keeps(disk[a.by], a)

\* A step after which no head has been rewound.
Forward ==
  \A d \in Devices : told[d] # NoOp =>
    Descends(UNION {disk'[c].snaps : c \in Devices}, told'[d].snap, told[d].snap)

LEMMA KeepsOn ==
  ASSUME NEW j, NEW k, Sound(j), Onward(j, k), NEW a, Keeps(j, a) PROVE Keeps(k, a)
  <1>1. ASSUME a.shelf = "capsule-head"
        PROVE  /\ Newest(k.ops) # NoOp
               /\ Descends(k.snaps, Newest(k.ops).snap, a.offer.main.snap)
    <2>1. Newest(j.ops) # NoOp /\ Descends(j.snaps, Newest(j.ops).snap, a.offer.main.snap)
      BY <1>1 DEF Keeps
    <2>2. Newest(j.ops).snap \in SnapIds BY <2>1, HeadIs
    <2>3. Descends(k.snaps, Newest(j.ops).snap, a.offer.main.snap)
      BY <2>1, LineGrows DEF Onward
    <2> QED BY <2>1, <2>2, <2>3, LineGoesOn DEF Onward
  <1> QED BY <1>1 DEF Keeps, Onward

\* A step that leaves d with the files k and the labels q held back, and gives
\* the acks A.
Leaves(d, k, q, A) ==
  /\ Sound(k) /\ Onward(disk[d], k) /\ IsQueue(q)
  /\ \A a \in A : a.by = d /\ Keeps(k, a)
  /\ disk' = [disk EXCEPT ![d] = k] /\ told' = [told EXCEPT ![d] = Newest(k.ops)]
  /\ held' = [held EXCEPT ![d] = q]
  /\ offers' = offers /\ acks' = acks \cup A

(* A step that leaves the files of one device sound and moved on.           *)
LEMMA MovesOn ==
  ASSUME Settled, NEW d \in Devices, NEW k, NEW q, NEW A, Leaves(d, k, q, A)
  PROVE  Settled' /\ Forward
  <1> USE DEF Leaves
  <1>1. /\ disk' = [c \in Devices |-> disk'[c]] /\ held' = [c \in Devices |-> held'[c]]
        /\ told' = [c \in Devices |-> told'[c]]
    BY DEF Settled
  <1>2. /\ disk'[d] = k /\ told'[d] = Newest(k.ops) /\ held'[d] = q
        /\ \A c \in Devices \ {d} : /\ disk'[c] = disk[c] /\ told'[c] = told[c]
                                    /\ held'[c] = held[c]
    BY DEF Settled
  <1>3. ASSUME NEW c \in Devices
        PROVE  /\ Sound(disk'[c]) /\ IsQueue(held'[c])
               /\ told'[c] = Newest(disk'[c].ops)
               /\ Onward(disk[c], disk'[c])
    <2>1. CASE c = d BY <1>2, <2>1
    <2>2. CASE c # d BY <1>2, <2>2, OnwardStays DEF Settled
    <2> QED BY <2>1, <2>2
  <1>4. ASSUME NEW a \in acks' PROVE a.by \in Devices /\ Keeps(disk'[a.by], a)
    <2>1. CASE a \in A BY <1>2, <2>1
    <2>2. CASE a \in acks
      <3>1. a.by \in Devices /\ Keeps(disk[a.by], a) /\ Sound(disk[a.by])
        BY <2>2 DEF Settled
      <3> QED BY <1>3, <3>1, KeepsOn
    <2> QED BY <2>1, <2>2
  <1>5. Settled' BY <1>1, <1>3, <1>4 DEF Settled
  <1>6. ASSUME NEW c \in Devices, told[c] # NoOp
        PROVE  Descends(UNION {disk'[b].snaps : b \in Devices}, told'[c].snap, told[c].snap)
    <2>1. told[c] = Newest(disk[c].ops) BY DEF Settled
    <2>2. Descends(disk'[c].snaps, told'[c].snap, told[c].snap)
      BY <1>3, <1>6, <2>1 DEF Onward
    <2>3. disk'[c].snaps \subseteq UNION {disk'[b].snaps : b \in Devices} OBVIOUS
    <2> QED BY <2>2, <2>3, LineGrows
  <1> QED BY <1>5, <1>6 DEF Forward

LEMMA OpenedIs ==
  ASSUME Settled, NEW d \in Devices
  PROVE  Right(Opened(d)) /\ Opened(d).disk = disk[d] /\ Onward(disk[d], disk[d])
  BY ReloadIs, OnwardStays DEF Settled, Opened, Right

(* The ends of an operation: done, or cut short by a crash.                 *)
LEMMA EndsIs ==
  ASSUME Settled, NEW d \in Devices,
         NEW st, Right(st), Onward(disk[d], st.disk), Ends(d, st),
         UNCHANGED <<held, offers, acks>>
  PROVE  Settled' /\ Forward
  <1>1. st.mem.main = Newest(st.disk.ops) /\ Sound(st.disk) BY DEF Right, Shown
  <1>2. held' = [held EXCEPT ![d] = held[d]] /\ IsQueue(held[d]) BY DEF Settled
  <1>3. /\ disk' = [disk EXCEPT ![d] = st.disk]
        /\ told' = [told EXCEPT ![d] = Newest(st.disk.ops)]
    BY <1>1 DEF Ends
  <1>4. acks' = acks \cup {} /\ offers' = offers OBVIOUS
  <1>5. Leaves(d, st.disk, held[d], {}) BY <1>1, <1>2, <1>3, <1>4 DEF Leaves
  <1> QED BY <1>5, MovesOn

LEMMA RestartsIs ==
  ASSUME Settled, NEW d \in Devices,
         NEW st, Right(st), Onward(disk[d], st.disk), Restarts(d, st.disk),
         UNCHANGED <<held, offers, acks>>
  PROVE  Settled' /\ Forward
  <1>1. Reload(st.disk).main = Newest(st.disk.ops) /\ Sound(st.disk)
    BY ReloadIs DEF Right, Shown
  <1>2. held' = [held EXCEPT ![d] = held[d]] /\ IsQueue(held[d]) BY DEF Settled
  <1>3. /\ disk' = [disk EXCEPT ![d] = st.disk]
        /\ told' = [told EXCEPT ![d] = Newest(st.disk.ops)]
    BY <1>1 DEF Restarts
  <1>4. acks' = acks \cup {} /\ offers' = offers OBVIOUS
  <1>5. Leaves(d, st.disk, held[d], {}) BY <1>1, <1>2, <1>3, <1>4 DEF Leaves
  <1> QED BY <1>5, MovesOn

-----------------------------------------------------------------------------
(* The steps.                                                               *)

LEMMA OpenedShows ==
  ASSUME NEW st, Right(st)
  PROVE  /\ st.mem.snaps = st.disk.snaps /\ st.mem.winner.epoch \in Nat
         /\ st.mem.main = NoOp \/ IsOp(st.mem.main)
         /\ st.mem.main.seq \in Nat
         /\ st.mem.main.snap = NoSnap \/ st.mem.main.snap \in SnapIds
         /\ \A s \in st.mem.snaps : s.id \in SnapIds
  <1>1. Sound(st.disk) /\ st.mem = Shown(st.disk) /\ Linear(st.disk.leases)
    BY DEF Right, Sound
  <1>2. st.mem.snaps = st.disk.snaps /\ st.mem.winner = Top(st.disk.leases)
        /\ st.mem.main = Newest(st.disk.ops)
    BY <1>1 DEF Shown
  <1>3. st.mem.winner.epoch \in Nat BY <1>1, <1>2, TopIs
  <1>4. st.mem.main = NoOp \/ IsOp(st.mem.main) BY <1>1, <1>2, HeadIs
  <1>5. NoOp.seq = 0 /\ NoOp.snap = NoSnap BY DEF NoOp
  <1>6. st.mem.main.seq \in Nat /\ (st.mem.main.snap = NoSnap \/ st.mem.main.snap \in SnapIds)
    BY <1>4, <1>5 DEF IsOp
  <1>7. \A s \in st.disk.snaps : s.id \in SnapIds BY <1>1 DEF Sound
  <1> QED BY <1>2, <1>3, <1>4, <1>6, <1>7

LEMMA SuccessionIs ==
  ASSUME NEW st, Right(st), NEW d, NEW sig \in FreshSig
  PROVE  /\ Right(PutLease(st, Succession(st.mem, d, sig)))
         /\ Onward(st.disk, PutLease(st, Succession(st.mem, d, sig)).disk)
  <1> DEFINE l == Succession(st.mem, d, sig)
  <1>1. l.sig \in Nat BY CapsuleAssumption DEF FreshSig, Succession
  <1>2. Extends(st.mem.winner, l) BY DEF Extends, Succession
  <1> HIDE DEF l
  <1>3. Right(PutLease(st, l)) /\ Onward(st.disk, PutLease(st, l).disk)
    BY <1>1, <1>2, PutLeaseIs
  <1> QED BY <1>3 DEF l

LEMMA LeasedIs ==
  ASSUME Settled, NEW d \in Devices, NEW noLease \in BOOLEAN, NEW st \in Leased(d, noLease)
  PROVE  Right(st) /\ Onward(disk[d], st.disk)
  <1>1. \/ st = Opened(d)
        \/ \E sig \in FreshSig : st = PutLease(Opened(d), Succession(Opened(d).mem, d, sig))
    BY DEF Leased
  <1>2. Right(Opened(d)) /\ Opened(d).disk = disk[d] /\ Onward(disk[d], disk[d])
    BY OpenedIs
  <1> QED BY <1>1, <1>2, SuccessionIs

LEMMA LabelledIs ==
  ASSUME NEW st, Right(st), NEW s, s.id \in SnapIds
  PROVE  Right(Labelled(st, s)) /\ Onward(st.disk, Labelled(st, s).disk)
  <1> DEFINE op == NextOp(st.mem, s.id, s.writer)
  <1>1. IsOp(op)
    <2>1. op.seq = st.mem.main.seq + 1 /\ op.snap = s.id /\ op.epoch = st.mem.winner.epoch
      BY DEF NextOp
    <2>2. op.seq \in Nat \ {0} BY <2>1, OpenedShows
    <2>3. op.epoch \in Nat BY <2>1, OpenedShows
    <2> QED BY <2>1, <2>2, <2>3 DEF IsOp
  <1>2. \/ Labelled(st, s) = PutFork(st, s.id)
        \/ MainAllowed(st.mem, op, expired) /\ Labelled(st, s) = PutMain(st, op)
        \/ Labelled(st, s) = st
    BY DEF Labelled
  <1>3. Right(PutFork(st, s.id)) /\ Onward(st.disk, PutFork(st, s.id).disk) BY PutForkIs
  <1>4. Onward(st.disk, st.disk) BY OnwardStays DEF Right
  <1> HIDE DEF op
  <1>5. MainAllowed(st.mem, op, expired) =>
          Right(PutMain(st, op)) /\ Onward(st.disk, PutMain(st, op).disk)
    BY <1>1, PutMainIs
  <1> QED BY <1>2, <1>3, <1>4, <1>5

LEMMA TakeLeaseStep ==
  ASSUME Settled, NEW d \in Devices, TakeLease(d)
  PROVE  Settled' /\ Forward
  <1>2. PICK sig \in FreshSig :
          Ends(d, PutLease(Opened(d), Succession(Opened(d).mem, d, sig)))
    BY DEF TakeLease
  <1>3. UNCHANGED <<held, offers, acks>> BY DEF TakeLease
  <1> DEFINE st == PutLease(Opened(d), Succession(Opened(d).mem, d, sig))
  <1>4. Right(st) /\ Onward(disk[d], st.disk) BY OpenedIs, SuccessionIs
  <1> HIDE DEF st
  <1>5. Ends(d, st) BY <1>2 DEF st
  <1> QED BY <1>3, <1>4, <1>5, EndsIs

LEMMA AuthorStep ==
  ASSUME Settled, NEW d \in Devices, Author(d)
  PROVE  Settled' /\ Forward
  <1>1. UNCHANGED <<held, offers, acks>> BY DEF Author
  <1>2. PICK noLease \in BOOLEAN, id \in FreshId : \E st \in Leased(d, noLease) :
          LET s == [id |-> id, parent |-> st.mem.main.snap, writer |-> d]
          IN IF ~Insertable(st.mem, s)
             THEN Ends(d, st) /\ UNCHANGED <<session, crashes>>
             ELSE \/ Ends(d, Labelled(PutSnap(st, s), s)) /\ UNCHANGED <<session, crashes>>
                  \/ Restarts(d, PutSnap(st, s).disk)
    BY DEF Author
  <1>3. PICK st \in Leased(d, noLease) :
          LET s == [id |-> id, parent |-> st.mem.main.snap, writer |-> d]
          IN IF ~Insertable(st.mem, s)
             THEN Ends(d, st) /\ UNCHANGED <<session, crashes>>
             ELSE \/ Ends(d, Labelled(PutSnap(st, s), s)) /\ UNCHANGED <<session, crashes>>
                  \/ Restarts(d, PutSnap(st, s).disk)
    BY <1>2
  <1> DEFINE s == [id |-> id, parent |-> st.mem.main.snap, writer |-> d]
             n == PutSnap(st, s)
  <1>4. Right(st) /\ Onward(disk[d], st.disk) BY LeasedIs
  <1>5. s.id \in SnapIds BY DEF FreshId
  <1> HIDE DEF s
  <1>6. CASE ~Insertable(st.mem, s)
    <2>1. Ends(d, st) BY <1>3, <1>6 DEF s
    <2> QED BY <1>1, <1>4, <2>1, EndsIs
  <1>7. CASE Insertable(st.mem, s)
    <2>1. Right(n) /\ Onward(st.disk, n.disk) BY <1>4, <1>5, <1>7, PutSnapIs
    <2>2. \/ Ends(d, Labelled(n, s))
          \/ Restarts(d, n.disk)
      BY <1>3, <1>7 DEF s
    <2> HIDE DEF n
    <2>3. Sound(st.disk) /\ Sound(n.disk) BY <1>4, <2>1 DEF Right
    <2>4. Onward(disk[d], n.disk) BY <1>4, <2>1, <2>3, OnwardGoesOn
    <2>5. Right(Labelled(n, s)) /\ Onward(n.disk, Labelled(n, s).disk)
      BY <1>5, <2>1, LabelledIs
    <2>6. Onward(disk[d], Labelled(n, s).disk) BY <2>3, <2>4, <2>5, OnwardGoesOn
    <2>7. CASE Ends(d, Labelled(n, s))
      BY <1>1, <2>5, <2>6, <2>7, EndsIs
    <2>8. CASE Restarts(d, n.disk) BY <1>1, <2>1, <2>4, <2>8, RestartsIs
    <2> QED BY <2>2, <2>7, <2>8
  <1> QED BY <1>6, <1>7

LEMMA AttachStep ==
  ASSUME Settled, NEW d \in Devices, Attach(d)
  PROVE  Settled' /\ Forward
  <1>1. UNCHANGED <<held, offers, acks>> BY DEF Attach
  <1>2. PICK id \in FreshId, p \in Ids(Reload(disk[d]).snaps) :
          LET s == [id |-> id, parent |-> p, writer |-> d]
          IN Ends(d, Labelled(PutSnap(Opened(d), s), s))
    BY DEF Attach
  <1> DEFINE s == [id |-> id, parent |-> p, writer |-> d]
             n == PutSnap(Opened(d), s)
  <1>3. Right(Opened(d)) /\ Opened(d).disk = disk[d] /\ Sound(disk[d])
    BY OpenedIs DEF Settled
  <1>4. p \in SnapIds
    <2>1. Reload(disk[d]).snaps = disk[d].snaps BY <1>3, ReloadIs DEF Shown
    <2> QED BY <1>3, <2>1 DEF Ids, Sound
  <1>5. s.id \in SnapIds /\ Insertable(Opened(d).mem, s)
    <2>1. s.parent # NoSnap /\ s.id = id BY <1>4, CapsuleAssumption
    <2> QED BY <2>1 DEF Insertable, FreshId
  <1> HIDE DEF s
  <1>6. Right(n) /\ Onward(disk[d], n.disk) BY <1>3, <1>5, PutSnapIs
  <1>7. Ends(d, Labelled(n, s)) BY <1>2 DEF s
  <1> HIDE DEF n
  <1>8. Sound(n.disk) BY <1>6 DEF Right
  <1>9. Right(Labelled(n, s)) /\ Onward(n.disk, Labelled(n, s).disk)
    BY <1>5, <1>6, LabelledIs
  <1>10. Onward(disk[d], Labelled(n, s).disk) BY <1>6, <1>8, <1>9, OnwardGoesOn
  <1> QED BY <1>1, <1>7, <1>9, <1>10, EndsIs

LEMMA IsQueueGrows ==
  ASSUME NEW q, IsQueue(q), NEW op, IsOp(op) PROVE IsQueue(Append(q, op))
  <1>1. PICK Q : (\A x \in Q : IsOp(x)) /\ q \in Seq(Q) BY DEF IsQueue
  <1>2. q \in Seq(Q \cup {op}) BY <1>1
  <1>3. Append(q, op) \in Seq(Q \cup {op}) BY <1>2
  <1>4. \A x \in Q \cup {op} : IsOp(x) BY <1>1
  <1> QED BY <1>3, <1>4 DEF IsQueue

\* The copy a session of d has that loaded its store just now, and its store
\* after it has put the snapshot of the offer o.
Fresh(d)      == Reload(disk[d])
Arrived(d, o) == PutSnap(Acquainted(d, Fresh(d)), o.snap)

LEMMA AcquaintedShows ==
  ASSUME Settled, NEW d \in Devices
  PROVE  /\ Right(Acquainted(d, Fresh(d)))
         /\ Onward(disk[d], Acquainted(d, Fresh(d)).disk)
         /\ Acquainted(d, Fresh(d)).mem = Fresh(d)
  <1>1. Sound(disk[d]) /\ Fresh(d) = Shown(disk[d]) BY ReloadIs DEF Settled, Fresh
  <1>2. /\ Acquainted(d, Fresh(d)) = [mem |-> Shown(disk[d]),
                                      disk |-> [disk[d] EXCEPT !.leases = @ \cup {Grant}]]
    BY <1>1 DEF Acquainted
  <1>3. Acquainted(d, Fresh(d)).mem = Fresh(d) BY DEF Acquainted
  <1> QED BY <1>1, <1>2, <1>3, AcquaintedIs

LEMMA AdoptedIs ==
  ASSUME NEW st, Right(st), NEW o, OfferIs(o)
  PROVE  /\ Right(Adopted(st, o)) /\ Onward(st.disk, Adopted(st, o).disk)
         /\ Adoptable(st, o) =>
              Right(WithLeases(st, o)) /\ Onward(st.disk, WithLeases(st, o).disk)
  <1>1. Onward(st.disk, st.disk) BY OnwardStays DEF Right
  <1>2. CASE ~Adoptable(st, o) BY <1>1, <1>2 DEF Adopted
  <1>3. CASE Adoptable(st, o)
    <2> DEFINE n == WithLeases(st, o)
    <2>1. PICK L : Linear(L) /\ o.chain \subseteq L BY DEF OfferIs
    <2>2. Right(n) /\ Onward(st.disk, n.disk) BY <1>3, <2>1, WithLeasesIs DEF Adoptable
    <2>3. \/ Adopted(st, o) = n
          \/ /\ Adopted(st, o) = PutMain(n, o.main) /\ IsOp(o.main)
             /\ MainAllowed(n.mem, o.main, expired)
      BY <1>3 DEF Adopted, Adoptable, OfferIs
    <2> HIDE DEF n
    <2>4. Sound(n.disk) BY <2>2 DEF Right
    <2>5. IsOp(o.main) /\ MainAllowed(n.mem, o.main, expired) =>
            Right(PutMain(n, o.main)) /\ Onward(n.disk, PutMain(n, o.main).disk)
      BY <2>2, PutMainIs
    <2>6. Right(Adopted(st, o)) /\ Onward(st.disk, Adopted(st, o).disk)
      BY <2>2, <2>3, <2>4, <2>5, OnwardGoesOn
    <2> QED BY <2>2, <2>6 DEF n
  <1> QED BY <1>2, <1>3

(* The store after such a session has put the snapshot of an offer.         *)
LEMMA ArrivedIs ==
  ASSUME Settled, NEW d \in Devices, NEW o \in offers, Insertable(Fresh(d), o.snap)
  PROVE  /\ Right(Arrived(d, o)) /\ Onward(disk[d], Arrived(d, o).disk)
         /\ o.snap \in Arrived(d, o).disk.snaps
  <1> DEFINE st == Acquainted(d, Fresh(d))
  <1>1. Right(st) /\ Onward(disk[d], st.disk) /\ Insertable(st.mem, o.snap)
    BY AcquaintedShows
  <1>2. o.snap.id \in SnapIds BY DEF Settled, OfferIs
  <1> HIDE DEF st
  <1>3. Sound(st.disk) BY <1>1 DEF Right
  <1>4. /\ Right(PutSnap(st, o.snap)) /\ Onward(st.disk, PutSnap(st, o.snap).disk)
        /\ o.snap \in PutSnap(st, o.snap).disk.snaps
    BY <1>1, <1>2, PutSnapIs
  <1>5. Onward(disk[d], PutSnap(st, o.snap).disk) BY <1>1, <1>3, <1>4, OnwardGoesOn
  <1> QED BY <1>4, <1>5 DEF st, Arrived

(* A session ends and leaves the files st.disk.                             *)
LEMMA ReceivedIs ==
  ASSUME Settled, NEW d \in Devices, NEW w \in Workers, NEW st, Sound(st.disk),
         session[d][w] = Fresh(d) => Right(st), Received(d, w, st)
  PROVE  /\ disk' = [disk EXCEPT ![d] = st.disk]
         /\ told' = [told EXCEPT ![d] = Newest(st.disk.ops)]
  <1>1. Right(st) => st.mem.main = Newest(st.disk.ops) BY DEF Right, Shown
  <1>2. Reload(st.disk).main = Newest(st.disk.ops) BY ReloadIs DEF Shown
  <1> QED BY <1>1, <1>2 DEF Received, Fresh

\* The ack of a receipt r of the offer o by d.
AckOf(d, o, r) == [by |-> d, offer |-> o, shelf |-> r.shelf]

(* What finalize_received_offer leaves when it starts from a fresh copy.    *)
LEMMA ReceiptIs ==
  ASSUME Settled, NEW d \in Devices, NEW o \in offers, Insertable(Fresh(d), o.snap),
         NEW r, r = Receipt(d, Fresh(d), o)
  PROVE  /\ Right(r.store) /\ Onward(disk[d], r.store.disk) /\ IsQueue(r.queue)
         /\ Keeps(r.store.disk, AckOf(d, o, r))
  <1> DEFINE snap  == Arrived(d, o)
             moved == Moved(snap, o)
             got   == Adopted(snap, o)
             next  == IF moved THEN got ELSE PutFork(got, o.snap.id)
             queue == IF moved \/ o.main = NoOp \/ Contains(held[d], o.main)
                      THEN held[d] ELSE Append(held[d], o.main)
             last  == Retry(next, queue)
             ack   == AckOf(d, o, r)
  <1>1. /\ r.store = last.store /\ r.queue = last.queue
        /\ r.shelf = IF moved THEN "capsule-head" ELSE "capsule-fork"
    BY DEF Receipt, Arrived
  <1>2. OfferIs(o) /\ IsQueue(held[d]) BY DEF Settled
  <1>3. Right(snap) /\ Onward(disk[d], snap.disk) /\ o.snap \in snap.disk.snaps
    BY ArrivedIs
  <1>4. moved => o.main # NoOp /\ got.mem.main.snap = o.main.snap BY DEF Moved
  <1>5. ack.by = d /\ ack.offer = o /\ (moved <=> ack.shelf = "capsule-head")
        /\ (~moved <=> ack.shelf = "capsule-fork")
    BY <1>1 DEF AckOf
  <1>6. IsQueue(queue)
    <2>1. CASE o.main = NoOp BY <1>2, <2>1
    <2>2. CASE o.main # NoOp
      <3>1. IsOp(o.main) BY <1>2, <2>2 DEF OfferIs
      <3>2. IsQueue(Append(held[d], o.main)) BY <1>2, <3>1, IsQueueGrows
      <3> QED BY <1>2, <3>2
    <2> QED BY <2>1, <2>2
  <1> HIDE DEF snap, moved, queue, ack
  <1>7. Right(got) /\ Onward(snap.disk, got.disk) BY <1>2, <1>3, AdoptedIs
  <1>8. Sound(snap.disk) /\ Sound(got.disk) BY <1>3, <1>7 DEF Right
  <1>9. Onward(disk[d], got.disk) BY <1>3, <1>7, <1>8, OnwardGoesOn
  <1>10. o.snap \in got.disk.snaps BY <1>3, <1>7 DEF Onward
  <1> HIDE DEF got
  <1>11. Right(next) /\ Onward(got.disk, next.disk) /\ Keeps(next.disk, ack)
    <2>1. CASE moved
      <3>1. next = got /\ ack.shelf # "capsule-fork" BY <1>5, <2>1
      <3>2. o.main.snap \in SnapIds BY <1>2, <1>4, <2>1 DEF OfferIs, IsOp
      <3>3. got.mem.main = Newest(got.disk.ops) BY <1>7 DEF Right, Shown
      <3>4. Newest(got.disk.ops).snap = o.main.snap BY <1>4, <2>1, <3>3
      <3>5. NoOp.snap = NoSnap /\ NoSnap \notin SnapIds
        BY CapsuleAssumption DEF NoOp, NoSnap
      <3>6. Newest(got.disk.ops) # NoOp BY <3>2, <3>4, <3>5
      <3>7. Descends(got.disk.snaps, o.main.snap, o.main.snap) BY <3>2, LineStarts
      <3>8. Keeps(got.disk, ack) BY <1>5, <1>10, <3>1, <3>4, <3>6, <3>7 DEF Keeps
      <3> QED BY <1>7, <1>8, <3>1, <3>8, OnwardStays
    <2>2. CASE ~moved
      <3>1. next = PutFork(got, o.snap.id) /\ ack.shelf # "capsule-head" BY <1>5, <2>2
      <3>2. /\ Right(PutFork(got, o.snap.id))
            /\ Onward(got.disk, PutFork(got, o.snap.id).disk)
            /\ o.snap.id \in PutFork(got, o.snap.id).disk.forks
        BY <1>7, PutForkIs
      <3> HIDE DEF next
      <3>3. o.snap \in next.disk.snaps BY <1>10, <3>1, <3>2 DEF Onward
      <3>4. Keeps(next.disk, ack) BY <1>5, <3>1, <3>2, <3>3 DEF Keeps
      <3> QED BY <3>1, <3>2, <3>4
    <2> QED BY <2>1, <2>2
  <1> HIDE DEF next
  <1>12. Right(last.store) /\ Onward(next.disk, last.store.disk) /\ IsQueue(last.queue)
    <2>1. PICK Q : (\A x \in Q : IsOp(x)) /\ queue \in Seq(Q) BY <1>6 DEF IsQueue
    <2>2. /\ Right(last.store) /\ Onward(next.disk, last.store.disk)
          /\ last.queue \in Seq(Q)
      BY <1>11, <2>1, RetryIs
    <2> QED BY <2>1, <2>2 DEF IsQueue
  <1> HIDE DEF last
  <1>13. Sound(next.disk) /\ Sound(last.store.disk) BY <1>11, <1>12 DEF Right
  <1>14. Onward(disk[d], last.store.disk)
    <2>1. Onward(disk[d], next.disk) BY <1>8, <1>9, <1>11, OnwardGoesOn
    <2> QED BY <1>12, <1>13, <2>1, OnwardGoesOn
  <1>15. Keeps(last.store.disk, ack) BY <1>11, <1>12, <1>13, KeepsOn
  <1> QED BY <1>1, <1>12, <1>14, <1>15 DEF ack

(* As long as no session has gone by an older copy.                         *)
LEMMA ReceiveStep ==
  ASSUME Settled, NEW d \in Devices, NEW w \in Workers, NEW o \in offers,
         Receive(d, w, o), overtaken' = {}
  PROVE  Settled' /\ Forward
  <1> DEFINE r == Receipt(d, session[d][w], o)
             f == Receipt(d, Fresh(d), o)
  <1>1. /\ Received(d, w, r.store)
        /\ held' = [held EXCEPT ![d] = r.queue]
        /\ acks' = acks \cup {AckOf(d, o, r)} /\ offers' = offers
        /\ Alike(d, o, r)
    BY DEF Receive, AckOf
  <1>2. /\ Insertable(Fresh(d), o.snap)
        /\ f.store.disk = r.store.disk /\ f.queue = r.queue /\ f.shelf = r.shelf
    BY <1>1 DEF Alike, Fresh
  <1>3. session[d][w] = Fresh(d) => r = f OBVIOUS
  <1> HIDE DEF r, f
  <1>4. /\ Right(f.store) /\ Onward(disk[d], f.store.disk) /\ IsQueue(f.queue)
        /\ Keeps(f.store.disk, AckOf(d, o, f))
    BY <1>2, ReceiptIs DEF f
  <1>5. Sound(f.store.disk) BY <1>4 DEF Right
  <1>6. /\ disk' = [disk EXCEPT ![d] = r.store.disk]
        /\ told' = [told EXCEPT ![d] = Newest(r.store.disk.ops)]
    BY <1>1, <1>2, <1>3, <1>4, <1>5, ReceivedIs
  <1>7. AckOf(d, o, f) = AckOf(d, o, r) /\ AckOf(d, o, r).by = d BY <1>2 DEF AckOf
  <1>8. Leaves(d, r.store.disk, r.queue, {AckOf(d, o, r)})
    BY <1>1, <1>2, <1>4, <1>5, <1>6, <1>7 DEF Leaves
  <1> QED BY <1>8, MovesOn

LEMMA RefuseStep ==
  ASSUME Settled, NEW d \in Devices, NEW w \in Workers, NEW o \in offers, Refuse(d, w, o)
  PROVE  Settled' /\ Forward
  <1> DEFINE st == Acquainted(d, session[d][w])
             f  == Acquainted(d, Fresh(d))
  <1>1. Received(d, w, st) /\ UNCHANGED <<held, offers, acks>> BY DEF Refuse
  <1>2. Right(f) /\ Onward(disk[d], f.disk) BY AcquaintedShows
  <1>3. st.disk = f.disk /\ (session[d][w] = Fresh(d) => st = f) BY DEF Acquainted
  <1> HIDE DEF st, f
  <1>4. Sound(f.disk) BY <1>2 DEF Right
  <1>5. /\ disk' = [disk EXCEPT ![d] = st.disk]
        /\ told' = [told EXCEPT ![d] = Newest(st.disk.ops)]
    BY <1>1, <1>2, <1>3, <1>4, ReceivedIs
  <1>6. held' = [held EXCEPT ![d] = held[d]] /\ IsQueue(held[d]) BY <1>1 DEF Settled
  <1>7. Leaves(d, st.disk, held[d], {}) BY <1>1, <1>2, <1>3, <1>4, <1>5, <1>6 DEF Leaves
  <1> QED BY <1>7, MovesOn

(* The files a crash leaves are those of a store on the way.                *)
LEMMA StagesAre ==
  ASSUME NEW d \in Devices, NEW o \in offers, NEW k \in Stages(d, Fresh(d), o)
  PROVE  \/ k = Acquainted(d, Fresh(d)).disk
         \/ k = Arrived(d, o).disk
         \/ k = Adopted(Arrived(d, o), o).disk
         \/ Adoptable(Arrived(d, o), o) /\ k = WithLeases(Arrived(d, o), o).disk
  BY DEF Stages, Arrived

LEMMA ReceiveCutStep ==
  ASSUME Settled, NEW d \in Devices, NEW w \in Workers, NEW o \in offers,
         ReceiveCut(d, w, o), overtaken' = {}
  PROVE  Settled' /\ Forward
  <1> DEFINE st == Acquainted(d, Fresh(d))
             snap == Arrived(d, o)
  <1>1. PICK k : /\ Restarts(d, k) /\ k \in Stages(d, Fresh(d), o)
                 /\ Insertable(Fresh(d), o.snap)
    BY DEF ReceiveCut, Fresh
  <1>2. Right(st) /\ Onward(disk[d], st.disk) BY AcquaintedShows
  <1>3. Right(snap) /\ Onward(disk[d], snap.disk) BY <1>1, ArrivedIs
  <1>4. OfferIs(o) BY DEF Settled
  <1>5. UNCHANGED <<held, offers, acks>> BY DEF ReceiveCut
  <1>6. \/ k = st.disk \/ k = snap.disk \/ k = Adopted(snap, o).disk
        \/ Adoptable(snap, o) /\ k = WithLeases(snap, o).disk
    BY <1>1, StagesAre
  <1> HIDE DEF st, snap
  <1>7. Sound(snap.disk) BY <1>3 DEF Right
  <1>8. /\ Right(Adopted(snap, o)) /\ Onward(disk[d], Adopted(snap, o).disk)
        /\ Adoptable(snap, o) =>
             Right(WithLeases(snap, o)) /\ Onward(disk[d], WithLeases(snap, o).disk)
    BY <1>3, <1>4, <1>7, AdoptedIs, OnwardGoesOn
  <1>9. PICK n : Right(n) /\ Onward(disk[d], n.disk) /\ k = n.disk
    BY <1>2, <1>3, <1>6, <1>8
  <1> QED BY <1>1, <1>5, <1>9, RestartsIs

(* A step that leaves every device's files alone.                           *)
LEMMA StaysPut ==
  ASSUME Settled, UNCHANGED <<disk, held, acks, told>>,
         \A o \in offers' : OfferIs(o)
  PROVE  Settled' /\ Forward
  <1>1. Settled' BY DEF Settled
  <1>2. ASSUME NEW d \in Devices, told[d] # NoOp
        PROVE  Descends(UNION {disk'[c].snaps : c \in Devices}, told'[d].snap, told[d].snap)
    <2>1. told[d] = Newest(disk[d].ops) /\ Sound(disk[d]) BY DEF Settled
    <2>2. told[d].snap \in SnapIds BY <1>2, <2>1, HeadIs
    <2> QED BY <2>2, LineStarts
  <1> QED BY <1>1, <1>2 DEF Forward

LEMMA SendOfferStep ==
  ASSUME Settled, NEW d \in Devices, SendOffer(d)
  PROVE  Settled' /\ Forward
  <1> DEFINE h == Reload(disk[d])
  <1>1. PICK s \in h.snaps :
          offers' = offers \cup {[from |-> d, snap |-> s, chain |-> Chain(h), main |-> h.main]}
    BY DEF SendOffer
  <1>2. Sound(disk[d]) /\ Linear(disk[d].leases) BY DEF Settled, Sound
  <1>3. h.snaps = disk[d].snaps /\ h.leases = disk[d].leases \cup {Grant}
        /\ h.main = Newest(disk[d].ops)
    BY <1>2, ReloadIs DEF Shown
  <1>4. s.id \in SnapIds BY <1>2, <1>3 DEF Sound
  <1>5. Chain(h) \subseteq disk[d].leases BY <1>3 DEF Chain
  <1>6. h.main = NoOp \/ IsOp(h.main) BY <1>2, <1>3, HeadIs
  <1> HIDE DEF h
  <1> DEFINE n == [from |-> d, snap |-> s, chain |-> Chain(h), main |-> h.main]
  <1>7. OfferIs(n) BY <1>2, <1>4, <1>5, <1>6 DEF OfferIs
  <1>8. \A o \in offers' : OfferIs(o)
    <2> HIDE DEF n
    <2>1. offers' = offers \cup {n} BY <1>1 DEF n
    <2> QED BY <1>7, <2>1 DEF Settled
  <1>9. UNCHANGED <<disk, held, acks, told>> BY DEF SendOffer
  <1> QED BY <1>8, <1>9, StaysPut DEF Settled

LEMMA SessionStep ==
  ASSUME Settled, NEW d \in Devices, NEW w \in Workers,
         OpenSession(d, w) \/ CloseSession(d, w)
  PROVE  Settled' /\ Forward
  <1>1. UNCHANGED <<disk, held, offers, acks, told>> BY DEF OpenSession, CloseSession
  <1>2. \A o \in offers' : OfferIs(o) BY <1>1 DEF Settled
  <1> QED BY <1>1, <1>2, StaysPut

LEMMA SettledInit ==
  ASSUME Init PROVE Settled
  <1>1. Linear({}) BY FS_EmptySet, GrantIs DEF Linear
  <1>2. Linear({Grant})
    <2>1. {} \cup {Grant} = {Grant} OBVIOUS
    <2> QED BY <1>1, <2>1, GrantAdded
  <1>3. ASSUME NEW L, Linear(L)
        PROVE  Sound([NoCapsule EXCEPT !.leases = L])
    <2> DEFINE k == [NoCapsule EXCEPT !.leases = L]
    <2>1. k.snaps = {} /\ k.leases = L /\ k.ops = {}
          /\ k = [snaps |-> k.snaps, leases |-> k.leases, ops |-> k.ops, forks |-> k.forks]
      BY DEF NoCapsule
    <2> HIDE DEF k
    <2>2. IsFiniteSet(k.ops) BY <2>1, FS_EmptySet
    <2>3. Sound(k) BY <1>3, <2>1, <2>2 DEF Sound
    <2> QED BY <2>3 DEF k
  <1>4. NoCapsule = [NoCapsule EXCEPT !.leases = {}] BY DEF NoCapsule
  <1>5. NoCapsule.ops = {} /\ \A L : [NoCapsule EXCEPT !.leases = L].ops = {}
    BY DEF NoCapsule
  <1>6. Newest({}) = NoOp
    <2>1. \A m : Foremost(m, {}) <=> m = NoOp BY DEF Foremost
    <2> QED BY <2>1 DEF Newest
  <1>7. IsQueue(<<>>)
    <2>1. <<>> \in Seq({}) /\ \A x \in {} : IsOp(x) OBVIOUS
    <2> QED BY <2>1 DEF IsQueue
  <1>8. ASSUME NEW d \in Devices
        PROVE  /\ Sound(disk[d]) /\ disk[d].ops = {}
               /\ IsQueue(held[d]) /\ told[d] = NoOp
    <2>1. disk[d] = [NoCapsule EXCEPT !.leases = {Grant}] \/ disk[d] = NoCapsule
      BY DEF Init
    <2>2. Sound(disk[d]) /\ disk[d].ops = {} BY <1>1, <1>2, <1>3, <1>4, <1>5, <2>1
    <2> QED BY <1>7, <2>2 DEF Init
  <1> QED BY <1>6, <1>8 DEF Init, Settled

LEMMA SettledNext ==
  ASSUME Settled, [Next]_vars, overtaken' = {}
  PROVE  Settled' /\ [Forward]_vars
  <1>1. CASE UNCHANGED vars
    <2>1. Settled' BY <1>1 DEF Settled, vars
    <2> QED BY <1>1, <2>1
  <1>2. ASSUME NEW sig \in Expirable, Expire(sig) PROVE Settled' /\ Forward
    BY <1>2, StaysPut DEF Expire, Settled
  <1>3. ASSUME NEW d \in Devices, TakeLease(d) \/ Author(d) \/ Attach(d) \/ SendOffer(d)
        PROVE  Settled' /\ Forward
    BY <1>3, TakeLeaseStep, AuthorStep, AttachStep, SendOfferStep
  <1>4. ASSUME NEW d \in Devices, NEW w \in Workers, OpenSession(d, w) \/ CloseSession(d, w)
        PROVE  Settled' /\ Forward
    BY <1>4, SessionStep
  <1>5. ASSUME NEW d \in Devices, NEW w \in Workers, NEW o \in Incoming(d),
               Receive(d, w, o) \/ Refuse(d, w, o) \/ ReceiveCut(d, w, o)
        PROVE  Settled' /\ Forward
    <2>1. o \in offers BY DEF Incoming
    <2> QED BY <1>5, <2>1, ReceiveStep, RefuseStep, ReceiveCutStep
  <1>6. CASE Next
    <2>1. \/ \E d \in Devices : TakeLease(d) \/ Author(d) \/ Attach(d) \/ SendOffer(d)
          \/ \E d \in Devices, w \in Workers : OpenSession(d, w) \/ CloseSession(d, w)
          \/ \E d \in Devices, w \in Workers : \E o \in Incoming(d) :
               Receive(d, w, o) \/ Refuse(d, w, o) \/ ReceiveCut(d, w, o)
          \/ \E sig \in Expirable : Expire(sig)
      BY <1>6 DEF Next
    <2> QED BY <1>2, <1>3, <1>4, <1>5, <2>1
  <1> QED BY <1>1, <1>6

-----------------------------------------------------------------------------
(* Lines among the snapshots of all devices, and labels that wait.          *)

\* Ids tell snapshots apart, and no snapshot's parent is missing.
Genealogy(S) ==
  /\ \A s \in S : s.id \in SnapIds /\ s.parent \in Ids(S) \cup {NoSnap}
  /\ \A s, t \in S : s.id = t.id => s = t

LEMMA LineClosed ==
  ASSUME NEW S, Genealogy(S), NEW id \in Ids(S)
  PROVE  Line(S, id) \subseteq Ids(S)
  <1>1. Ids(S) \in SUBSET SnapIds BY DEF Genealogy, Ids
  <1>2. \A s \in S : s.parent \in Ids(S) \cup {NoSnap} BY DEF Genealogy
  <1> QED BY <1>1, <1>2 DEF Line

(* The parent of a snapshot on a line is on it.                             *)
LEMMA LineSteps ==
  ASSUME NEW S, Genealogy(S), NEW id, NEW s \in S, s.id \in Line(S, id)
  PROVE  s.parent \in Line(S, id) \cup {NoSnap}
  <1>1. s.parent \in SnapIds \cup {NoSnap} BY DEF Genealogy, Ids
  <1> QED BY <1>1 DEF Line

(* A line whose snapshots are all among some of them is a line there, too.  *)
LEMMA LineWithin ==
  ASSUME NEW S, Genealogy(S), NEW K, K \subseteq S, NEW id \in SnapIds,
         Line(S, id) \subseteq Ids(K)
  PROVE  Line(S, id) \subseteq Line(K, id)
  <1> SUFFICES ASSUME NEW x \in Line(S, id), NEW T \in SUBSET SnapIds,
                      id \in T \cup {NoSnap},
                      \A s \in K : s.id \in T => s.parent \in T \cup {NoSnap}
               PROVE  x \in T
    BY DEF Line
  <1> DEFINE U == T \cap Line(S, id)
  <1>1. id \in U \cup {NoSnap} BY LineStarts DEF Descends
  <1>2. ASSUME NEW s \in S, s.id \in U PROVE s.parent \in U \cup {NoSnap}
    <2>1. PICK t \in K : t.id = s.id BY <1>2 DEF Ids
    <2>2. s = t BY <2>1 DEF Genealogy
    <2>3. s.parent \in T \cup {NoSnap} BY <1>2, <2>1, <2>2
    <2>4. s.parent \in Line(S, id) \cup {NoSnap} BY <1>2, LineSteps
    <2> QED BY <2>3, <2>4
  <1>3. U \in SUBSET SnapIds OBVIOUS
  <1> HIDE DEF U
  <1>4. x \in U BY <1>1, <1>2, <1>3 DEF Line
  <1> QED BY <1>4 DEF U

(* A snapshot nobody descends from changes no line.                         *)
LEMMA LineSame ==
  ASSUME NEW S, Genealogy(S), NEW id \in Ids(S), NEW n, n.id \notin Ids(S)
  PROVE  Line(S \cup {n}, id) \subseteq Line(S, id)
  <1>1. Line(S, id) \subseteq Ids(S) BY LineClosed
  <1>2. id \in Line(S, id) BY LineStarts DEF Descends, Ids, Genealogy
  <1>3. \A s \in S \cup {n} : s.id \in Line(S, id) => s.parent \in Line(S, id) \cup {NoSnap}
    BY <1>1, LineSteps
  <1>4. Line(S, id) \in SUBSET SnapIds BY DEF Line
  <1> QED BY <1>2, <1>3, <1>4 DEF Line

\* The label op is one the files k would let pass, among the snapshots S.
Ready(k, S, op, ex) ==
  /\ Top(k.leases).sig \notin ex
  /\ op.by = Top(k.leases).holder /\ op.epoch = Top(k.leases).epoch
  /\ Line(S, op.snap) \subseteq Ids(k.snaps)
  /\ Newer(op, Newest(k.ops))
  /\ Newest(k.ops) = NoOp \/ Descends(S, op.snap, Newest(k.ops).snap)

(* apply_label lets such a label pass.                                      *)
LEMMA ReadyAllowed ==
  ASSUME NEW st, Right(st), NEW S, Genealogy(S), st.disk.snaps \subseteq S,
         NEW op, IsOp(op), NEW ex, Ready(st.disk, S, op, ex)
  PROVE  MainAllowed(st.mem, op, ex)
  <1> DEFINE k == st.disk
  <1>1. st.mem.snaps = k.snaps /\ st.mem.winner = Top(k.leases) /\ st.mem.main = Newest(k.ops)
    BY DEF Right, Shown
  <1>2. op.snap \in SnapIds BY DEF IsOp
  <1>3. Line(S, op.snap) \subseteq Ids(k.snaps) BY DEF Ready
  <1>4. op.snap \in Line(S, op.snap) BY <1>2, LineStarts DEF Descends
  <1>5. PICK s \in k.snaps : s.id = op.snap BY <1>3, <1>4 DEF Ids
  <1>6. ~Orphan(k.snaps, s)
    <2>1. s.parent \in Line(S, op.snap) \cup {NoSnap} BY <1>4, <1>5, LineSteps
    <2> QED BY <1>3, <2>1 DEF Orphan
  <1>7. Line(S, op.snap) \subseteq Line(k.snaps, op.snap) BY <1>2, <1>3, LineWithin
  <1>8. st.mem.main # NoOp => Descends(st.mem.snaps, op.snap, st.mem.main.snap)
    BY <1>1, <1>7 DEF Ready, Descends
  <1>9. \E x \in st.mem.snaps : x.id = op.snap /\ ~Orphan(st.mem.snaps, x)
    BY <1>1, <1>5, <1>6
  <1> HIDE DEF k
  <1>10. /\ ActiveLease(st.mem, ex)
         /\ op.by = st.mem.winner.holder /\ op.epoch = st.mem.winner.epoch
    BY <1>1 DEF Ready, ActiveLease, k
  <1> QED BY <1>8, <1>9, <1>10 DEF MainAllowed

(* The newest of more main ops is as new.                                   *)
LEMMA NewestGrows ==
  ASSUME NEW k, Sound(k), NEW j, Sound(j), k.ops \subseteq j.ops
  PROVE  /\ Newest(j.ops) = Newest(k.ops) \/ Newer(Newest(j.ops), Newest(k.ops))
         /\ \A op : IsOp(op) /\ Newer(op, Newest(j.ops)) => Newer(op, Newest(k.ops))
  <1>1. Foremost(Newest(k.ops), k.ops) /\ Foremost(Newest(j.ops), j.ops) BY NewestIs
  <1>2. CASE k.ops = {}
    <2>1. Newest(k.ops) = NoOp BY <1>1, <1>2 DEF Foremost
    <2>2. Newest(j.ops) = NoOp \/ IsOp(Newest(j.ops)) BY HeadIs
    <2> QED BY <2>1, <2>2, NewerIs
  <1>3. CASE k.ops # {}
    <2>1. Newest(k.ops) \in j.ops BY <1>1, <1>3 DEF Foremost
    <2>2. Newest(j.ops) \in j.ops BY <1>1, <2>1 DEF Foremost
    <2>3. IsOp(Newest(k.ops)) /\ IsOp(Newest(j.ops)) BY <2>1, <2>2 DEF Sound
    <2>4. Newest(j.ops) = Newest(k.ops) \/ Newer(Newest(j.ops), Newest(k.ops))
      BY <1>1, <2>1 DEF Foremost
    <2> QED BY <2>3, <2>4, NewerIs
  <1> QED BY <1>2, <1>3

(* A label the files hold already is not ready.                             *)
LEMMA NotReadyTwice ==
  ASSUME NEW k, Sound(k), NEW op \in k.ops
  PROVE  IsOp(op) /\ ~Newer(op, Newest(k.ops))
  <1>1. Foremost(Newest(k.ops), k.ops) BY NewestIs
  <1>2. Newest(k.ops) = op \/ Newer(Newest(k.ops), op) BY <1>1 DEF Foremost
  <1>3. Newest(k.ops) \in k.ops /\ IsOp(op) /\ IsOp(Newest(k.ops))
    BY <1>1 DEF Foremost, Sound
  <1> QED BY <1>2, <1>3, NewerIs

(* A label that is ready now was so before the head moved on to where it    *)
(* is, as long as the leases and the snapshots of its line were the same.   *)
LEMMA ReadyBefore ==
  ASSUME NEW k, Sound(k), NEW j, Sound(j), Onward(k, j), k.ops \subseteq j.ops,
         Top(j.leases) = Top(k.leases),
         NEW S, NEW R, j.snaps \subseteq S, NEW op, IsOp(op),
         NEW ex, NEW more, ex \subseteq more,
         Line(S, op.snap) \subseteq Line(R, op.snap),
         Line(R, op.snap) \subseteq Ids(k.snaps),
         Ready(j, S, op, more)
  PROVE  Ready(k, R, op, ex)
  <1>1. Newer(op, Newest(k.ops)) BY NewestGrows DEF Ready
  <1>2. ASSUME Newest(k.ops) # NoOp PROVE Descends(R, op.snap, Newest(k.ops).snap)
    <2>1. Newest(j.ops) # NoOp /\ Descends(j.snaps, Newest(j.ops).snap, Newest(k.ops).snap)
      BY <1>2 DEF Onward
    <2>2. Newest(j.ops).snap \in SnapIds BY <2>1, HeadIs
    <2>3. Descends(S, op.snap, Newest(j.ops).snap) BY <2>1 DEF Ready
    <2>4. Descends(S, Newest(j.ops).snap, Newest(k.ops).snap) BY <2>1, LineGrows
    <2>5. Descends(S, op.snap, Newest(k.ops).snap) BY <2>2, <2>3, <2>4, LineGoesOn
    <2> QED BY <2>5 DEF Descends
  <1> QED BY <1>1, <1>2 DEF Ready

(* What PutMain adds to the files, when apply_label lets the label pass.    *)
LEMMA PutMainAdds ==
  ASSUME NEW st, Right(st), NEW op, IsOp(op), NEW ex, MainAllowed(st.mem, op, ex)
  PROVE  /\ Right(PutMain(st, op)) /\ Onward(st.disk, PutMain(st, op).disk)
         /\ PutMain(st, op).disk.snaps = st.disk.snaps
         /\ PutMain(st, op).disk.leases = st.disk.leases
         /\ st.disk.ops \subseteq PutMain(st, op).disk.ops
         /\ PutMain(st, op).disk.ops \subseteq st.disk.ops \cup {op}
         /\ ~Newer(op, Newest(PutMain(st, op).disk.ops))
  <1> DEFINE n == PutMain(st, op)
  <1>1. Right(n) /\ Onward(st.disk, n.disk) BY PutMainIs
  <1>2. st.mem = Shown(st.disk) /\ Sound(st.disk) BY DEF Right
  <1>3. n.disk = [st.disk EXCEPT !.ops = IF MainWins(st.mem, op) THEN @ \cup {op} ELSE @]
        /\ n.mem = ApplyMain(st.mem, op)
    BY DEF PutMain
  <1>4. n.mem.main = IF MainWins(st.mem, op) THEN op ELSE st.mem.main
    BY <1>2, <1>3 DEF ApplyMain, Shown
  <1>5. /\ n.disk.snaps = st.disk.snaps /\ n.disk.leases = st.disk.leases
        /\ st.disk.ops \subseteq n.disk.ops /\ n.disk.ops \subseteq st.disk.ops \cup {op}
    BY <1>2, <1>3 DEF Sound
  <1> HIDE DEF n
  <1>6. n.mem.main = Newest(n.disk.ops) BY <1>1 DEF Right, Shown
  <1>7. ~Newer(op, n.mem.main) BY <1>4, NewerIs DEF MainWins
  <1> QED BY <1>1, <1>5, <1>6, <1>7 DEF n

(* retry_pending_main_labels, as far as the labels are concerned: none that *)
(* is ready is left over, and each was adopted or overtaken if it is not.   *)
LEMMA RetryTries ==
  ASSUME NEW st, Right(st), NEW Q, \A x \in Q : IsOp(x), NEW q \in Seq(Q),
         NEW S, Genealogy(S), st.disk.snaps \subseteq S
  PROVE  /\ Retry(st, q).store.disk.snaps = st.disk.snaps
         /\ st.disk.ops \subseteq Retry(st, q).store.disk.ops
         /\ Retry(st, q).store.disk.ops \subseteq st.disk.ops \cup Q
         /\ Retry(st, q).queue \in Seq(Q)
         /\ \A i \in DOMAIN Retry(st, q).queue :
              ~Ready(Retry(st, q).store.disk, S, Retry(st, q).queue[i], expired)
         /\ \A i \in DOMAIN q :
              \/ \E n \in DOMAIN Retry(st, q).queue : Retry(st, q).queue[n] = q[i]
              \/ ~Newer(q[i], Newest(Retry(st, q).store.disk.ops))
  <1> DEFINE D == DOMAIN q
             Good(r, T) ==
               /\ Right(r.store) /\ r = [store |-> r.store, queue |-> r.queue]
               /\ r.store.disk.snaps = st.disk.snaps
               /\ st.disk.ops \subseteq r.store.disk.ops
               /\ r.store.disk.ops \subseteq st.disk.ops \cup Q
               /\ r.queue \in Seq(Q)
               /\ \A i \in DOMAIN r.queue : ~Ready(r.store.disk, S, r.queue[i], expired)
               /\ \A i \in T : \/ \E n \in DOMAIN r.queue : r.queue[n] = q[i]
                               \/ ~Newer(q[i], Newest(r.store.disk.ops))
  <1>1. PICK Fold : TriesAll(Fold, st, q) BY RetryFolds
  <1> DEFINE F == {T \in SUBSET D : Good(Fold[T], T)}
  <1>2. IsFiniteSet(D) /\ \A i \in D : q[i] \in Q
    BY FS_Interval
  <1>3. ASSUME NEW T \in SUBSET D, \A x \in T : T \ {x} \in F PROVE T \in F
    <2>1. CASE T = {}
      <3>1. Fold[T] = [store |-> st, queue |-> <<>>] BY <1>1, <2>1 DEF TriesAll
      <3>2. Fold[T].queue = <<>> /\ Fold[T].store = st BY <3>1
      <3>3. Fold[T] = [store |-> Fold[T].store, queue |-> Fold[T].queue] BY <3>1, <3>2
      <3>4. <<>> \in Seq(Q) /\ DOMAIN <<>> = {} OBVIOUS
      <3> QED BY <2>1, <3>2, <3>3, <3>4
    <2>2. CASE T # {}
      <3> DEFINE m == Max(T)
                 x == q[m]
                 r == Fold[T \ {m}]
      <3>1. m \in T /\ Fold[T] = Tried(r, x) BY <1>1, <2>2 DEF TriesAll
      <3> HIDE DEF m
      <3>2. x \in Q /\ IsOp(x) BY <1>2, <3>1
      <3>3. Good(r, T \ {m}) BY <1>3, <3>1
      <3>4. \A i \in T : i \in T \ {m} \/ q[i] = x BY <3>1
      <3> HIDE DEF x, r
      <3>5. Sound(r.store.disk) /\ r.store.mem = Shown(r.store.disk) BY <3>3 DEF Right
      <3>6. CASE ~MainAllowed(r.store.mem, x, expired)
        <4> DEFINE p == Append(r.queue, x)
        <4>1. Tried(r, x) = [store |-> r.store, queue |-> p]
          BY <3>3, <3>6 DEF Tried
        <4>2. p \in Seq(Q) BY <3>2, <3>3
        <4>3. /\ DOMAIN p = DOMAIN r.queue \cup {Len(r.queue) + 1}
              /\ p[Len(r.queue) + 1] = x
              /\ \A i \in DOMAIN r.queue : p[i] = r.queue[i]
          BY <3>2, <3>3
        <4> HIDE DEF p
        <4>4. ~Ready(r.store.disk, S, x, expired) BY <3>2, <3>3, <3>6, ReadyAllowed
        <4>5. \A i \in DOMAIN p : ~Ready(r.store.disk, S, p[i], expired)
          BY <3>3, <4>3, <4>4
        <4>6. \A i \in T : \/ \E n \in DOMAIN p : p[n] = q[i]
                           \/ ~Newer(q[i], Newest(r.store.disk.ops))
          <5> TAKE i \in T
          <5>1. CASE q[i] = x BY <4>3, <5>1
          <5>2. CASE i \in T \ {m}
            <6>1. \/ \E n \in DOMAIN r.queue : r.queue[n] = q[i]
                  \/ ~Newer(q[i], Newest(r.store.disk.ops))
              BY <3>3, <5>2
            <6> QED BY <4>3, <6>1
          <5> QED BY <3>4, <5>1, <5>2
        <4>7. Good([store |-> r.store, queue |-> p], T) BY <3>3, <4>2, <4>5, <4>6
        <4> QED BY <3>1, <4>1, <4>7
      <3>7. CASE MainAllowed(r.store.mem, x, expired)
        <4> DEFINE n == PutMain(r.store, x)
        <4>1. Tried(r, x) = [store |-> n, queue |-> r.queue] BY <3>3, <3>7 DEF Tried
        <4>2. /\ Right(n) /\ Onward(r.store.disk, n.disk)
              /\ n.disk.snaps = r.store.disk.snaps /\ n.disk.leases = r.store.disk.leases
              /\ r.store.disk.ops \subseteq n.disk.ops
              /\ n.disk.ops \subseteq r.store.disk.ops \cup {x}
              /\ ~Newer(x, Newest(n.disk.ops))
          BY <3>2, <3>3, <3>7, PutMainAdds
        <4>3. Sound(n.disk) BY <4>2 DEF Right
        <4> HIDE DEF n
        <4>4. ASSUME NEW op, IsOp(op), Ready(n.disk, S, op, expired)
              PROVE  Ready(r.store.disk, S, op, expired)
          <5>1. Line(S, op.snap) \subseteq Ids(r.store.disk.snaps) BY <4>2, <4>4 DEF Ready
          <5>2. n.disk.snaps \subseteq S BY <3>3, <4>2
          <5> QED BY <3>5, <4>2, <4>3, <4>4, <5>1, <5>2, ReadyBefore
        <4>5. \A i \in DOMAIN r.queue : r.queue[i] \in Q /\ IsOp(r.queue[i]) BY <3>3
        <4>6. \A i \in DOMAIN r.queue : ~Ready(n.disk, S, r.queue[i], expired)
          BY <3>3, <4>4, <4>5
        <4>7. \A i \in T : \/ \E j \in DOMAIN r.queue : r.queue[j] = q[i]
                           \/ ~Newer(q[i], Newest(n.disk.ops))
          <5> TAKE i \in T
          <5>1. CASE q[i] = x BY <4>2, <5>1
          <5>2. CASE i \in T \ {m}
            <6>1. \/ \E j \in DOMAIN r.queue : r.queue[j] = q[i]
                  \/ ~Newer(q[i], Newest(r.store.disk.ops))
              BY <3>3, <5>2
            <6>2. IsOp(q[i]) BY <1>2
            <6>3. Newer(q[i], Newest(n.disk.ops)) => Newer(q[i], Newest(r.store.disk.ops))
              BY <3>5, <4>2, <4>3, <6>2, NewestGrows
            <6> QED BY <6>1, <6>3
          <5> QED BY <3>4, <5>1, <5>2
        <4>8. Good([store |-> n, queue |-> r.queue], T)
          BY <3>2, <3>3, <4>2, <4>6, <4>7
        <4> QED BY <3>1, <4>1, <4>8
      <3> QED BY <3>6, <3>7
    <2> QED BY <2>1, <2>2
  <1>4. D \in F
    <2> HIDE DEF F, D
    <2>1. \A T \in SUBSET D : T \in F BY <1>2, <1>3, SetInduction
    <2> QED BY <2>1
  <1>5. Good(Fold[D], D) BY <1>4
  <1>6. Retry(st, q) = Fold[D] BY <1>1 DEF TriesAll
  <1> QED BY <1>5, <1>6

-----------------------------------------------------------------------------
(* Where records come from, and which labels wait.                          *)

\* A main op that its author keeps.
Owned(files, op) == op.by \in Devices /\ op \in files[op.by].ops

\* Every snapshot, label and offer around comes from the files of a device.
Rooted ==
  /\ Genealogy(AllSnaps)
  /\ \A d \in Devices : \A op \in disk[d].ops : Owned(disk, op)
  /\ \A o \in offers : o.snap \in AllSnaps /\ (o.main # NoOp => Owned(disk, o.main))
  /\ \A a \in acks : a.offer \in offers
  /\ \A d \in Devices : \A i \in DOMAIN held[d] : Owned(disk, held[d][i])

\* As long as no receipt was cut short, a device holds no label back that is
\* ready, and has adopted, overtaken or held back those of the offers it acked.
Pursued ==
  /\ crashes \in Nat
  /\ crashes = 0 =>
       /\ \A d \in Devices : \A i \in DOMAIN held[d] :
            ~Ready(disk[d], AllSnaps, held[d][i], expired)
       /\ \A a \in acks : a.offer.main # NoOp =>
            \/ \E i \in DOMAIN held[a.by] : held[a.by][i] = a.offer.main
            \/ ~Newer(a.offer.main, Newest(disk[a.by].ops))

\* A snapshot with a new id, under one that is there.
Newborn(s) ==
  /\ s.id \in SnapIds /\ s.id \notin Ids(AllSnaps)
  /\ s.parent \in Ids(AllSnaps) \cup {NoSnap}

\* A step leaves d with the files k: sound ones, more, and with main ops of its
\* own or from others.
Grew(d, k) ==
  /\ disk' = [disk EXCEPT ![d] = k]
  /\ Sound(k) /\ Onward(disk[d], k) /\ disk[d].ops \subseteq k.ops
  /\ \A op \in k.ops \ disk[d].ops : op.by = d \/ Owned(disk, op)

LEMMA GrewIs ==
  ASSUME Settled, NEW d \in Devices, NEW k, Grew(d, k)
  PROVE  /\ disk'[d] = k /\ \A c \in Devices \ {d} : disk'[c] = disk[c]
         /\ AllSnaps' = AllSnaps \cup k.snaps
         /\ \A op : Owned(disk, op) => Owned(disk', op)
         /\ \A op : op.by = d /\ op \in k.ops => Owned(disk', op)
  <1>1. disk'[d] = k /\ \A c \in Devices \ {d} : disk'[c] = disk[c] BY DEF Settled, Grew
  <1>2. disk[d].snaps \subseteq k.snaps BY DEF Grew, Onward
  <1>3. AllSnaps' = AllSnaps \cup k.snaps
    <2>1. AllSnaps' = UNION {disk'[c].snaps : c \in Devices} BY DEF AllSnaps
    <2>2. ASSUME NEW s \in AllSnaps' PROVE s \in AllSnaps \cup k.snaps
      <3>1. PICK c \in Devices : s \in disk'[c].snaps BY <2>1, <2>2
      <3>2. CASE c = d BY <1>1, <3>1, <3>2
      <3>3. CASE c # d BY <1>1, <3>1, <3>3 DEF AllSnaps
      <3> QED BY <3>2, <3>3
    <2>3. ASSUME NEW s \in AllSnaps \cup k.snaps PROVE s \in AllSnaps'
      <3>1. CASE s \in k.snaps BY <1>1, <2>1, <3>1
      <3>2. CASE s \in AllSnaps
        <4>1. PICK c \in Devices : s \in disk[c].snaps BY <3>2 DEF AllSnaps
        <4>2. s \in disk'[c].snaps BY <1>1, <1>2, <4>1
        <4> QED BY <2>1, <4>2
      <3> QED BY <2>3, <3>1, <3>2
    <2> QED BY <2>2, <2>3
  <1>4. ASSUME NEW op, Owned(disk, op) PROVE Owned(disk', op)
    <2>1. CASE op.by = d BY <1>1, <1>4, <2>1 DEF Owned, Grew
    <2>2. CASE op.by # d BY <1>1, <1>4, <2>2 DEF Owned
    <2> QED BY <2>1, <2>2
  <1>5. ASSUME NEW op, op.by = d, op \in k.ops PROVE Owned(disk', op)
    BY <1>1, <1>5 DEF Owned
  <1> QED BY <1>1, <1>3, <1>4, <1>5

(* Rooted stays when what a device adds has its parent and its author.      *)
LEMMA RootedOn ==
  ASSUME Settled, Rooted, NEW d \in Devices, NEW k, Grew(d, k),
         k.snaps \subseteq AllSnaps
           \/ \E s : Newborn(s) /\ k.snaps \subseteq AllSnaps \cup {s},
         \A o \in offers' \ offers : o.snap \in AllSnaps /\ (o.main # NoOp => Owned(disk, o.main)),
         offers \subseteq offers', \A a \in acks' \ acks : a.offer \in offers',
         NEW q, held' = [held EXCEPT ![d] = q], \A i \in DOMAIN q : Owned(disk, q[i])
  PROVE  Rooted'
  <1>1. /\ disk'[d] = k /\ \A c \in Devices \ {d} : disk'[c] = disk[c]
        /\ AllSnaps' = AllSnaps \cup k.snaps
        /\ \A op : Owned(disk, op) => Owned(disk', op)
        /\ \A op : op.by = d /\ op \in k.ops => Owned(disk', op)
    BY GrewIs
  <1>2. Genealogy(AllSnaps')
    <2>1. Genealogy(AllSnaps) BY DEF Rooted
    <2>2. CASE k.snaps \subseteq AllSnaps
      <3>1. AllSnaps' = AllSnaps BY <1>1, <2>2
      <3> QED BY <2>1, <3>1
    <2>3. CASE \E s : Newborn(s) /\ k.snaps \subseteq AllSnaps \cup {s}
      <3>1. PICK s : Newborn(s) /\ k.snaps \subseteq AllSnaps \cup {s} BY <2>3
      <3>2. AllSnaps' = AllSnaps \/ AllSnaps' = AllSnaps \cup {s} BY <1>1, <3>1
      <3>3. Genealogy(AllSnaps \cup {s})
        <4>1. Ids(AllSnaps \cup {s}) = Ids(AllSnaps) \cup {s.id} BY DEF Ids
        <4>2. \A t \in AllSnaps : t.id # s.id BY <3>1 DEF Newborn, Ids
        <4> HIDE DEF AllSnaps
        <4> QED BY <2>1, <3>1, <4>1, <4>2 DEF Genealogy, Newborn
      <3> QED BY <2>1, <3>2, <3>3
    <2> QED BY <2>2, <2>3
  <1>3. ASSUME NEW c \in Devices, NEW op \in disk'[c].ops PROVE Owned(disk', op)
    <2>1. CASE c = d
      <3>1. CASE op \in disk[d].ops BY <1>1, <3>1 DEF Rooted
      <3>2. CASE op \notin disk[d].ops BY <1>1, <2>1, <3>2 DEF Grew
      <3> QED BY <3>1, <3>2
    <2>2. CASE c # d BY <1>1, <2>2 DEF Rooted
    <2> QED BY <2>1, <2>2
  <1>4. ASSUME NEW o \in offers'
        PROVE  o.snap \in AllSnaps' /\ (o.main # NoOp => Owned(disk', o.main))
    <2>1. o.snap \in AllSnaps /\ (o.main # NoOp => Owned(disk, o.main)) BY DEF Rooted
    <2> QED BY <1>1, <2>1
  <1>5. ASSUME NEW c \in Devices, NEW i \in DOMAIN held'[c] PROVE Owned(disk', held'[c][i])
    <2>1. Owned(disk, held'[c][i])
      <3>1. CASE c = d BY <3>1, <1>5 DEF Settled
      <3>2. CASE c # d BY <3>2, <1>5 DEF Settled, Rooted
      <3> QED BY <3>1, <3>2
    <2> QED BY <1>1, <2>1
  <1>6. \A a \in acks' : a.offer \in offers' BY DEF Rooted
  <1> QED BY <1>2, <1>3, <1>4, <1>5, <1>6 DEF Rooted

LEMMA OwnedIs ==
  ASSUME Settled, NEW op, Owned(disk, op)
  PROVE  IsOp(op) /\ op.snap \in SnapIds /\ op.snap \in Ids(AllSnaps)
  <1>1. op.by \in Devices /\ op \in disk[op.by].ops /\ Sound(disk[op.by])
    BY DEF Owned, Settled
  <1>2. PICK s \in disk[op.by].snaps : s.id = op.snap BY <1>1 DEF Sound
  <1>3. s \in AllSnaps BY <1>1, <1>2 DEF AllSnaps
  <1>4. IsOp(op) BY <1>1 DEF Sound
  <1> QED BY <1>2, <1>3, <1>4 DEF Ids, IsOp

(* A label that waits goes on to be not ready when a device adds a snapshot *)
(* with a new id, moves its head on or takes the lease over itself.         *)
LEMMA WaitsOn ==
  ASSUME Settled, Rooted, NEW c \in Devices, NEW j, Sound(j), Onward(disk[c], j),
         disk[c].ops \subseteq j.ops,
         Top(j.leases) = Top(disk[c].leases) \/ Top(j.leases).holder = c,
         NEW N, AllSnaps' = AllSnaps \cup N, j.snaps \subseteq disk[c].snaps \cup N,
         j.snaps \subseteq AllSnaps',
         N = {} \/ \E s : Newborn(s) /\ N = {s},
         NEW op, Owned(disk, op), NEW more, expired \subseteq more,
         Ready(j, AllSnaps', op, more)
  PROVE  Ready(disk[c], AllSnaps, op, expired)
  <1> DEFINE S == AllSnaps
  <1>1. IsOp(op) /\ op.snap \in SnapIds /\ op.snap \in Ids(S) BY OwnedIs
  <1>2. Sound(disk[c]) /\ Genealogy(S) BY DEF Settled, Rooted
  <1>3. \A s \in N : s.id \notin Ids(S) BY DEF Newborn
  <1>4. Line(S \cup N, op.snap) \subseteq Line(S, op.snap)
    <2> HIDE DEF S
    <2>1. CASE N = {}
      <3>1. S \cup N = S BY <2>1
      <3> QED BY <3>1
    <2>2. CASE \E s : Newborn(s) /\ N = {s}
      <3>1. PICK s : N = {s} BY <2>2
      <3> QED BY <1>1, <1>2, <1>3, <3>1, LineSame
    <2> QED BY <2>1, <2>2
  <1>5. Line(S, op.snap) \subseteq Line(S \cup N, op.snap)
    <2> HIDE DEF S
    <2> QED BY LineGrows DEF Descends
  <1>6. Line(S, op.snap) \subseteq Ids(disk[c].snaps)
    <2>1. Line(S, op.snap) \subseteq Ids(S) BY <1>1, <1>2, LineClosed
    <2>2. Line(S, op.snap) \subseteq Ids(j.snaps) BY <1>5 DEF Ready
    <2>3. Ids(j.snaps) \subseteq Ids(disk[c].snaps) \cup Ids(N) BY DEF Ids
    <2>4. \A x \in Ids(N) : x \notin Ids(S) BY <1>3 DEF Ids
    <2> QED BY <2>1, <2>2, <2>3, <2>4
  <1>7. CASE Top(j.leases) = Top(disk[c].leases)
    <2> HIDE DEF S
    <2>1. Ready(disk[c], S, op, expired)
      BY <1>1, <1>2, <1>4, <1>6, <1>7, ReadyBefore DEF S
    <2> QED BY <2>1 DEF S
  <1>8. CASE Top(j.leases).holder = c
    <2>1. op.by = c BY <1>8 DEF Ready
    <2>2. op \in j.ops BY <2>1 DEF Owned
    <2> QED BY <2>2, NotReadyTwice DEF Ready
  <1> QED BY <1>7, <1>8

LEMMA PursuedOn ==
  ASSUME Settled, Rooted, Pursued, NEW d \in Devices, NEW k, Grew(d, k),
         Top(k.leases) = Top(disk[d].leases) \/ Top(k.leases).holder = d,
         NEW N, k.snaps = disk[d].snaps \cup N, N = {} \/ \E s : Newborn(s) /\ N = {s},
         UNCHANGED <<held, acks, expired, crashes>>
  PROVE  Pursued'
  <1>1. /\ disk'[d] = k /\ \A c \in Devices \ {d} : disk'[c] = disk[c]
        /\ AllSnaps' = AllSnaps \cup k.snaps
    BY GrewIs
  <1>2. AllSnaps' = AllSnaps \cup N BY <1>1 DEF AllSnaps
  <1>3. SUFFICES ASSUME crashes = 0
                 PROVE  /\ \A c \in Devices : \A i \in DOMAIN held[c] :
                             ~Ready(disk'[c], AllSnaps', held[c][i], expired)
                        /\ \A a \in acks : a.offer.main # NoOp =>
                             \/ \E i \in DOMAIN held[a.by] : held[a.by][i] = a.offer.main
                             \/ ~Newer(a.offer.main, Newest(disk'[a.by].ops))
    BY DEF Pursued
  <1>4. ASSUME NEW c \in Devices
        PROVE  /\ Sound(disk[c]) /\ Sound(disk'[c])
               /\ disk[c].ops \subseteq disk'[c].ops /\ Onward(disk[c], disk'[c])
               /\ Top(disk'[c].leases) = Top(disk[c].leases) \/ Top(disk'[c].leases).holder = c
               /\ disk'[c].snaps \subseteq disk[c].snaps \cup N
               /\ disk'[c].snaps \subseteq AllSnaps'
    <2>1. Sound(disk[c]) BY DEF Settled
    <2>2. CASE c = d BY <1>1, <2>1, <2>2 DEF Grew
    <2>3. CASE c # d
      <3>1. disk'[c] = disk[c] BY <1>1, <2>3
      <3>2. disk[c].snaps \subseteq AllSnaps BY DEF AllSnaps
      <3> QED BY <1>2, <2>1, <3>1, <3>2, OnwardStays
    <2> QED BY <2>2, <2>3
  <1>5. ASSUME NEW c \in Devices, NEW i \in DOMAIN held[c],
               Ready(disk'[c], AllSnaps', held[c][i], expired)
        PROVE  FALSE
    <2>1. Owned(disk, held[c][i]) BY DEF Rooted
    <2>2. Ready(disk[c], AllSnaps, held[c][i], expired)
      BY <1>2, <1>4, <1>5, <2>1, WaitsOn
    <2> QED BY <1>3, <2>2 DEF Pursued
  <1>6. ASSUME NEW a \in acks, a.offer.main # NoOp
        PROVE  \/ \E i \in DOMAIN held[a.by] : held[a.by][i] = a.offer.main
               \/ ~Newer(a.offer.main, Newest(disk'[a.by].ops))
    <2>1. a.by \in Devices /\ Owned(disk, a.offer.main) BY <1>6 DEF Settled, Rooted
    <2>2. IsOp(a.offer.main) BY <2>1, OwnedIs
    <2>3. Newer(a.offer.main, Newest(disk'[a.by].ops))
            => Newer(a.offer.main, Newest(disk[a.by].ops))
      BY <1>4, <2>1, <2>2, NewestGrows
    <2> QED BY <1>3, <1>6, <2>3 DEF Pursued
  <1> QED BY <1>5, <1>6

\* An operation of its own leaves d with the files k, the snapshots N among them.
Own(d, k, N) ==
  /\ Sound(k) /\ Onward(disk[d], k) /\ disk[d].ops \subseteq k.ops
  /\ \A op \in k.ops \ disk[d].ops : op.by = d
  /\ k.snaps = disk[d].snaps \cup N /\ (N = {} \/ \E s : Newborn(s) /\ N = {s})
  /\ Top(k.leases) = Top(disk[d].leases) \/ Top(k.leases).holder = d

LEMMA OwnStep ==
  ASSUME Settled, Rooted, Pursued, NEW d \in Devices, NEW k, NEW N, Own(d, k, N),
         disk' = [disk EXCEPT ![d] = k], UNCHANGED <<held, offers, acks, expired>>,
         crashes' = crashes \/ crashes' = crashes + 1
  PROVE  Rooted' /\ Pursued'
  <1>1. Grew(d, k) BY DEF Own, Grew
  <1>2. Rooted'
    <2>1. disk[d].snaps \subseteq AllSnaps BY DEF AllSnaps
    <2>2. k.snaps \subseteq AllSnaps \cup N BY <2>1 DEF Own
    <2>3. \/ k.snaps \subseteq AllSnaps
          \/ \E s : Newborn(s) /\ k.snaps \subseteq AllSnaps \cup {s}
      <3>1. CASE N = {} BY <2>2, <3>1
      <3>2. CASE \E s : Newborn(s) /\ N = {s} BY <2>2, <3>2
      <3> QED BY <3>1, <3>2 DEF Own
    <2>4. held' = [held EXCEPT ![d] = held[d]] BY DEF Settled
    <2>5. \A i \in DOMAIN held[d] : Owned(disk, held[d][i]) BY DEF Rooted
    <2> QED BY <1>1, <2>3, <2>4, <2>5, RootedOn
  <1>3. Pursued'
    <2>1. CASE crashes' = crashes BY <1>1, <2>1, PursuedOn DEF Own
    <2>2. CASE crashes' = crashes + 1 BY <2>2 DEF Pursued
    <2> QED BY <2>1, <2>2
  <1> QED BY <1>2, <1>3

LEMMA PutLeaseAdds ==
  ASSUME NEW st, Right(st), NEW d, NEW sig \in FreshSig
  PROVE  LET n == PutLease(st, Succession(st.mem, d, sig))
         IN /\ n.disk.snaps = st.disk.snaps /\ n.disk.ops = st.disk.ops
            /\ Top(n.disk.leases).holder = d
  <1> DEFINE l == Succession(st.mem, d, sig)
             n == PutLease(st, l)
  <1>1. l.sig \in Nat BY CapsuleAssumption DEF FreshSig, Succession
  <1>2. Extends(st.mem.winner, l) /\ l.holder = d BY DEF Extends, Succession
  <1> HIDE DEF l
  <1>3. /\ Right(n) /\ n.mem.winner = l
        /\ n.disk = Files(st.disk.snaps, st.disk.leases \cup {l}, st.disk.ops, st.disk.forks)
    BY <1>1, <1>2, PutLeaseIs
  <1> HIDE DEF n
  <1>4. n.mem.winner = Top(n.disk.leases) BY <1>3 DEF Right, Shown
  <1>5. n.disk.snaps = st.disk.snaps /\ n.disk.ops = st.disk.ops BY <1>3 DEF Files
  <1> QED BY <1>2, <1>3, <1>4, <1>5 DEF n, l

LEMMA LeasedAdds ==
  ASSUME Settled, NEW d \in Devices, NEW noLease \in BOOLEAN, NEW st \in Leased(d, noLease)
  PROVE  Own(d, st.disk, {})
  <1>1. Right(st) /\ Onward(disk[d], st.disk) BY LeasedIs
  <1>2. Right(Opened(d)) /\ Opened(d).disk = disk[d] BY OpenedIs
  <1>3. \/ st = Opened(d)
        \/ \E sig \in FreshSig : st = PutLease(Opened(d), Succession(Opened(d).mem, d, sig))
    BY DEF Leased
  <1>4. /\ st.disk.snaps = disk[d].snaps /\ st.disk.ops = disk[d].ops
        /\ Top(st.disk.leases) = Top(disk[d].leases) \/ Top(st.disk.leases).holder = d
    BY <1>2, <1>3, PutLeaseAdds
  <1> QED BY <1>1, <1>4 DEF Own, Right

LEMMA PutSnapAdds ==
  ASSUME NEW st, Right(st), NEW s
  PROVE  /\ PutSnap(st, s).disk.snaps = st.disk.snaps \cup {s}
         /\ PutSnap(st, s).disk.leases = st.disk.leases
         /\ PutSnap(st, s).disk.ops = st.disk.ops
  BY DEF PutSnap, Right, Sound

LEMMA PutForkAdds ==
  ASSUME NEW st, Right(st), NEW id
  PROVE  /\ PutFork(st, id).disk.snaps = st.disk.snaps
         /\ PutFork(st, id).disk.leases = st.disk.leases
         /\ PutFork(st, id).disk.ops = st.disk.ops
  BY DEF PutFork, Right, Sound

LEMMA LabelledAdds ==
  ASSUME NEW st, Right(st), NEW s, s.id \in SnapIds
  PROVE  /\ Labelled(st, s).disk.snaps = st.disk.snaps
         /\ Labelled(st, s).disk.leases = st.disk.leases
         /\ st.disk.ops \subseteq Labelled(st, s).disk.ops
         /\ \A x \in Labelled(st, s).disk.ops \ st.disk.ops : x.by = s.writer
  <1> DEFINE op == NextOp(st.mem, s.id, s.writer)
  <1>1. IsOp(op)
    <2>1. op.seq = st.mem.main.seq + 1 /\ op.snap = s.id /\ op.epoch = st.mem.winner.epoch
      BY DEF NextOp
    <2>2. op.seq \in Nat \ {0} BY <2>1, OpenedShows
    <2>3. op.epoch \in Nat BY <2>1, OpenedShows
    <2> QED BY <2>1, <2>2, <2>3 DEF IsOp
  <1>2. op.by = s.writer BY DEF NextOp
  <1>3. \/ Labelled(st, s) = PutFork(st, s.id)
        \/ MainAllowed(st.mem, op, expired) /\ Labelled(st, s) = PutMain(st, op)
        \/ Labelled(st, s) = st
    BY DEF Labelled
  <1> HIDE DEF op
  <1>4. CASE Labelled(st, s) = PutFork(st, s.id) BY <1>4, PutForkAdds
  <1>5. CASE MainAllowed(st.mem, op, expired) /\ Labelled(st, s) = PutMain(st, op)
    <2>1. /\ PutMain(st, op).disk.snaps = st.disk.snaps
          /\ PutMain(st, op).disk.leases = st.disk.leases
          /\ st.disk.ops \subseteq PutMain(st, op).disk.ops
          /\ PutMain(st, op).disk.ops \subseteq st.disk.ops \cup {op}
      BY <1>1, <1>5, PutMainAdds
    <2> QED BY <1>2, <1>5, <2>1
  <1>6. CASE Labelled(st, s) = st BY <1>6
  <1> QED BY <1>3, <1>4, <1>5, <1>6

LEMMA NewbornIs ==
  ASSUME NEW s, s.id \in FreshId, NEW c \in Devices,
         s.parent \in Ids(disk[c].snaps) \cup {NoSnap}
  PROVE  Newborn(s)
  <1>1. Ids(disk[c].snaps) \subseteq Ids(AllSnaps) BY DEF Ids, AllSnaps
  <1>2. s.id \in SnapIds /\ s.id \notin Ids(AllSnaps) BY DEF FreshId, Ids, AllSnaps
  <1> QED BY <1>1, <1>2 DEF Newborn

(* A snapshot is put on a store as an operation of d left it, and labelled. *)
LEMMA WrittenAdds ==
  ASSUME Settled, NEW d \in Devices, NEW st, Right(st), Own(d, st.disk, {}),
         NEW s, Newborn(s), s.writer = d, Insertable(st.mem, s)
  PROVE  /\ Own(d, PutSnap(st, s).disk, {s})
         /\ Own(d, Labelled(PutSnap(st, s), s).disk, {s})
  <1> DEFINE n == PutSnap(st, s)
             m == Labelled(n, s)
  <1>1. s.id \in SnapIds BY DEF Newborn
  <1>2. Right(n) /\ Onward(st.disk, n.disk) BY <1>1, PutSnapIs
  <1>3. n.disk.snaps = st.disk.snaps \cup {s} /\ n.disk.leases = st.disk.leases
        /\ n.disk.ops = st.disk.ops
    BY PutSnapAdds
  <1> HIDE DEF n
  <1>4. /\ m.disk.snaps = n.disk.snaps /\ m.disk.leases = n.disk.leases
        /\ n.disk.ops \subseteq m.disk.ops
        /\ \A x \in m.disk.ops \ n.disk.ops : x.by = s.writer
    BY <1>1, <1>2, LabelledAdds
  <1>5. Right(m) /\ Onward(n.disk, m.disk) BY <1>1, <1>2, LabelledIs
  <1> HIDE DEF m
  <1>6. Sound(st.disk) /\ Sound(n.disk) /\ Sound(m.disk) BY <1>2, <1>5 DEF Right
  <1>7. Onward(disk[d], n.disk) BY <1>2, <1>6, OnwardGoesOn DEF Own
  <1>8. Onward(disk[d], m.disk) BY <1>5, <1>6, <1>7, OnwardGoesOn
  <1>9. Own(d, n.disk, {s}) BY <1>3, <1>6, <1>7 DEF Own
  <1>10. Own(d, m.disk, {s}) BY <1>3, <1>4, <1>6, <1>8 DEF Own
  <1> QED BY <1>9, <1>10 DEF n, m

LEMMA AcquaintedAdds ==
  ASSUME Settled, NEW d \in Devices
  PROVE  /\ Right(Acquainted(d, Fresh(d)))
         /\ Onward(disk[d], Acquainted(d, Fresh(d)).disk)
         /\ Own(d, Acquainted(d, Fresh(d)).disk, {})
         /\ Acquainted(d, Fresh(d)).disk.ops = disk[d].ops
         /\ Acquainted(d, Fresh(d)).disk.snaps = disk[d].snaps
  <1> DEFINE k == Acquainted(d, Fresh(d)).disk
  <1>1. Right(Acquainted(d, Fresh(d))) /\ Onward(disk[d], k) BY AcquaintedShows
  <1>2. Sound(disk[d]) BY DEF Settled
  <1>3. k.snaps = disk[d].snaps /\ k.ops = disk[d].ops
        /\ k.leases = disk[d].leases \cup {Grant}
    BY <1>2 DEF Acquainted, Sound
  <1>4. Sound(k) BY <1>1 DEF Right
  <1> HIDE DEF k
  <1>5. Top(k.leases) = Top(disk[d].leases) BY <1>3, GrantAdded
  <1>6. Own(d, k, {}) BY <1>1, <1>3, <1>4, <1>5 DEF Own
  <1> QED BY <1>1, <1>3, <1>6 DEF k

LEMMA TakeLeaseAdds ==
  ASSUME Settled, Rooted, Pursued, NEW d \in Devices, TakeLease(d)
  PROVE  Rooted' /\ Pursued'
  <1>1. PICK sig \in FreshSig :
          Ends(d, PutLease(Opened(d), Succession(Opened(d).mem, d, sig)))
    BY DEF TakeLease
  <1>2. UNCHANGED <<held, offers, acks, expired, crashes>> BY DEF TakeLease
  <1> DEFINE st == PutLease(Opened(d), Succession(Opened(d).mem, d, sig))
  <1>3. Right(Opened(d)) /\ Opened(d).disk = disk[d] BY OpenedIs
  <1>4. Right(st) /\ Onward(disk[d], st.disk) BY <1>3, SuccessionIs
  <1>5. /\ st.disk.snaps = disk[d].snaps /\ st.disk.ops = disk[d].ops
        /\ Top(st.disk.leases).holder = d
    BY <1>3, PutLeaseAdds
  <1> HIDE DEF st
  <1>6. Own(d, st.disk, {}) BY <1>4, <1>5 DEF Own, Right
  <1>7. disk' = [disk EXCEPT ![d] = st.disk] BY <1>1 DEF Ends, st
  <1> QED BY <1>2, <1>6, <1>7, OwnStep

LEMMA AuthorAdds ==
  ASSUME Settled, Rooted, Pursued, NEW d \in Devices, Author(d)
  PROVE  Rooted' /\ Pursued'
  <1>1. UNCHANGED <<held, offers, acks, expired>> BY DEF Author
  <1>2. PICK noLease \in BOOLEAN, id \in FreshId : \E st \in Leased(d, noLease) :
          LET s == [id |-> id, parent |-> st.mem.main.snap, writer |-> d]
          IN IF ~Insertable(st.mem, s)
             THEN Ends(d, st) /\ UNCHANGED <<session, crashes>>
             ELSE \/ Ends(d, Labelled(PutSnap(st, s), s)) /\ UNCHANGED <<session, crashes>>
                  \/ Restarts(d, PutSnap(st, s).disk)
    BY DEF Author
  <1>3. PICK st \in Leased(d, noLease) :
          LET s == [id |-> id, parent |-> st.mem.main.snap, writer |-> d]
          IN IF ~Insertable(st.mem, s)
             THEN Ends(d, st) /\ UNCHANGED <<session, crashes>>
             ELSE \/ Ends(d, Labelled(PutSnap(st, s), s)) /\ UNCHANGED <<session, crashes>>
                  \/ Restarts(d, PutSnap(st, s).disk)
    BY <1>2
  <1> DEFINE s == [id |-> id, parent |-> st.mem.main.snap, writer |-> d]
  <1>4. Right(st) /\ Own(d, st.disk, {}) BY LeasedIs, LeasedAdds
  <1>5. Newborn(s)
    <2>1. s.id \in FreshId /\ s.parent = st.mem.main.snap OBVIOUS
    <2> HIDE DEF s
    <2>2. Sound(st.disk) /\ st.mem.main = Newest(st.disk.ops) BY <1>4 DEF Right, Shown
    <2>3. st.disk.snaps = disk[d].snaps BY <1>4 DEF Own
    <2>4. CASE Newest(st.disk.ops) = NoOp
      <3>1. NoOp.snap = NoSnap BY DEF NoOp
      <3> QED BY <2>1, <2>2, <2>4, <3>1, NewbornIs
    <2>5. CASE Newest(st.disk.ops) # NoOp
      <3>1. Newest(st.disk.ops) \in st.disk.ops BY <2>2, <2>5, HeadIs
      <3>2. PICK x \in st.disk.snaps : x.id = Newest(st.disk.ops).snap
        BY <2>2, <3>1 DEF Sound
      <3>3. s.parent \in Ids(disk[d].snaps) BY <2>1, <2>2, <2>3, <3>2 DEF Ids
      <3> QED BY <2>1, <3>3, NewbornIs
    <2> QED BY <2>4, <2>5
  <1>6. s.writer = d OBVIOUS
  <1>7. CASE ~Insertable(st.mem, s)
    <2>1. Ends(d, st) /\ crashes' = crashes BY <1>3, <1>7
    <2>2. disk' = [disk EXCEPT ![d] = st.disk] BY <2>1 DEF Ends
    <2> HIDE DEF s
    <2> QED BY <1>1, <1>4, <2>1, <2>2, OwnStep
  <1>8. CASE Insertable(st.mem, s)
    <2>1. \/ Ends(d, Labelled(PutSnap(st, s), s)) /\ crashes' = crashes
          \/ Restarts(d, PutSnap(st, s).disk)
      BY <1>3, <1>8
    <2> HIDE DEF s
    <2>2. /\ Own(d, PutSnap(st, s).disk, {s})
          /\ Own(d, Labelled(PutSnap(st, s), s).disk, {s})
      BY <1>4, <1>5, <1>6, <1>8, WrittenAdds
    <2>3. CASE Ends(d, Labelled(PutSnap(st, s), s)) /\ crashes' = crashes
      <3>1. disk' = [disk EXCEPT ![d] = Labelled(PutSnap(st, s), s).disk] BY <2>3 DEF Ends
      <3> QED BY <1>1, <2>2, <2>3, <3>1, OwnStep
    <2>4. CASE Restarts(d, PutSnap(st, s).disk)
      <3>1. disk' = [disk EXCEPT ![d] = PutSnap(st, s).disk] /\ crashes' = crashes + 1
        BY <2>4 DEF Restarts
      <3> QED BY <1>1, <2>2, <3>1, OwnStep
    <2> QED BY <2>1, <2>3, <2>4
  <1> QED BY <1>7, <1>8

LEMMA AttachAdds ==
  ASSUME Settled, Rooted, Pursued, NEW d \in Devices, Attach(d)
  PROVE  Rooted' /\ Pursued'
  <1>1. UNCHANGED <<held, offers, acks, expired, crashes>> BY DEF Attach
  <1>2. PICK id \in FreshId, p \in Ids(Reload(disk[d]).snaps) :
          LET s == [id |-> id, parent |-> p, writer |-> d]
          IN Ends(d, Labelled(PutSnap(Opened(d), s), s))
    BY DEF Attach
  <1> DEFINE s == [id |-> id, parent |-> p, writer |-> d]
             n == Labelled(PutSnap(Opened(d), s), s)
  <1>3. Right(Opened(d)) /\ Opened(d).disk = disk[d] /\ Sound(disk[d])
        /\ Onward(disk[d], disk[d])
    BY OpenedIs DEF Settled
  <1>4. p \in Ids(disk[d].snaps) /\ p \in SnapIds
    <2>1. Reload(disk[d]).snaps = disk[d].snaps BY <1>3, ReloadIs DEF Shown
    <2> QED BY <1>3, <2>1 DEF Ids, Sound
  <1>5. Insertable(Opened(d).mem, s) /\ s.writer = d /\ s.id = id /\ s.parent = p
    <2>1. s.parent # NoSnap /\ s.writer = d BY <1>4, CapsuleAssumption
    <2> QED BY <2>1 DEF Insertable
  <1> HIDE DEF s
  <1>6. Newborn(s) BY <1>4, <1>5, NewbornIs
  <1>7. Own(d, Opened(d).disk, {}) BY <1>3 DEF Own
  <1>8. Own(d, n.disk, {s}) BY <1>3, <1>5, <1>6, <1>7, WrittenAdds
  <1>9. disk' = [disk EXCEPT ![d] = n.disk] BY <1>2 DEF Ends, s
  <1> HIDE DEF n
  <1> QED BY <1>1, <1>8, <1>9, OwnStep

LEMMA RefuseAdds ==
  ASSUME Settled, Rooted, Pursued, NEW d \in Devices, NEW w \in Workers, NEW o \in offers,
         Refuse(d, w, o)
  PROVE  Rooted' /\ Pursued'
  <1> DEFINE st == Acquainted(d, session[d][w])
             f  == Acquainted(d, Fresh(d))
  <1>1. Received(d, w, st) /\ UNCHANGED <<held, offers, acks, expired, crashes>>
    BY DEF Refuse
  <1>2. Right(f) /\ Own(d, f.disk, {}) BY AcquaintedAdds
  <1>3. st.disk = f.disk BY DEF Acquainted
  <1> HIDE DEF st, f
  <1>4. disk' = [disk EXCEPT ![d] = f.disk] BY <1>1, <1>3 DEF Received
  <1> QED BY <1>1, <1>2, <1>4, OwnStep

LEMMA AdoptedAdds ==
  ASSUME NEW st, Right(st), NEW o, OfferIs(o)
  PROVE  /\ Adopted(st, o).disk.snaps = st.disk.snaps
         /\ st.disk.ops \subseteq Adopted(st, o).disk.ops
         /\ \A x \in Adopted(st, o).disk.ops \ st.disk.ops : x = o.main /\ o.main # NoOp
         /\ Adoptable(st, o) => /\ WithLeases(st, o).disk.snaps = st.disk.snaps
                                /\ WithLeases(st, o).disk.ops = st.disk.ops
         /\ Moved(st, o) => ~Newer(o.main, Newest(Adopted(st, o).disk.ops))
  <1>1. CASE ~Adoptable(st, o) BY <1>1 DEF Adopted, Moved
  <1>2. CASE Adoptable(st, o)
    <2> DEFINE n == WithLeases(st, o)
    <2>1. PICK L : Linear(L) /\ o.chain \subseteq L BY DEF OfferIs
    <2>2. Right(n) /\ n.disk.snaps = st.disk.snaps /\ n.disk.ops = st.disk.ops
      BY <1>2, <2>1, WithLeasesIs DEF Adoptable
    <2>3. CASE o.main = NoOp
      <3>1. Adopted(st, o) = n BY <1>2, <2>3 DEF Adopted
      <3> HIDE DEF n
      <3> QED BY <2>2, <2>3, <3>1 DEF Moved, n
    <2>4. CASE o.main # NoOp
      <3>1. Adopted(st, o) = PutMain(n, o.main) /\ IsOp(o.main)
            /\ MainAllowed(n.mem, o.main, expired)
        BY <1>2, <2>4 DEF Adopted, Adoptable, OfferIs
      <3> HIDE DEF n
      <3>2. /\ PutMain(n, o.main).disk.snaps = n.disk.snaps
            /\ n.disk.ops \subseteq PutMain(n, o.main).disk.ops
            /\ PutMain(n, o.main).disk.ops \subseteq n.disk.ops \cup {o.main}
            /\ ~Newer(o.main, Newest(PutMain(n, o.main).disk.ops))
        BY <2>2, <3>1, PutMainAdds
      <3> QED BY <2>2, <2>4, <3>1, <3>2 DEF n
    <2> QED BY <2>3, <2>4
  <1> QED BY <1>1, <1>2

LEMMA ArrivedAdds ==
  ASSUME Settled, Rooted, NEW d \in Devices, NEW o \in offers, Insertable(Fresh(d), o.snap)
  PROVE  /\ Right(Arrived(d, o)) /\ Onward(disk[d], Arrived(d, o).disk)
         /\ Arrived(d, o).disk.ops = disk[d].ops
         /\ Arrived(d, o).disk.snaps \subseteq AllSnaps
  <1> DEFINE st == Acquainted(d, Fresh(d))
  <1>1. Right(st) /\ st.disk.ops = disk[d].ops /\ st.disk.snaps = disk[d].snaps
    BY AcquaintedAdds
  <1>2. Right(Arrived(d, o)) /\ Onward(disk[d], Arrived(d, o).disk)
    BY ArrivedIs
  <1>3. Arrived(d, o) = PutSnap(st, o.snap) BY DEF Arrived
  <1> HIDE DEF st
  <1>4. /\ PutSnap(st, o.snap).disk.snaps = disk[d].snaps \cup {o.snap}
        /\ PutSnap(st, o.snap).disk.ops = disk[d].ops
    BY <1>1, PutSnapAdds
  <1>5. disk[d].snaps \subseteq AllSnaps /\ o.snap \in AllSnaps BY DEF AllSnaps, Rooted
  <1> QED BY <1>2, <1>3, <1>4, <1>5

LEMMA ReceiveCutAdds ==
  ASSUME Settled, Rooted, Pursued, NEW d \in Devices, NEW w \in Workers, NEW o \in offers,
         ReceiveCut(d, w, o), overtaken' = {}
  PROVE  Rooted' /\ Pursued'
  <1> DEFINE st == Acquainted(d, Fresh(d))
             snap == Arrived(d, o)
  <1>1. PICK k : /\ Restarts(d, k) /\ k \in Stages(d, Fresh(d), o)
                 /\ Insertable(Fresh(d), o.snap)
    BY DEF ReceiveCut, Fresh
  <1>2. /\ Right(st) /\ Onward(disk[d], st.disk)
        /\ st.disk.ops = disk[d].ops /\ st.disk.snaps = disk[d].snaps
    BY AcquaintedAdds
  <1>3. /\ Right(snap) /\ Onward(disk[d], snap.disk)
        /\ snap.disk.ops = disk[d].ops /\ snap.disk.snaps \subseteq AllSnaps
    BY <1>1, ArrivedAdds
  <1>4. OfferIs(o) /\ (o.main # NoOp => Owned(disk, o.main)) BY DEF Settled, Rooted
  <1>5. disk[d].snaps \subseteq AllSnaps BY DEF AllSnaps
  <1>6. \/ k = st.disk \/ k = snap.disk \/ k = Adopted(snap, o).disk
        \/ Adoptable(snap, o) /\ k = WithLeases(snap, o).disk
    BY <1>1, StagesAre
  <1>7. UNCHANGED <<held, offers, acks, expired>> BY DEF ReceiveCut
  <1> HIDE DEF st, snap
  <1>8. Sound(st.disk) /\ Sound(snap.disk) BY <1>2, <1>3 DEF Right
  <1>9. /\ Right(Adopted(snap, o)) /\ Onward(disk[d], Adopted(snap, o).disk)
        /\ Adoptable(snap, o) =>
             Right(WithLeases(snap, o)) /\ Onward(disk[d], WithLeases(snap, o).disk)
    BY <1>3, <1>4, <1>8, AdoptedIs, OnwardGoesOn
  <1>10. /\ Sound(k) /\ Onward(disk[d], k)
         /\ k.snaps \subseteq AllSnaps /\ disk[d].ops \subseteq k.ops
         /\ \A x \in k.ops \ disk[d].ops : Owned(disk, x)
    <2>1. CASE k = st.disk BY <1>2, <1>5, <1>8, <2>1
    <2>2. CASE k = snap.disk BY <1>3, <1>8, <2>2
    <2>3. CASE Adoptable(snap, o) /\ k = WithLeases(snap, o).disk
      <3>1. /\ WithLeases(snap, o).disk.snaps = snap.disk.snaps
            /\ WithLeases(snap, o).disk.ops = snap.disk.ops
        BY <1>3, <1>4, <2>3, AdoptedAdds
      <3>2. Sound(k) BY <1>9, <2>3 DEF Right
      <3> QED BY <1>3, <1>9, <2>3, <3>1, <3>2
    <2>4. CASE k = Adopted(snap, o).disk
      <3>1. /\ Adopted(snap, o).disk.snaps = snap.disk.snaps
            /\ snap.disk.ops \subseteq Adopted(snap, o).disk.ops
            /\ \A x \in Adopted(snap, o).disk.ops \ snap.disk.ops : x = o.main /\ o.main # NoOp
        BY <1>3, <1>4, AdoptedAdds
      <3>2. Sound(k) BY <1>9, <2>4 DEF Right
      <3> QED BY <1>3, <1>4, <1>9, <2>4, <3>1, <3>2
    <2> QED BY <1>6, <2>1, <2>2, <2>3, <2>4
  <1>11. Grew(d, k) BY <1>1, <1>10 DEF Grew, Restarts
  <1>12. held' = [held EXCEPT ![d] = held[d]] BY <1>7 DEF Settled
  <1>13. \A i \in DOMAIN held[d] : Owned(disk, held[d][i]) BY DEF Rooted
  <1>14. Rooted' BY <1>7, <1>10, <1>11, <1>12, <1>13, RootedOn
  <1>15. Pursued' BY <1>1 DEF Pursued, Restarts
  <1> QED BY <1>14, <1>15

(* A step that leaves every device's files alone.                           *)
LEMMA StaysRooted ==
  ASSUME Settled, Rooted, Pursued, UNCHANGED <<disk, held, acks, crashes>>,
         expired \subseteq expired', offers \subseteq offers',
         \A o \in offers' \ offers : o.snap \in AllSnaps /\ (o.main # NoOp => Owned(disk, o.main))
  PROVE  Rooted' /\ Pursued'
  <1>1. AllSnaps' = AllSnaps BY DEF AllSnaps
  <1>2. Rooted' BY <1>1 DEF Rooted
  <1>3. ASSUME crashes = 0, NEW d \in Devices, NEW i \in DOMAIN held[d],
               Ready(disk[d], AllSnaps, held[d][i], expired')
        PROVE  FALSE
    <2>1. Ready(disk[d], AllSnaps, held[d][i], expired) BY <1>3 DEF Ready
    <2> QED BY <1>3, <2>1 DEF Pursued
  <1>4. Pursued' BY <1>1, <1>3 DEF Pursued
  <1> QED BY <1>2, <1>4

LEMMA SendOfferAdds ==
  ASSUME Settled, Rooted, Pursued, NEW d \in Devices, SendOffer(d)
  PROVE  Rooted' /\ Pursued'
  <1> DEFINE h == Reload(disk[d])
  <1>1. PICK s \in h.snaps :
          offers' = offers \cup {[from |-> d, snap |-> s, chain |-> Chain(h), main |-> h.main]}
    BY DEF SendOffer
  <1>2. Sound(disk[d]) BY DEF Settled
  <1>3. h.snaps = disk[d].snaps /\ h.main = Newest(disk[d].ops) BY <1>2, ReloadIs DEF Shown
  <1>4. s \in AllSnaps BY <1>3 DEF AllSnaps
  <1>5. h.main # NoOp => Owned(disk, h.main) BY <1>2, <1>3, HeadIs DEF Rooted
  <1> HIDE DEF h
  <1>6. \A o \in offers' \ offers :
          o.snap \in AllSnaps /\ (o.main # NoOp => Owned(disk, o.main))
    BY <1>1, <1>4, <1>5
  <1>7. UNCHANGED <<disk, held, acks, expired, crashes>> BY DEF SendOffer
  <1> QED BY <1>1, <1>6, <1>7, StaysRooted

\* The labels that are held back in q.
Labels(q) == {x \in {q[i] : i \in DOMAIN q} : IsOp(x)}

(* What a receipt adds to the labels held back.                             *)
LEMMA QueuedIs ==
  ASSUME NEW q, IsQueue(q), \A i \in DOMAIN q : Owned(disk, q[i]), NEW op, NEW queue,
         queue = q \/ (IsOp(op) /\ Owned(disk, op) /\ queue = Append(q, op))
  PROVE  /\ queue \in Seq(Labels(queue))
         /\ \A x \in Labels(queue) : IsOp(x) /\ Owned(disk, x)
         /\ \A i \in DOMAIN q : \E n \in DOMAIN queue : queue[n] = q[i]
         /\ queue = Append(q, op) => \E n \in DOMAIN queue : queue[n] = op
  <1>1. PICK P : (\A x \in P : IsOp(x)) /\ q \in Seq(P) BY DEF IsQueue
  <1>2. ASSUME queue = Append(q, op)
        PROVE  /\ DOMAIN queue = DOMAIN q \cup {Len(q) + 1} /\ queue[Len(q) + 1] = op
               /\ \A i \in DOMAIN q : queue[i] = q[i]
               /\ queue \in Seq(P \cup {op})
    BY <1>1, <1>2
  <1>3. \A i \in DOMAIN q : IsOp(q[i]) BY <1>1
  <1>4. \A i \in DOMAIN queue : IsOp(queue[i]) /\ Owned(disk, queue[i]) BY <1>2, <1>3
  <1>5. queue \in Seq(P \cup {op}) BY <1>1, <1>2
  <1>6. queue \in Seq(Labels(queue)) BY <1>4, <1>5 DEF Labels
  <1>7. \A x \in Labels(queue) : IsOp(x) /\ Owned(disk, x) BY <1>4 DEF Labels
  <1>8. \A i \in DOMAIN q : \E n \in DOMAIN queue : queue[n] = q[i] BY <1>2
  <1> QED BY <1>2, <1>6, <1>7, <1>8

(* As long as no session has gone by an older copy.                         *)
LEMMA ReceiveAdds ==
  ASSUME Settled, Rooted, Pursued, NEW d \in Devices, NEW w \in Workers, NEW o \in offers,
         Receive(d, w, o), overtaken' = {}
  PROVE  Rooted' /\ Pursued'
  <1> DEFINE snap  == Arrived(d, o)
             moved == Moved(snap, o)
             got   == Adopted(snap, o)
             next  == IF moved THEN got ELSE PutFork(got, o.snap.id)
             queue == IF moved \/ o.main = NoOp \/ Contains(held[d], o.main)
                      THEN held[d] ELSE Append(held[d], o.main)
             last  == Retry(next, queue)
             ack   == [by |-> d, offer |-> o,
                       shelf |-> IF moved THEN "capsule-head" ELSE "capsule-fork"]
             k     == last.store.disk
  <1>1. /\ Insertable(Fresh(d), o.snap)
        /\ disk' = [disk EXCEPT ![d] = k]
        /\ held' = [held EXCEPT ![d] = last.queue]
        /\ acks' = acks \cup {ack} /\ UNCHANGED <<offers, expired, crashes>>
    <2> DEFINE r == Receipt(d, session[d][w], o)
               f == Receipt(d, Fresh(d), o)
    <2>1. /\ Received(d, w, r.store)
          /\ held' = [held EXCEPT ![d] = r.queue]
          /\ acks' = acks \cup {[by |-> d, offer |-> o, shelf |-> r.shelf]}
          /\ Alike(d, o, r) /\ UNCHANGED <<offers, expired, crashes>>
      BY DEF Receive
    <2>2. f = [store |-> last.store, queue |-> last.queue,
               shelf |-> IF moved THEN "capsule-head" ELSE "capsule-fork"]
      BY DEF Receipt, Arrived
    <2>3. /\ Insertable(Fresh(d), o.snap)
          /\ f.store.disk = r.store.disk /\ f.queue = r.queue /\ f.shelf = r.shelf
      BY <2>1 DEF Alike, Fresh
    <2> HIDE DEF r, f, moved, last
    <2>4. disk' = [disk EXCEPT ![d] = r.store.disk] BY <2>1 DEF Received
    <2> QED BY <2>1, <2>2, <2>3, <2>4
  <1>2. OfferIs(o) /\ IsQueue(held[d]) /\ (o.main # NoOp => Owned(disk, o.main))
    BY DEF Settled, Rooted
  <1>3. /\ Right(snap) /\ Onward(disk[d], snap.disk)
        /\ snap.disk.ops = disk[d].ops /\ snap.disk.snaps \subseteq AllSnaps
    BY <1>1, ArrivedAdds
  <1>4. ack.by = d /\ ack.offer = o OBVIOUS
  <1>5. /\ got.disk.snaps = snap.disk.snaps
        /\ snap.disk.ops \subseteq got.disk.ops
        /\ \A x \in got.disk.ops \ snap.disk.ops : x = o.main /\ o.main # NoOp
        /\ moved => ~Newer(o.main, Newest(got.disk.ops))
    BY <1>2, <1>3, AdoptedAdds
  <1> DEFINE Q == Labels(queue)
  <1>6. /\ queue \in Seq(Q) /\ \A x \in Q : IsOp(x) /\ Owned(disk, x)
        /\ \A i \in DOMAIN held[d] : \E n \in DOMAIN queue : queue[n] = held[d][i]
        /\ o.main # NoOp => moved \/ \E n \in DOMAIN queue : queue[n] = o.main
    <2>1. \/ queue = held[d]
          \/ IsOp(o.main) /\ Owned(disk, o.main) /\ queue = Append(held[d], o.main)
      BY <1>2 DEF OfferIs
    <2>2. \A i \in DOMAIN held[d] : Owned(disk, held[d][i]) BY DEF Rooted
    <2>3. o.main # NoOp => \/ moved \/ queue = Append(held[d], o.main)
                          \/ \E n \in DOMAIN held[d] : held[d][n] = o.main
      <3>1. DOMAIN held[d] = 1 .. Len(held[d]) BY <1>2 DEF IsQueue
      <3> QED BY <3>1 DEF Contains
    <2> HIDE DEF moved, queue
    <2>4. /\ queue \in Seq(Labels(queue))
          /\ \A x \in Labels(queue) : IsOp(x) /\ Owned(disk, x)
          /\ \A i \in DOMAIN held[d] : \E n \in DOMAIN queue : queue[n] = held[d][i]
          /\ queue = Append(held[d], o.main) => \E n \in DOMAIN queue : queue[n] = o.main
      <3> DEFINE q == held[d]
                 op == o.main
      <3>1. IsQueue(q) /\ \A i \in DOMAIN q : Owned(disk, q[i]) BY <1>2, <2>2
      <3>2. queue = q \/ (IsOp(op) /\ Owned(disk, op) /\ queue = Append(q, op)) BY <2>1
      <3> HIDE DEF q, op
      <3>3. /\ queue \in Seq(Labels(queue))
            /\ \A x \in Labels(queue) : IsOp(x) /\ Owned(disk, x)
            /\ \A i \in DOMAIN q : \E n \in DOMAIN queue : queue[n] = q[i]
            /\ queue = Append(q, op) => \E n \in DOMAIN queue : queue[n] = op
        BY <3>1, <3>2, QueuedIs
      <3> QED BY <3>3 DEF q, op
    <2>5. ASSUME o.main # NoOp PROVE moved \/ \E n \in DOMAIN queue : queue[n] = o.main
      BY <2>3, <2>4, <2>5
    <2> QED BY <2>4, <2>5
  <1> HIDE DEF snap, moved, queue, ack, Q
  <1>7. Right(got) /\ Onward(snap.disk, got.disk) BY <1>2, <1>3, AdoptedIs
  <1>8. Sound(snap.disk) /\ Sound(got.disk) BY <1>3, <1>7 DEF Right
  <1>9. Onward(disk[d], got.disk) BY <1>3, <1>7, <1>8, OnwardGoesOn
  <1> HIDE DEF got
  <1>10. /\ Right(next) /\ Onward(got.disk, next.disk)
         /\ next.disk.snaps = got.disk.snaps /\ next.disk.ops = got.disk.ops
    BY <1>7, <1>8, OnwardStays, PutForkIs, PutForkAdds
  <1> HIDE DEF next
  <1>11. /\ Right(last.store) /\ Onward(next.disk, k)
         /\ k.snaps = next.disk.snaps /\ next.disk.ops \subseteq k.ops
         /\ k.ops \subseteq next.disk.ops \cup Q
         /\ last.queue \in Seq(Q)
         /\ \A i \in DOMAIN last.queue : ~Ready(k, AllSnaps, last.queue[i], expired)
         /\ \A i \in DOMAIN queue :
              \/ \E n \in DOMAIN last.queue : last.queue[n] = queue[i]
              \/ ~Newer(queue[i], Newest(k.ops))
    <2>1. Genealogy(AllSnaps) /\ next.disk.snaps \subseteq AllSnaps
      BY <1>3, <1>5, <1>10 DEF Rooted
    <2> QED BY <1>6, <1>10, <2>1, RetryIs, RetryTries
  <1> HIDE DEF last, k
  <1>13. Sound(k) /\ Sound(next.disk) BY <1>10, <1>11 DEF Right, k
  <1>14. Onward(disk[d], k)
    <2>1. Onward(disk[d], next.disk) BY <1>8, <1>9, <1>10, OnwardGoesOn
    <2> QED BY <1>11, <1>13, <2>1, OnwardGoesOn
  <1>15. disk[d].ops \subseteq k.ops /\ \A x \in k.ops \ disk[d].ops : Owned(disk, x)
    BY <1>2, <1>3, <1>5, <1>6, <1>10, <1>11
  <1>16. Grew(d, k) BY <1>1, <1>13, <1>14, <1>15 DEF Grew
  <1>17. k.snaps \subseteq AllSnaps BY <1>3, <1>5, <1>10, <1>11
  <1>18. Rooted'
    <2>1. \A i \in DOMAIN last.queue : Owned(disk, last.queue[i]) BY <1>6, <1>11
    <2>2. \A a \in acks' \ acks : a.offer \in offers' BY <1>1, <1>4
    <2> QED BY <1>1, <1>16, <1>17, <2>1, <2>2, RootedOn
  <1>19. /\ disk'[d] = k /\ \A c \in Devices \ {d} : disk'[c] = disk[c]
         /\ held'[d] = last.queue /\ \A c \in Devices \ {d} : held'[c] = held[c]
         /\ AllSnaps' = AllSnaps
    <2>1. /\ disk'[d] = k /\ \A c \in Devices \ {d} : disk'[c] = disk[c]
          /\ AllSnaps' = AllSnaps \cup k.snaps
      BY <1>16, GrewIs
    <2>2. held'[d] = last.queue /\ \A c \in Devices \ {d} : held'[c] = held[c]
      BY <1>1 DEF Settled
    <2> QED BY <1>17, <2>1, <2>2
  <1>20. Pursued'
    <2> SUFFICES ASSUME crashes = 0
                 PROVE  /\ \A c \in Devices : \A i \in DOMAIN held'[c] :
                             ~Ready(disk'[c], AllSnaps, held'[c][i], expired)
                        /\ \A a \in acks' : a.offer.main # NoOp =>
                             \/ \E i \in DOMAIN held'[a.by] : held'[a.by][i] = a.offer.main
                             \/ ~Newer(a.offer.main, Newest(disk'[a.by].ops))
      BY <1>1, <1>19 DEF Pursued
    <2>1. ASSUME NEW c \in Devices, NEW i \in DOMAIN held'[c]
          PROVE  ~Ready(disk'[c], AllSnaps, held'[c][i], expired)
      <3>1. CASE c = d BY <1>11, <1>19, <2>1, <3>1
      <3>2. CASE c # d BY <1>19, <2>1, <3>2 DEF Pursued
      <3> QED BY <3>1, <3>2
    <2>2. ASSUME NEW op, IsOp(op), \/ \E i \in DOMAIN queue : queue[i] = op
                                   \/ ~Newer(op, Newest(disk[d].ops))
                                   \/ ~Newer(op, Newest(next.disk.ops))
          PROVE  \/ \E i \in DOMAIN held'[d] : held'[d][i] = op
                 \/ ~Newer(op, Newest(disk'[d].ops))
      <3>1. Newer(op, Newest(k.ops)) => Newer(op, Newest(next.disk.ops))
        BY <1>11, <1>13, <2>2, NewestGrows
      <3>2. Newer(op, Newest(k.ops)) => Newer(op, Newest(disk[d].ops))
        BY <1>13, <1>15, <2>2, NewestGrows DEF Settled
      <3> QED BY <1>11, <1>19, <2>2, <3>1, <3>2
    <2>3. ASSUME NEW a \in acks', a.offer.main # NoOp
          PROVE  \/ \E i \in DOMAIN held'[a.by] : held'[a.by][i] = a.offer.main
                 \/ ~Newer(a.offer.main, Newest(disk'[a.by].ops))
      <3>1. CASE a = ack
        <4>1. IsOp(o.main) BY <1>2, <1>4, <2>3, <3>1 DEF OfferIs
        <4>2. moved => ~Newer(o.main, Newest(next.disk.ops)) BY <1>5, <1>10
        <4> QED BY <1>4, <1>6, <2>2, <2>3, <3>1, <4>1, <4>2
      <3>2. CASE a \in acks
        <4>1. a.by \in Devices /\ Owned(disk, a.offer.main)
          BY <2>3, <3>2 DEF Settled, Rooted
        <4>2. IsOp(a.offer.main) BY <4>1, OwnedIs
        <4>3. \/ \E i \in DOMAIN held[a.by] : held[a.by][i] = a.offer.main
              \/ ~Newer(a.offer.main, Newest(disk[a.by].ops))
          BY <2>3, <3>2 DEF Pursued
        <4>4. CASE a.by = d BY <1>6, <2>2, <4>2, <4>3, <4>4
        <4>5. CASE a.by # d BY <1>19, <4>1, <4>3, <4>5
        <4> QED BY <4>4, <4>5
      <3> QED BY <1>1, <2>3, <3>1, <3>2
    <2> QED BY <2>1, <2>3
  <1> QED BY <1>18, <1>20

LEMMA RootedInit ==
  ASSUME Init PROVE Rooted /\ Pursued
  <1>1. \A d \in Devices : disk[d].snaps = {} /\ disk[d].ops = {}
    <2> TAKE d \in Devices
    <2>1. disk[d] = [NoCapsule EXCEPT !.leases = {Grant}] \/ disk[d] = NoCapsule
      BY DEF Init
    <2> QED BY <2>1 DEF NoCapsule
  <1>2. AllSnaps = {} BY <1>1 DEF AllSnaps
  <1>3. \A d \in Devices : DOMAIN held[d] = {} BY DEF Init
  <1>4. Rooted BY <1>1, <1>2, <1>3 DEF Rooted, Genealogy, Init
  <1>5. Pursued BY <1>3 DEF Pursued, Init
  <1> QED BY <1>4, <1>5

LEMMA RootedNext ==
  ASSUME Settled, Rooted, Pursued, [Next]_vars, overtaken' = {}
  PROVE  Rooted' /\ Pursued'
  <1>1. CASE UNCHANGED vars BY <1>1, StaysRooted DEF vars
  <1>2. ASSUME NEW sig \in Expirable, Expire(sig) PROVE Rooted' /\ Pursued'
    BY <1>2, StaysRooted DEF Expire
  <1>3. ASSUME NEW d \in Devices, TakeLease(d) \/ Author(d) \/ Attach(d) \/ SendOffer(d)
        PROVE  Rooted' /\ Pursued'
    BY <1>3, TakeLeaseAdds, AuthorAdds, AttachAdds, SendOfferAdds
  <1>4. ASSUME NEW d \in Devices, NEW w \in Workers, OpenSession(d, w) \/ CloseSession(d, w)
        PROVE  Rooted' /\ Pursued'
    BY <1>4, StaysRooted DEF OpenSession, CloseSession
  <1>5. ASSUME NEW d \in Devices, NEW w \in Workers, NEW o \in Incoming(d),
               Receive(d, w, o) \/ Refuse(d, w, o) \/ ReceiveCut(d, w, o)
        PROVE  Rooted' /\ Pursued'
    <2>1. o \in offers BY DEF Incoming
    <2> QED BY <1>5, <2>1, ReceiveAdds, RefuseAdds, ReceiveCutAdds
  <1>6. CASE Next
    <2>1. \/ \E d \in Devices : TakeLease(d) \/ Author(d) \/ Attach(d) \/ SendOffer(d)
          \/ \E d \in Devices, w \in Workers : OpenSession(d, w) \/ CloseSession(d, w)
          \/ \E d \in Devices, w \in Workers : \E o \in Incoming(d) :
               Receive(d, w, o) \/ Refuse(d, w, o) \/ ReceiveCut(d, w, o)
          \/ \E sig \in Expirable : Expire(sig)
      BY <1>6 DEF Next
    <2> QED BY <1>2, <1>3, <1>4, <1>5, <2>1
  <1> QED BY <1>1, <1>6

-----------------------------------------------------------------------------
(* The theorems.  They hold until a session goes by an older copy of its    *)
(* store; what one has overtaken stays overtaken.                           *)

\* The invariant.
Unspoilt == overtaken = {} => Settled /\ Rooted /\ Pursued

LEMMA UnspoiltIs ==
  /\ Init => Unspoilt
  /\ Unspoilt /\ [Next]_vars => Unspoilt'
  /\ Unspoilt /\ [Next]_vars => (overtaken' = {} => [Forward]_vars)
  <1>1. [Next]_vars => overtaken \subseteq overtaken'
    BY DEF Next, vars, TakeLease, Author, Attach, SendOffer, OpenSession, CloseSession,
           Receive, Refuse, ReceiveCut, Expire
  <1>2. Init => Unspoilt BY SettledInit, RootedInit DEF Unspoilt
  <1>3. Unspoilt /\ [Next]_vars /\ overtaken' = {}
          => Settled' /\ Rooted' /\ Pursued' /\ [Forward]_vars
    BY <1>1, SettledNext, RootedNext DEF Unspoilt
  <1> QED BY <1>2, <1>3 DEF Unspoilt

(* The head that reload_capsule finds in the files is the one the device    *)
(* showed after the operation that wrote them, or a prefix of it, ended.    *)
THEOREM HeadIsReloaded == Spec => [](overtaken = {} => ReloadKeepsHead)
  <1>1. Init => Unspoilt BY UnspoiltIs
  <1>2. Unspoilt /\ [Next]_vars => Unspoilt' BY UnspoiltIs
  <1>3. Unspoilt => (overtaken = {} => ReloadKeepsHead)
    BY ReloadIs DEF Unspoilt, Settled, ReloadKeepsHead, MainOf, Shown
  <1> QED BY <1>1, <1>2, <1>3, PTL DEF Spec

(* What finalize_received_offer acked is kept: the snapshot is loaded, an   *)
(* adopted label's line is followed ever since, and any other snapshot has  *)
(* its fork label.                                                          *)
THEOREM AcksAreKept == Spec => [](overtaken = {} => AckedIsLoaded)
  <1>1. Init => Unspoilt BY UnspoiltIs
  <1>2. Unspoilt /\ [Next]_vars => Unspoilt' BY UnspoiltIs
  <1>3. Unspoilt => (overtaken = {} => AckedIsLoaded)
    <2> SUFFICES ASSUME Settled, NEW a \in acks
                 PROVE  /\ a.offer.snap \in Reload(disk[a.by]).snaps
                        /\ a.shelf = "capsule-head" =>
                             Descends(AllSnaps, MainOf(a.by).snap, a.offer.main.snap)
                        /\ a.shelf = "capsule-fork" => a.offer.snap.id \in disk[a.by].forks
      BY DEF AckedIsLoaded, Unspoilt
    <2>1. a.by \in Devices /\ Keeps(disk[a.by], a) /\ Sound(disk[a.by]) BY DEF Settled
    <2>2. Reload(disk[a.by]).snaps = disk[a.by].snaps
          /\ MainOf(a.by) = Newest(disk[a.by].ops)
      BY <2>1, ReloadIs DEF MainOf, Shown
    <2>3. disk[a.by].snaps \subseteq AllSnaps BY <2>1 DEF AllSnaps
    <2> QED BY <2>1, <2>2, <2>3, LineGrows DEF Keeps
  <1> QED BY <1>1, <1>2, <1>3, PTL DEF Spec

(* apply_label lets a head move on only to a descendant, whichever way the  *)
(* label came: authored, adopted with an offer, or held back and retried.   *)
THEOREM HeadsOnlyMoveOn == Spec /\ [](overtaken = {}) => HeadNeverRewinds
  <1>1. Init => Unspoilt BY UnspoiltIs
  <1>2. Unspoilt /\ [Next]_vars => Unspoilt' BY UnspoiltIs
  <1>3. Unspoilt /\ [Next]_vars /\ (overtaken = {})' => [Forward]_vars BY UnspoiltIs
  <1>4. Spec /\ [](overtaken = {}) => [][Forward]_vars BY <1>1, <1>2, <1>3, PTL DEF Spec
  <1>5. [Forward]_vars => [\A d \in Devices \ overtaken' : told[d] # NoOp =>
          Descends(UNION {disk'[c].snaps : c \in Devices}, told'[d].snap, told[d].snap)]_vars
    BY DEF Forward
  <1>6. [][Forward]_vars => [][\A d \in Devices \ overtaken' : told[d] # NoOp =>
          Descends(UNION {disk'[c].snaps : c \in Devices}, told'[d].snap, told[d].snap)]_vars
    BY <1>5, PTL
  <1> QED BY <1>4, <1>6 DEF HeadNeverRewinds

(* Offers may arrive in any order and more than once: a device that has     *)
(* acked an offer with a head, and has every snapshot of that head's line   *)
(* and the lease it was set under, is not left behind at an ancestor of it. *)
(* retry_pending_main_labels tries each label that was held back after      *)
(* every receipt, and only a receipt brings what such a label waits for.    *)
THEOREM DevicesCatchUp == Spec => [](overtaken = {} => CaughtUp)
  <1>1. Init => Unspoilt BY UnspoiltIs
  <1>2. Unspoilt /\ [Next]_vars => Unspoilt' BY UnspoiltIs
  <1>3. Unspoilt => (overtaken = {} => CaughtUp)
    <2> SUFFICES
          ASSUME Settled, Rooted, Pursued, NEW a \in Devices, NEW b \in Devices,
                 crashes = 0,
                 Reload(disk[a]).winner = Reload(disk[b]).winner,
                 Reload(disk[a]).winner.sig \notin expired,
                 Reload(disk[a]).main # NoOp,
                 Reload(disk[a]).main.epoch = Reload(disk[a]).winner.epoch,
                 NEW k \in acks, k.by = b, k.offer.main = Reload(disk[a]).main,
                 Line(AllSnaps, Reload(disk[a]).main.snap)
                   \subseteq {j.offer.snap.id : j \in {j \in acks : j.by = b}}
                               \cup Ids({s \in disk[b].snaps : s.writer = b}),
                 Newer(Reload(disk[a]).main, Reload(disk[b]).main),
                 Reload(disk[b]).main = NoOp
                   \/ Descends(AllSnaps, Reload(disk[a]).main.snap, Reload(disk[b]).main.snap)
          PROVE  FALSE
      BY DEF CaughtUp, Unspoilt
    <2> DEFINE w == Top(disk[b].leases)
               op == Newest(disk[a].ops)
    <2>1. Sound(disk[a]) /\ Sound(disk[b]) BY DEF Settled
    <2>2. /\ Reload(disk[a]).winner = Top(disk[a].leases) /\ Reload(disk[a]).main = op
          /\ Reload(disk[b]).winner = w /\ Reload(disk[b]).main = Newest(disk[b].ops)
      BY <2>1, ReloadIs DEF Shown
    <2>3. w = Top(disk[a].leases) /\ op # NoOp /\ op.epoch = w.epoch BY <2>2
    <2>4. op \in disk[a].ops BY <2>1, <2>3, HeadIs
    <2>5. op.by = w.holder
      <3>1. PICK l \in disk[a].leases \cup {Grant} : l.epoch = op.epoch /\ l.holder = op.by
        BY <2>1, <2>4 DEF Sound
      <3>2. w \in disk[a].leases \cup {Grant}
        BY <2>1, <2>3, TopIs DEF Sound, Highest
      <3>3. l = w BY <2>1, <2>3, <3>1, <3>2 DEF Sound, Linear
      <3> QED BY <3>1, <3>3
    <2>6. Line(AllSnaps, op.snap) \subseteq Ids(disk[b].snaps)
      <3>1. \A j \in acks : j.by = b => j.offer.snap \in disk[b].snaps
        BY DEF Settled, Keeps
      <3> QED BY <2>2, <3>1 DEF Ids
    <2> HIDE DEF w, op
    <2>7. Ready(disk[b], AllSnaps, op, expired)
      BY <2>2, <2>3, <2>5, <2>6 DEF Ready, w
    <2>8. \/ \E i \in DOMAIN held[b] : held[b][i] = op
          \/ ~Newer(op, Newest(disk[b].ops))
      BY <2>2, <2>3 DEF Pursued
    <2>9. \A i \in DOMAIN held[b] : ~Ready(disk[b], AllSnaps, held[b][i], expired)
      BY DEF Pursued
    <2> QED BY <2>2, <2>7, <2>8, <2>9
  <1> QED BY <1>1, <1>2, <1>3, PTL DEF Spec

=============================================================================
