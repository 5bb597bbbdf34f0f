---------------------------- MODULE HaClientProofs ----------------------------
(***************************************************************************)
(* The mailbox between the Home Assistant client and the bridge, and what  *)
(* the bridge may show of a connection, for any entities, mailbox size,    *)
(* drain limit, subscription modes and number of sessions and changes, and *)
(* every order of frames, drops and drains.                                *)
(***************************************************************************)
EXTENDS HaClient, TLAPS, SequenceTheorems, FiniteSetTheorems, WellFoundedInduction

-----------------------------------------------------------------------------
(* Types.                                                                    *)

Version == [ver : Nat, gone : BOOLEAN]
Value == [ver : Nat, gone : BOOLEAN, sess : Nat, early : BOOLEAN]
Entry == [kind : {"update"}, entity : Entities, state : Value] \cup [kind : Kinds, sess : Nat]
AnyFrame == [type : {"auth_required", "auth_ok", "auth_invalid", "result", "event"},
             id : Nat, ok : BOOLEAN, ups : PartialOn(Version)]

HaTypes ==
  /\ server \in [Entities -> Version] /\ toClient \in Seq(AnyFrame)
  /\ sess \in Nat /\ since \in Nat /\ announced \in Kinds /\ haState \in Kinds
  /\ puts \subseteq [entity : Entities, state : Value]
  /\ items \in Seq(Entry) /\ overflowed \in BOOLEAN
  /\ batch \in PartialOn(Value) /\ heard \in [Entities -> Value]

-----------------------------------------------------------------------------
(* The inductive invariants.                                                 *)

\* Between two updates of an entity lies a control event.
Spaced(q) ==
  \A i, j \in 1 .. Len(q) :
    i < j /\ ~IsControl(q[i]) /\ ~IsControl(q[j]) /\ q[i].entity = q[j].entity
      => \E k \in i .. j : IsControl(q[k])

\* The word on the connection just before position i of the mailbox is the control event at j, or
\* what the bridge has applied already.
Governs(q, j, i) ==
  /\ j < i
  /\ j > 0 => IsControl(q[j])
  /\ \A k \in j + 1 .. i - 1 : ~IsControl(q[k])

Word(q, j) == IF j = 0 THEN Control(haState, since) ELSE q[j]

\* The mailbox is bounded and spaced, and its last word is the one the client announced last.
MailInv ==
  /\ Controls(items) <= MaxControls /\ Spaced(items)
  /\ \A j \in 0 .. Len(items) :
       Governs(items, j, Len(items) + 1) => Word(items, j).kind = announced

\* Only a session that lives is announced as connected, and one that is ready is.
SessionInv ==
  /\ runner \in {"closed", "reading", "putting"}
  /\ runner # "putting" => puts = {}
  /\ announced = "connected" => runner # "closed"
  /\ runner # "closed" /\ phase = "ready" => announced = "connected"

\* A value is early, or of the session that is announced: on its way to the mailbox ...
PutsFresh == \A u \in puts : u.state.early \/ (announced = "connected" /\ u.state.sess = sess)

EndFresh ==
  announced = "connected" =>
    \A j \in 0 .. Len(items) : Governs(items, j, Len(items) + 1) => Word(items, j).sess = sess

\* ... in it, where no event says "connected" after another one ...
LineFresh ==
  \A i \in 1 .. Len(items), j \in 0 .. Len(items) :
    Governs(items, j, i) =>
      /\ items[i].kind = "connected" => Word(items, j).kind # "connected"
      /\ ~IsControl(items[i]) =>
           \/ items[i].state.early
           \/ Word(items, j).kind = "connected" /\ Word(items, j).sess = items[i].state.sess

\* ... in the batch and in the engine.
BatchFresh == \A e \in DOMAIN batch : batch[e].early \/ (haState = "connected" /\ batch[e].sess = since)

HeardFresh ==
  \A e \in Entities :
    heard[e].gone \/ heard[e].early \/ (haState = "connected" /\ heard[e].sess = since)

FreshInv == PutsFresh /\ EndFresh /\ LineFresh /\ BatchFresh /\ HeardFresh

FreshUntilOverflow == overflowed \/ FreshInv

-----------------------------------------------------------------------------
(* Lemmas: the mailbox as a sequence.                                        *)

\* A set of naturals has a least element, and a set of positions a greatest.
LEMMA HasLeast ==
  ASSUME NEW T \in SUBSET Nat, T # {}
  PROVE  \E x \in T : \A y \in T : x <= y
<1>1. PICK x \in T : \A y \in T : ~ (<<y, x>> \in OpToRel(<, Nat))
  BY NatLessThanWellFounded, WFMin
<1>2. \A y \in T : ~(y < x) BY <1>1 DEF OpToRel
<1> QED BY <1>2

LEMMA HasGreatest ==
  ASSUME NEW n \in Nat, NEW T \in SUBSET (1 .. n), T # {}
  PROVE  \E x \in T : \A y \in T : x >= y
<1> DEFINE U == {k \in Nat : \E x \in T : k = n - x}
<1>1. U # {}
  <2>1. PICK x \in T : TRUE OBVIOUS
  <2>2. n - x \in U BY <2>1
  <2> QED BY <2>2
<1>2. PICK k \in U : \A y \in U : k <= y BY <1>1, HasLeast
<1>3. PICK x \in T : k = n - x BY <1>2
<1>4. \A y \in T : n - y \in U OBVIOUS
<1>5. \A y \in T : x >= y BY <1>2, <1>3, <1>4
<1> QED BY <1>5

\* The last control event of a mailbox, 0 without one.
LEMMA LastControlIs ==
  ASSUME NEW S, NEW q \in Seq(S)
  PROVE  /\ LastControl(q) \in 0 .. Len(q)
         /\ LastControl(q) > 0 => IsControl(q[LastControl(q)])
         /\ \A i \in LastControl(q) + 1 .. Len(q) : ~IsControl(q[i])
<1> DEFINE I == {i \in 1 .. Len(q) : IsControl(q[i])}
<1>1. LastControl(q) = IF I # {} THEN Max(I) ELSE 0
  BY DEF LastControl, SelectLastInSeq
<1>2. Len(q) \in Nat BY LenProperties
<1>3. I # {} => Max(I) \in I /\ \A i \in I : Max(I) >= i
  BY <1>2, HasGreatest DEF Max
<1>4. \A i \in 1 .. Len(q) : i \in I <=> IsControl(q[i]) OBVIOUS
<1>5. I \subseteq 1 .. Len(q) OBVIOUS
<1> HIDE DEF I
<1>6. CASE I = {} BY <1>1, <1>2, <1>4, <1>6
<1>7. CASE I # {}
  <2> DEFINE m == Max(I)
  <2>1. LastControl(q) = m /\ m \in I /\ \A i \in I : m >= i BY <1>1, <1>3, <1>7
  <2> HIDE DEF m
  <2>2. m \in 1 .. Len(q) BY <1>5, <2>1
  <2> QED BY <1>2, <1>4, <2>1, <2>2
<1> QED BY <1>6, <1>7

\* The control events' positions.
Places(q) == {i \in 1 .. Len(q) : IsControl(q[i])}

LEMMA PlacesFinite ==
  ASSUME NEW S, NEW q \in Seq(S)
  PROVE  IsFiniteSet(Places(q)) /\ Controls(q) = Cardinality(Places(q)) /\ Controls(q) \in Nat
<1>1. Len(q) \in Nat BY LenProperties
<1>2. Places(q) \in SUBSET (1 .. Len(q)) BY DEF Places
<1>3. IsFiniteSet(1 .. Len(q)) BY <1>1, FS_Interval
<1>4. IsFiniteSet(Places(q)) BY <1>2, <1>3, FS_Subset
<1>5. DOMAIN q = 1 .. Len(q) BY LenProperties
<1>6. Controls(q) = Cardinality(Places(q)) BY <1>5 DEF Controls, Places
<1> QED BY <1>4, <1>6, FS_CardinalityType

LEMMA FirstControlIs ==
  ASSUME NEW S, NEW q \in Seq(S), Controls(q) > 0
  PROVE  LET f == SelectInSeq(q, IsControl) IN
         f \in 1 .. Len(q) /\ IsControl(q[f]) /\ \A i \in 1 .. f - 1 : ~IsControl(q[i])
<1> DEFINE f == SelectInSeq(q, IsControl)
<1> DEFINE I == {i \in 1 .. Len(q) : IsControl(q[i])}
<1>1. f = IF I # {} THEN Min(I) ELSE 0 BY DEF SelectInSeq
<1>2. Len(q) \in Nat BY LenProperties
<1>3. I # {}
  <2>1. Places(q) # {} BY PlacesFinite, FS_EmptySet
  <2> QED BY <2>1 DEF Places
<1>4. Min(I) \in I /\ \A i \in I : Min(I) <= i
  <2>1. I \in SUBSET Nat BY <1>2
  <2> QED BY <1>3, <2>1, HasLeast DEF Min
<1>5. \A i \in 1 .. Len(q) : i \in I <=> IsControl(q[i]) OBVIOUS
<1>6. I \subseteq 1 .. Len(q) OBVIOUS
<1>7. f \in I /\ \A i \in I : f <= i BY <1>1, <1>3, <1>4
<1> HIDE DEF f, I
<1>8. f \in 1 .. Len(q) BY <1>6, <1>7
<1>9. \A i \in 1 .. f - 1 : ~IsControl(q[i]) BY <1>2, <1>5, <1>7, <1>8
<1>10. f \in 1 .. Len(q) /\ IsControl(q[f]) /\ \A i \in 1 .. f - 1 : ~IsControl(q[i])
  BY <1>5, <1>7, <1>8, <1>9
<1> QED BY <1>10 DEF f

\* r is q without its first f entries.
Suffix(r, q, f) ==
  /\ r \in Seq(Entry) /\ f \in 0 .. Len(q) /\ Len(r) + f = Len(q)
  /\ \A k \in 1 .. Len(r) : r[k] = q[k + f]

LEMMA SuffixSpaced ==
  ASSUME NEW q \in Seq(Entry), NEW r, NEW f, Suffix(r, q, f), Spaced(q)
  PROVE  Spaced(r)
<1>1. Len(q) \in Nat /\ Len(r) \in Nat /\ f \in Nat BY LenProperties DEF Suffix
<1> SUFFICES ASSUME NEW i \in 1 .. Len(r), NEW j \in 1 .. Len(r),
                    i < j, ~IsControl(r[i]), ~IsControl(r[j]), r[i].entity = r[j].entity
             PROVE  \E k \in i .. j : IsControl(r[k])
  BY DEF Spaced
<1>2. r[i] = q[i + f] /\ r[j] = q[j + f] BY DEF Suffix
<1>3. i + f \in 1 .. Len(q) /\ j + f \in 1 .. Len(q) /\ i + f < j + f BY <1>1 DEF Suffix
<1>4. PICK k \in i + f .. j + f : IsControl(q[k]) BY <1>2, <1>3 DEF Spaced
<1>5. k - f \in i .. j /\ k - f \in 1 .. Len(r) /\ (k - f) + f = k BY <1>1, <1>4
<1>6. r[k - f] = q[k] BY <1>5 DEF Suffix
<1> QED BY <1>4, <1>5, <1>6

\* A suffix has the control events that are left; one less when a control event went first.
LEMMA SuffixControls ==
  ASSUME NEW q \in Seq(Entry), NEW r, NEW f, Suffix(r, q, f)
  PROVE  /\ Controls(r) <= Controls(q)
         /\ f > 0 /\ IsControl(q[f]) => Controls(r) + 1 <= Controls(q)
<1>1. Len(q) \in Nat /\ Len(r) \in Nat /\ f \in Nat /\ r \in Seq(Entry) BY LenProperties DEF Suffix
<1>2. /\ IsFiniteSet(Places(q)) /\ Controls(q) = Cardinality(Places(q)) /\ Controls(q) \in Nat
      /\ IsFiniteSet(Places(r)) /\ Controls(r) = Cardinality(Places(r)) /\ Controls(r) \in Nat
  BY <1>1, PlacesFinite
<1>3. ASSUME NEW T, IsFiniteSet(T), \A k \in Places(r) : k + f \in T
      PROVE  Cardinality(Places(r)) <= Cardinality(T)
  <2> DEFINE g == [k \in Places(r) |-> k + f]
  <2>1. g \in [Places(r) -> T] BY <1>3
  <2>2. \A a, b \in Places(r) : g[a] = g[b] => a = b BY <1>1 DEF Places
  <2>3. g \in Injection(Places(r), T) BY <2>1, <2>2 DEF Injection, IsInjective
  <2> QED BY <1>3, <2>3, FS_Injection
<1>4. \A k \in Places(r) : k + f \in Places(q) /\ k + f # f
  BY <1>1 DEF Places, Suffix
<1>5. Controls(r) <= Controls(q) BY <1>2, <1>3, <1>4
<1>6. ASSUME f > 0, IsControl(q[f]) PROVE Controls(r) + 1 <= Controls(q)
  <2>1. f \in Places(q) BY <1>1, <1>6 DEF Places, Suffix
  <2>2. IsFiniteSet(Places(q) \ {f}) /\ Cardinality(Places(q) \ {f}) = Cardinality(Places(q)) - 1
    BY <1>2, <2>1, FS_RemoveElement
  <2>3. \A k \in Places(r) : k + f \in Places(q) \ {f} BY <1>4
  <2>4. Cardinality(Places(r)) <= Cardinality(Places(q) \ {f}) BY <1>3, <2>2, <2>3
  <2> QED BY <1>2, <2>2, <2>4
<1> QED BY <1>5, <1>6

LEMMA TailSuffix ==
  ASSUME NEW q \in Seq(Entry), q # <<>>
  PROVE  Suffix(Tail(q), q, 1) /\ Head(q) = q[1] /\ q[1] \in Entry /\ Len(q) \in Nat \ {0}
<1>1. Len(q) \in Nat /\ Len(q) >= 1 BY EmptySeq, LenProperties
<1>2. /\ Tail(q) \in Seq(Entry) /\ Len(Tail(q)) = Len(q) - 1
      /\ \A k \in 1 .. Len(Tail(q)) : Tail(q)[k] = q[k + 1]
  BY HeadTailProperties
<1>3. Head(q) = q[1] /\ q[1] \in Entry BY <1>1, HeadTailProperties, ElementOfSeq
<1> QED BY <1>1, <1>2, <1>3 DEF Suffix

\* HaMailbox.put of a control event: it is the last entry, and the mailbox stays within its bound.
LEMMA PutControlIs ==
  ASSUME NEW q \in Seq(Entry), NEW c \in Entry, IsControl(c), Spaced(q), Controls(q) <= MaxControls
  PROVE  LET r == PutControl(q, c) IN
         /\ r \in Seq(Entry) /\ r # <<>> /\ r[Len(r)] = c
         /\ Spaced(r) /\ Controls(r) <= MaxControls
         /\ ~Overfull(Append(q, c)) => r = Append(q, c)
<1> DEFINE a == Append(q, c)
<1> DEFINE r == PutControl(q, c)
<1>1. Len(q) \in Nat /\ MaxControls \in Nat /\ MaxControls > 0 BY LenProperties, HaAssumption
<1>2. /\ a \in Seq(Entry) /\ a # <<>> /\ Len(a) = Len(q) + 1 /\ a[Len(q) + 1] = c
      /\ \A k \in 1 .. Len(q) : a[k] = q[k]
  BY AppendProperties
<1>3. r = IF Overfull(a) THEN DropOldest(a) ELSE a BY DEF PutControl, Trim
<1> HIDE DEF a, r
<1>4. Spaced(a)
  <2> SUFFICES ASSUME NEW i \in 1 .. Len(a), NEW j \in 1 .. Len(a),
                      i < j, ~IsControl(a[i]), ~IsControl(a[j]), a[i].entity = a[j].entity
               PROVE  \E k \in i .. j : IsControl(a[k])
    BY DEF Spaced
  <2>1. i \in 1 .. Len(q) /\ j \in 1 .. Len(q) BY <1>1, <1>2
  <2>2. PICK k \in i .. j : IsControl(q[k]) BY <1>2, <2>1 DEF Spaced
  <2>3. k \in 1 .. Len(q) BY <2>1
  <2> QED BY <1>2, <2>2, <2>3
<1>5. Controls(a) = Controls(q) + 1
  <2>1. Places(a) = Places(q) \cup {Len(q) + 1} BY <1>1, <1>2 DEF Places
  <2>2. Len(q) + 1 \notin Places(q) BY <1>1 DEF Places
  <2>3. /\ IsFiniteSet(Places(q)) /\ Controls(q) = Cardinality(Places(q))
        /\ Controls(a) = Cardinality(Places(a))
    BY <1>2, PlacesFinite
  <2> QED BY <2>1, <2>2, <2>3, FS_AddElement
<1>6. Controls(q) \in Nat BY PlacesFinite
<1>7. CASE ~Overfull(a)
  <2>1. r = a /\ Controls(a) <= MaxControls BY <1>1, <1>3, <1>5, <1>6, <1>7 DEF Overfull
  <2> QED BY <1>2, <1>4, <2>1 DEF r, a
<1>8. CASE Overfull(a)
  <2>1. Controls(q) = MaxControls /\ Controls(a) > 0 BY <1>1, <1>5, <1>6, <1>8 DEF Overfull
  <2> DEFINE f == SelectInSeq(a, IsControl)
  <2>2. f \in 1 .. Len(a) /\ IsControl(a[f]) /\ \A i \in 1 .. f - 1 : ~IsControl(a[i])
    BY <1>2, <2>1, FirstControlIs
  <2>3. r = SubSeq(a, f + 1, Len(a)) BY <1>3, <1>8 DEF DropOldest
  <2> HIDE DEF f
  <2>4. f < Len(a)
    <3> SUFFICES ASSUME f = Len(a) PROVE FALSE BY <1>1, <1>2, <2>2
    <3>1. \A i \in 1 .. Len(q) : ~IsControl(q[i]) BY <1>1, <1>2, <2>2
    <3>2. Places(q) = {} BY <3>1 DEF Places
    <3>3. Controls(q) = 0 BY <3>2, PlacesFinite, FS_EmptySet
    <3> QED BY <1>1, <2>1, <3>3
  <2>5. Suffix(r, a, f)
    <3>1. Len(a) \in Nat /\ f \in Nat /\ f + 1 \in Int /\ Len(a) \in Int BY <1>1, <1>2, <2>2
    <3>2. \A i \in f + 1 .. Len(a) : a[i] \in Entry BY <1>2, <3>1, ElementOfSeq
    <3>3. /\ SubSeq(a, f + 1, Len(a)) \in Seq(Entry)
          /\ Len(SubSeq(a, f + 1, Len(a))) = IF f + 1 <= Len(a) THEN Len(a) - (f + 1) + 1 ELSE 0
          /\ \A i \in 1 .. Len(a) - (f + 1) + 1 : SubSeq(a, f + 1, Len(a))[i] = a[f + 1 + i - 1]
      BY <3>1, <3>2, SubSeqProperties
    <3>4. Len(r) = Len(a) - f BY <2>3, <2>4, <3>1, <3>3
    <3>5. \A k \in 1 .. Len(r) : r[k] = a[k + f]
      <4> SUFFICES ASSUME NEW k \in 1 .. Len(r) PROVE r[k] = a[k + f] OBVIOUS
      <4>1. k \in 1 .. Len(a) - (f + 1) + 1 /\ f + 1 + k - 1 = k + f BY <3>1, <3>4
      <4> QED BY <2>3, <3>3, <4>1
    <3> QED BY <2>2, <2>3, <3>1, <3>3, <3>4, <3>5 DEF Suffix
  <2>6. Spaced(r) BY <1>2, <1>4, <2>5, SuffixSpaced
  <2>7. Controls(r) + 1 <= Controls(a) BY <1>2, <2>2, <2>5, SuffixControls
  <2>8. r \in Seq(Entry) /\ Len(r) + f = Len(a) BY <2>5 DEF Suffix
  <2>9. Controls(r) \in Nat BY <2>8, PlacesFinite
  <2>10. Controls(r) <= MaxControls BY <1>1, <1>5, <1>6, <2>1, <2>7, <2>9
  <2>11. Len(r) \in Nat /\ Len(r) >= 1 BY <1>1, <1>2, <2>2, <2>4, <2>8, LenProperties
  <2>12. r[Len(r)] = c
    <3>1. Len(r) \in 1 .. Len(r) BY <2>11
    <3>2. r[Len(r)] = a[Len(r) + f] BY <2>5, <3>1 DEF Suffix
    <3> QED BY <1>2, <2>8, <3>2
  <2>13. r # <<>> BY <2>8, <2>11, EmptySeq
  <2> QED BY <1>8, <2>6, <2>8, <2>10, <2>12, <2>13 DEF r, a
<1> QED BY <1>7, <1>8

\* HaMailbox.put of an update: it takes place i, the one of its entity in the open segment or a
\* new one at the end.
LEMMA PutUpdateIs ==
  ASSUME NEW q \in Seq(Entry), NEW u \in Entry, ~IsControl(u)
  PROVE  \E i \in 1 .. Len(q) + 1 :
           LET r == PutUpdate(q, u) IN
           /\ r \in Seq(Entry) /\ Len(r) = (IF i = Len(q) + 1 THEN i ELSE Len(q))
           /\ r[i] = u /\ \A k \in 1 .. Len(q) : k # i => r[k] = q[k]
           /\ \A k \in i .. Len(q) : ~IsControl(q[k])
           /\ i <= Len(q) => q[i].entity = u.entity
           /\ i = Len(q) + 1 =>
                \A k \in 1 .. Len(q) : ~IsControl(q[k]) /\ q[k].entity = u.entity
                                         => \E c \in k .. Len(q) : IsControl(q[c])
<1> DEFINE l == LastControl(q)
<1> DEFINE own == {i \in l + 1 .. Len(q) : q[i].entity = u.entity}
<1>1. Len(q) \in Nat /\ DOMAIN q = 1 .. Len(q) BY LenProperties
<1>2. /\ l \in 0 .. Len(q)
      /\ l > 0 => IsControl(q[l])
      /\ \A i \in l + 1 .. Len(q) : ~IsControl(q[i])
  BY LastControlIs
<1>3. OpenEntry(q, u.entity) = IF own = {} THEN 0 ELSE CHOOSE i \in own : TRUE
  BY DEF OpenEntry
<1> HIDE DEF l
<1>4. CASE own = {}
  <2> DEFINE r == Append(q, u)
  <2>1. PutUpdate(q, u) = r BY <1>3, <1>4 DEF PutUpdate
  <2>2. /\ r \in Seq(Entry) /\ Len(r) = Len(q) + 1 /\ r[Len(q) + 1] = u
        /\ \A k \in 1 .. Len(q) : r[k] = q[k]
    BY AppendProperties
  <2>3. ASSUME NEW k \in 1 .. Len(q), ~IsControl(q[k]), q[k].entity = u.entity
        PROVE  \E c \in k .. Len(q) : IsControl(q[c])
    <3>1. ~(k \in l + 1 .. Len(q)) BY <1>4, <2>3
    <3>2. l \in k .. Len(q) /\ l > 0 BY <1>1, <1>2, <3>1
    <3> QED BY <1>2, <3>2
  <2> HIDE DEF r
  <2>4. Len(q) + 1 \in 1 .. Len(q) + 1 /\ ~(Len(q) + 1 <= Len(q)) BY <1>1
  <2>5. \A k \in Len(q) + 1 .. Len(q) : ~IsControl(q[k]) BY <1>1
  <2> QED BY <2>1, <2>2, <2>3, <2>4, <2>5
<1>5. CASE own # {}
  <2> DEFINE i == CHOOSE i \in own : TRUE
  <2>1. i \in own /\ OpenEntry(q, u.entity) = i BY <1>3, <1>5
  <2> HIDE DEF i
  <2>2. i \in l + 1 .. Len(q) /\ q[i].entity = u.entity BY <2>1
  <2> HIDE DEF own
  <2>3. i \in 1 .. Len(q) /\ i # 0 /\ i # Len(q) + 1 /\ i \in 1 .. Len(q) + 1 BY <1>1, <1>2, <2>2
  <2> DEFINE r == [q EXCEPT ![i] = u]
  <2>4. PutUpdate(q, u) = r BY <2>1, <2>3 DEF PutUpdate
  <2>5. r \in Seq(Entry) /\ Len(r) = Len(q) BY <2>3, ExceptSeq
  <2>6. r[i] = u /\ \A k \in 1 .. Len(q) : k # i => r[k] = q[k] BY <1>1, <2>3
  <2>7. \A k \in i .. Len(q) : ~IsControl(q[k]) BY <1>1, <1>2, <2>2
  <2> HIDE DEF r
  <2> QED BY <2>2, <2>3, <2>4, <2>5, <2>6, <2>7
<1> QED BY <1>4, <1>5

\* What holds of the words in a mailbox still holds of them after an update was put in place i.
LEMMA PutUpdateKeeps ==
  ASSUME NEW q \in Seq(Entry), NEW u \in Entry, ~IsControl(u), Spaced(q)
  PROVE  LET r == PutUpdate(q, u) IN
         /\ r \in Seq(Entry) /\ Spaced(r) /\ Controls(r) = Controls(q)
         /\ \A j \in 0 .. Len(r) : Governs(r, j, Len(r) + 1) =>
              j \in 0 .. Len(q) /\ Governs(q, j, Len(q) + 1) /\ (j > 0 => r[j] = q[j])
         /\ \A i \in 1 .. Len(r), j \in 0 .. Len(r) : Governs(r, j, i) =>
              /\ j \in 0 .. Len(q) /\ (j > 0 => r[j] = q[j])
              /\ \/ i \in 1 .. Len(q) /\ r[i] = q[i] /\ Governs(q, j, i)
                 \/ r[i] = u /\ Governs(q, j, Len(q) + 1)
<1> DEFINE r == PutUpdate(q, u)
<1>1. PICK p \in 1 .. Len(q) + 1 :
           /\ r \in Seq(Entry) /\ Len(r) = (IF p = Len(q) + 1 THEN p ELSE Len(q))
           /\ r[p] = u /\ \A k \in 1 .. Len(q) : k # p => r[k] = q[k]
           /\ \A k \in p .. Len(q) : ~IsControl(q[k])
           /\ p <= Len(q) => q[p].entity = u.entity
           /\ p = Len(q) + 1 =>
                \A k \in 1 .. Len(q) : ~IsControl(q[k]) /\ q[k].entity = u.entity
                                         => \E c \in k .. Len(q) : IsControl(q[c])
  BY PutUpdateIs
<1> HIDE DEF r
<1>2. Len(q) \in Nat /\ Len(r) \in Nat /\ Len(q) <= Len(r) /\ p \in 1 .. Len(r) BY <1>1, LenProperties
<1>3. \A k \in 1 .. Len(r) : k # p => k \in 1 .. Len(q) /\ r[k] = q[k] BY <1>1, <1>2
<1>4. \A k \in 1 .. Len(r) : IsControl(r[k]) <=> k \in 1 .. Len(q) /\ IsControl(q[k])
  <2> SUFFICES ASSUME NEW k \in 1 .. Len(r) PROVE IsControl(r[k]) <=> k \in 1 .. Len(q) /\ IsControl(q[k])
    OBVIOUS
  <2>1. CASE k = p
    <3>1. ~IsControl(r[k]) BY <1>1, <2>1
    <3>2. k \in 1 .. Len(q) => ~IsControl(q[k]) BY <1>1, <1>2, <2>1
    <3> QED BY <3>1, <3>2
  <2>2. CASE k # p BY <1>3, <2>2
  <2> QED BY <2>1, <2>2
<1>5. Controls(r) = Controls(q)
  <2>1. Places(r) = Places(q) BY <1>2, <1>4 DEF Places
  <2> QED BY <1>1, <2>1, PlacesFinite
<1>6. Spaced(r)
  <2> SUFFICES ASSUME NEW i \in 1 .. Len(r), NEW j \in 1 .. Len(r),
                      i < j, ~IsControl(r[i]), ~IsControl(r[j]), r[i].entity = r[j].entity
               PROVE  \E k \in i .. j : IsControl(r[k])
    BY DEF Spaced
  <2>1. CASE p = Len(q) + 1 /\ j = p
    <3>1. i \in 1 .. Len(q) /\ i # p BY <1>1, <1>2, <2>1
    <3>2. r[i] = q[i] /\ ~IsControl(q[i]) /\ q[i].entity = u.entity BY <1>1, <2>1, <3>1
    <3>3. PICK c \in i .. Len(q) : IsControl(q[c]) BY <1>1, <2>1, <3>1, <3>2
    <3>4. c \in 1 .. Len(q) /\ c \in 1 .. Len(r) /\ c \in i .. j BY <1>1, <1>2, <2>1, <3>1, <3>3
    <3> QED BY <1>4, <3>3, <3>4
  <2>2. CASE ~(p = Len(q) + 1 /\ j = p)
    <3>1. i \in 1 .. Len(q) /\ j \in 1 .. Len(q) BY <1>1, <1>2, <2>2
    <3>2. ~IsControl(q[i]) /\ ~IsControl(q[j]) BY <1>4, <3>1
    <3>3. \A k \in 1 .. Len(q) : r[k].entity = q[k].entity BY <1>1, <1>3
    <3>4. q[i].entity = q[j].entity BY <3>1, <3>3
    <3>5. PICK k \in i .. j : IsControl(q[k]) BY <3>1, <3>2, <3>4 DEF Spaced
    <3>6. k \in 1 .. Len(q) /\ k \in 1 .. Len(r) BY <3>1, <1>2
    <3> QED BY <1>4, <3>5, <3>6
  <2> QED BY <2>1, <2>2
\* No control event stands at p or behind it.
<1>7. \A k \in 1 .. Len(r) : IsControl(r[k]) => k < p /\ k \in 1 .. Len(q) /\ r[k] = q[k] /\ IsControl(q[k])
  <2> SUFFICES ASSUME NEW k \in 1 .. Len(r), IsControl(r[k])
               PROVE  k < p /\ k \in 1 .. Len(q) /\ r[k] = q[k] /\ IsControl(q[k])
    OBVIOUS
  <2>1. k \in 1 .. Len(q) /\ IsControl(q[k]) BY <1>4
  <2>2. ~(k \in p .. Len(q)) BY <1>1, <2>1
  <2>3. k < p BY <1>1, <1>2, <2>1, <2>2
  <2> QED BY <1>2, <1>3, <2>1, <2>3
<1>8. ASSUME NEW i \in 1 .. Len(r) + 1, NEW j \in 0 .. Len(r), Governs(r, j, i)
      PROVE  /\ j \in 0 .. Len(q) /\ (j > 0 => r[j] = q[j])
             /\ i \in 1 .. Len(q) + 1 => Governs(q, j, i)
             /\ i >= p => Governs(q, j, Len(q) + 1)
  <2>1. j < i /\ (j > 0 => IsControl(r[j])) /\ \A k \in j + 1 .. i - 1 : ~IsControl(r[k])
    BY <1>8 DEF Governs
  <2>2. j > 0 => j \in 1 .. Len(r) BY <1>2
  <2>3. j > 0 => j \in 1 .. Len(q) /\ r[j] = q[j] /\ IsControl(q[j]) BY <1>7, <2>1, <2>2
  <2>4. j \in 0 .. Len(q) BY <1>2, <2>3
  <2>5. ASSUME i \in 1 .. Len(q) + 1 PROVE Governs(q, j, i)
    <3>1. \A k \in j + 1 .. i - 1 : k \in 1 .. Len(q) /\ k \in 1 .. Len(r) BY <1>2, <2>4, <2>5
    <3>2. \A k \in j + 1 .. i - 1 : ~IsControl(q[k]) BY <1>4, <2>1, <3>1
    <3> QED BY <2>1, <2>3, <3>2 DEF Governs
  <2>6. ASSUME i >= p PROVE Governs(q, j, Len(q) + 1)
    <3>1. \A k \in j + 1 .. Len(q) : ~IsControl(q[k])
      <4> SUFFICES ASSUME NEW k \in j + 1 .. Len(q) PROVE ~IsControl(q[k]) OBVIOUS
      <4>1. k \in 1 .. Len(q) /\ k \in 1 .. Len(r) BY <1>2, <2>4
      <4>2. CASE k < i
        <5>1. k \in j + 1 .. i - 1 BY <4>1, <4>2
        <5> QED BY <1>4, <2>1, <4>1, <5>1
      <4>3. CASE ~(k < i)
        <5>1. k \in p .. Len(q) BY <1>2, <2>6, <4>1, <4>3
        <5> QED BY <1>1, <5>1
      <4> QED BY <4>2, <4>3
    <3>2. j < Len(q) + 1 /\ j + 1 .. Len(q) + 1 - 1 = j + 1 .. Len(q) BY <1>2, <2>4
    <3> QED BY <2>3, <3>1, <3>2 DEF Governs
  <2> QED BY <2>3, <2>4, <2>5, <2>6
<1>9. \A j \in 0 .. Len(r) : Governs(r, j, Len(r) + 1) =>
        j \in 0 .. Len(q) /\ Governs(q, j, Len(q) + 1) /\ (j > 0 => r[j] = q[j])
  <2>1. Len(r) + 1 \in 1 .. Len(r) + 1 /\ Len(r) + 1 >= p BY <1>2
  <2> QED BY <1>8, <2>1
<1>10. ASSUME NEW i \in 1 .. Len(r), NEW j \in 0 .. Len(r), Governs(r, j, i)
       PROVE  /\ j \in 0 .. Len(q) /\ (j > 0 => r[j] = q[j])
              /\ \/ i \in 1 .. Len(q) /\ r[i] = q[i] /\ Governs(q, j, i)
                 \/ r[i] = u /\ Governs(q, j, Len(q) + 1)
  <2>1. i \in 1 .. Len(r) + 1 BY <1>2
  <2>2. j \in 0 .. Len(q) /\ (j > 0 => r[j] = q[j]) BY <1>8, <1>10, <2>1
  <2>3. CASE i = p
    <3>1. r[i] = u /\ i >= p BY <1>1, <1>2, <2>3
    <3>2. Governs(q, j, Len(q) + 1) BY <1>8, <1>10, <2>1, <3>1
    <3> QED BY <2>2, <3>1, <3>2
  <2>4. CASE i # p
    <3>1. i \in 1 .. Len(q) /\ r[i] = q[i] BY <1>3, <2>4
    <3>2. i \in 1 .. Len(q) + 1 BY <1>2, <3>1
    <3> QED BY <1>8, <1>10, <2>1, <2>2, <3>1, <3>2
  <2> QED BY <2>3, <2>4
<1> QED BY <1>1, <1>5, <1>6, <1>9, <1>10 DEF r

\* The words in a mailbox after a control event came behind it.
LEMMA AppendGoverns ==
  ASSUME NEW q \in Seq(Entry), NEW c \in Entry, NEW i \in 1 .. Len(q) + 1, NEW j \in 0 .. Len(q) + 1,
         Governs(Append(q, c), j, i)
  PROVE  j \in 0 .. Len(q) /\ Governs(q, j, i) /\ (j > 0 => Append(q, c)[j] = q[j])
<1> DEFINE a == Append(q, c)
<1>1. Len(q) \in Nat /\ \A k \in 1 .. Len(q) : a[k] = q[k] BY AppendProperties, LenProperties
<1>2. j < i /\ (j > 0 => IsControl(a[j])) /\ \A k \in j + 1 .. i - 1 : ~IsControl(a[k])
  BY DEF Governs
<1> HIDE DEF a
<1>3. j \in 0 .. Len(q) /\ (j > 0 => j \in 1 .. Len(q)) BY <1>1, <1>2
<1>4. \A k \in j + 1 .. i - 1 : k \in 1 .. Len(q) BY <1>1, <1>3
<1>5. Governs(q, j, i) BY <1>1, <1>2, <1>3, <1>4 DEF Governs
<1> QED BY <1>1, <1>3, <1>5 DEF a

\* The words in a mailbox after its first entry was taken: positions move up by one.
LEMMA TailGoverns ==
  ASSUME NEW q \in Seq(Entry), q # <<>>, NEW i \in 1 .. Len(Tail(q)) + 1, NEW j \in 0 .. Len(Tail(q)),
         Governs(Tail(q), j, i)
  PROVE  /\ i + 1 \in 1 .. Len(q) + 1 /\ Len(q) = Len(Tail(q)) + 1
         /\ i <= Len(Tail(q)) => Tail(q)[i] = q[i + 1]
         /\ j > 0 => j + 1 \in 0 .. Len(q) /\ Tail(q)[j] = q[j + 1] /\ Governs(q, j + 1, i + 1)
         /\ j = 0 /\ IsControl(q[1]) => 1 \in 0 .. Len(q) /\ Governs(q, 1, i + 1)
         /\ j = 0 /\ ~IsControl(q[1]) => 0 \in 0 .. Len(q) /\ Governs(q, 0, i + 1)
<1> DEFINE r == Tail(q)
<1>1. /\ Len(q) \in Nat \ {0} /\ Len(r) \in Nat /\ Len(q) = Len(r) + 1
      /\ \A k \in 1 .. Len(r) : r[k] = q[k + 1]
  BY TailSuffix, LenProperties DEF Suffix
<1>2. j < i /\ (j > 0 => IsControl(r[j])) /\ \A k \in j + 1 .. i - 1 : ~IsControl(r[k])
  BY DEF Governs
<1> HIDE DEF r
<1>20. i \in 1 .. Len(r) + 1 /\ j \in 0 .. Len(r) BY DEF r
<1>3. \A k \in j + 2 .. i : ~IsControl(q[k])
  <2> SUFFICES ASSUME NEW k \in j + 2 .. i PROVE ~IsControl(q[k]) OBVIOUS
  <2>1. k - 1 \in j + 1 .. i - 1 /\ k - 1 \in 1 .. Len(r) /\ (k - 1) + 1 = k BY <1>1, <1>20
  <2> QED BY <1>1, <1>2, <2>1
<1>4. ASSUME j > 0 PROVE j + 1 \in 0 .. Len(q) /\ r[j] = q[j + 1] /\ Governs(q, j + 1, i + 1)
  <2>1. j \in 1 .. Len(r) /\ j + 1 < i + 1 /\ j + 1 \in 0 .. Len(q) BY <1>1, <1>2, <1>4, <1>20
  <2>2. r[j] = q[j + 1] /\ IsControl(q[j + 1]) BY <1>1, <1>2, <1>4, <2>1
  <2>3. \A k \in (j + 1) + 1 .. (i + 1) - 1 : ~IsControl(q[k]) BY <1>3, <1>20
  <2> QED BY <2>1, <2>2, <2>3 DEF Governs
<1>5. ASSUME j = 0, IsControl(q[1]) PROVE 1 \in 0 .. Len(q) /\ Governs(q, 1, i + 1)
  <2>1. 1 < i + 1 /\ 1 \in 0 .. Len(q) BY <1>1, <1>20
  <2>2. \A k \in 1 + 1 .. (i + 1) - 1 : ~IsControl(q[k]) BY <1>3, <1>5, <1>20
  <2> QED BY <1>5, <2>1, <2>2 DEF Governs
<1>6. ASSUME j = 0, ~IsControl(q[1]) PROVE 0 \in 0 .. Len(q) /\ Governs(q, 0, i + 1)
  <2>1. 0 < i + 1 /\ 0 \in 0 .. Len(q) /\ ~(0 > 0) BY <1>1, <1>20
  <2>2. \A k \in 0 + 1 .. (i + 1) - 1 : k = 1 \/ k \in j + 2 .. i BY <1>6, <1>20
  <2>3. \A k \in 0 + 1 .. (i + 1) - 1 : ~IsControl(q[k]) BY <1>3, <1>6, <2>2
  <2> QED BY <2>1, <2>3 DEF Governs
<1>7. i + 1 \in 1 .. Len(q) + 1 /\ (i <= Len(r) => r[i] = q[i + 1])
  <2>1. i <= Len(r) => i \in 1 .. Len(r) BY <1>1, <1>20
  <2> QED BY <1>1, <1>20, <2>1
<1> QED BY <1>1, <1>4, <1>5, <1>6, <1>7 DEF r

-----------------------------------------------------------------------------
(* Lemmas: functions on a part of the entities.                              *)

LEMMA PartialIs ==
  ASSUME NEW S, NEW f \in PartialOn(S)
  PROVE  DOMAIN f \subseteq Entities /\ \A e \in DOMAIN f : f[e] \in S
BY DEF PartialOn

LEMMA PartialHas ==
  ASSUME NEW S, NEW D \in SUBSET Entities, NEW f \in [D -> S]
  PROVE  f \in PartialOn(S)
BY DEF PartialOn

LEMMA NoUpdatesPartial ==
  ASSUME NEW S
  PROVE  NoUpdates \in PartialOn(S) /\ DOMAIN NoUpdates = {}
<1>1. NoUpdates \in [{} -> S] BY DEF NoUpdates
<1> QED BY <1>1, PartialHas DEF NoUpdates

\* The engine's states, after the batch was applied.
LEMMA FlushedIs ==
  ASSUME HaTypes
  PROVE  /\ Flushed \in [Entities -> Value]
         /\ \A e \in Entities : Flushed[e] = IF e \in DOMAIN batch THEN batch[e] ELSE heard[e]
<1>1. \A e \in DOMAIN batch : batch[e] \in Value BY PartialIs DEF HaTypes
<1>2. \A e \in Entities : heard[e] \in Value BY DEF HaTypes
<1> QED BY <1>1, <1>2 DEF Flushed

\* The batch, after an update of e was popped.
LEMMA BatchIs ==
  ASSUME HaTypes, NEW e \in Entities, NEW h \in Value
  PROVE  /\ Collect(e, h) \in PartialOn(Value)
         /\ DOMAIN Collect(e, h) = DOMAIN batch \cup {e}
         /\ \A x \in DOMAIN batch \cup {e} : Collect(e, h)[x] = IF x = e THEN h ELSE batch[x]
<1>1. DOMAIN batch \subseteq Entities /\ \A x \in DOMAIN batch : batch[x] \in Value
  BY PartialIs DEF HaTypes
<1>2. Collect(e, h) \in [DOMAIN batch \cup {e} -> Value] BY <1>1 DEF Collect
<1>3. DOMAIN batch \cup {e} \in SUBSET Entities BY <1>1
<1>4. Collect(e, h) \in PartialOn(Value) BY <1>2, <1>3, PartialHas
<1> QED BY <1>4 DEF Collect

\* A control event is an entry, and is one of the control events.
LEMMA ControlIs ==
  ASSUME NEW k \in Kinds, NEW n \in Nat
  PROVE  /\ Control(k, n) \in Entry /\ IsControl(Control(k, n))
         /\ Control(k, n).kind = k /\ Control(k, n).sess = n
BY DEF Control, Entry, IsControl, Kinds

LEMMA UpdateIs ==
  ASSUME NEW u \in [entity : Entities, state : Value]
  PROVE  /\ Update(u.entity, u.state) \in Entry /\ ~IsControl(Update(u.entity, u.state))
         /\ Update(u.entity, u.state).state = u.state
BY DEF Update, Entry, IsControl

LEMMA EntryIs ==
  ASSUME NEW c \in Entry
  PROVE  /\ IsControl(c) => c.kind \in Kinds /\ c.sess \in Nat
         /\ ~IsControl(c) => c.kind = "update" /\ c.entity \in Entities /\ c.state \in Value
BY DEF Entry, IsControl, Kinds

LEMMA NoneIs == None \in Value /\ None.gone
BY DEF None, Value

LEMMA HeardIs ==
  ASSUME NEW s \in Version, NEW n \in Nat, NEW b \in BOOLEAN
  PROVE  Heard(s, n, b) \in Value /\ Heard(s, n, b).sess = n /\ Heard(s, n, b).early = b
BY DEF Heard, Version, Value

-----------------------------------------------------------------------------
(* Types are kept.                                                           *)

LEMMA AnnounceTypes ==
  ASSUME HaTypes, Spaced(items), Controls(items) <= MaxControls, NEW k \in Kinds, Announce(k)
  PROVE  announced' \in Kinds /\ items' \in Seq(Entry) /\ overflowed' \in BOOLEAN
<1>1. announced' = k BY DEF Announce
<1>2. CASE announced = k BY <1>1, <1>2 DEF Announce, HaTypes, mailVars
<1>3. CASE announced # k
  <2>1. Control(k, sess) \in Entry /\ IsControl(Control(k, sess)) BY ControlIs DEF HaTypes
  <2>2. items' = PutControl(items, Control(k, sess)) /\ overflowed' \in BOOLEAN
    BY <1>3 DEF Announce, HaTypes, Overfull
  <2>3. items \in Seq(Entry) BY DEF HaTypes
  <2>4. items' \in Seq(Entry) BY <2>1, <2>2, <2>3, PutControlIs
  <2> QED BY <1>1, <2>2, <2>4
<1> QED BY <1>2, <1>3

\* The first frame under way, and what is left of them.
LEMMA FrameIs ==
  ASSUME HaTypes, toClient # <<>>
  PROVE  /\ Tail(toClient) \in Seq(AnyFrame)
         /\ Head(toClient).ups \in PartialOn(Version)
<1>1. toClient \in Seq(AnyFrame) BY DEF HaTypes
<1>2. Tail(toClient) \in Seq(AnyFrame) /\ Head(toClient) \in AnyFrame BY <1>1, HeadTailProperties
<1> QED BY <1>2 DEF AnyFrame

LEMMA PutAllTypes ==
  ASSUME HaTypes, NEW ups \in PartialOn(Version), NEW ready \in BOOLEAN, PutAll(ups, ready)
  PROVE  /\ puts' \subseteq [entity : Entities, state : Value]
         /\ \A u \in puts' : u.state.sess = sess /\ u.state.early = ~ready
         /\ runner' \in {"reading", "putting"} /\ (runner' # "putting" => puts' = {})
<1>1. DOMAIN ups \subseteq Entities /\ \A e \in DOMAIN ups : ups[e] \in Version BY PartialIs
<1>2. puts' = {[entity |-> e, state |-> Heard(ups[e], sess, ~ready)] : e \in DOMAIN ups} BY DEF PutAll
<1>3. \A e \in DOMAIN ups : /\ Heard(ups[e], sess, ~ready) \in Value
                            /\ Heard(ups[e], sess, ~ready).sess = sess
                            /\ Heard(ups[e], sess, ~ready).early = ~ready
  BY <1>1, HeardIs DEF HaTypes
<1>4. puts' \subseteq [entity : Entities, state : Value] BY <1>1, <1>2, <1>3
<1>5. \A u \in puts' : u.state.sess = sess /\ u.state.early = ~ready BY <1>2, <1>3
<1>6. runner' \in {"reading", "putting"} /\ (runner' # "putting" => puts' = {})
  BY <1>2 DEF PutAll
<1> QED BY <1>4, <1>5, <1>6

LEMMA SnapshotTyped ==
  ASSUME HaTypes
  PROVE  Snapshot \in PartialOn(Version)
<1>1. Present \in SUBSET Entities /\ Snapshot \in [Present -> Version]
  BY DEF HaTypes, Present, Snapshot
<1> QED BY <1>1, PartialHas

\* The steps of Home Assistant and of the socket change frames and states only.
LEMMA ServerTypes ==
  ASSUME HaTypes, Server \/ \E e \in Entities : ServerChange(e)
  PROVE  /\ server' \in [Entities -> Version] /\ toClient' \in Seq(AnyFrame)
         /\ UNCHANGED <<clientVars, mailVars, mainVars>>
<1>1. server \in [Entities -> Version] /\ toClient \in Seq(AnyFrame) BY DEF HaTypes
<1>2. NoUpdates \in PartialOn(Version) /\ Snapshot \in PartialOn(Version)
  BY NoUpdatesPartial, SnapshotTyped
<1>3. ASSUME NEW f \in AnyFrame, Push(f) PROVE toClient' \in Seq(AnyFrame)
  BY <1>1, <1>3, AppendProperties DEF Push
<1>4. CASE ServerAuth
  <2>1. PICK v \in {"auth_ok", "auth_invalid"} : Push(Plain(v)) BY <1>4 DEF ServerAuth
  <2>2. Plain(v) \in AnyFrame BY <1>2 DEF Plain, Frame, AnyFrame
  <2>3. toClient' \in Seq(AnyFrame) BY <1>3, <2>1, <2>2
  <2> QED BY <1>1, <1>4, <2>3 DEF ServerAuth
<1>5. CASE ServerSubscribeEntities
  <2> DEFINE no == Frame("result", IdEntities, FALSE, NoUpdates)
             yes == Frame("result", IdEntities, TRUE, NoUpdates)
             all == Frame("event", IdEntities, TRUE, Snapshot)
  <2>1. no \in AnyFrame /\ yes \in AnyFrame /\ all \in AnyFrame BY <1>2 DEF Frame, AnyFrame, IdEntities
  <2>2. /\ toClient' = toClient \o <<yes, all>> \/ Push(no)
        /\ UNCHANGED <<server, support, clientVars, mailVars, mainVars>>
    BY <1>5 DEF ServerSubscribeEntities
  <2> HIDE DEF no, yes, all
  <2>3. <<yes, all>> \in Seq(AnyFrame) BY <2>1
  <2>4. toClient' \in Seq(AnyFrame) BY <1>1, <1>3, <2>1, <2>2, <2>3, ConcatProperties
  <2> QED BY <1>1, <2>2, <2>4
<1>6. CASE ServerSubscribeEvents
  <2>1. PICK ok \in BOOLEAN : Push(Frame("result", IdEvents, ok, NoUpdates)) BY <1>6 DEF ServerSubscribeEvents
  <2>2. Frame("result", IdEvents, ok, NoUpdates) \in AnyFrame BY <1>2 DEF Frame, AnyFrame, IdEvents
  <2>3. toClient' \in Seq(AnyFrame) BY <1>3, <2>1, <2>2
  <2> QED BY <1>1, <1>6, <2>3 DEF ServerSubscribeEvents
<1>7. CASE ServerGetStates
  <2>1. Push(Frame("result", IdGetStates, TRUE, Snapshot)) BY <1>7 DEF ServerGetStates
  <2>2. Frame("result", IdGetStates, TRUE, Snapshot) \in AnyFrame BY <1>2 DEF Frame, AnyFrame, IdGetStates
  <2>3. toClient' \in Seq(AnyFrame) BY <1>3, <2>1, <2>2
  <2> QED BY <1>1, <1>7, <2>3 DEF ServerGetStates
<1>8. ASSUME NEW e \in Entities, ServerChange(e)
      PROVE  /\ server' \in [Entities -> Version] /\ toClient' \in Seq(AnyFrame)
             /\ UNCHANGED <<clientVars, mailVars, mainVars>>
  <2>1. PICK gone \in BOOLEAN :
          LET s == [ver |-> server[e].ver + 1, gone |-> gone]
              id == IF served = "entities" THEN IdEntities ELSE IdEvents
          IN  /\ server' = [server EXCEPT ![e] = s]
              /\ toClient' = IF served = "none" THEN toClient
                             ELSE Append(toClient, Frame("event", id, TRUE, [x \in {e} |-> s]))
    BY <1>8 DEF ServerChange
  <2> DEFINE s == [ver |-> server[e].ver + 1, gone |-> gone]
             id == IF served = "entities" THEN IdEntities ELSE IdEvents
             ups == [x \in {e} |-> s]
  <2>2. s \in Version BY <1>1 DEF Version
  <2>3. id \in Nat BY DEF IdEntities, IdEvents
  <2>4. ups \in PartialOn(Version)
    <3>1. ups \in [{e} -> Version] /\ {e} \in SUBSET Entities BY <2>2
    <3> QED BY <3>1, PartialHas
  <2>5. /\ server' = [server EXCEPT ![e] = s]
        /\ toClient' = toClient \/ toClient' = Append(toClient, Frame("event", id, TRUE, ups))
    BY <2>1
  <2> HIDE DEF s, id, ups
  <2>6. Frame("event", id, TRUE, ups) \in AnyFrame BY <2>3, <2>4 DEF Frame, AnyFrame
  <2>7. \A f \in AnyFrame : Append(toClient, f) \in Seq(AnyFrame) BY <1>1, AppendProperties
  <2>8. toClient' \in Seq(AnyFrame) BY <1>1, <2>5, <2>6, <2>7
  <2>9. server' \in [Entities -> Version] BY <1>1, <2>2, <2>5
  <2> QED BY <1>8, <2>8, <2>9 DEF ServerChange
<1> QED BY <1>4, <1>5, <1>6, <1>7, <1>8 DEF Server

\* Everything the proofs of the two invariants rest on.
HaInv == HaTypes /\ SessionInv /\ MailInv

LEMMA InitHolds == Init => HaInv /\ FreshInv
<1> SUFFICES ASSUME Init PROVE HaInv /\ FreshInv OBVIOUS
<1>1. HaTypes
  <2>1. server \in [Entities -> Version]
    <3>1. [ver |-> 0, gone |-> FALSE] \in Version BY DEF Version
    <3> QED BY <3>1 DEF Init
  <2>2. heard \in [Entities -> Value] BY NoneIs DEF Init
  <2>3. batch \in PartialOn(Value) BY NoUpdatesPartial DEF Init
  <2>4. toClient \in Seq(AnyFrame) /\ items \in Seq(Entry) BY EmptySeq DEF Init
  <2> QED BY <2>1, <2>2, <2>3, <2>4 DEF Init, HaTypes, Kinds
<1>2. SessionInv BY DEF Init, SessionInv
<1>3. items = <<>> /\ Len(items) = 0 /\ items \in Seq(Entry) BY EmptySeq DEF Init
<1>4. MailInv
  <2>1. Places(items) = {} BY <1>3 DEF Places
  <2>2. Controls(items) = 0 BY <1>3, <2>1, PlacesFinite, FS_EmptySet
  <2>3. Controls(items) <= MaxControls BY <2>2, HaAssumption
  <2>4. Spaced(items) BY <1>3 DEF Spaced
  <2>5. \A j \in 0 .. Len(items) : Word(items, j).kind = announced
    BY <1>3 DEF Init, Word, Control
  <2> QED BY <2>3, <2>4, <2>5 DEF MailInv
<1>5. FreshInv
  <2>1. PutsFresh /\ EndFresh BY DEF Init, PutsFresh, EndFresh
  <2>2. LineFresh BY <1>3 DEF LineFresh
  <2>3. BatchFresh BY NoUpdatesPartial DEF Init, BatchFresh
  <2>4. HeardFresh BY NoneIs DEF Init, HeardFresh
  <2> QED BY <2>1, <2>2, <2>3, <2>4 DEF FreshInv
<1> QED BY <1>1, <1>2, <1>4, <1>5 DEF HaInv

LEMMA CloseKeeps ==
  ASSUME HaInv, NEW outcome \in {"closed", "auth_invalid"}, Close(outcome), runner = "reading"
  PROVE  HaTypes' /\ SessionInv'
<1> DEFINE k == IF outcome = "auth_invalid" THEN "disabled" ELSE "disconnected"
<1>1. k \in Kinds /\ k # "connected" /\ Announce(k) BY DEF Close, Kinds
<1>2. HaTypes /\ SessionInv /\ Spaced(items) /\ Controls(items) <= MaxControls BY DEF HaInv, MailInv
<1>3. announced' = k BY <1>1 DEF Announce
<1> HIDE DEF k
<1>4. announced' \in Kinds /\ items' \in Seq(Entry) /\ overflowed' \in BOOLEAN
  BY <1>1, <1>2, AnnounceTypes
<1>5. toClient' = <<>> /\ runner' = "closed" /\ UNCHANGED <<server, support, sess, mode, pending, puts, mainVars>>
  BY DEF Close
<1>6. toClient' \in Seq(AnyFrame) BY <1>5, EmptySeq
<1>7. HaTypes' BY <1>2, <1>4, <1>5, <1>6 DEF HaTypes, mainVars
<1>8. SessionInv' BY <1>1, <1>2, <1>3, <1>5 DEF SessionInv
<1> QED BY <1>7, <1>8

LEMMA ClientKeeps ==
  ASSUME HaInv, Open \/ EndSession \/ Client
  PROVE  HaTypes' /\ SessionInv'
<1>1. HaTypes /\ SessionInv /\ Spaced(items) /\ Controls(items) <= MaxControls BY DEF HaInv, MailInv
<1>2. toClient # <<>> => Tail(toClient) \in Seq(AnyFrame) BY <1>1, FrameIs
<1>3. "connected" \in Kinds BY DEF Kinds
<1>4. CASE Open
  <2>1. toClient' = <<Plain("auth_required")>> /\ sess' = sess + 1 BY <1>4 DEF Open
  <2>2. Plain("auth_required") \in AnyFrame BY NoUpdatesPartial DEF Plain, Frame, AnyFrame
  <2>3. toClient' \in Seq(AnyFrame) BY <2>1, <2>2
  <2>4. HaTypes' BY <1>1, <1>4, <2>1, <2>3 DEF Open, HaTypes, mailVars, mainVars
  <2>5. SessionInv' BY <1>1, <1>4 DEF Open, SessionInv
  <2> QED BY <2>4, <2>5
<1>5. CASE EndSession BY <1>5, CloseKeeps DEF EndSession
<1>6. CASE AuthRequired
  <2>1. HaTypes' BY <1>1, <1>2, <1>6 DEF AuthRequired, Consume, Reads, HaTypes, mailVars, mainVars
  <2>2. SessionInv' BY <1>1, <1>6 DEF AuthRequired, SessionInv
  <2> QED BY <2>1, <2>2
<1>7. CASE AuthOk
  <2>1. HaTypes' BY <1>1, <1>2, <1>7 DEF AuthOk, Consume, Reads, HaTypes, mailVars, mainVars
  <2>2. SessionInv' BY <1>1, <1>7 DEF AuthOk, SessionInv
  <2> QED BY <2>1, <2>2
<1>8. CASE AuthInvalid BY <1>8, CloseKeeps DEF AuthInvalid, Reads
<1>9. CASE ReadyEntities
  <2>1. Announce("connected") /\ announced' = "connected" BY <1>9 DEF ReadyEntities, Announce
  <2>2. announced' \in Kinds /\ items' \in Seq(Entry) /\ overflowed' \in BOOLEAN
    BY <1>1, <1>3, <2>1, AnnounceTypes
  <2>3. HaTypes' BY <1>1, <1>2, <1>9, <2>2 DEF ReadyEntities, Consume, Reads, HaTypes, mainVars
  <2>4. SessionInv' BY <1>1, <1>9, <2>1 DEF ReadyEntities, Reads, SessionInv
  <2> QED BY <2>3, <2>4
<1>10. CASE Fallback
  <2>1. HaTypes' BY <1>1, <1>2, <1>10 DEF Fallback, Consume, Reads, HaTypes, mailVars, mainVars
  <2>2. SessionInv' BY <1>1, <1>10 DEF Fallback, SessionInv
  <2> QED BY <2>1, <2>2
<1>11. CASE Refused BY <1>11, CloseKeeps DEF Refused, Reads
<1>12. CASE Accepted
  <2> DEFINE ups == Head(toClient).ups
             left == pending \ {Head(toClient).id}
  <2>1. /\ toClient # <<>> /\ toClient' = Tail(toClient) /\ runner = "reading"
        /\ PutAll(ups, Complete(left))
        /\ UNCHANGED <<server, served, support, toServer, sess, mode, mainVars>>
    BY <1>12 DEF Accepted, Reads, Consume
  <2>2. \/ phase' = "ready" /\ Announce("connected")
        \/ phase' = phase /\ phase = "subscribing" /\ UNCHANGED <<announced, mailVars>>
    BY <1>12 DEF Accepted
  <2>3. ups \in PartialOn(Version) BY <1>1, <2>1, FrameIs
  <2>4. Complete(left) \in BOOLEAN BY DEF Complete
  <2> HIDE DEF ups, left
  <2>5. /\ puts' \subseteq [entity : Entities, state : Value]
        /\ runner' \in {"reading", "putting"} /\ (runner' # "putting" => puts' = {})
    BY <1>1, <2>1, <2>3, <2>4, PutAllTypes
  <2>6. announced' \in Kinds /\ items' \in Seq(Entry) /\ overflowed' \in BOOLEAN
    <3>1. CASE Announce("connected") BY <1>1, <1>3, <3>1, AnnounceTypes
    <3>2. CASE UNCHANGED <<announced, mailVars>> BY <1>1, <3>2 DEF HaTypes, mailVars
    <3> QED BY <2>2, <3>1, <3>2
  <2>7. HaTypes' BY <1>1, <1>2, <2>1, <2>5, <2>6 DEF HaTypes, mainVars
  <2>8. phase' = "ready" => announced' = "connected" BY <2>2 DEF Announce
  <2>9. SessionInv' BY <2>5, <2>8 DEF SessionInv
  <2> QED BY <2>7, <2>9
<1>13. CASE Event
  <2> DEFINE ups == Head(toClient).ups
  <2>1. /\ toClient # <<>> /\ toClient' = Tail(toClient) /\ runner = "reading"
        /\ PutAll(ups, phase = "ready")
        /\ UNCHANGED <<server, served, support, toServer, sess, phase, mode, pending, announced,
                       mailVars, mainVars>>
    BY <1>13 DEF Event, Reads, Consume
  <2>2. ups \in PartialOn(Version) BY <1>1, <2>1, FrameIs
  <2> HIDE DEF ups
  <2>3. /\ puts' \subseteq [entity : Entities, state : Value]
        /\ runner' \in {"reading", "putting"} /\ (runner' # "putting" => puts' = {})
    BY <1>1, <2>1, <2>2, PutAllTypes
  <2>4. HaTypes' BY <1>1, <1>2, <2>1, <2>3 DEF HaTypes, mailVars, mainVars
  <2>5. SessionInv' BY <1>1, <2>1, <2>3 DEF SessionInv
  <2> QED BY <2>4, <2>5
<1>14. CASE Put
  <2>1. PICK u \in puts : items' = PutUpdate(items, Update(u.entity, u.state)) /\ puts' = puts \ {u}
    BY <1>14 DEF Put
  <2>2. u \in [entity : Entities, state : Value] BY <1>1 DEF HaTypes
  <2>3. items \in Seq(Entry) BY <1>1 DEF HaTypes
  <2>4. items' \in Seq(Entry) BY <1>1, <2>1, <2>2, <2>3, UpdateIs, PutUpdateKeeps
  <2>5. HaTypes' BY <1>1, <1>14, <2>1, <2>4 DEF Put, HaTypes, serverVars, mainVars
  <2>6. SessionInv' BY <1>1, <1>14 DEF Put, SessionInv
  <2> QED BY <2>5, <2>6
<1> QED BY <1>4, <1>5, <1>6, <1>7, <1>8, <1>9, <1>10, <1>11, <1>12, <1>13, <1>14 DEF Client

LEMMA MainKeeps ==
  ASSUME HaInv, Main
  PROVE  HaTypes' /\ SessionInv'
<1>1. HaTypes /\ SessionInv /\ items \in Seq(Entry) BY DEF HaInv, HaTypes
<1>2. items # <<>> => Tail(items) \in Seq(Entry) /\ Head(items) \in Entry
  BY <1>1, TailSuffix DEF Suffix
<1>3. Flushed \in [Entities -> Value] BY <1>1, FlushedIs
<1>4. NoUpdates \in PartialOn(Value) BY NoUpdatesPartial
<1>5. CASE DrainUpdate
  <2>1. items # <<>> /\ ~IsControl(Head(items)) BY <1>5 DEF DrainUpdate
  <2>2. Head(items).entity \in Entities /\ Head(items).state \in Value BY <1>2, <2>1, EntryIs
  <2>3. Collect(Head(items).entity, Head(items).state) \in PartialOn(Value) BY <1>1, <2>2, BatchIs
  <2>4. HaTypes'
    BY <1>1, <1>2, <1>5, <2>1, <2>3 DEF DrainUpdate, HaTypes, serverVars, clientVars
  <2>5. SessionInv' BY <1>1, <1>5 DEF DrainUpdate, SessionInv, clientVars
  <2> QED BY <2>4, <2>5
<1>6. CASE DrainControl
  <2>1. items # <<>> /\ IsControl(Head(items)) BY <1>6 DEF DrainControl
  <2>2. Head(items).kind \in Kinds /\ Head(items).sess \in Nat BY <1>2, <2>1, EntryIs
  <2>3. heard' \in [Entities -> Value] BY <1>3, <1>6, NoneIs DEF DrainControl, AfterSourceState
  <2>4. since' \in Nat BY <1>1, <1>6, <2>2 DEF DrainControl, HaTypes
  <2>5. HaTypes'
    BY <1>1, <1>2, <1>4, <1>6, <2>1, <2>2, <2>3, <2>4
    DEF DrainControl, HaTypes, AfterFlush, serverVars, clientVars
  <2>6. SessionInv' BY <1>1, <1>6 DEF DrainControl, SessionInv, clientVars
  <2> QED BY <2>5, <2>6
<1>7. CASE EndDrain
  <2>1. HaTypes'
    BY <1>1, <1>3, <1>4, <1>7 DEF EndDrain, HaTypes, serverVars, clientVars, mailVars
  <2>2. SessionInv' BY <1>1, <1>7 DEF EndDrain, SessionInv, clientVars
  <2> QED BY <2>1, <2>2
<1> QED BY <1>5, <1>6, <1>7 DEF Main

LEMMA TypesKept ==
  ASSUME HaInv, [Next]_vars
  PROVE  HaTypes' /\ SessionInv'
<1>1. HaTypes /\ SessionInv BY DEF HaInv
<1>2. CASE Server \/ \E e \in Entities : ServerChange(e)
  <2>1. /\ server' \in [Entities -> Version] /\ toClient' \in Seq(AnyFrame)
        /\ UNCHANGED <<clientVars, mailVars, mainVars>>
    BY <1>1, <1>2, ServerTypes
  <2>2. HaTypes' BY <1>1, <2>1 DEF HaTypes, clientVars, mailVars, mainVars
  <2>3. SessionInv' BY <1>1, <2>1 DEF SessionInv, clientVars
  <2> QED BY <2>2, <2>3
<1>3. CASE Open \/ EndSession \/ Client BY <1>3, ClientKeeps
<1>4. CASE Main BY <1>4, MainKeeps
<1>5. CASE UNCHANGED vars
  <2>1. HaTypes' BY <1>1, <1>5 DEF HaTypes, vars, serverVars, clientVars, mailVars, mainVars
  <2>2. SessionInv' BY <1>1, <1>5 DEF SessionInv, vars, clientVars
  <2> QED BY <2>1, <2>2
<1> QED BY <1>2, <1>3, <1>4, <1>5 DEF Next

-----------------------------------------------------------------------------
(* The mailbox and the last word in it.                                      *)

\* The last entry, a control event, is the word before the end.
LEMMA LastGoverns ==
  ASSUME NEW q \in Seq(Entry), q # <<>>, IsControl(q[Len(q)]),
         NEW j \in 0 .. Len(q), Governs(q, j, Len(q) + 1)
  PROVE  j = Len(q)
<1>1. Len(q) \in Nat /\ Len(q) >= 1 BY EmptySeq, LenProperties
<1>2. \A k \in j + 1 .. Len(q) + 1 - 1 : ~IsControl(q[k]) BY DEF Governs
<1>3. ~(Len(q) \in j + 1 .. Len(q) + 1 - 1) BY <1>2
<1> QED BY <1>1, <1>3

\* What a step that leaves the bridge's word alone finds at a position.
LEMMA WordKept ==
  ASSUME UNCHANGED <<haState, since>>, NEW j \in Nat, j > 0 => items'[j] = items[j]
  PROVE  Word(items, j)' = Word(items, j)
BY DEF Word, Control

LEMMA AnnounceMail ==
  ASSUME HaInv, HaTypes', NEW k \in Kinds, Announce(k), UNCHANGED <<haState, since>>
  PROVE  MailInv'
<1>1. HaTypes /\ MailInv /\ items \in Seq(Entry) /\ sess \in Nat BY DEF HaInv, HaTypes
<1>2. announced' = k BY DEF Announce
<1>3. CASE announced = k
  <2>1. items' = items /\ announced' = announced BY <1>2, <1>3 DEF Announce, mailVars
  <2>2. Len(items) \in Nat BY <1>1, LenProperties
  <2>3. \A j \in 0 .. Len(items) : Word(items, j)' = Word(items, j)
    BY <2>1, <2>2, WordKept
  <2> QED BY <1>1, <2>1, <2>3 DEF MailInv
<1>4. CASE announced # k
  <2> DEFINE c == Control(k, sess)
             r == PutControl(items, c)
  <2>1. items' = r BY <1>4 DEF Announce
  <2>2. c \in Entry /\ IsControl(c) /\ c.kind = k BY <1>1, ControlIs
  <2>3. Spaced(items) /\ Controls(items) <= MaxControls BY <1>1 DEF MailInv
  <2>4. /\ r \in Seq(Entry) /\ r # <<>> /\ r[Len(r)] = c
        /\ Spaced(r) /\ Controls(r) <= MaxControls
    BY <1>1, <2>2, <2>3, PutControlIs
  <2> HIDE DEF c, r
  <2>5. Len(r) \in Nat /\ Len(r) >= 1 BY <2>4, EmptySeq, LenProperties
  <2>6. \A j \in 0 .. Len(r) : Governs(r, j, Len(r) + 1) => j = Len(r)
    BY <2>2, <2>4, LastGoverns
  <2>7. \A j \in 0 .. Len(r) : Governs(r, j, Len(r) + 1) => Word(items, j)'.kind = k
    <3> SUFFICES ASSUME NEW j \in 0 .. Len(r), Governs(r, j, Len(r) + 1)
                 PROVE  Word(items, j)'.kind = k
      OBVIOUS
    <3>1. j = Len(r) /\ j # 0 BY <2>5, <2>6
    <3>2. Word(items, j)' = c BY <2>1, <2>4, <3>1 DEF Word
    <3> QED BY <2>2, <3>2
  <2> QED BY <1>2, <2>1, <2>4, <2>7 DEF MailInv
<1> QED BY <1>3, <1>4

LEMMA PutMail ==
  ASSUME HaInv, Put
  PROVE  MailInv'
<1>1. HaTypes /\ MailInv /\ items \in Seq(Entry) /\ Spaced(items) BY DEF HaInv, HaTypes, MailInv
<1>2. PICK u \in puts : items' = PutUpdate(items, Update(u.entity, u.state)) BY DEF Put
<1>3. u \in [entity : Entities, state : Value] BY <1>1 DEF HaTypes
<1> DEFINE x == Update(u.entity, u.state)
           r == PutUpdate(items, x)
<1>4. x \in Entry /\ ~IsControl(x) BY <1>3, UpdateIs
<1>5. items' = r BY <1>2
<1> HIDE DEF x
<1>6. /\ r \in Seq(Entry) /\ Spaced(r) /\ Controls(r) = Controls(items)
      /\ \A j \in 0 .. Len(r) : Governs(r, j, Len(r) + 1) =>
           j \in 0 .. Len(items) /\ Governs(items, j, Len(items) + 1) /\ (j > 0 => r[j] = items[j])
  BY <1>1, <1>4, PutUpdateKeeps
<1> HIDE DEF r
<1>7. UNCHANGED <<haState, since, announced>> BY DEF Put, mainVars
<1>8. Len(items) \in Nat BY <1>1, LenProperties
<1>9. ASSUME NEW j \in 0 .. Len(r), Governs(r, j, Len(r) + 1)
      PROVE  Word(items, j)'.kind = announced
  <2>1. j \in 0 .. Len(items) /\ Governs(items, j, Len(items) + 1) /\ (j > 0 => r[j] = items[j])
    BY <1>6, <1>9
  <2>2. Word(items, j)' = Word(items, j) BY <1>5, <1>7, <1>8, <2>1, WordKept
  <2> QED BY <1>1, <2>1, <2>2 DEF MailInv
<1>10. Controls(r) <= MaxControls BY <1>1, <1>6 DEF MailInv
<1> QED BY <1>5, <1>6, <1>7, <1>9, <1>10 DEF MailInv

\* What a drain finds at a position of the mailbox it has taken an entry from: the word that was
\* there before, one position on; what it has taken is the bridge's own word now.
LEMMA DrainWords ==
  ASSUME HaInv, DrainUpdate \/ DrainControl,
         NEW i \in 1 .. Len(items') + 1, NEW j \in 0 .. Len(items'), Governs(items', j, i)
  PROVE  \E k \in 0 .. Len(items) :
           /\ Governs(items, k, i + 1) /\ i + 1 \in 1 .. Len(items) + 1
           /\ Len(items) = Len(items') + 1
           /\ i <= Len(items') => items'[i] = items[i + 1]
           /\ Word(items, j)'.kind = Word(items, k).kind
           /\ Word(items, k).kind = "connected" => Word(items, j)'.sess = Word(items, k).sess
<1>1. items \in Seq(Entry) /\ items # <<>> /\ items' = Tail(items)
  BY DEF HaInv, HaTypes, DrainUpdate, DrainControl
<1>2. Head(items) = items[1] /\ Len(items) \in Nat BY <1>1, TailSuffix, LenProperties
<1>3. /\ i + 1 \in 1 .. Len(items) + 1 /\ Len(items) = Len(items') + 1
      /\ i <= Len(items') => items'[i] = items[i + 1]
      /\ j > 0 => j + 1 \in 0 .. Len(items) /\ items'[j] = items[j + 1] /\ Governs(items, j + 1, i + 1)
      /\ j = 0 /\ IsControl(items[1]) => 1 \in 0 .. Len(items) /\ Governs(items, 1, i + 1)
      /\ j = 0 /\ ~IsControl(items[1]) => 0 \in 0 .. Len(items) /\ Governs(items, 0, i + 1)
  BY <1>1, TailGoverns
<1>4. CASE j > 0
  <2>1. Word(items, j)' = items'[j] /\ Word(items, j + 1) = items[j + 1] BY <1>2, <1>4 DEF Word
  <2>2. Word(items, j)' = Word(items, j + 1) BY <1>3, <1>4, <2>1
  <2> QED BY <1>3, <1>4, <2>2
<1>5. CASE j = 0 /\ DrainUpdate
  <2>1. ~IsControl(items[1]) /\ UNCHANGED <<haState, since>> BY <1>2, <1>5 DEF DrainUpdate
  <2>2. Word(items, 0)' = Word(items, 0) BY <2>1 DEF Word, Control
  <2> QED BY <1>3, <1>5, <2>1, <2>2
<1>6. CASE j = 0 /\ DrainControl
  <2> DEFINE c == items[1]
  <2>1. /\ IsControl(c) /\ haState' = c.kind
        /\ since' = IF c.kind = "connected" THEN c.sess ELSE since
    BY <1>2, <1>6 DEF DrainControl
  <2>2. Word(items, 1) = c BY DEF Word
  <2> HIDE DEF c
  <2>3. Word(items, 0)'.kind = c.kind /\ (c.kind = "connected" => Word(items, 0)'.sess = c.sess)
    BY <2>1 DEF Word, Control
  <2>4. Governs(items, 1, i + 1) /\ 1 \in 0 .. Len(items) BY <1>3, <1>6, <2>1 DEF c
  <2> QED BY <1>3, <1>6, <2>2, <2>3, <2>4
<1>7. j > 0 \/ j = 0
  <2>1. items' \in Seq(Entry) BY <1>1, TailSuffix DEF Suffix
  <2>2. Len(items') \in Nat BY <2>1, LenProperties
  <2> QED BY <2>2
<1> QED BY <1>4, <1>5, <1>6, <1>7

LEMMA DrainMail ==
  ASSUME HaInv, DrainUpdate \/ DrainControl
  PROVE  MailInv'
<1>1. /\ items \in Seq(Entry) /\ items # <<>> /\ items' = Tail(items) /\ MailInv
      /\ announced' = announced
  BY DEF HaInv, HaTypes, DrainUpdate, DrainControl, clientVars
<1>2. Suffix(items', items, 1) BY <1>1, TailSuffix
<1>3. Spaced(items') BY <1>1, <1>2, SuffixSpaced DEF MailInv
<1>4. Controls(items') <= MaxControls
  <2>1. items' \in Seq(Entry) BY <1>2 DEF Suffix
  <2>2. Controls(items) \in Nat /\ Controls(items') \in Nat BY <1>1, <2>1, PlacesFinite
  <2>3. Controls(items') <= Controls(items) BY <1>1, <1>2, SuffixControls
  <2>4. MaxControls \in Nat /\ Controls(items) <= MaxControls BY <1>1, HaAssumption DEF MailInv
  <2> QED BY <2>2, <2>3, <2>4
<1>5. Len(items') \in Nat /\ Len(items') + 1 \in 1 .. Len(items') + 1
  <2>1. items' \in Seq(Entry) BY <1>2 DEF Suffix
  <2> QED BY <2>1, LenProperties
<1>6. ASSUME NEW j \in 0 .. Len(items'), Governs(items', j, Len(items') + 1)
      PROVE  Word(items, j)'.kind = announced
  <2>1. PICK k \in 0 .. Len(items) :
           /\ Governs(items, k, Len(items') + 1 + 1) /\ Len(items) = Len(items') + 1
           /\ Word(items, j)'.kind = Word(items, k).kind
    BY <1>5, <1>6, DrainWords
  <2>2. Governs(items, k, Len(items) + 1) BY <2>1
  <2> QED BY <1>1, <2>1, <2>2 DEF MailInv
<1> QED BY <1>1, <1>3, <1>4, <1>6 DEF MailInv

\* A step that neither announces nor puts nor drains leaves the mailbox as it was.
LEMMA MailUnchanged ==
  ASSUME MailInv, UNCHANGED <<items, haState, since, announced>>
  PROVE  MailInv'
<1>1. \A j \in 0 .. Len(items) : Word(items, j)' = Word(items, j) BY DEF Word, Control
<1> QED BY <1>1 DEF MailInv

LEMMA MailKept ==
  ASSUME HaInv, HaTypes', [Next]_vars
  PROVE  MailInv'
<1>1. HaTypes /\ MailInv BY DEF HaInv
<1>2. CASE Server \/ \E e \in Entities : ServerChange(e)
  <2>1. UNCHANGED <<clientVars, mailVars, mainVars>> BY <1>1, <1>2, ServerTypes
  <2> QED BY <1>1, <2>1, MailUnchanged DEF clientVars, mailVars, mainVars
<1>3. ASSUME NEW outcome \in {"closed", "auth_invalid"}, Close(outcome) PROVE MailInv'
  <2> DEFINE k == IF outcome = "auth_invalid" THEN "disabled" ELSE "disconnected"
  <2>1. k \in Kinds /\ Announce(k) /\ UNCHANGED <<haState, since>> BY <1>3 DEF Close, Kinds, mainVars
  <2> HIDE DEF k
  <2> QED BY <2>1, AnnounceMail
<1>4. ASSUME Announce("connected"), UNCHANGED <<haState, since>> PROVE MailInv'
  <2>1. "connected" \in Kinds BY DEF Kinds
  <2> QED BY <1>4, <2>1, AnnounceMail
<1>5. CASE Open \/ AuthRequired \/ AuthOk \/ Fallback \/ Event
  BY <1>1, <1>5, MailUnchanged DEF Open, AuthRequired, AuthOk, Fallback, Event, mailVars, mainVars
<1>6. CASE EndSession \/ AuthInvalid \/ Refused
  BY <1>3, <1>6 DEF EndSession, AuthInvalid, Refused
<1>7. CASE ReadyEntities BY <1>4, <1>7 DEF ReadyEntities, mainVars
<1>8. CASE Accepted
  <2>1. UNCHANGED mainVars /\ (Announce("connected") \/ UNCHANGED <<announced, mailVars>>)
    BY <1>8 DEF Accepted
  <2>2. CASE Announce("connected") BY <1>4, <2>1, <2>2 DEF mainVars
  <2>3. CASE UNCHANGED <<announced, mailVars>> BY <1>1, <2>1, <2>3, MailUnchanged DEF mailVars, mainVars
  <2> QED BY <2>1, <2>2, <2>3
<1>9. CASE Put BY <1>9, PutMail
<1>10. CASE DrainUpdate \/ DrainControl BY <1>10, DrainMail
<1>11. CASE EndDrain BY <1>1, <1>11, MailUnchanged DEF EndDrain, clientVars, mailVars
<1>12. CASE UNCHANGED vars BY <1>1, <1>12, MailUnchanged DEF vars, clientVars, mailVars, mainVars
<1> QED BY <1>2, <1>5, <1>6, <1>7, <1>8, <1>9, <1>10, <1>11, <1>12 DEF Next, Client, Main

\* HaInv is inductive.
LEMMA HaHolds == Spec => []HaInv
<1>1. Init => HaInv BY InitHolds
<1>2. HaInv /\ [Next]_vars => HaInv' BY TypesKept, MailKept DEF HaInv
<1> QED BY <1>1, <1>2, PTL DEF Spec

-----------------------------------------------------------------------------
(* HaMailbox: however fast Home Assistant talks and however slowly the       *)
(* bridge drains, the mailbox keeps at most MaxControls connection events    *)
(* and one update of an entity between two of them; and what it dropped      *)
(* does not matter once it is empty, the bridge then shows the connection    *)
(* state announced last.                                                     *)

THEOREM MailboxHolds == Spec => []MailboxTrue
<1>1. HaInv => MailboxTrue
  <2> SUFFICES ASSUME HaInv PROVE MailboxTrue OBVIOUS
  <2>1. items \in Seq(Entry) /\ MailInv BY DEF HaInv, HaTypes
  <2>2. DOMAIN items = 1 .. Len(items) /\ Len(items) \in Nat BY <2>1, LenProperties
  <2>3. MailboxBound BY <2>1, <2>2 DEF MailInv, Spaced, MailboxBound
  <2>4. ASSUME items = <<>> PROVE haState = announced
    <3>1. Len(items) = 0 BY <2>4
    <3>2. 0 \in 0 .. Len(items) /\ Governs(items, 0, Len(items) + 1) BY <3>1 DEF Governs
    <3>3. Word(items, 0).kind = announced BY <2>1, <3>2 DEF MailInv
    <3> QED BY <3>3 DEF Word, Control
  <2> QED BY <2>3, <2>4 DEF MailboxTrue, DrainedAgrees
<1> QED BY <1>1, HaHolds, PTL

-----------------------------------------------------------------------------
(* What the bridge shows.                                                    *)

\* A step that leaves puts, mailbox, batch and engine alone, and the session when it is announced.
LEMMA FreshUnchanged ==
  ASSUME HaInv, FreshInv, UNCHANGED <<puts, announced, items, batch, haState, heard, since>>,
         sess' = sess \/ (announced # "connected" /\ puts = {})
  PROVE  FreshInv'
<1>1. \A j \in 0 .. Len(items) : Word(items, j)' = Word(items, j) BY DEF Word, Control
<1>2. PutsFresh' BY DEF FreshInv, PutsFresh
<1>3. EndFresh' BY <1>1 DEF FreshInv, EndFresh
<1>4. LineFresh' BY <1>1 DEF FreshInv, LineFresh
<1>5. BatchFresh' /\ HeardFresh' BY DEF FreshInv, BatchFresh, HeardFresh
<1> QED BY <1>2, <1>3, <1>4, <1>5 DEF FreshInv

\* An event that nothing is dropped for: the word before it is the one announced before, so no
\* two "connected" follow each other.
LEMMA AnnounceFresh ==
  ASSUME HaInv, FreshInv, NEW k \in Kinds, Announce(k), ~overflowed',
         UNCHANGED <<sess, batch, haState, heard, since>>
  PROVE  EndFresh' /\ LineFresh' /\ BatchFresh' /\ HeardFresh'
<1>1. HaTypes /\ MailInv /\ items \in Seq(Entry) /\ sess \in Nat BY DEF HaInv, HaTypes
<1>2. announced' = k BY DEF Announce
<1>3. BatchFresh' /\ HeardFresh' BY DEF FreshInv, BatchFresh, HeardFresh
<1>4. CASE announced = k
  <2>1. items' = items /\ announced' = announced BY <1>2, <1>4 DEF Announce, mailVars
  <2>2. \A j \in 0 .. Len(items) : Word(items, j)' = Word(items, j) BY <2>1 DEF Word, Control
  <2>3. EndFresh' BY <2>1, <2>2 DEF FreshInv, EndFresh
  <2>4. LineFresh' BY <2>1, <2>2 DEF FreshInv, LineFresh
  <2> QED BY <1>3, <2>3, <2>4
<1>5. CASE announced # k
  <2> DEFINE c == Control(k, sess)
             a == Append(items, c)
  <2>1. c \in Entry /\ IsControl(c) /\ c.kind = k /\ c.sess = sess BY <1>1, ControlIs
  <2>2. items' = PutControl(items, c) /\ ~Overfull(a) BY <1>5 DEF Announce
  <2>3. items' = a BY <2>2 DEF PutControl, Trim
  <2>4. /\ a \in Seq(Entry) /\ Len(a) = Len(items) + 1 /\ a # <<>>
        /\ a[Len(items) + 1] = c /\ \A i \in 1 .. Len(items) : a[i] = items[i]
    BY <1>1, <2>1, AppendProperties
  <2>5. Len(items) \in Nat BY <1>1, LenProperties
  <2>6. ASSUME NEW i \in 1 .. Len(items) + 1, NEW j \in 0 .. Len(items) + 1, Governs(a, j, i)
        PROVE  /\ j \in 0 .. Len(items) /\ Governs(items, j, i)
               /\ Word(items, j)' = Word(items, j)
    <3>1. j \in 0 .. Len(items) /\ Governs(items, j, i) /\ (j > 0 => a[j] = items[j])
      BY <1>1, <2>1, <2>6, AppendGoverns
    <3>2. j > 0 => items'[j] = items[j] BY <2>3, <3>1
    <3>3. j \in Nat BY <2>5, <3>1
    <3>4. Word(items, j)' = Word(items, j) BY <3>2, <3>3, WordKept
    <3> QED BY <3>1, <3>4
  <2> HIDE DEF c, a
  <2>7. EndFresh'
    <3> SUFFICES ASSUME NEW j \in 0 .. Len(a), Governs(a, j, Len(a) + 1)
                 PROVE  Word(items, j)'.sess = sess
      BY <2>3 DEF EndFresh
    <3>1. j = Len(a) BY <2>1, <2>4, LastGoverns
    <3>2. Word(items, j)' = c BY <2>3, <2>4, <2>5, <3>1 DEF Word
    <3> QED BY <2>1, <3>2
  <2>8. LineFresh'
    <3> SUFFICES ASSUME NEW i \in 1 .. Len(a), NEW j \in 0 .. Len(a), Governs(a, j, i)
                 PROVE  /\ a[i].kind = "connected" => Word(items, j)'.kind # "connected"
                        /\ ~IsControl(a[i]) =>
                             \/ a[i].state.early
                             \/ Word(items, j)'.kind = "connected" /\ Word(items, j)'.sess = a[i].state.sess
      BY <2>3 DEF LineFresh
    <3>1. /\ j \in 0 .. Len(items) /\ Governs(items, j, i) /\ Word(items, j)' = Word(items, j)
      BY <2>4, <2>6
    <3>2. CASE i \in 1 .. Len(items)
      <4>1. a[i] = items[i] BY <2>4, <3>2
      <4> QED BY <3>1, <3>2, <4>1 DEF FreshInv, LineFresh
    <3>3. CASE i = Len(items) + 1
      <4>1. a[i] = c BY <2>4, <3>3
      <4>2. Word(items, j).kind = announced BY <1>1, <3>1, <3>3 DEF MailInv
      <4> QED BY <1>5, <2>1, <3>1, <4>1, <4>2
    <3> QED BY <2>4, <2>5, <3>2, <3>3
  <2> QED BY <1>3, <2>7, <2>8
<1> QED BY <1>4, <1>5

\* The session ends: nothing of a frame is waiting, and no value needs the connection announced.
LEMMA CloseFresh ==
  ASSUME HaInv, FreshInv, NEW outcome \in {"closed", "auth_invalid"}, Close(outcome),
         runner = "reading", ~overflowed'
  PROVE  FreshInv'
<1> DEFINE k == IF outcome = "auth_invalid" THEN "disabled" ELSE "disconnected"
<1>1. k \in Kinds /\ Announce(k) /\ UNCHANGED <<sess, puts, batch, haState, heard, since>>
  BY DEF Close, Kinds, mainVars
<1> HIDE DEF k
<1>2. EndFresh' /\ LineFresh' /\ BatchFresh' /\ HeardFresh' BY <1>1, AnnounceFresh
<1>3. puts' = {} BY <1>1 DEF HaInv, SessionInv
<1>4. PutsFresh' BY <1>3 DEF PutsFresh
<1> QED BY <1>2, <1>4 DEF FreshInv

LEMMA AcceptedFresh ==
  ASSUME HaInv, FreshInv, Accepted, ~overflowed'
  PROVE  FreshInv'
<1> DEFINE ups == Head(toClient).ups
           left == pending \ {Head(toClient).id}
<1>1. /\ toClient # <<>> /\ PutAll(ups, Complete(left)) /\ UNCHANGED <<sess, mainVars>>
      /\ IF Complete(left) THEN phase' = "ready" /\ Announce("connected")
                           ELSE UNCHANGED <<phase, announced, mailVars>>
  BY DEF Accepted, Reads
<1>2. HaTypes BY DEF HaInv
<1>3. ups \in PartialOn(Version) /\ Complete(left) \in BOOLEAN BY <1>1, <1>2, FrameIs DEF Complete
<1> HIDE DEF ups, left
<1>4. \A u \in puts' : u.state.sess = sess /\ u.state.early = ~Complete(left)
  BY <1>1, <1>2, <1>3, PutAllTypes
<1>5. UNCHANGED <<sess, batch, haState, heard, since>> BY <1>1 DEF mainVars
<1>6. EndFresh' /\ LineFresh' /\ BatchFresh' /\ HeardFresh'
  <2>1. CASE Complete(left)
    <3>1. "connected" \in Kinds BY DEF Kinds
    <3> QED BY <1>1, <1>5, <2>1, <3>1, AnnounceFresh
  <2>2. CASE ~Complete(left)
    <3>1. UNCHANGED <<sess, announced, items, batch, haState, heard, since>>
      BY <1>1, <1>5, <2>2 DEF mailVars
    <3>2. \A j \in 0 .. Len(items) : Word(items, j)' = Word(items, j) BY <3>1 DEF Word, Control
    <3>3. EndFresh' BY <3>1, <3>2 DEF FreshInv, EndFresh
    <3>4. LineFresh' BY <3>1, <3>2 DEF FreshInv, LineFresh
    <3>5. BatchFresh' /\ HeardFresh' BY <3>1 DEF FreshInv, BatchFresh, HeardFresh
    <3> QED BY <3>3, <3>4, <3>5
  <2> QED BY <2>1, <2>2
<1>7. PutsFresh'
  <2>1. Complete(left) => announced' = "connected" BY <1>1 DEF Announce
  <2> QED BY <1>3, <1>4, <1>5, <2>1 DEF PutsFresh
<1> QED BY <1>6, <1>7 DEF FreshInv

LEMMA EventFresh ==
  ASSUME HaInv, FreshInv, Event
  PROVE  FreshInv'
<1> DEFINE ups == Head(toClient).ups
<1>1. /\ toClient # <<>> /\ PutAll(ups, phase = "ready") /\ runner = "reading"
      /\ UNCHANGED <<sess, announced, items, batch, haState, heard, since>>
  BY DEF Event, Reads, mailVars, mainVars
<1>2. HaTypes BY DEF HaInv
<1>3. ups \in PartialOn(Version) BY <1>1, <1>2, FrameIs
<1> HIDE DEF ups
<1>4. \A u \in puts' : u.state.sess = sess /\ u.state.early = ~(phase = "ready")
  BY <1>1, <1>2, <1>3, PutAllTypes
<1>5. phase = "ready" => announced' = "connected" BY <1>1 DEF HaInv, SessionInv
<1>6. PutsFresh' BY <1>1, <1>4, <1>5 DEF PutsFresh
<1>7. \A j \in 0 .. Len(items) : Word(items, j)' = Word(items, j) BY <1>1 DEF Word, Control
<1>8. EndFresh' BY <1>1, <1>7 DEF FreshInv, EndFresh
<1>9. LineFresh' BY <1>1, <1>7 DEF FreshInv, LineFresh
<1>10. BatchFresh' /\ HeardFresh' BY <1>1 DEF FreshInv, BatchFresh, HeardFresh
<1> QED BY <1>6, <1>8, <1>9, <1>10 DEF FreshInv

\* An update that is not early was heard in the session announced, which is the last word in the
\* mailbox: in place of an older one or behind the others, that word governs it.
LEMMA PutFresh ==
  ASSUME HaInv, FreshInv, Put
  PROVE  FreshInv'
<1>1. HaTypes /\ MailInv /\ items \in Seq(Entry) /\ Spaced(items) BY DEF HaInv, HaTypes, MailInv
<1>2. PICK u \in puts : items' = PutUpdate(items, Update(u.entity, u.state)) /\ puts' = puts \ {u}
  BY DEF Put
<1>3. UNCHANGED <<sess, announced, batch, haState, heard, since>> BY DEF Put, mainVars
<1>4. u \in [entity : Entities, state : Value] BY <1>1 DEF HaTypes
<1> DEFINE x == Update(u.entity, u.state)
           r == PutUpdate(items, x)
<1>5. x \in Entry /\ ~IsControl(x) /\ x.state = u.state BY <1>4, UpdateIs
<1>6. items' = r BY <1>2
<1> HIDE DEF x
<1>7. /\ \A j \in 0 .. Len(r) : Governs(r, j, Len(r) + 1) =>
           j \in 0 .. Len(items) /\ Governs(items, j, Len(items) + 1) /\ (j > 0 => r[j] = items[j])
      /\ \A i \in 1 .. Len(r), j \in 0 .. Len(r) : Governs(r, j, i) =>
           /\ j \in 0 .. Len(items) /\ (j > 0 => r[j] = items[j])
           /\ \/ i \in 1 .. Len(items) /\ r[i] = items[i] /\ Governs(items, j, i)
              \/ r[i] = x /\ Governs(items, j, Len(items) + 1)
  BY <1>1, <1>5, PutUpdateKeeps
<1> HIDE DEF r
<1>8. Len(items) \in Nat BY <1>1, LenProperties
<1>9. \A j \in 0 .. Len(items) : (j > 0 => r[j] = items[j]) => Word(items, j)' = Word(items, j)
  BY <1>3, <1>6, <1>8, WordKept
<1>10. PutsFresh' BY <1>2, <1>3 DEF FreshInv, PutsFresh
<1>11. EndFresh' BY <1>3, <1>6, <1>7, <1>9 DEF FreshInv, EndFresh
<1>12. LineFresh'
  <2> SUFFICES ASSUME NEW i \in 1 .. Len(r), NEW j \in 0 .. Len(r), Governs(r, j, i)
               PROVE  /\ r[i].kind = "connected" => Word(items, j)'.kind # "connected"
                      /\ ~IsControl(r[i]) =>
                           \/ r[i].state.early
                           \/ Word(items, j)'.kind = "connected" /\ Word(items, j)'.sess = r[i].state.sess
    BY <1>6 DEF LineFresh
  <2>1. j \in 0 .. Len(items) /\ Word(items, j)' = Word(items, j) BY <1>7, <1>9
  <2>2. CASE i \in 1 .. Len(items) /\ r[i] = items[i] /\ Governs(items, j, i)
    BY <2>1, <2>2 DEF FreshInv, LineFresh
  <2>3. CASE r[i] = x /\ Governs(items, j, Len(items) + 1)
    <3>1. x.kind = "update" BY <1>5 DEF IsControl
    <3>2. Word(items, j).kind = announced BY <1>1, <2>1, <2>3 DEF MailInv
    <3>3. u.state.early \/ (announced = "connected" /\ u.state.sess = sess)
      BY DEF FreshInv, PutsFresh
    <3>4. announced = "connected" => Word(items, j).sess = sess
      BY <2>1, <2>3 DEF FreshInv, EndFresh
    <3> QED BY <1>5, <2>1, <2>3, <3>1, <3>2, <3>3, <3>4
  <2> QED BY <1>7, <2>2, <2>3
<1>13. BatchFresh' /\ HeardFresh' BY <1>3 DEF FreshInv, BatchFresh, HeardFresh
<1> QED BY <1>10, <1>11, <1>12, <1>13 DEF FreshInv

\* A drain moves every word up with the entries behind it.
LEMMA DrainLineFresh ==
  ASSUME HaInv, FreshInv, DrainUpdate \/ DrainControl
  PROVE  PutsFresh' /\ EndFresh' /\ LineFresh'
<1>1. /\ items \in Seq(Entry) /\ items # <<>> /\ items' = Tail(items) /\ MailInv
      /\ UNCHANGED <<sess, puts, announced>>
  BY DEF HaInv, HaTypes, DrainUpdate, DrainControl, clientVars
<1>2. Len(items') \in Nat
  <2>1. items' \in Seq(Entry) BY <1>1, TailSuffix DEF Suffix
  <2> QED BY <2>1, LenProperties
<1>3. PutsFresh' BY <1>1 DEF FreshInv, PutsFresh
<1>4. EndFresh'
  <2> SUFFICES ASSUME announced = "connected",
                      NEW j \in 0 .. Len(items'), Governs(items', j, Len(items') + 1)
               PROVE  Word(items, j)'.sess = sess
    BY <1>1 DEF EndFresh
  <2>1. Len(items') + 1 \in 1 .. Len(items') + 1 BY <1>2
  <2>2. PICK k \in 0 .. Len(items) :
          /\ Governs(items, k, Len(items') + 1 + 1) /\ Len(items) = Len(items') + 1
          /\ Word(items, k).kind = "connected" => Word(items, j)'.sess = Word(items, k).sess
    BY <2>1, DrainWords
  <2>3. Governs(items, k, Len(items) + 1) BY <2>2
  <2>4. Word(items, k).kind = "connected" BY <1>1, <2>3 DEF MailInv
  <2>5. Word(items, k).sess = sess BY <2>3 DEF FreshInv, EndFresh
  <2> QED BY <2>2, <2>4, <2>5
<1>5. LineFresh'
  <2> SUFFICES ASSUME NEW i \in 1 .. Len(items'), NEW j \in 0 .. Len(items'), Governs(items', j, i)
               PROVE  /\ items'[i].kind = "connected" => Word(items, j)'.kind # "connected"
                      /\ ~IsControl(items'[i]) =>
                           \/ items'[i].state.early
                           \/ Word(items, j)'.kind = "connected" /\ Word(items, j)'.sess = items'[i].state.sess
    BY DEF LineFresh
  <2>1. i \in 1 .. Len(items') + 1 /\ i <= Len(items') BY <1>2
  <2>2. PICK k \in 0 .. Len(items) :
           /\ Governs(items, k, i + 1) /\ i + 1 \in 1 .. Len(items) + 1
           /\ Len(items) = Len(items') + 1
           /\ i <= Len(items') => items'[i] = items[i + 1]
           /\ Word(items, j)'.kind = Word(items, k).kind
           /\ Word(items, k).kind = "connected" => Word(items, j)'.sess = Word(items, k).sess
    BY <2>1, DrainWords
  <2>3. i + 1 \in 1 .. Len(items) /\ items'[i] = items[i + 1] BY <1>2, <2>1, <2>2
  <2>4. /\ items[i + 1].kind = "connected" => Word(items, k).kind # "connected"
        /\ ~IsControl(items[i + 1]) =>
             \/ items[i + 1].state.early
             \/ Word(items, k).kind = "connected" /\ Word(items, k).sess = items[i + 1].state.sess
    BY <2>2, <2>3 DEF FreshInv, LineFresh
  <2> QED BY <2>2, <2>3, <2>4
<1> QED BY <1>3, <1>4, <1>5

\* The engine, after the batch was applied, is as fresh as the two were.
LEMMA FlushedFresh ==
  ASSUME HaTypes, FreshInv, NEW e \in Entities
  PROVE  Flushed[e].gone \/ Flushed[e].early \/ (haState = "connected" /\ Flushed[e].sess = since)
<1>1. Flushed[e] = IF e \in DOMAIN batch THEN batch[e] ELSE heard[e] BY FlushedIs
<1> QED BY <1>1 DEF FreshInv, BatchFresh, HeardFresh

LEMMA MainFresh ==
  ASSUME HaInv, FreshInv, Main
  PROVE  FreshInv'
<1>1. HaTypes /\ items \in Seq(Entry) BY DEF HaInv, HaTypes
<1>2. items # <<>> => /\ Head(items) = items[1] /\ Head(items) \in Entry
                      /\ 1 \in 1 .. Len(items) /\ 0 \in 0 .. Len(items)
  <2>1. items # <<>> => /\ Head(items) = items[1] /\ Head(items) \in Entry /\ Len(items) \in Nat \ {0}
    BY <1>1, TailSuffix
  <2> QED BY <2>1
<1>3. Governs(items, 0, 1) BY DEF Governs
\* The first entry meets the bridge's own word.
<1>4. items # <<>> =>
        /\ Head(items).kind = "connected" => haState # "connected"
        /\ ~IsControl(Head(items)) =>
             Head(items).state.early \/ (haState = "connected" /\ since = Head(items).state.sess)
  <2>1. Word(items, 0).kind = haState /\ Word(items, 0).sess = since BY DEF Word, Control
  <2> QED BY <1>2, <1>3, <2>1 DEF FreshInv, LineFresh
<1>5. CASE DrainUpdate
  <2>1. /\ items # <<>> /\ ~IsControl(Head(items)) /\ UNCHANGED <<haState, heard, since>>
        /\ batch' = Collect(Head(items).entity, Head(items).state)
    BY <1>5 DEF DrainUpdate
  <2>2. Head(items).entity \in Entities /\ Head(items).state \in Value BY <1>2, <2>1, EntryIs
  <2>3. /\ DOMAIN batch' = DOMAIN batch \cup {Head(items).entity}
        /\ \A x \in DOMAIN batch \cup {Head(items).entity} :
             batch'[x] = IF x = Head(items).entity THEN Head(items).state ELSE batch[x]
    <3> DEFINE e == Head(items).entity
               h == Head(items).state
    <3>1. batch' = Collect(e, h) /\ e \in Entities /\ h \in Value BY <2>1, <2>2
    <3> HIDE DEF e, h
    <3>2. /\ DOMAIN Collect(e, h) = DOMAIN batch \cup {e}
          /\ \A x \in DOMAIN batch \cup {e} : Collect(e, h)[x] = IF x = e THEN h ELSE batch[x]
      BY <1>1, <3>1, BatchIs
    <3>3. /\ DOMAIN batch' = DOMAIN batch \cup {e}
          /\ \A x \in DOMAIN batch \cup {e} : batch'[x] = IF x = e THEN h ELSE batch[x]
      BY <3>1, <3>2
    <3> QED BY <3>3 DEF e, h
  <2>4. BatchFresh' BY <1>4, <2>1, <2>3 DEF FreshInv, BatchFresh
  <2>5. HeardFresh' BY <2>1 DEF FreshInv, HeardFresh
  <2> QED BY <1>5, <2>4, <2>5, DrainLineFresh DEF FreshInv
<1>6. CASE DrainControl
  <2>1. /\ items # <<>> /\ haState' = Head(items).kind /\ batch' = NoUpdates
        /\ heard' = AfterSourceState(Head(items).kind = "connected")
    BY <1>6 DEF DrainControl, AfterFlush
  <2>2. BatchFresh' BY <2>1, NoUpdatesPartial DEF BatchFresh
  <2>3. CASE haState = "connected"
    <3>1. Head(items).kind # "connected" BY <1>4, <2>1, <2>3
    <3>2. heard' = [e \in Entities |-> None] BY <2>1, <2>3, <3>1 DEF AfterSourceState
    <3> QED BY <1>6, <2>2, <3>2, NoneIs, DrainLineFresh DEF FreshInv, HeardFresh
  <2>4. CASE haState # "connected"
    <3>1. heard' = Flushed BY <2>1, <2>4 DEF AfterSourceState
    <3>2. \A e \in Entities : Flushed[e].gone \/ Flushed[e].early BY <1>1, <2>4, FlushedFresh
    <3> QED BY <1>6, <2>2, <3>1, <3>2, DrainLineFresh DEF FreshInv, HeardFresh
  <2> QED BY <2>3, <2>4
<1>7. CASE EndDrain
  <2>1. /\ heard' = Flushed /\ batch' = NoUpdates
        /\ UNCHANGED <<sess, puts, announced, items, haState, since>>
    BY <1>7 DEF EndDrain, clientVars, mailVars
  <2>2. \A j \in 0 .. Len(items) : Word(items, j)' = Word(items, j) BY <2>1 DEF Word, Control
  <2>3. PutsFresh' BY <2>1 DEF FreshInv, PutsFresh
  <2>4. EndFresh' BY <2>1, <2>2 DEF FreshInv, EndFresh
  <2>5. LineFresh' BY <2>1, <2>2 DEF FreshInv, LineFresh
  <2>6. BatchFresh' BY <2>1, NoUpdatesPartial DEF BatchFresh
  <2>7. HeardFresh' BY <1>1, <2>1, FlushedFresh DEF HeardFresh
  <2> QED BY <2>3, <2>4, <2>5, <2>6, <2>7 DEF FreshInv
<1> QED BY <1>5, <1>6, <1>7 DEF Main

\* An overflow is never forgotten.
LEMMA OverflowStays ==
  ASSUME HaTypes, [Next]_vars, overflowed
  PROVE  overflowed'
<1>1. ASSUME NEW k, Announce(k) PROVE overflowed' BY <1>1 DEF Announce, mailVars
<1>2. CASE Server \/ \E e \in Entities : ServerChange(e) BY <1>2, ServerTypes DEF mailVars
<1>3. CASE Open \/ AuthRequired \/ AuthOk \/ Fallback \/ Event \/ Put
  BY <1>3 DEF Open, AuthRequired, AuthOk, Fallback, Event, Put, mailVars
<1>4. CASE EndSession \/ AuthInvalid \/ Refused \/ ReadyEntities
  BY <1>1, <1>4 DEF EndSession, AuthInvalid, Refused, ReadyEntities, Close
<1>5. CASE Accepted BY <1>1, <1>5 DEF Accepted, mailVars
<1>6. CASE Main BY <1>6 DEF Main, DrainUpdate, DrainControl, EndDrain, mailVars
<1>7. CASE UNCHANGED vars BY <1>7 DEF vars, mailVars
<1> QED BY <1>2, <1>3, <1>4, <1>5, <1>6, <1>7 DEF Next, Client

LEMMA FreshKept ==
  ASSUME HaInv, FreshUntilOverflow, [Next]_vars
  PROVE  FreshUntilOverflow'
<1> SUFFICES ASSUME ~overflowed' PROVE FreshInv' BY DEF FreshUntilOverflow
<1>1. HaTypes /\ SessionInv BY DEF HaInv
<1>2. FreshInv BY <1>1, OverflowStays DEF FreshUntilOverflow
<1>3. CASE Server \/ \E e \in Entities : ServerChange(e)
  BY <1>1, <1>2, <1>3, ServerTypes, FreshUnchanged DEF clientVars, mailVars, mainVars
<1>4. CASE Open
  <2>1. /\ runner = "closed" /\ UNCHANGED <<puts, announced, items, batch, haState, heard, since>>
    BY <1>4 DEF Open, mailVars, mainVars
  <2>2. announced # "connected" /\ puts = {} BY <1>1, <2>1 DEF SessionInv
  <2> QED BY <1>2, <2>1, <2>2, FreshUnchanged
<1>5. CASE AuthRequired \/ AuthOk \/ Fallback
  <2>1. UNCHANGED <<sess, puts, announced, items, batch, haState, heard, since>>
    BY <1>5 DEF AuthRequired, AuthOk, Fallback, mailVars, mainVars
  <2> QED BY <1>2, <2>1, FreshUnchanged
<1>6. CASE EndSession \/ AuthInvalid \/ Refused
  <2>1. runner = "reading" /\ \E outcome \in {"closed", "auth_invalid"} : Close(outcome)
    BY <1>6 DEF EndSession, AuthInvalid, Refused, Reads
  <2> QED BY <1>2, <2>1, CloseFresh
<1>7. CASE ReadyEntities
  <2>1. /\ Announce("connected") /\ "connected" \in Kinds /\ runner = "reading"
        /\ UNCHANGED <<sess, puts, batch, haState, heard, since>>
    BY <1>7 DEF ReadyEntities, Reads, Kinds, mainVars
  <2>2. EndFresh' /\ LineFresh' /\ BatchFresh' /\ HeardFresh' BY <1>2, <2>1, AnnounceFresh
  <2>3. puts' = {} BY <1>1, <2>1 DEF SessionInv
  <2>4. PutsFresh' BY <2>3 DEF PutsFresh
  <2> QED BY <2>2, <2>4 DEF FreshInv
<1>8. CASE Accepted BY <1>2, <1>8, AcceptedFresh
<1>9. CASE Event BY <1>2, <1>9, EventFresh
<1>10. CASE Put BY <1>2, <1>10, PutFresh
<1>11. CASE Main BY <1>2, <1>11, MainFresh
<1>12. CASE UNCHANGED vars
  BY <1>2, <1>12, FreshUnchanged DEF vars, clientVars, mailVars, mainVars
<1> QED BY <1>3, <1>4, <1>5, <1>6, <1>7, <1>8, <1>9, <1>10, <1>11, <1>12 DEF Next, Client

-----------------------------------------------------------------------------
(* HaEngine and Bridge._drain_ha: on a connection, nothing is shown of an    *)
(* earlier one, except a value heard in a session that ended before it was   *)
(* announced, and after the mailbox has overflowed.                          *)

THEOREM ShownAreFresh == Spec => []FreshUnlessEarly
<1>1. Init => FreshUntilOverflow BY InitHolds DEF FreshUntilOverflow
<1>2. HaInv /\ FreshUntilOverflow /\ [Next]_vars => FreshUntilOverflow' BY FreshKept
<1>3. FreshUntilOverflow => FreshUnlessEarly
  BY DEF FreshUntilOverflow, FreshInv, HeardFresh, FreshUnlessEarly
<1> QED BY <1>1, <1>2, <1>3, HaHolds, PTL DEF Spec
=============================================================================
