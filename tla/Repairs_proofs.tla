--------------------------- MODULE Repairs_proofs ---------------------------
(***************************************************************************)
(* Proofs about Repairs: what lr.validator's rules and transformers make   *)
(* of a record, for every vocabulary, translation and record.  The loops   *)
(* over transformers and occurrences are taken apart turn by turn, the     *)
(* turns counted by induction over sets of numbers.                        *)
(***************************************************************************)
EXTENDS Repairs, BatchRuns_proofs

-----------------------------------------------------------------------------
(* The loops over a field's occurrences. *)

\* The two loops over a field's occurrences, turn by turn.
LEMMA OnlyTurns ==
  ASSUME NEW s, NEW N \in Nat, Len(s) = N, NEW values
  PROVE  \E h : /\ h[0] = <<>>
                /\ \A k \in 1..N : h[k] = IF s[k] \in values THEN Append(h[k - 1], s[k])
                                           ELSE h[k - 1]
                /\ Only(s, values) = h[N]
<1> DEFINE F(g, n) == IF n = 0 THEN <<>>
                      ELSE IF s[n] \in values THEN Append(g[n - 1], s[n]) ELSE g[n - 1]
           Kept(g, n) == g = [k \in 0..n |-> F(g, k)]
<1>1. Only(s, values) = (CHOOSE g : Kept(g, N))[N]
  BY DEF Only
<1>2. \A n \in Nat : \E g : Kept(g, n)
  <2> DEFINE P == {n \in Nat : \E g : Kept(g, n)}
  <2>1. 0 \in P
    <3> DEFINE g == [k \in 0..0 |-> <<>>]
    <3>1. Kept(g, 0)
      OBVIOUS
    <3>2. QED
      BY <3>1
  <2>2. ASSUME NEW n \in Nat, n \in P PROVE n + 1 \in P
    <3>1. PICK g : Kept(g, n)
      BY <2>2
    <3> DEFINE h == [k \in 0..(n + 1) |-> IF k = n + 1 THEN F(g, n + 1) ELSE g[k]]
    <3>2. ASSUME NEW k \in 0..(n + 1) PROVE h[k] = F(h, k)
      <4>1. CASE k = n + 1
        <5>1. h[k] = F(g, n + 1) /\ h[(n + 1) - 1] = g[(n + 1) - 1] /\ n + 1 # 0
          BY <4>1
        <5>2. QED
          BY <4>1, <5>1
      <4>2. CASE k # n + 1
        <5>0. k \in 0..n /\ h[k] = g[k]
          BY <4>2
        <5>1. k \in 0..n /\ h[k] = g[k] /\ g[k] = F(g, k)
          <6> HIDE DEF F
          <6>1. QED
            BY <3>1, <5>0
        <5>2. k # 0 => h[k - 1] = g[k - 1]
          BY <4>2
        <5>3. QED
          BY <5>1, <5>2
      <4>3. QED
        BY <4>1, <4>2
    <3>3. Kept(h, n + 1)
      BY <3>2
    <3> HIDE DEF h, Kept
    <3>4. QED
      BY <3>3
  <2>3. QED
    BY <2>1, <2>2, Induct
<1>3. PICK g : Kept(g, N) /\ Only(s, values) = g[N]
  BY <1>1, <1>2
<1>4. g[0] = <<>>
  BY <1>3
<1>5. ASSUME NEW k \in 1..N
      PROVE  g[k] = IF s[k] \in values THEN Append(g[k - 1], s[k]) ELSE g[k - 1]
  <2>1. g[k] = F(g, k)
    <3> HIDE DEF F
    <3>1. k \in 0..N
      OBVIOUS
    <3>2. QED
      BY <1>3, <3>1
  <2>2. QED
    BY <2>1
<1>6. QED
  BY <1>3, <1>4, <1>5

LEMMA WithoutDuplicatesTurns ==
  ASSUME NEW s, NEW N \in Nat, DOMAIN s = 1..N
  PROVE  \E h : /\ h[0] = <<>>
                /\ \A k \in 1..N : h[k] = IF Contains(h[k - 1], s[k]) THEN h[k - 1]
                                           ELSE Append(h[k - 1], s[k])
                /\ WithoutDuplicates(s) = h[N]
<1> DEFINE base == <<>>
           Step(kept, v) == IF Contains(kept, v) THEN kept ELSE Append(kept, v)
           F(g, S) == IF S = {} THEN base ELSE Step(g[S \ {Max(S)}], s[Max(S)])
           IsFold(g, n) == g = [S \in SUBSET (1..n) |-> F(g, S)]
<1>1. WithoutDuplicates(s) =
        (CHOOSE g : g = [S \in SUBSET (DOMAIN s) |-> F(g, S)])[DOMAIN s]
  BY DEF WithoutDuplicates, FoldLeft, MapThenFoldSet
<1> HIDE DEF Step, base
<1>2. \A n \in Nat : \E g : IsFold(g, n)
  <2> DEFINE P == {n \in Nat : \E g : IsFold(g, n)}
  <2>1. 0 \in P
    <3> DEFINE g == [S \in SUBSET (1..0) |-> base]
    <3>1. SUBSET (1..0) = {{}}
      OBVIOUS
    <3>2. IsFold(g, 0)
      BY <3>1
    <3>3. QED
      BY <3>2
  <2>2. ASSUME NEW n \in Nat, n \in P PROVE n + 1 \in P
    <3>0. n + 1 \in Nat
      OBVIOUS
    <3>1. PICK g : IsFold(g, n)
      BY <2>2
    <3> DEFINE h == [S \in SUBSET (1..(n + 1)) |-> IF S \subseteq 1..n THEN g[S] ELSE F(g, S)]
    <3>2. ASSUME NEW S \in SUBSET (1..(n + 1)) PROVE h[S] = F(h, S)
      <4>1. CASE S \subseteq 1..n
        <5>1. h[S] = F(g, S)
          BY <3>1, <4>1
        <5>2. S # {} => h[S \ {Max(S)}] = g[S \ {Max(S)}]
          BY <4>1
        <5>3. QED
          BY <5>1, <5>2
      <4>2. CASE ~(S \subseteq 1..n)
        <5>1. S # {} /\ S \ {Max(S)} \subseteq 1..n
          BY <4>2, MaxOfNext
        <5>2. h[S \ {Max(S)}] = g[S \ {Max(S)}]
          BY <5>1
        <5>3. QED
          BY <4>2, <5>1, <5>2
      <4>3. QED
        BY <4>1, <4>2
    <3>3. IsFold(h, n + 1)
      BY <3>2
    <3> HIDE DEF h, IsFold
    <3>4. QED
      BY <3>0, <3>3
  <2>3. QED
    BY <2>1, <2>2, Induct
<1>3. PICK g : IsFold(g, N) /\ WithoutDuplicates(s) = g[1..N]
  BY <1>1, <1>2
<1> DEFINE h == [k \in 0..N |-> g[1..k]]
<1>4. h[0] = base
  BY <1>3
<1>5. ASSUME NEW k \in 1..N PROVE h[k] = Step(h[k - 1], s[k])
  <2>1. (1..k) \in SUBSET (1..((k - 1) + 1)) /\ ~((1..k) \subseteq 1..(k - 1)) /\ k - 1 \in Nat
    OBVIOUS
  <2>0. Max(1..k) = (k - 1) + 1
    BY <2>1, MaxOfNext
  <2>2. Max(1..k) = k
    BY <2>0
  <2>3. (1..k) \ {k} = 1..(k - 1) /\ 1..k \in SUBSET (1..N) /\ 1..k # {}
    OBVIOUS
  <2>4. g[1..k] = Step(g[1..(k - 1)], s[k])
    BY <1>3, <2>2, <2>3
  <2>5. QED
    BY <2>4
<1>6. h[N] = g[1..N]
  OBVIOUS
<1> HIDE DEF h
<1>7. QED
  BY <1>3, <1>4, <1>5, <1>6 DEF Step, base

\* No value occurs twice.
Distinct(s) == \A i, j \in DOMAIN s : s[i] = s[j] => i = j

\* The sequence both loops begin with.
LEMMA EmptySequence ==
  ASSUME NEW V
  PROVE  <<>> \in Seq(V) /\ ToSet(<<>>) = {} /\ Distinct(<<>>)
<1>1. <<>> \in Seq(V) /\ DOMAIN <<>> = {}
  OBVIOUS
<1>2. QED
  BY <1>1 DEF ToSet, Distinct

\* A sequence with one more occurrence.
LEMMA Appended ==
  ASSUME NEW V, NEW s \in Seq(V), NEW v \in V
  PROVE  Append(s, v) \in Seq(V) /\ ToSet(Append(s, v)) = ToSet(s) \union {v}
<1>1. /\ Append(s, v) \in Seq(V) /\ Len(s) \in Nat /\ DOMAIN s = 1..Len(s)
      /\ DOMAIN Append(s, v) = 1..(Len(s) + 1)
      /\ Append(s, v)[Len(s) + 1] = v
      /\ \A i \in 1..Len(s) : Append(s, v)[i] = s[i]
  OBVIOUS
<1>2. 1..(Len(s) + 1) = (1..Len(s)) \union {Len(s) + 1}
  BY <1>1
<1>3. QED
  BY <1>1, <1>2 DEF ToSet

\* Only keeps the occurrences that are among the values.
LEMMA OnlyKeeps ==
  ASSUME NEW V, NEW s \in Seq(V), NEW values
  PROVE  /\ Only(s, values) \in Seq(V)
         /\ ToSet(Only(s, values)) = ToSet(s) \intersect values
<1>0. Len(s) \in Nat /\ DOMAIN s = 1..Len(s)
  OBVIOUS
<1>1. PICK h : /\ h[0] = <<>>
               /\ \A k \in 1..Len(s) : h[k] = IF s[k] \in values THEN Append(h[k - 1], s[k])
                                              ELSE h[k - 1]
               /\ Only(s, values) = h[Len(s)]
  <2>1. PICK N : N = Len(s)
    OBVIOUS
  <2>2. N \in Nat /\ Len(s) = N
    BY <1>0, <2>1
  <2>3. PICK h : /\ h[0] = <<>>
                 /\ \A k \in 1..N : h[k] = IF s[k] \in values THEN Append(h[k - 1], s[k])
                                            ELSE h[k - 1]
                 /\ Only(s, values) = h[N]
    BY <2>2, OnlyTurns
  <2>4. QED
    BY <2>1, <2>3
<1> DEFINE Met(k) == {s[i] : i \in 1..k}
           P == {k \in Nat : k <= Len(s) =>
                   h[k] \in Seq(V) /\ ToSet(h[k]) = Met(k) \intersect values}
<1>2. 0 \in P
  <2>1. h[0] \in Seq(V) /\ ToSet(h[0]) = {} /\ Met(0) = {}
    BY <1>1, EmptySequence
  <2>2. QED
    BY <2>1
<1>3. ASSUME NEW k \in Nat, k \in P PROVE k + 1 \in P
  <2> SUFFICES ASSUME k + 1 <= Len(s)
               PROVE  h[k + 1] \in Seq(V) /\ ToSet(h[k + 1]) = Met(k + 1) \intersect values
    OBVIOUS
  <2>1. k + 1 \in 1..Len(s) /\ (k + 1) - 1 = k /\ s[k + 1] \in V /\ k <= Len(s)
    OBVIOUS
  <2>2. h[k] \in Seq(V) /\ ToSet(h[k]) = Met(k) \intersect values
    BY <1>3, <2>1
  <2>3. 1..(k + 1) = (1..k) \union {k + 1}
    OBVIOUS
  <2>4. Met(k + 1) = Met(k) \union {s[k + 1]}
    BY <2>3
  <2>5. h[k + 1] = IF s[k + 1] \in values THEN Append(h[k], s[k + 1]) ELSE h[k]
    BY <1>1, <2>1
  <2> HIDE DEF Met
  <2>6. QED
    BY <2>1, <2>2, <2>4, <2>5, Appended
<1>4. Len(s) \in P
  BY <1>0, <1>2, <1>3, Induct
<1>5. Met(Len(s)) = ToSet(s)
  BY <1>0 DEF ToSet
<1>6. QED
  BY <1>0, <1>1, <1>4, <1>5

\* WithoutDuplicates keeps every value, once.
LEMMA WithoutDuplicatesKeeps ==
  ASSUME NEW V, NEW s \in Seq(V)
  PROVE  /\ WithoutDuplicates(s) \in Seq(V) /\ Distinct(WithoutDuplicates(s))
         /\ ToSet(WithoutDuplicates(s)) = ToSet(s)
<1>0. Len(s) \in Nat /\ DOMAIN s = 1..Len(s)
  OBVIOUS
<1>1. PICK h : /\ h[0] = <<>>
               /\ \A k \in 1..Len(s) : h[k] = IF Contains(h[k - 1], s[k]) THEN h[k - 1]
                                              ELSE Append(h[k - 1], s[k])
               /\ WithoutDuplicates(s) = h[Len(s)]
  BY <1>0, WithoutDuplicatesTurns
<1> DEFINE Met(k) == {s[i] : i \in 1..k}
           P == {k \in Nat : k <= Len(s) =>
                   h[k] \in Seq(V) /\ Distinct(h[k]) /\ ToSet(h[k]) = Met(k)}
<1>2. 0 \in P
  <2>1. h[0] \in Seq(V) /\ ToSet(h[0]) = {} /\ Met(0) = {} /\ Distinct(h[0])
    BY <1>1, EmptySequence
  <2>2. QED
    BY <2>1
<1>3. ASSUME NEW k \in Nat, k \in P PROVE k + 1 \in P
  <2> SUFFICES ASSUME k + 1 <= Len(s)
               PROVE  /\ h[k + 1] \in Seq(V) /\ Distinct(h[k + 1])
                      /\ ToSet(h[k + 1]) = Met(k + 1)
    OBVIOUS
  <2>1. k + 1 \in 1..Len(s) /\ (k + 1) - 1 = k /\ s[k + 1] \in V /\ k <= Len(s)
    OBVIOUS
  <2>2. h[k] \in Seq(V) /\ Distinct(h[k]) /\ ToSet(h[k]) = Met(k)
    BY <1>3, <2>1
  <2>3. 1..(k + 1) = (1..k) \union {k + 1}
    OBVIOUS
  <2>4. Met(k + 1) = Met(k) \union {s[k + 1]}
    BY <2>3
  <2>5. h[k + 1] = IF Contains(h[k], s[k + 1]) THEN h[k] ELSE Append(h[k], s[k + 1])
    BY <1>1, <2>1
  <2>6. Contains(h[k], s[k + 1]) <=> s[k + 1] \in ToSet(h[k])
    BY <2>2 DEF Contains, ToSet
  <2> HIDE DEF Met
  <2>7. CASE Contains(h[k], s[k + 1])
    BY <2>2, <2>4, <2>5, <2>6, <2>7
  <2>8. CASE ~Contains(h[k], s[k + 1])
    <3>1. h[k + 1] = Append(h[k], s[k + 1])
      BY <2>5, <2>8
    <3>2. ToSet(h[k + 1]) = Met(k) \union {s[k + 1]} /\ h[k + 1] \in Seq(V)
      BY <2>1, <2>2, <3>1, Appended
    <3>3. \A i \in DOMAIN h[k] : h[k][i] # s[k + 1]
      BY <2>6, <2>8 DEF ToSet
    <3>4. Distinct(Append(h[k], s[k + 1]))
      BY <2>1, <2>2, <3>3 DEF Distinct
    <3>5. QED
      BY <2>4, <3>1, <3>2, <3>4
  <2>9. QED
    BY <2>7, <2>8
<1>4. Len(s) \in P
  BY <1>0, <1>2, <1>3, Induct
<1>5. Met(Len(s)) = ToSet(s)
  BY <1>0 DEF ToSet
<1>6. h[Len(s)] \in Seq(V) /\ Distinct(h[Len(s)]) /\ ToSet(h[Len(s)]) = Met(Len(s))
  BY <1>0, <1>4
<1> HIDE DEF Met, P
<1>7. QED
  BY <1>1, <1>5, <1>6

-----------------------------------------------------------------------------
(* Which fields are valid. *)

FieldHolds(f, occurrences) ==
  \A r \in Validators[f].rules : RuleHolds(r, occurrences)

\* A rule with the quantifier 1..1 counts to one.
LEMMA CountsOnce ==
  ASSUME NEW V, NEW s \in Seq(V), NEW values
  PROVE  Cardinality({i \in DOMAIN s : s[i] \in values}) = 1 <=> NamesOnce(s, values)
<1> DEFINE I == {i \in DOMAIN s : s[i] \in values}
<1>1. Len(s) \in Nat /\ DOMAIN s = 1..Len(s)
  OBVIOUS
<1>2. IsFiniteSet(1..Len(s))
  BY <1>1, FS_Interval
<1>3. IsFiniteSet(I)
  BY <1>1, <1>2, FS_Subset, I \in SUBSET (1..Len(s))
<1>4. Cardinality(I) = 1 <=> \E i : I = {i}
  BY <1>3, FS_Singleton
<1>5. QED
  BY <1>4 DEF NamesOnce

\* dc:type is valid when it names one driver type and one status.
LEMMA TypeHolds ==
  ASSUME NEW V, NEW s \in Seq(V)
  PROVE  FieldHolds("type", s) <=> NamesOnce(s, Driver) /\ NamesOnce(s, Status)
<1>1. Validators["type"].rules = {DriverTypeRule, StatusTypeRule}
  BY RepairsAssumption
<1>2. RuleHolds(DriverTypeRule, s) <=> NamesOnce(s, Driver)
  BY CountsOnce DEF RuleHolds, DriverTypeRule
<1>3. RuleHolds(StatusTypeRule, s) <=> NamesOnce(s, Status)
  BY CountsOnce DEF RuleHolds, StatusTypeRule
<1>4. QED
  BY <1>1, <1>2, <1>3 DEF FieldHolds

\* dc:date is valid when one of its occurrences is well formed.
LEMMA DateHolds ==
  ASSUME NEW s
  PROVE  FieldHolds("date", s) <=> ToSet(s) \intersect WellFormed # {}
<1>1. Validators["date"].rules = {DateRule}
  BY RepairsAssumption
<1>2. RuleHolds(DateRule, s) <=> ToSet(s) \intersect WellFormed # {}
  BY DEF RuleHolds, DateRule, ToSet
<1>3. QED
  BY <1>1, <1>2 DEF FieldHolds

\* A record has no fault when its types, its dates and the untouched fields are
\* valid.
LEMMA Faultless ==
  ASSUME NEW m
  PROVE  Faults(ValidFields(m)) = {} <=>
           /\ FieldHolds("type", m["type"]) /\ FieldHolds("date", m["date"])
           /\ \A f \in Untouched : FieldHolds(f, m[f])
<1>1. /\ "type" \in Checked /\ Validators["type"].mandatory
      /\ "date" \in Checked /\ Validators["date"].mandatory
  BY RepairsAssumption
<1>2. \A f \in Checked : f \in ValidFields(m) <=> FieldHolds(f, m[f])
  BY DEF ValidFields, FieldHolds
<1>3. Untouched \subseteq Checked /\ \A f \in Untouched : Validators[f].mandatory
  BY DEF Untouched
<1>4. \A f \in Checked : Validators[f].mandatory => f \in Untouched \union {"type", "date"}
  BY DEF Untouched
<1>5. Faults(ValidFields(m)) = {} <=>
        \A f \in Checked : Validators[f].mandatory => f \in ValidFields(m)
  BY DEF Faults
<1>6. QED
  BY <1>1, <1>2, <1>3, <1>4, <1>5

-----------------------------------------------------------------------------
(* What becomes of the types. *)

Translated(map, s) == [i \in DOMAIN s |-> Replaced(map, s[i])]

\* A translated sequence is as long as the original, each value replaced.
LEMMA TranslatedIs ==
  ASSUME NEW V, NEW s \in Seq(V), NEW map
  PROVE  /\ Translated(map, s) \in Seq(ToSet(Translated(map, s)))
         /\ ToSet(Translated(map, s)) = {Replaced(map, s[i]) : i \in DOMAIN s}
         /\ DOMAIN Translated(map, s) = DOMAIN s /\ Len(Translated(map, s)) = Len(s)
<1>1. Len(s) \in Nat /\ DOMAIN s = 1..Len(s)
  OBVIOUS
<1>2. DOMAIN Translated(map, s) = 1..Len(s)
  BY <1>1 DEF Translated
<1>3. ToSet(Translated(map, s)) = {Replaced(map, s[i]) : i \in DOMAIN s}
  BY DEF ToSet, Translated
<1>4. Translated(map, s) \in [1..Len(s) -> ToSet(Translated(map, s))]
  BY <1>1 DEF Translated, ToSet
<1>5. QED
  BY <1>1, <1>2, <1>3, <1>4

\* Where no value is repeated, naming a value once is naming one value.
LEMMA DistinctNames ==
  ASSUME NEW V, NEW s \in Seq(V), Distinct(s), NEW values
  PROVE  NamesOnce(s, values) <=> \E v : ToSet(s) \intersect values = {v}
<1>1. ASSUME NEW i \in DOMAIN s, {j \in DOMAIN s : s[j] \in values} = {i}
      PROVE  ToSet(s) \intersect values = {s[i]}
  BY <1>1 DEF ToSet
<1>2. ASSUME NEW v, ToSet(s) \intersect values = {v}
      PROVE  NamesOnce(s, values)
  <2>1. PICK i \in DOMAIN s : s[i] = v /\ v \in values
    BY <1>2 DEF ToSet
  <2>2. ASSUME NEW j \in DOMAIN s, s[j] \in values PROVE j = i
    BY <1>2, <2>1, <2>2 DEF ToSet, Distinct
  <2>3. QED
    BY <2>1, <2>2 DEF NamesOnce
<1>3. QED
  BY <1>1, <1>2 DEF NamesOnce

SpeltStatus == Status \union DOMAIN ToStatus

\* Translating statuses touches no driver type, and makes statuses of what
\* spells one.
LEMMA StatusValues ==
  ASSUME NEW v
  PROVE  /\ Replaced(ToStatus, v) \in Driver <=> v \in Driver
         /\ v \in Driver => Replaced(ToStatus, v) = v
         /\ Replaced(ToStatus, v) \in Status <=> v \in SpeltStatus
<1>1. /\ Driver \intersect (Status \union DOMAIN ToStatus) = {}
      /\ \A w \in DOMAIN ToStatus : ToStatus[w] \in Status
  BY RepairsAssumption
<1>2. QED
  BY <1>1 DEF Replaced, SpeltStatus

\* The types as TypeDriver and TypeStatus leave them.
DriverNamed(types) == WithoutDuplicates(Translated(ToDriver, types))

StatusGiven(types) ==
  LET new == Translated(ToStatus, types)
  IN IF \E i \in DOMAIN new : new[i] \in Status THEN new
     ELSE Append(new, PublishedVersion)

StatusNamed(types, once) ==
  IF once THEN WithoutDuplicates(StatusGiven(types)) ELSE StatusGiven(types)

\* TypeStatus leaves the driver types alone; the statuses it makes are those
\* that were spelt, or the default.
LEMMA StatusGivenIs ==
  ASSUME NEW V, NEW s \in Seq(V)
  PROVE  /\ StatusGiven(s) \in Seq(ToSet(StatusGiven(s)))
         /\ NamesOnce(StatusGiven(s), Driver) <=> NamesOnce(s, Driver)
         /\ ToSet(StatusGiven(s)) \intersect Driver = ToSet(s) \intersect Driver
         /\ ToSet(s) \intersect SpeltStatus = {} =>
              /\ NamesOnce(StatusGiven(s), Status)
              /\ ToSet(StatusGiven(s)) \intersect Status = {PublishedVersion}
         /\ ToSet(s) \intersect SpeltStatus # {} =>
              /\ NamesOnce(StatusGiven(s), Status) <=> NamesOnce(s, SpeltStatus)
              /\ ToSet(StatusGiven(s)) \intersect Status =
                   {Replaced(ToStatus, v) : v \in ToSet(s) \intersect SpeltStatus}
<1> DEFINE new == Translated(ToStatus, s)
<1>1. /\ Len(s) \in Nat /\ DOMAIN s = 1..Len(s) /\ DOMAIN new = 1..Len(s)
      /\ new \in Seq(ToSet(new)) /\ Len(new) = Len(s)
      /\ \A i \in 1..Len(s) : new[i] = Replaced(ToStatus, s[i])
  BY TranslatedIs DEF Translated
<1>2. \A i \in 1..Len(s) : /\ new[i] \in Driver <=> s[i] \in Driver
                           /\ s[i] \in Driver => new[i] = s[i]
                           /\ new[i] \in Status <=> s[i] \in SpeltStatus
  BY <1>1, StatusValues
<1> HIDE DEF new
<1>3. {i \in DOMAIN new : new[i] \in Driver} = {i \in DOMAIN s : s[i] \in Driver}
  BY <1>1, <1>2
<1>4. {i \in DOMAIN new : new[i] \in Status} = {i \in DOMAIN s : s[i] \in SpeltStatus}
  BY <1>1, <1>2
<1>5. (\E i \in DOMAIN new : new[i] \in Status) <=> ToSet(s) \intersect SpeltStatus # {}
  BY <1>1, <1>2 DEF ToSet
<1>6. ToSet(new) \intersect Driver = ToSet(s) \intersect Driver
  BY <1>1, <1>2 DEF ToSet
<1>7. CASE ToSet(s) \intersect SpeltStatus # {}
  <2>1. StatusGiven(s) = new
    BY <1>5, <1>7 DEF StatusGiven, new
  <2>2. NamesOnce(new, Driver) <=> NamesOnce(s, Driver)
    BY <1>1, <1>3 DEF NamesOnce
  <2>3. NamesOnce(new, Status) <=> NamesOnce(s, SpeltStatus)
    BY <1>1, <1>4 DEF NamesOnce
  <2>4. ToSet(new) \intersect Status =
          {Replaced(ToStatus, v) : v \in ToSet(s) \intersect SpeltStatus}
    BY <1>1, <1>2 DEF ToSet
  <2>5. QED
    BY <1>1, <1>6, <1>7, <2>1, <2>2, <2>3, <2>4
<1>8. CASE ToSet(s) \intersect SpeltStatus = {}
  <2> DEFINE full == Append(new, PublishedVersion)
             n == Len(s) + 1
  <2>1. StatusGiven(s) = full
    BY <1>5, <1>8 DEF StatusGiven, new
  <2>2. PublishedVersion \in Status /\ PublishedVersion \notin Driver
    BY RepairsAssumption
  <2>3. /\ n \in Nat /\ n \notin 1..Len(s) /\ DOMAIN full = (1..Len(s)) \union {n}
        /\ full[n] = PublishedVersion /\ \A i \in 1..Len(s) : full[i] = new[i]
    BY <1>1
  <2>4. full \in Seq(ToSet(new) \union {PublishedVersion})
        /\ ToSet(full) = ToSet(new) \union {PublishedVersion}
    <3>1. new \in Seq(ToSet(new) \union {PublishedVersion})
      BY <1>1
    <3>2. QED
      BY <3>1, Appended
  <2> HIDE DEF full, n
  <2>5. {i \in DOMAIN full : full[i] \in Driver} = {i \in DOMAIN s : s[i] \in Driver}
    BY <1>1, <1>2, <2>2, <2>3
  <2>6. {i \in DOMAIN full : full[i] \in Status} = {n}
    BY <1>1, <1>5, <1>8, <2>2, <2>3
  <2>7. NamesOnce(full, Driver) <=> NamesOnce(s, Driver)
    BY <1>1, <2>3, <2>5 DEF NamesOnce
  <2>8. NamesOnce(full, Status)
    BY <2>3, <2>6 DEF NamesOnce
  <2>9. ToSet(full) \intersect Driver = ToSet(s) \intersect Driver
    BY <1>6, <2>2, <2>4
  <2>10. ToSet(new) \intersect Status = {}
    BY <1>5, <1>8 DEF ToSet
  <2>11. ToSet(full) \intersect Status = {PublishedVersion}
    BY <2>2, <2>4, <2>10
  <2>12. QED
    BY <1>8, <2>1, <2>4, <2>7, <2>8, <2>9, <2>11
<1>9. QED
  BY <1>7, <1>8

\* Counting values.
LEMMA ImageIsFinite ==
  ASSUME NEW S, IsFiniteSet(S), NEW f, DOMAIN f = S
  PROVE  IsFiniteSet({f[x] : x \in S})
<1> DEFINE T == {f[x] : x \in S}
           g == [x \in S |-> f[x]]
<1>1. g \in Surjection(S, T)
  BY DEF Surjection
<1>2. QED
  BY <1>1, FS_Surjection

LEMMA NamedIsFinite ==
  ASSUME NEW V, NEW s \in Seq(V)
  PROVE  IsFiniteSet(ToSet(s))
<1>1. Len(s) \in Nat /\ DOMAIN s = 1..Len(s)
  OBVIOUS
<1>2. IsFiniteSet(1..Len(s))
  BY <1>1, FS_Interval
<1>3. IsFiniteSet({s[i] : i \in DOMAIN s})
  BY <1>1, <1>2, ImageIsFinite
<1>4. QED
  BY <1>3 DEF ToSet

LEMMA OneOrNone ==
  ASSUME NEW S, IsFiniteSet(S)
  PROVE  /\ Cardinality(S) = 1 <=> \E v : S = {v}
         /\ Cardinality(S) <= 1 <=> S = {} \/ \E v : S = {v}
<1>1. Cardinality(S) \in Nat
  BY FS_CardinalityType
<1>2. Cardinality(S) = 1 <=> \E v : S = {v}
  BY FS_Singleton
<1>3. Cardinality(S) = 0 <=> S = {}
  BY FS_EmptySet
<1>4. Cardinality(S) <= 1 <=> Cardinality(S) = 0 \/ Cardinality(S) = 1
  BY <1>1
<1>5. QED
  BY <1>2, <1>3, <1>4

\* What TypeDriver and TypeStatus make of types is valid exactly when, replaced
\* and without repetitions, they name one driver type and one status at most.
LEMMA TypesRepaired ==
  ASSUME NEW V, NEW types \in Seq(V), NEW once \in BOOLEAN
  PROVE  LET named == {Replaced(ToDriver, types[i]) : i \in DOMAIN types}
             spelt == named \intersect (Status \union DOMAIN ToStatus)
         IN FieldHolds("type", StatusNamed(DriverNamed(types), once)) <=>
              /\ Cardinality(named \intersect Driver) = 1
              /\ Cardinality(IF once THEN {Replaced(ToStatus, v) : v \in spelt}
                             ELSE spelt) <= 1
<1> DEFINE named == {Replaced(ToDriver, types[i]) : i \in DOMAIN types}
           spelt == named \intersect SpeltStatus
           statuses == {Replaced(ToStatus, v) : v \in spelt}
           d == DriverNamed(types)
           full == StatusGiven(d)
           e == StatusNamed(d, once)
<1>1. d \in Seq(named) /\ Distinct(d) /\ ToSet(d) = named
  <2>1. /\ Translated(ToDriver, types) \in Seq(ToSet(Translated(ToDriver, types)))
        /\ ToSet(Translated(ToDriver, types)) = named
    BY TranslatedIs
  <2> HIDE DEF named
  <2>2. QED
    BY <2>1, WithoutDuplicatesKeeps DEF DriverNamed
<1>2. IsFiniteSet(named)
  BY <1>1, NamedIsFinite
<1>3. IsFiniteSet(spelt) /\ IsFiniteSet(named \intersect Driver)
  BY <1>2, FS_Subset, spelt \in SUBSET named, named \intersect Driver \in SUBSET named
<1>4. IsFiniteSet(statuses)
  <2> DEFINE f == [v \in spelt |-> Replaced(ToStatus, v)]
  <2>1. IsFiniteSet({f[v] : v \in spelt})
    BY <1>3, ImageIsFinite
  <2>2. statuses = {f[v] : v \in spelt}
    OBVIOUS
  <2>3. QED
    BY <2>1, <2>2
<1> HIDE DEF named, d, full
<1>5. /\ full \in Seq(ToSet(full))
      /\ NamesOnce(full, Driver) <=> NamesOnce(d, Driver)
      /\ ToSet(full) \intersect Driver = named \intersect Driver
      /\ spelt = {} =>
           /\ NamesOnce(full, Status)
           /\ ToSet(full) \intersect Status = {PublishedVersion}
      /\ spelt # {} =>
           /\ NamesOnce(full, Status) <=> NamesOnce(d, SpeltStatus)
           /\ ToSet(full) \intersect Status = statuses
  BY <1>1, StatusGivenIs DEF full
<1>6. NamesOnce(d, Driver) <=> \E v : named \intersect Driver = {v}
  BY <1>1, DistinctNames
<1>7. NamesOnce(d, SpeltStatus) <=> \E v : spelt = {v}
  BY <1>1, DistinctNames
<1>8. CASE once
  <2>1. e = WithoutDuplicates(full)
    BY <1>8 DEF StatusNamed, full
  <2>2. e \in Seq(ToSet(full)) /\ Distinct(e) /\ ToSet(e) = ToSet(full)
    BY <1>5, <2>1, WithoutDuplicatesKeeps
  <2> HIDE DEF e, spelt
  <2>3. NamesOnce(e, Driver) <=> \E v : named \intersect Driver = {v}
    <3>1. NamesOnce(e, Driver) <=> \E v : ToSet(e) \intersect Driver = {v}
      BY <2>2, DistinctNames
    <3>2. QED
      BY <1>5, <2>2, <3>1
  <2>4. NamesOnce(e, Status) <=> \E v : ToSet(full) \intersect Status = {v}
    <3>1. NamesOnce(e, Status) <=> \E v : ToSet(e) \intersect Status = {v}
      BY <2>2, DistinctNames
    <3>2. QED
      BY <2>2, <3>1
  <2>5. (\E v : ToSet(full) \intersect Status = {v}) <=>
          statuses = {} \/ \E v : statuses = {v}
    <3>1. spelt = {} <=> statuses = {}
      OBVIOUS
    <3> HIDE DEF statuses
    <3>2. CASE spelt = {}
      BY <1>5, <3>1, <3>2
    <3>3. CASE spelt # {}
      BY <1>5, <3>1, <3>3
    <3>4. QED
      BY <3>2, <3>3
  <2>6. FieldHolds("type", e) <=> NamesOnce(e, Driver) /\ NamesOnce(e, Status)
    BY <2>2, TypeHolds
  <2> HIDE DEF statuses
  <2>7. FieldHolds("type", e) <=> Cardinality(named \intersect Driver) = 1
                                  /\ Cardinality(statuses) <= 1
    BY <1>3, <1>4, <2>3, <2>4, <2>5, <2>6, OneOrNone
  <2>8. QED
    BY <1>8, <2>7 DEF d, e, named, spelt, statuses, SpeltStatus
<1>9. CASE ~once
  <2>1. e = full
    BY <1>9 DEF StatusNamed, full
  <2> HIDE DEF e, spelt, statuses
  <2>2. FieldHolds("type", e) <=> NamesOnce(full, Driver) /\ NamesOnce(full, Status)
    BY <1>5, <2>1, TypeHolds
  <2>3. NamesOnce(full, Status) <=> spelt = {} \/ \E v : spelt = {v}
    <3>1. CASE spelt = {}
      BY <1>5, <3>1
    <3>2. CASE spelt # {}
      BY <1>5, <1>7, <3>2
    <3>3. QED
      BY <3>1, <3>2
  <2>4. FieldHolds("type", e) <=> Cardinality(named \intersect Driver) = 1
                                  /\ Cardinality(spelt) <= 1
    BY <1>3, <1>5, <1>6, <2>2, <2>3, OneOrNone
  <2>5. QED
    BY <1>9, <2>4 DEF d, e, named, spelt, SpeltStatus
<1>10. QED
  BY <1>8, <1>9

-----------------------------------------------------------------------------
(* The turns of the transformers of lr.validator. *)

\* A transformer's turn is passed over where it is not needed, and taken
\* otherwise.
LEMMA TurnPassed ==
  ASSUME NEW t, NEW x, NEW valid, ~t.applyIfValid, t.field \in valid
  PROVE  AfterTurn(t, x, valid) = x
  BY DEF AfterTurn

LEMMA TurnTaken ==
  ASSUME NEW t, NEW x, NEW valid, x.failed = FALSE, t.field \in Checked,
         ~(~t.applyIfValid /\ t.field \in valid)
  PROVE  /\ AfterTurn(t, x, valid).failed = FALSE
         /\ AfterTurn(t, x, valid).metadata = Apply(t, x.metadata).metadata
<1>1. AfterTurn(t, x, valid) =
        [metadata |-> Apply(t, x.metadata).metadata,
         transformed |-> x.transformed \/ Apply(t, x.metadata).transformed,
         failed |-> FALSE]
  BY Zenon DEF AfterTurn
<1>2. QED
  BY <1>1

\* After, where only one field's occurrences differ from before.
Sets(after, before, f, occurrences) ==
  /\ after.failed = FALSE
  /\ after.metadata = [before.metadata EXCEPT ![f] = occurrences]

\* What each of the transformers does in its turn.
LEMMA DriverTurn ==
  ASSUME NEW x, NEW valid, x.failed = FALSE
  PROVE  /\ "type" \in valid => AfterTurn(TypeDriver, x, valid) = x
         /\ "type" \notin valid =>
              Sets(AfterTurn(TypeDriver, x, valid), x, "type",
                   DriverNamed(x.metadata["type"]))
<1>1. TypeDriver.field = "type" /\ TypeDriver.applyIfValid = FALSE /\ "type" \in Checked
  BY RepairsAssumption DEF TypeDriver, Translation
<1>2. Apply(TypeDriver, x.metadata).metadata =
        [x.metadata EXCEPT !["type"] = DriverNamed(x.metadata["type"])]
  BY DEF Apply, TypeDriver, Translation, TranslateContent, DriverNamed, Translated
<1>3. PICK t : t = TypeDriver
  OBVIOUS
<1>4. "type" \in valid => AfterTurn(t, x, valid) = x
  BY <1>1, <1>3, TurnPassed
<1>5. "type" \notin valid =>
        /\ AfterTurn(t, x, valid).failed = FALSE
        /\ AfterTurn(t, x, valid).metadata = Apply(t, x.metadata).metadata
  BY <1>1, <1>3, TurnTaken
<1>6. QED
  BY <1>2, <1>3, <1>4, <1>5 DEF Sets

\* What TypeStatus does to the types.
LEMMA StatusApplied ==
  ASSUME NEW m, NEW once \in BOOLEAN
  PROVE  Apply(TypeStatus(once), m).metadata =
           [m EXCEPT !["type"] = StatusNamed(m["type"], once)]
<1> DEFINE t == TypeStatus(once)
           old == m["type"]
           new == Translated(ToStatus, old)
<1>1. /\ t.kind = "TranslateContent" /\ t.field = "type" /\ t.accepts = Status
      /\ t.map = ToStatus /\ t.default = PublishedVersion /\ ~t.deleteInvalid
      /\ t.deleteDuplicates = once
  BY DEF TypeStatus, Translation
<1>2. PublishedVersion # NoDefault
  BY RepairsAssumption
<1>3. Apply(t, m).metadata = TranslateContent(t, m).metadata
  BY <1>1 DEF Apply
<1> HIDE DEF t
<1>4. new = [i \in DOMAIN old |-> Replaced(t.map, old[i])]
  BY <1>1 DEF Translated
<1>5. DOMAIN new = DOMAIN old
  BY DEF Translated
<1>6. TranslateContent(t, m).metadata =
        [m EXCEPT !["type"] =
           IF once THEN WithoutDuplicates(IF ~\E i \in DOMAIN new : new[i] \in Status
                                          THEN Append(new, PublishedVersion) ELSE new)
           ELSE IF ~\E i \in DOMAIN new : new[i] \in Status
                THEN Append(new, PublishedVersion) ELSE new]
  BY <1>1, <1>2, <1>4, <1>5 DEF TranslateContent
<1> HIDE DEF new
<1>7. (IF ~\E i \in DOMAIN new : new[i] \in Status
       THEN Append(new, PublishedVersion) ELSE new) = StatusGiven(old)
  BY DEF StatusGiven, new
<1>8. QED
  BY <1>3, <1>6, <1>7 DEF StatusNamed, t

LEMMA StatusTurn ==
  ASSUME NEW x, NEW once \in BOOLEAN, NEW valid, x.failed = FALSE
  PROVE  /\ "type" \in valid => AfterTurn(TypeStatus(once), x, valid) = x
         /\ "type" \notin valid =>
              Sets(AfterTurn(TypeStatus(once), x, valid), x, "type",
                   StatusNamed(x.metadata["type"], once))
<1>1. /\ TypeStatus(once).field = "type" /\ TypeStatus(once).applyIfValid = FALSE
      /\ "type" \in Checked
  BY RepairsAssumption DEF TypeStatus, Translation
<1>2. PICK t : t = TypeStatus(once)
  OBVIOUS
<1>3. "type" \in valid => AfterTurn(t, x, valid) = x
  BY <1>1, <1>2, TurnPassed
<1>4. "type" \notin valid =>
        /\ AfterTurn(t, x, valid).failed = FALSE
        /\ AfterTurn(t, x, valid).metadata = Apply(t, x.metadata).metadata
  BY <1>1, <1>2, TurnTaken
<1>5. QED
  BY <1>2, <1>3, <1>4, StatusApplied DEF Sets

LEMMA DateTurn ==
  ASSUME NEW x, NEW valid, x.failed = FALSE
  PROVE  Sets(AfterTurn(DateInvalid, x, valid), x, "date",
              Only(x.metadata["date"], WellFormed))
<1>1. DateInvalid.field = "date" /\ DateInvalid.applyIfValid /\ "date" \in Checked
  BY RepairsAssumption DEF DateInvalid
<1>2. Apply(DateInvalid, x.metadata).metadata =
        [x.metadata EXCEPT !["date"] = Only(x.metadata["date"], WellFormed)]
  BY DEF Apply, DateInvalid, RemoveInvalidOccurrence
<1>3. PICK t : t = DateInvalid
  OBVIOUS
<1>4. t.field \in Checked /\ ~(~t.applyIfValid /\ t.field \in valid)
  BY <1>1, <1>3
<1>5. /\ AfterTurn(t, x, valid).failed = FALSE
      /\ AfterTurn(t, x, valid).metadata = Apply(t, x.metadata).metadata
  BY <1>4, TurnTaken
<1>6. QED
  BY <1>2, <1>3, <1>5 DEF Sets

\* The others change a field of their own.
LEMMA OtherTurn ==
  ASSUME NEW x, NEW valid, x.failed = FALSE, NEW t \in ToSet(Others)
  PROVE  \/ AfterTurn(t, x, valid) = x
         \/ \E occurrences : Sets(AfterTurn(t, x, valid), x, t.field, occurrences)
<1>1. t.kind = "TranslateContent" /\ t.field \in Checked
  BY RepairsAssumption
<1>2. \E occurrences : Apply(t, x.metadata).metadata =
                         [x.metadata EXCEPT ![t.field] = occurrences]
  BY <1>1 DEF Apply, TranslateContent
<1>3. CASE ~t.applyIfValid /\ t.field \in valid
  BY <1>3, TurnPassed
<1>4. CASE ~(~t.applyIfValid /\ t.field \in valid)
  <2>1. /\ AfterTurn(t, x, valid).failed = FALSE
        /\ AfterTurn(t, x, valid).metadata = Apply(t, x.metadata).metadata
    BY <1>1, <1>4, TurnTaken
  <2>2. QED
    BY <1>2, <2>1 DEF Sets
<1>5. QED
  BY <1>3, <1>4

\* None of them fails, and together they rewrite the types, where these are not
\* valid as they came, drop the dates that are not well formed and leave the
\* fields that must be valid alone.
LEMMA LRTransforms ==
  ASSUME NEW m, DOMAIN m = Fields, NEW once \in BOOLEAN, NEW valid
  PROVE  LET change == Transform(LRTransformer(once), m, valid)
         IN /\ ~change.failed
            /\ change.metadata["type"] = IF "type" \in valid THEN m["type"]
                 ELSE StatusNamed(DriverNamed(m["type"]), once)
            /\ change.metadata["date"] = Only(m["date"], WellFormed)
            /\ \A f \in Untouched : change.metadata[f] = m[f]
<1> DEFINE ts == LRTransformer(once)
           L == Len(Others)
           types == IF "type" \in valid THEN m["type"]
                    ELSE StatusNamed(DriverNamed(m["type"]), once)
<1>1. /\ "type" \in Fields /\ "date" \in Fields /\ "type" \in Checked /\ "date" \in Checked
      /\ \A f \in Untouched : f \in Fields /\ f # "type" /\ f # "date"
  BY RepairsAssumption DEF Untouched
<1>2. \A t \in ToSet(Others) :
        /\ t.field \in Checked /\ t.field # "type" /\ t.field # "date" /\ t.field \notin Untouched
  BY RepairsAssumption DEF Untouched
<1>3. /\ L \in Nat /\ DOMAIN Others = 1..L /\ DOMAIN ts = 1..(L + 3)
      /\ ts[1] = TypeDriver /\ ts[2] = TypeStatus(once) /\ ts[3] = DateInvalid
      /\ \A k \in 4..(L + 3) : ts[k] = Others[k - 3]
  BY RepairsAssumption DEF LRTransformer
<1>4. \A k \in 4..(L + 3) : ts[k] \in ToSet(Others)
  BY <1>3 DEF ToSet
<1> HIDE DEF ts, L
<1>5. L + 3 \in Nat /\ 1 \in 1..(L + 3) /\ 2 \in 1..(L + 3) /\ 3 \in 1..(L + 3)
  BY <1>3
<1>6. PICK h : /\ h[0] = Untransformed(m)
               /\ \A k \in 1..(L + 3) : h[k] = AfterTurn(ts[k], h[k - 1], valid)
               /\ Transform(ts, m, valid) = h[L + 3]
  <2>1. PICK n \in Nat : n = L + 3
    BY <1>5
  <2>2. DOMAIN ts = 1..n
    BY <1>3, <2>1
  <2>3. \E h : /\ h[0] = Untransformed(m)
               /\ \A k \in 1..n : h[k] = AfterTurn(ts[k], h[k - 1], valid)
               /\ Transform(ts, m, valid) = h[n]
    BY <2>2, TransformTurns
  <2>4. QED
    BY <2>1, <2>3
<1>7. h[1] = AfterTurn(TypeDriver, h[0], valid) /\ h[2] = AfterTurn(TypeStatus(once), h[1], valid)
      /\ h[3] = AfterTurn(DateInvalid, h[2], valid)
  <2>1. 1 - 1 = 0 /\ 2 - 1 = 1 /\ 3 - 1 = 2
    OBVIOUS
  <2>2. QED
    BY <1>3, <1>5, <1>6, <2>1
<1>8. h[0].failed = FALSE /\ h[0].metadata = m
  BY <1>6 DEF Untransformed
<1>9. h[1].failed = FALSE
      /\ h[1].metadata = IF "type" \in valid THEN m
                         ELSE [m EXCEPT !["type"] = DriverNamed(m["type"])]
  <2>1. PICK x : x = h[0]
    OBVIOUS
  <2>2. x.failed = FALSE
    BY <1>8, <2>1
  <2>3. /\ "type" \in valid => AfterTurn(TypeDriver, x, valid) = x
        /\ "type" \notin valid =>
             Sets(AfterTurn(TypeDriver, x, valid), x, "type",
                   DriverNamed(x.metadata["type"]))
    BY <2>2, DriverTurn
  <2>4. h[1] = AfterTurn(TypeDriver, x, valid) /\ x.metadata = m
    BY <1>7, <1>8, <2>1
  <2>5. QED
    BY <2>2, <2>3, <2>4 DEF Sets
<1>10. h[2].failed = FALSE
       /\ h[2].metadata = IF "type" \in valid THEN m
            ELSE [h[1].metadata EXCEPT !["type"] = StatusNamed(h[1].metadata["type"], once)]
  <2>1. PICK x : x = h[1]
    OBVIOUS
  <2>2. x.failed = FALSE
    BY <1>9, <2>1
  <2>3. /\ "type" \in valid => AfterTurn(TypeStatus(once), x, valid) = x
        /\ "type" \notin valid =>
             Sets(AfterTurn(TypeStatus(once), x, valid), x, "type",
                   StatusNamed(x.metadata["type"], once))
    BY <2>2, StatusTurn
  <2>4. h[2] = AfterTurn(TypeStatus(once), x, valid)
    BY <1>7, <2>1
  <2>5. QED
    BY <1>9, <2>1, <2>2, <2>3, <2>4 DEF Sets
<1>11. DOMAIN h[2].metadata = Fields /\ h[2].metadata["type"] = types
       /\ \A f \in Fields \ {"type"} : h[2].metadata[f] = m[f]
  <2>1. CASE "type" \in valid
    BY <1>10, <2>1
  <2>2. CASE "type" \notin valid
    <3>1. h[1].metadata = [m EXCEPT !["type"] = DriverNamed(m["type"])]
      BY <1>9, <2>2
    <3>2. h[1].metadata["type"] = DriverNamed(m["type"]) /\ DOMAIN h[1].metadata = Fields
          /\ \A f \in Fields \ {"type"} : h[1].metadata[f] = m[f]
      BY <1>1, <3>1
    <3>3. h[2].metadata =
            [h[1].metadata EXCEPT !["type"] = StatusNamed(h[1].metadata["type"], once)]
      BY <1>10, <2>2
    <3>4. QED
      BY <1>1, <2>2, <3>2, <3>3
  <2>3. QED
    BY <2>1, <2>2
<1>12. h[3].failed = FALSE
       /\ h[3].metadata = [h[2].metadata EXCEPT !["date"] = Only(h[2].metadata["date"], WellFormed)]
  <2>1. PICK x : x = h[2]
    OBVIOUS
  <2>2. x.failed = FALSE
    BY <1>10, <2>1
  <2>3. Sets(AfterTurn(DateInvalid, x, valid), x, "date",
              Only(x.metadata["date"], WellFormed))
    BY <2>2, DateTurn
  <2>4. QED
    BY <1>7, <2>1, <2>3 DEF Sets
<1> DEFINE Good(x) ==
             /\ x.failed = FALSE /\ DOMAIN x.metadata = Fields
             /\ x.metadata["type"] = types
             /\ x.metadata["date"] = Only(m["date"], WellFormed)
             /\ \A f \in Untouched : x.metadata[f] = m[f]
<1>13. Good(h[3])
  BY <1>1, <1>11, <1>12
<1>14. ASSUME NEW x, NEW t \in ToSet(Others), Good(x)
       PROVE  Good(AfterTurn(t, x, valid))
  <2>1. x.failed = FALSE
    BY <1>14
  <2>2. CASE AfterTurn(t, x, valid) = x
    BY <1>14, <2>2
  <2>3. CASE AfterTurn(t, x, valid) # x
    <3>1. PICK occurrences : Sets(AfterTurn(t, x, valid), x, t.field, occurrences)
      BY <2>1, <2>3, OtherTurn
    <3> HIDE DEF types
    <3>2. QED
      BY <1>1, <1>2, <1>14, <3>1 DEF Sets
  <2>4. QED
    BY <2>2, <2>3
<1> HIDE DEF Good
<1> DEFINE P == {k \in Nat : k <= L => Good(h[k + 3])}
<1>15. 0 \in P
  BY <1>13
<1>16. ASSUME NEW k \in Nat, k \in P PROVE k + 1 \in P
  <2> SUFFICES ASSUME k + 1 <= L PROVE Good(h[(k + 1) + 3])
    OBVIOUS
  <2>1. k + 4 \in 4..(L + 3) /\ k + 4 \in 1..(L + 3) /\ (k + 4) - 1 = k + 3 /\ (k + 1) + 3 = k + 4
        /\ k <= L
    BY <1>3
  <2>2. h[k + 4] = AfterTurn(ts[k + 4], h[k + 3], valid)
    BY <1>6, <2>1
  <2>3. QED
    BY <1>4, <1>14, <1>16, <2>1, <2>2
<1>17. L \in P
  BY <1>3, <1>15, <1>16, Induct
<1>18. Good(h[L + 3])
  BY <1>3, <1>17
<1>19. QED
  BY <1>6, <1>18 DEF Good, ts

-----------------------------------------------------------------------------
(* The judgement. *)

\* A record is judged VALID exactly when it is repairable.
LEMMA Judged ==
  ASSUME NEW s \in Snapshots, NEW m \in Harvestable[s], NEW once \in BOOLEAN,
         conf.transformers = LRTransformer(once)
  PROVE  Examined(m).status = "VALID" <=> Repairable(m, once)
<1> DEFINE valid == ValidFields(m)
           change == Transform(LRTransformer(once), m, valid)
           after == change.metadata
           types == m["type"]
           named == {Replaced(ToDriver, types[i]) : i \in DOMAIN types}
           spelt == named \intersect (Status \union DOMAIN ToStatus)
           OneEach == /\ Cardinality(named \intersect Driver) = 1
                      /\ Cardinality(IF once THEN {Replaced(ToStatus, v) : v \in spelt}
                                     ELSE spelt) <= 1
           AsTheyCame == NamesOnce(types, Driver) /\ NamesOnce(types, Status)
           Kept == \A f \in Untouched : FieldHolds(f, m[f])
           Dated == ToSet(m["date"]) \intersect WellFormed # {}
<1>1. /\ DOMAIN m = Fields /\ \A f \in Fields : m[f] \in Seq(ToSet(m[f]))
      /\ "type" \in Fields /\ "date" \in Fields /\ "type" \in Checked
  BY RepairsAssumption
<1>2. types \in Seq(ToSet(types)) /\ m["date"] \in Seq(ToSet(m["date"]))
  BY <1>1
<1>3. /\ after["type"] = IF "type" \in valid THEN types
                         ELSE StatusNamed(DriverNamed(types), once)
      /\ after["date"] = Only(m["date"], WellFormed)
      /\ \A f \in Untouched : after[f] = m[f]
  BY <1>1, LRTransforms
<1>4. Examined(m).status = "VALID" <=> Faults(ValidFields(after)) = {}
  BY DEF Examined
<1>5. Faults(ValidFields(after)) = {} <=>
        /\ FieldHolds("type", after["type"]) /\ FieldHolds("date", after["date"])
        /\ \A f \in Untouched : FieldHolds(f, after[f])
  BY Faultless
<1>6. (\A f \in Untouched : FieldHolds(f, after[f])) <=> Kept
  BY <1>3
<1>7. FieldHolds("date", after["date"]) <=> Dated
  <2>1. ToSet(after["date"]) = ToSet(m["date"]) \intersect WellFormed
    BY <1>2, <1>3, OnlyKeeps
  <2>2. FieldHolds("date", after["date"]) <=> ToSet(after["date"]) \intersect WellFormed # {}
    BY DateHolds
  <2> HIDE DEF after
  <2>3. QED
    BY <2>1, <2>2
<1>8. "type" \in valid <=> FieldHolds("type", types)
  BY <1>1 DEF ValidFields, FieldHolds
<1>9. FieldHolds("type", types) <=> AsTheyCame
  BY <1>2, TypeHolds
<1>10. FieldHolds("type", StatusNamed(DriverNamed(types), once)) <=> OneEach
  BY <1>2, TypesRepaired
<1>11. FieldHolds("type", after["type"]) <=> AsTheyCame \/ OneEach
  <2>1. CASE "type" \in valid
    BY <1>3, <1>8, <1>9, <2>1
  <2>2. CASE "type" \notin valid
    BY <1>3, <1>8, <1>9, <1>10, <2>2
  <2>3. QED
    BY <2>1, <2>2
<1>12. Kept <=> Untouched \subseteq valid
  <2>1. Untouched \subseteq Checked
    BY DEF Untouched
  <2>2. QED
    BY <2>1 DEF ValidFields, FieldHolds
<1>13. Dated <=> \E i \in DOMAIN m["date"] : m["date"][i] \in WellFormed
  BY DEF ToSet
<1>14. Repairable(m, once) <=> Kept /\ Dated /\ (AsTheyCame \/ OneEach)
  <2>1. Repairable(m, once) <=>
          /\ Untouched \subseteq valid
          /\ \E i \in DOMAIN m["date"] : m["date"][i] \in WellFormed
          /\ AsTheyCame \/ OneEach
    BY DEF Repairable
  <2>2. QED
    BY <1>12, <1>13, <2>1
<1> HIDE DEF Kept, Dated, AsTheyCame, OneEach, after
<1>15. QED
  BY <1>4, <1>5, <1>6, <1>7, <1>11, <1>14

\* The record in the worker's hand is one that it has examined.
HandExamined ==
  hand.step = "save" =>
    \E s \in Snapshots : \E m \in Harvestable[s] : hand = Examined(m)

LEMMA HandExaminedStep ==
  ASSUME HandExamined, [Next]_vars
  PROVE  HandExamined'
<1> USE DEF HandExamined
<1>1. CASE UNCHANGED vars
  BY <1>1 DEF vars, worker, Examined
<1>2. CASE Run
  <2>1. hand' = hand /\ conf' = conf
    BY <1>2 DEF Run, CreateSnapshot, BeginHarvest, Retry, FatalError, StatusStep,
       EndHarvest, Publish, Indexed, EndRun
  <2>2. QED
    BY <2>1 DEF Examined
<1>3. CASE Administrator
  <2>1. hand' = hand /\ conf' = conf
    BY <1>3 DEF Administrator, DeleteAllButLGK, FindLastGoodKnown, Commit,
       DeleteRecordsBySnapshotID, CleanSnapshot, worker
  <2>2. QED
    BY <2>1 DEF Examined
<1>4. CASE BatchArrives \/ EndBatch
  <2>1. hand' = hand /\ conf' = conf
    BY <1>4 DEF BatchArrives, EndBatch, StatusStep
  <2>2. QED
    BY <2>1 DEF Examined
<1>5. ASSUME NEW s \in Snapshots, NEW m \in Harvestable[s], Examine(m)
      PROVE  HandExamined'
  <2>1. conf' = conf /\ (hand' = hand \/ hand' = Examined(m))
    BY <1>5 DEF Examine
  <2>2. QED
    BY <2>1 DEF Examined
<1>6. CASE SaveRecord \/ SaveRecordFails \/ SaveResultFails
  <2>1. hand'.step # "save"
    BY <1>6 DEF SaveRecord, SaveRecordFails, SaveResultFails, Nothing
  <2>2. QED
    BY <2>1
<1>7. ASSUME NEW f \in Checked, SaveResult(f)
      PROVE  HandExamined'
  <2>1. hand'.step # "save"
    BY <1>7 DEF SaveResult, Nothing
  <2>2. QED
    BY <2>1
<1>8. QED
  BY <1>1, <1>2, <1>3, <1>4, <1>5, <1>6, <1>7 DEF Next, Batch

\* Under either configuration of lr.validator a record is judged VALID exactly
\* when it is repairable, for every vocabulary, translation and record that
\* arrives (SnapshotWorker 434-519, TransformerImpl 51-68).
THEOREM Repairing == Spec => []LRRepairs
<1>1. Init => HandExamined
  BY DEF Init, HandExamined, Nothing
<1>2. HandExamined /\ [Next]_vars => HandExamined'
  BY HandExaminedStep
<1>3. HandExamined => LRRepairs
  <2> SUFFICES ASSUME HandExamined, hand.step = "save", NEW once \in BOOLEAN,
                      conf.transformers = LRTransformer(once)
               PROVE  hand.status = "VALID" <=> Repairable(hand.origin, once)
    BY DEF LRRepairs
  <2>1. PICK s \in Snapshots : \E m \in Harvestable[s] : hand = Examined(m)
    BY DEF HandExamined
  <2>2. PICK m \in Harvestable[s] : hand = Examined(m)
    BY <2>1
  <2>3. Examined(m).status = "VALID" <=> Repairable(m, once)
    BY Judged
  <2>4. hand.origin = m
    BY <2>2 DEF Examined
  <2>5. QED
    BY <2>2, <2>3, <2>4
<1>4. QED
  BY <1>1, <1>2, <1>3, PTL DEF Spec

\* Nor do the transformers of lr.validator cost a record: the network loses one
\* only where a save fails (TransformerImpl 51-68, SnapshotWorker 423-532).
NoneDropped ==
  \A once \in BOOLEAN :
    conf.validation /\ conf.transformers = LRTransformer(once) =>
      (spoiled' # spoiled => failures' = failures + 1)

\* Whatever the vocabularies, translations and records: TransformerImpl throws
\* for a field nobody validates, and lr.validator transforms none.
THEOREM Keeping == Spec => [][NoneDropped]_vars
<1>1. Next => NoneDropped
  <2> SUFFICES ASSUME Next PROVE NoneDropped
    OBVIOUS
  <2>1. ASSUME NEW s \in Snapshots, NEW m \in Harvestable[s], Examine(m)
        PROVE  NoneDropped
    <3> SUFFICES ASSUME NEW once \in BOOLEAN, conf.validation,
                        conf.transformers = LRTransformer(once)
                 PROVE  spoiled' = spoiled
      BY DEF NoneDropped
    <3>1. DOMAIN m = Fields
      BY RepairsAssumption
    <3>2. ~Transform(LRTransformer(once), m, ValidFields(m)).failed
      BY <3>1, LRTransforms
    <3>3. ~Examined(m).dropped
      BY <3>2 DEF Examined
    <3>4. QED
      BY <2>1, <3>3 DEF Examine
  <2>2. CASE SaveRecordFails
    BY <2>2 DEF SaveRecordFails, NoneDropped
  <2>3. CASE Run \/ Administrator
    <3>1. spoiled' = spoiled
      BY <2>3 DEF Run, CreateSnapshot, BeginHarvest, Retry, FatalError, StatusStep,
         EndHarvest, Publish, Indexed, EndRun, Administrator, DeleteAllButLGK,
         FindLastGoodKnown, Commit, DeleteRecordsBySnapshotID, CleanSnapshot, history
    <3>2. QED
      BY <3>1 DEF NoneDropped
  <2>4. CASE BatchArrives \/ EndBatch \/ SaveRecord \/ SaveResultFails
              \/ \E f \in Checked : SaveResult(f)
    <3>1. spoiled' = spoiled
      BY <2>4 DEF BatchArrives, EndBatch, StatusStep, SaveRecord, SaveResultFails,
         SaveResult, history
    <3>2. QED
      BY <3>1 DEF NoneDropped
  <2>5. QED
    BY <2>1, <2>2, <2>3, <2>4 DEF Next, Batch
<1>2. UNCHANGED vars => NoneDropped
  BY DEF vars, history, NoneDropped
<1>3. QED
  BY <1>1, <1>2, PTL DEF Spec

=============================================================================
