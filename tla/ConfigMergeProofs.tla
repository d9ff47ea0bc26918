-------------------------- MODULE ConfigMergeProofs -------------------------
(***************************************************************************)
(* Merging the files makes of the checks what the rules of the documents   *)
(* say, save for what is lost: the pointers of existingChecks lead to the  *)
(* last entry of each id, those of stranded checks to an array left behind.*)
(***************************************************************************)
EXTENDS ConfigMerge, TLAPS, FiniteSetTheorems, SequenceTheorems

-----------------------------------------------------------------------------
(***************************************************************************)
(* The places of a finite set of integers, and what Picked takes.          *)
(***************************************************************************)
Below(P, i) == {j \in P : j < i}
Rank(P) == [i \in P |-> Cardinality(Below(P, i))]

LEMMA BelowIsSmaller ==
  ASSUME NEW P \in SUBSET Int, IsFiniteSet(P), NEW i \in P
  PROVE  IsFiniteSet(Below(P, i)) /\ Cardinality(Below(P, i)) \in 0..(Cardinality(P) - 1)
<1>1. Below(P, i) \in SUBSET P /\ Below(P, i) # P
  BY DEF Below
<1>2. /\ IsFiniteSet(Below(P, i))
      /\ Cardinality(Below(P, i)) <= Cardinality(P)
      /\ Cardinality(Below(P, i)) # Cardinality(P)
  BY <1>1, FS_Subset
<1>3. Cardinality(P) \in Nat /\ Cardinality(Below(P, i)) \in Nat
  BY <1>2, FS_CardinalityType
<1> QED BY <1>2, <1>3

LEMMA RanksGrow ==
  ASSUME NEW P \in SUBSET Int, IsFiniteSet(P), NEW i \in P, NEW k \in P, i < k
  PROVE  Cardinality(Below(P, i)) < Cardinality(Below(P, k))
<1> i \in Int /\ k \in Int
  OBVIOUS
<1>1. Below(P, i) \in SUBSET Below(P, k) /\ Below(P, i) # Below(P, k)
  <2>1. Below(P, i) \in SUBSET Below(P, k)
    <3>1. \A j \in P : j < i => j < k
      OBVIOUS
    <3> QED BY <3>1 DEF Below
  <2>2. i \in Below(P, k) /\ i \notin Below(P, i)
    BY DEF Below
  <2> QED BY <2>1, <2>2
<1>2. IsFiniteSet(Below(P, k))
  BY BelowIsSmaller
<1>3. /\ Cardinality(Below(P, i)) <= Cardinality(Below(P, k))
      /\ Cardinality(Below(P, i)) # Cardinality(Below(P, k))
  BY <1>1, <1>2, FS_Subset
<1>4. Cardinality(Below(P, i)) \in Int /\ Cardinality(Below(P, k)) \in Int
  BY BelowIsSmaller
<1> QED BY <1>3, <1>4

LEMMA RanksAreAll ==
  ASSUME NEW P \in SUBSET Int, IsFiniteSet(P), NEW n \in 0..(Cardinality(P) - 1)
  PROVE  \E i \in P : Cardinality(Below(P, i)) = n
<1> DEFINE T == 0..(Cardinality(P) - 1)
<1>1. Cardinality(P) \in Nat
  BY FS_CardinalityType
<1>2. IsFiniteSet(T) /\ Cardinality(T) = Cardinality(P)
  BY <1>1, FS_Interval
<1>3. Rank(P) \in [P -> T]
  BY BelowIsSmaller DEF Rank
<1>4. ASSUME NEW i \in P, NEW k \in P, i # k
      PROVE  Rank(P)[i] # Rank(P)[k]
  <2>1. i \in Int /\ k \in Int /\ (i < k \/ k < i)
    BY <1>4
  <2>2. Cardinality(Below(P, i)) \in Int /\ Cardinality(Below(P, k)) \in Int
    BY BelowIsSmaller
  <2>3. Cardinality(Below(P, i)) # Cardinality(Below(P, k))
    BY <2>1, <2>2, RanksGrow
  <2> QED BY <2>3 DEF Rank
<1>5. Rank(P) \in Injection(P, T)
  BY <1>3, <1>4 DEF Injection, IsInjective
<1>6. Rank(P) \in Surjection(P, T)
  BY <1>2, <1>5, FS_Injection
<1>7. PICK i \in P : Rank(P)[i] = n
  BY <1>6 DEF Surjection
<1> QED BY <1>7 DEF Rank

\* Nth is the place of its rank, and every place is the Nth of its rank.
LEMMA NthHasRank ==
  ASSUME NEW P \in SUBSET Int, IsFiniteSet(P), NEW k \in 1..Cardinality(P)
  PROVE  Nth(P, k) \in P /\ Cardinality(Below(P, Nth(P, k))) = k - 1
<1>1. k - 1 \in 0..(Cardinality(P) - 1)
  BY FS_CardinalityType
<1>2. \E i \in P : Cardinality(Below(P, i)) = k - 1
  BY <1>1, RanksAreAll
<1> QED BY <1>2 DEF Nth, Below

LEMMA PlaceIsNth ==
  ASSUME NEW P \in SUBSET Int, IsFiniteSet(P), NEW i \in P
  PROVE  \E k \in 1..Cardinality(P) : Nth(P, k) = i
<1> DEFINE k == Cardinality(Below(P, i)) + 1
<1>1. Cardinality(P) \in Nat /\ Cardinality(Below(P, i)) \in 0..(Cardinality(P) - 1)
  BY FS_CardinalityType, BelowIsSmaller
<1>2. k \in 1..Cardinality(P) /\ k - 1 = Cardinality(Below(P, i))
  BY <1>1
<1>3. Nth(P, k) \in P /\ Cardinality(Below(P, Nth(P, k))) = Cardinality(Below(P, i))
  BY <1>2, NthHasRank
<1> HIDE DEF k
<1>4. ASSUME Nth(P, k) < i PROVE FALSE
  <2>1. Cardinality(Below(P, Nth(P, k))) < Cardinality(Below(P, i))
    BY <1>3, <1>4, RanksGrow
  <2> QED BY <1>1, <1>3, <2>1
<1>5. ASSUME i < Nth(P, k) PROVE FALSE
  <2>1. Cardinality(Below(P, i)) < Cardinality(Below(P, Nth(P, k)))
    BY <1>3, <1>5, RanksGrow
  <2> QED BY <1>1, <1>3, <2>1
<1>6. i \in Int /\ Nth(P, k) \in Int
  BY <1>3
<1>7. Nth(P, k) = i
  BY <1>4, <1>5, <1>6
<1> QED BY <1>2, <1>7

LEMMA NthIsInjective ==
  ASSUME NEW P \in SUBSET Int, IsFiniteSet(P),
         NEW k \in 1..Cardinality(P), NEW l \in 1..Cardinality(P), Nth(P, k) = Nth(P, l)
  PROVE  k = l
<1>1. k - 1 = l - 1
  BY NthHasRank
<1> QED BY <1>1, FS_CardinalityType

LEMMA PlacesAreFinite ==
  ASSUME NEW n \in Nat, NEW P \in SUBSET (1..n)
  PROVE  P \in SUBSET Int /\ IsFiniteSet(P) /\ Cardinality(P) \in Nat
<1>1. IsFiniteSet(1..n)
  BY FS_Interval
<1>2. IsFiniteSet(P)
  BY <1>1, FS_Subset
<1> QED BY <1>2, FS_CardinalityType

\* What is picked from a list is what is at the places, each once.
LEMMA PickedIsThere ==
  ASSUME NEW S, NEW s \in Seq(S), NEW P \in SUBSET (1..Len(s))
  PROVE  /\ Picked(s, P) \in Seq(S)
         /\ ToSet(Picked(s, P)) = {s[i] : i \in P}
         /\ IsInjective(s) => IsInjective(Picked(s, P))
<1> Len(s) \in Nat /\ DOMAIN s = 1..Len(s) /\ \A i \in 1..Len(s) : s[i] \in S
  BY LenProperties, ElementOfSeq
<1>1. P \in SUBSET Int /\ IsFiniteSet(P) /\ Cardinality(P) \in Nat
  BY PlacesAreFinite
<1>2. \A k \in 1..Cardinality(P) : Nth(P, k) \in P
  BY <1>1, NthHasRank
<1>3. Picked(s, P) \in [1..Cardinality(P) -> S]
  BY <1>2 DEF Picked
<1>4. Picked(s, P) \in Seq(S)
  BY <1>1, <1>3
<1>5. ToSet(Picked(s, P)) = {s[i] : i \in P}
  <2>1. ASSUME NEW i \in P
        PROVE  \E k \in DOMAIN Picked(s, P) : Picked(s, P)[k] = s[i]
    <3>1. PICK k \in 1..Cardinality(P) : Nth(P, k) = i
      BY <1>1, PlaceIsNth
    <3> QED BY <3>1 DEF Picked
  <2>2. ASSUME NEW k \in DOMAIN Picked(s, P)
        PROVE  \E i \in P : s[i] = Picked(s, P)[k]
    BY <1>2 DEF Picked
  <2> QED BY <2>1, <2>2 DEF ToSet
<1>6. ASSUME IsInjective(s) PROVE IsInjective(Picked(s, P))
  <2>1. ASSUME NEW k \in 1..Cardinality(P), NEW l \in 1..Cardinality(P),
               s[Nth(P, k)] = s[Nth(P, l)]
        PROVE  k = l
    <3>1. Nth(P, k) = Nth(P, l)
      BY <1>2, <1>6, <2>1 DEF IsInjective
    <3> QED BY <1>1, <3>1, NthIsInjective
  <2> QED BY <2>1 DEF IsInjective, Picked
<1> QED BY <1>4, <1>5, <1>6

\* Places have a last one.
LEMMA LastPlace ==
  ASSUME NEW n \in Nat, NEW P \in SUBSET (1..n), P # {}
  PROVE  Max(P) \in P /\ \A i \in P : i <= Max(P)
<1>1. P \in SUBSET Int /\ IsFiniteSet(P) /\ Cardinality(P) \in Nat
  BY PlacesAreFinite
<1>2. Cardinality(P) # 0
  BY <1>1, FS_EmptySet
<1>3. PICK m \in P : Cardinality(Below(P, m)) = Cardinality(P) - 1
  BY <1>1, <1>2, RanksAreAll
<1>4. ASSUME NEW i \in P, m < i PROVE FALSE
  BY <1>1, <1>3, <1>4, RanksGrow, BelowIsSmaller
<1>5. \A i \in P : m >= i
  BY <1>1, <1>4
<1>6. Max(P) \in P /\ \A i \in P : Max(P) >= i
  BY <1>5 DEF Max
<1> QED BY <1>1, <1>6

-----------------------------------------------------------------------------
(***************************************************************************)
(* The places of an id in the checks.                                      *)
(***************************************************************************)
Entry == [id : Ids, hosts : Seq(Names), body : Body]
Statement == [hosts : SUBSET Names, body : Body]

Places(cs, id) == {i \in 1..Len(cs) : cs[i].id = id}

LEMMA LastOfIsMax ==
  /\ \A id : LastOf(id) = IF Places(checks, id) # {} THEN Max(Places(checks, id)) ELSE 0
  /\ \A id : LastOf(id)' = IF Places(checks', id) # {} THEN Max(Places(checks', id)) ELSE 0
BY DEF LastOf, SelectLastInSeq, Places

LEMMA LastOfIsPlace ==
  ASSUME checks \in Seq(Entry), NEW id \in Present
  PROVE  LastOf(id) \in DOMAIN checks /\ checks[LastOf(id)].id = id
<1> Len(checks) \in Nat /\ DOMAIN checks = 1..Len(checks)
  BY LenProperties
<1>1. Places(checks, id) \in SUBSET (1..Len(checks)) /\ Places(checks, id) # {}
  BY DEF Places, Present
<1>2. LastOf(id) \in Places(checks, id)
  BY <1>1, LastPlace, LastOfIsMax
<1> QED BY <1>2 DEF Places

\* Entries that change in place keep the ids where they are.
SameIds == /\ DOMAIN checks' = DOMAIN checks
           /\ Len(checks') = Len(checks)
           /\ \A i \in DOMAIN checks : checks'[i].id = checks[i].id

LEMMA SameIdsSamePlaces ==
  ASSUME checks \in Seq(Entry), checks' \in Seq(Entry), SameIds
  PROVE  Present' = Present /\ \A id : LastOf(id)' = LastOf(id)
<1> Len(checks) \in Nat /\ DOMAIN checks = 1..Len(checks)
  BY LenProperties
<1>1. \A id : Places(checks', id) = Places(checks, id)
  BY DEF Places, SameIds
<1>2. Present' = Present
  BY DEF Present, SameIds
<1> QED BY <1>1, <1>2, LastOfIsMax

\* An entry with a new id comes last, and leaves the other ids where they were.
LEMMA NewIdComesLast ==
  ASSUME checks \in Seq(Entry), NEW d \in Entry, d.id \notin Present,
         checks' = Append(checks, d)
  PROVE  /\ checks' \in Seq(Entry)
         /\ Present' = Present \cup {d.id}
         /\ LastOf(d.id)' = Len(checks') /\ checks'[Len(checks')] = d
         /\ \A id \in Present : LastOf(id)' = LastOf(id) /\ checks'[LastOf(id)] = checks[LastOf(id)]
<1> DEFINE n == Len(checks)
<1>1. /\ n \in Nat /\ DOMAIN checks = 1..n
      /\ checks' \in Seq(Entry) /\ Len(checks') = n + 1 /\ DOMAIN checks' = 1..(n + 1)
      /\ checks'[n + 1] = d /\ \A i \in 1..n : checks'[i] = checks[i]
  BY LenProperties, AppendProperties
<1> HIDE DEF n
<1>2. Places(checks', d.id) = {n + 1}
  <2>1. \A i \in 1..n : checks'[i].id # d.id
    BY <1>1 DEF Present
  <2> QED BY <1>1, <2>1 DEF Places
<1>3. LastOf(d.id)' = n + 1
  <2>1. Max({n + 1}) = n + 1
    BY <1>1 DEF Max
  <2> QED BY <1>2, <2>1, LastOfIsMax
<1>4. Present' = Present \cup {d.id}
  BY <1>1 DEF Present
<1>5. \A id \in Present : Places(checks', id) = Places(checks, id)
  BY <1>1 DEF Places, n
<1>6. \A id \in Present : LastOf(id)' = LastOf(id)
  BY <1>5, LastOfIsMax
<1>7. \A id \in Present : checks'[LastOf(id)] = checks[LastOf(id)]
  BY <1>1, LastOfIsPlace
<1> QED BY <1>1, <1>3, <1>4, <1>6, <1>7

-----------------------------------------------------------------------------
(***************************************************************************)
(* Hosts and documents.                                                    *)
(***************************************************************************)
\* The hosts that are absent add to the others what was missing, each once.
LEMMA AbsentHostsAreAdded ==
  ASSUME NEW old \in Seq(Names), NEW new \in Seq(Names)
  PROVE  /\ old \o Absent(old, new) \in Seq(Names)
         /\ ToSet(old \o Absent(old, new)) = ToSet(old) \cup ToSet(new)
         /\ IsInjective(old) /\ IsInjective(new) => IsInjective(old \o Absent(old, new))
<1> DEFINE P == {i \in DOMAIN new : new[i] \notin ToSet(old)}
           a == Picked(new, P)
<1>1. Absent(old, new) = a
  BY DEF Absent
<1>2. DOMAIN new = 1..Len(new) /\ P \in SUBSET (1..Len(new))
  BY LenProperties
<1>3. /\ a \in Seq(Names) /\ ToSet(a) = {new[i] : i \in P}
      /\ IsInjective(new) => IsInjective(a)
  BY <1>2, PickedIsThere
<1>4. ToSet(a) = ToSet(new) \ ToSet(old)
  BY <1>3 DEF ToSet
<1> HIDE DEF a
<1>5. /\ Len(old) \in Nat /\ DOMAIN old = 1..Len(old) /\ Len(a) \in Nat /\ DOMAIN a = 1..Len(a)
      /\ old \o a \in Seq(Names) /\ DOMAIN (old \o a) = 1..(Len(old) + Len(a))
      /\ \A i \in 1..Len(old) : (old \o a)[i] = old[i]
      /\ \A i \in 1..Len(a) : (old \o a)[Len(old) + i] = a[i]
      /\ \A i \in 1..(Len(old) + Len(a)) :
           (old \o a)[i] = IF i <= Len(old) THEN old[i] ELSE a[i - Len(old)]
  BY <1>3, LenProperties, ConcatProperties
<1>6. ToSet(old \o a) = ToSet(old) \cup ToSet(a)
  <2>1. ASSUME NEW i \in DOMAIN (old \o a)
        PROVE  (old \o a)[i] \in ToSet(old) \cup ToSet(a)
    BY <1>5 DEF ToSet
  <2>2. ASSUME NEW i \in DOMAIN old PROVE old[i] \in ToSet(old \o a)
    BY <1>5 DEF ToSet
  <2>3. ASSUME NEW i \in DOMAIN a PROVE a[i] \in ToSet(old \o a)
    <3>1. Len(old) + i \in DOMAIN (old \o a) /\ (old \o a)[Len(old) + i] = a[i]
      BY <1>5
    <3> QED BY <3>1 DEF ToSet
  <2> QED BY <2>1, <2>2, <2>3 DEF ToSet
<1>7. ASSUME IsInjective(old), IsInjective(new) PROVE IsInjective(old \o a)
  <2>1. IsInjective(a)
    BY <1>3, <1>7
  <2>2. ASSUME NEW i \in DOMAIN (old \o a), NEW k \in DOMAIN (old \o a),
               i <= k, (old \o a)[i] = (old \o a)[k]
        PROVE  i = k
    <3>1. CASE k <= Len(old)
      <4>1. i \in DOMAIN old /\ k \in DOMAIN old /\ old[i] = old[k]
        BY <1>5, <2>2, <3>1
      <4> QED BY <4>1, <1>7 DEF IsInjective
    <3>2. CASE i > Len(old)
      <4>1. /\ i - Len(old) \in DOMAIN a /\ k - Len(old) \in DOMAIN a
            /\ a[i - Len(old)] = a[k - Len(old)]
        BY <1>5, <2>2, <3>2
      <4>2. i - Len(old) = k - Len(old)
        BY <4>1, <2>1 DEF IsInjective
      <4> QED BY <1>5, <4>2
    <3>3. CASE i <= Len(old) /\ k > Len(old)
      <4>1. i \in DOMAIN old /\ k - Len(old) \in DOMAIN a /\ old[i] = a[k - Len(old)]
        BY <1>5, <2>2, <3>3
      <4>2. old[i] \in ToSet(old) /\ a[k - Len(old)] \in ToSet(a)
        BY <4>1 DEF ToSet
      <4> QED BY <1>4, <4>1, <4>2
    <3> QED BY <1>5, <3>1, <3>2, <3>3
  <2>3. \A i, k \in DOMAIN (old \o a) : i <= k \/ k <= i
    BY <1>5
  <2> QED BY <2>2, <2>3 DEF IsInjective
<1> QED BY <1>1, <1>4, <1>5, <1>6, <1>7

\* What a definition changes of what the rules make of them.
LEMMA RecordSays ==
  ASSUME wanted \in [DOMAIN wanted -> Statement], NEW d \in Entry, Record(d)
  PROVE  /\ wanted' \in [DOMAIN wanted' -> Statement]
         /\ d.id \in stranded => wanted' = wanted
         /\ d.id \notin stranded =>
              /\ DOMAIN wanted' = DOMAIN wanted \cup {d.id}
              /\ \A id \in DOMAIN wanted \ {d.id} : wanted'[id] = wanted[id]
              /\ IF d.id \in DOMAIN wanted /\ d.body = Blank
                 THEN /\ wanted'[d.id].hosts = wanted[d.id].hosts \cup ToSet(d.hosts)
                      /\ wanted'[d.id].body = wanted[d.id].body
                 ELSE /\ wanted'[d.id].hosts = ToSet(d.hosts) /\ wanted'[d.id].body = d.body
<1>1. ToSet(d.hosts) \in SUBSET Names /\ d.body \in Body
  <2>1. d.hosts \in Seq(Names) /\ d.body \in Body
    BY DEF Entry
  <2> QED BY <2>1, LenProperties, ElementOfSeq DEF ToSet
<1>2. CASE d.id \in stranded
  BY <1>2 DEF Record
<1>3. CASE d.id \notin stranded /\ d.id \in DOMAIN wanted /\ d.body = Blank
  <2>1. wanted' = [wanted EXCEPT ![d.id].hosts = @ \cup ToSet(d.hosts)]
    BY <1>3 DEF Record
  <2>2. /\ DOMAIN wanted' = DOMAIN wanted
        /\ \A id \in DOMAIN wanted \ {d.id} : wanted'[id] = wanted[id]
        /\ wanted'[d.id] = [wanted[d.id] EXCEPT !.hosts = @ \cup ToSet(d.hosts)]
    BY <1>3, <2>1
  <2>3. wanted[d.id] \in Statement
    BY <1>3
  <2>4. /\ wanted'[d.id] \in Statement
        /\ wanted'[d.id].hosts = wanted[d.id].hosts \cup ToSet(d.hosts)
        /\ wanted'[d.id].body = wanted[d.id].body
    BY <1>1, <2>2, <2>3 DEF Statement
  <2>5. wanted' \in [DOMAIN wanted' -> Statement]
    BY <1>3, <2>1, <2>2, <2>4
  <2> QED BY <1>3, <2>2, <2>4, <2>5
<1>4. CASE d.id \notin stranded /\ ~(d.id \in DOMAIN wanted /\ d.body = Blank)
  <2>1. wanted' = [id \in DOMAIN wanted \cup {d.id} |->
                     IF id = d.id THEN Said(d) ELSE wanted[id]]
    BY <1>4 DEF Record, Entered
  <2>2. Said(d) \in Statement /\ Said(d).hosts = ToSet(d.hosts) /\ Said(d).body = d.body
    BY <1>1 DEF Said, Statement
  <2> QED BY <1>4, <2>1, <2>2
<1> QED BY <1>2, <1>3, <1>4

-----------------------------------------------------------------------------
(***************************************************************************)
(* The inductive invariant: while a file is open, there is a pointer for   *)
(* each id, it leads to the last entry of the id, and it is the pointers   *)
(* of the stranded checks that lead to an array left behind.               *)
(***************************************************************************)
PointersLead ==
  /\ existing \in [Present -> [at : Nat, live : BOOLEAN]]
  /\ \A id \in Present : existing[id].at = LastOf(id)
  /\ \A id \in Present : existing[id].live <=> id \notin stranded
  /\ stranded \subseteq Present

MergeInv ==
  /\ checks \in Seq(Entry)
  /\ wanted \in [DOMAIN wanted -> Statement]
  /\ stage = "open" => PointersLead
  /\ MergedByTheRules
  /\ NoHostTwice

\* The premises of the two properties.
NoneBare == \A d \in Definitions : d.hosts # <<>> \/ d.body # Blank
NoneTwice == \A d \in Definitions : IsInjective(d.hosts)

Agrees(id) ==
  LET c == checks[LastOf(id)] IN
    ToSet(c.hosts) = wanted[id].hosts /\ c.body = wanted[id].body

LEMMA DefinitionsAreEntries == \A d \in Definitions : d \in Entry
BY FilesAssumption DEF Entry

\* A write through the pointer of an id: of the entries, at most its own becomes e.
LEMMA WriteInPlace ==
  ASSUME checks \in Seq(Entry), PointersLead, NEW id \in Present,
         NEW e \in Entry, e.id = id, checks' = Written(id, e)
  PROVE  /\ checks' \in Seq(Entry) /\ SameIds
         /\ \A i \in DOMAIN checks : checks'[i] = checks[i] \/ checks'[i] = e
         /\ existing[id].live => checks'[LastOf(id)] = e
         /\ \A other \in Present \ {id} : checks'[LastOf(other)] = checks[LastOf(other)]
<1> Len(checks) \in Nat /\ DOMAIN checks = 1..Len(checks)
  BY LenProperties
<1>1. /\ existing[id].at = LastOf(id) /\ LastOf(id) \in DOMAIN checks
      /\ checks[LastOf(id)].id = id
  BY LastOfIsPlace DEF PointersLead
<1>2. \A other \in Present \ {id} : LastOf(other) # LastOf(id)
  BY <1>1, LastOfIsPlace
<1>3. CASE existing[id].live
  <2>1. checks' = [checks EXCEPT ![LastOf(id)] = e]
    BY <1>1, <1>3 DEF Written
  <2>2. checks' \in Seq(Entry) /\ Len(checks') = Len(checks) /\ DOMAIN checks' = DOMAIN checks
    BY <1>1, <2>1, ExceptSeq
  <2>3. \A i \in DOMAIN checks : checks'[i] = IF i = LastOf(id) THEN e ELSE checks[i]
    BY <2>1
  <2>4. SameIds
    BY <1>1, <2>2, <2>3 DEF SameIds
  <2>5. \A other \in Present \ {id} : checks'[LastOf(other)] = checks[LastOf(other)]
    BY <1>2, <2>3, LastOfIsPlace
  <2> QED BY <1>1, <2>2, <2>3, <2>4, <2>5
<1>4. CASE ~existing[id].live
  <2>1. checks' = checks
    BY <1>4 DEF Written
  <2> QED BY <1>4, <2>1 DEF SameIds
<1> QED BY <1>3, <1>4

\* Pointers stay right when entries change in place.
LEMMA InPlaceKeepsPointers ==
  ASSUME PointersLead, checks \in Seq(Entry), checks' \in Seq(Entry), SameIds,
         UNCHANGED <<existing, stranded>>
  PROVE  PointersLead'
BY SameIdsSamePlaces DEF PointersLead

\* A change in place that makes one entry what the documents say leaves the others so.
LEMMA InPlaceAgrees ==
  ASSUME checks \in Seq(Entry), checks' \in Seq(Entry), SameIds, NEW id \in Present,
         DOMAIN wanted' = DOMAIN wanted \cup {id},
         \A other \in DOMAIN wanted \ {id} : wanted'[other] = wanted[other],
         \A other \in Present \ {id} : checks'[LastOf(other)] = checks[LastOf(other)],
         Present = DOMAIN wanted, \A other \in Present : Agrees(other),
         ToSet(checks'[LastOf(id)].hosts) = wanted'[id].hosts,
         checks'[LastOf(id)].body = wanted'[id].body
  PROVE  Present' = DOMAIN wanted' /\ \A other \in Present' : Agrees(other)'
<1>1. Present' = Present /\ \A other : LastOf(other)' = LastOf(other)
  BY SameIdsSamePlaces
<1>2. ASSUME NEW other \in Present PROVE Agrees(other)'
  <2>1. CASE other = id
    BY <1>1, <2>1 DEF Agrees
  <2>2. CASE other # id
    <3>1. Agrees(other) /\ wanted'[other] = wanted[other]
      BY <2>2
    <3>2. checks'[LastOf(other)'] = checks[LastOf(other)]
      BY <1>1, <2>2
    <3> QED BY <3>1, <3>2 DEF Agrees
  <2> QED BY <2>1, <2>2
<1> QED BY <1>1, <1>2

\* What is said of a stranded check is written where nobody reads, and not recorded.
LEMMA LostChangesNothing ==
  ASSUME PointersLead, NEW d \in Entry, d.id \in stranded, Record(d),
         wanted \in [DOMAIN wanted -> Statement], NEW e, checks' = Written(d.id, e),
         Present = DOMAIN wanted, \A id \in Present : Agrees(id)
  PROVE  Present' = DOMAIN wanted' /\ \A id \in Present' : Agrees(id)'
<1>1. ~existing[d.id].live
  BY DEF PointersLead
<1>2. checks' = checks /\ wanted' = wanted
  BY <1>1, RecordSays DEF Written
<1>3. Present' = Present /\ \A id : LastOf(id)' = LastOf(id)
  BY <1>2, LastOfIsMax DEF Present
<1> QED BY <1>2, <1>3 DEF Agrees

LEMMA MergedMeans ==
  /\ MergedByTheRules <=>
       (NoneBare => (stage \in {"between", "open"} =>
          Present = DOMAIN wanted /\ \A id \in Present : Agrees(id)))
  /\ MergedByTheRules' <=>
       (NoneBare => (stage' \in {"between", "open"} =>
          Present' = DOMAIN wanted' /\ \A id \in Present' : Agrees(id)'))
BY DEF MergedByTheRules, NoneBare, Agrees

-----------------------------------------------------------------------------
(***************************************************************************)
(* One definition of an included file.                                     *)
(***************************************************************************)
LEMMA AppendKeepsInv ==
  ASSUME MergeInv, NEW d \in Definitions, MergeCheck(d), appendHostsToCheck(d)
  PROVE  MergeInv'
<1> DEFINE c == checks[LastOf(d.id)]
           e == [c EXCEPT !.hosts = @ \o Absent(@, d.hosts)]
<1>1. /\ stage = "open" /\ stage' = "open" /\ checks \in Seq(Entry) /\ PointersLead
      /\ d \in Entry /\ d.hosts \in Seq(Names) /\ d.id \in Present
      /\ wanted \in [DOMAIN wanted -> Statement] /\ Record(d) /\ d.body = Blank
  <2>1. d \in Entry
    BY DefinitionsAreEntries
  <2> QED BY <2>1 DEF MergeInv, MergeCheck, appendHostsToCheck, PointersLead, Entry,
                      isPartialCheckDefinition
<1>2. LastOf(d.id) \in DOMAIN checks /\ c \in Entry /\ c.id = d.id
  BY <1>1, LastOfIsPlace, ElementOfSeq, LenProperties
<1>3. /\ e \in Entry /\ e.id = d.id /\ e.hosts = c.hosts \o Absent(c.hosts, d.hosts)
      /\ e.body = c.body
  <2>1. c.hosts \o Absent(c.hosts, d.hosts) \in Seq(Names)
    BY <1>1, <1>2, AbsentHostsAreAdded DEF Entry
  <2> QED BY <1>2, <2>1 DEF Entry
<1>4. checks' = Written(d.id, e)
  BY <1>1 DEF appendHostsToCheck, PointersLead
<1> HIDE DEF e, c
<1>5. /\ checks' \in Seq(Entry) /\ SameIds
      /\ \A i \in DOMAIN checks : checks'[i] = checks[i] \/ checks'[i] = e
      /\ existing[d.id].live => checks'[LastOf(d.id)] = e
      /\ \A other \in Present \ {d.id} : checks'[LastOf(other)] = checks[LastOf(other)]
  BY <1>1, <1>3, <1>4, WriteInPlace
<1>6. PointersLead'
  BY <1>1, <1>5, InPlaceKeepsPointers DEF appendHostsToCheck
<1>7. ASSUME NoneBare
      PROVE  Present' = DOMAIN wanted' /\ \A id \in Present' : Agrees(id)'
  <2>1. Present = DOMAIN wanted /\ \A id \in Present : Agrees(id)
    BY <1>1, <1>7, MergedMeans DEF MergeInv, MergeCheck
  <2>2. CASE d.id \in stranded
    BY <1>1, <1>4, <2>1, <2>2, LostChangesNothing
  <2>3. ToSet(e.hosts) = ToSet(c.hosts) \cup ToSet(d.hosts)
    BY <1>1, <1>2, <1>3, AbsentHostsAreAdded DEF Entry
  <2>4. CASE d.id \notin stranded
    <3>1. existing[d.id].live
      BY <1>1, <2>4 DEF PointersLead
    <3>2. /\ DOMAIN wanted' = DOMAIN wanted \cup {d.id}
          /\ \A id \in DOMAIN wanted \ {d.id} : wanted'[id] = wanted[id]
          /\ wanted'[d.id].hosts = wanted[d.id].hosts \cup ToSet(d.hosts)
          /\ wanted'[d.id].body = wanted[d.id].body
      BY <1>1, <2>1, <2>4, RecordSays
    <3>3. ToSet(c.hosts) = wanted[d.id].hosts /\ c.body = wanted[d.id].body
      BY <1>1, <2>1 DEF Agrees, c
    <3>4. /\ ToSet(checks'[LastOf(d.id)].hosts) = wanted'[d.id].hosts
          /\ checks'[LastOf(d.id)].body = wanted'[d.id].body
      BY <1>3, <1>5, <2>3, <3>1, <3>2, <3>3
    <3> QED BY <1>1, <1>5, <2>1, <3>2, <3>4, InPlaceAgrees
  <2> QED BY <2>2, <2>4
<1>8. ASSUME NoneTwice PROVE \A i \in DOMAIN checks' : IsInjective(checks'[i].hosts)
  <2>1. IsInjective(c.hosts) /\ IsInjective(d.hosts) /\ \A i \in DOMAIN checks : IsInjective(checks[i].hosts)
    BY <1>2, <1>8 DEF MergeInv, NoHostTwice, NoneTwice, c
  <2>2. IsInjective(e.hosts)
    BY <1>1, <1>2, <1>3, <2>1, AbsentHostsAreAdded DEF Entry
  <2> QED BY <1>5, <2>1, <2>2 DEF SameIds
<1>9. MergedByTheRules' /\ NoHostTwice'
  BY <1>7, <1>8, MergedMeans DEF NoHostTwice, NoneTwice
<1> QED BY <1>1, <1>5, <1>6, <1>9, RecordSays DEF MergeInv

LEMMA ReplaceKeepsInv ==
  ASSUME MergeInv, NEW d \in Definitions, MergeCheck(d), ReplaceCheck(d)
  PROVE  MergeInv'
<1>1. /\ stage = "open" /\ stage' = "open" /\ checks \in Seq(Entry) /\ PointersLead
      /\ d \in Entry /\ d.id \in Present /\ checks' = Written(d.id, d)
      /\ wanted \in [DOMAIN wanted -> Statement] /\ Record(d)
  BY DefinitionsAreEntries DEF MergeInv, MergeCheck, ReplaceCheck, PointersLead
<1>2. /\ checks' \in Seq(Entry) /\ SameIds
      /\ \A i \in DOMAIN checks : checks'[i] = checks[i] \/ checks'[i] = d
      /\ existing[d.id].live => checks'[LastOf(d.id)] = d
      /\ \A other \in Present \ {d.id} : checks'[LastOf(other)] = checks[LastOf(other)]
  BY <1>1, WriteInPlace
<1>3. PointersLead'
  BY <1>1, <1>2, InPlaceKeepsPointers DEF ReplaceCheck
<1>4. ASSUME NoneBare
      PROVE  Present' = DOMAIN wanted' /\ \A id \in Present' : Agrees(id)'
  <2>1. Present = DOMAIN wanted /\ \A id \in Present : Agrees(id)
    BY <1>1, <1>4, MergedMeans DEF MergeInv, MergeCheck
  <2>2. CASE d.id \in stranded
    BY <1>1, <2>1, <2>2, LostChangesNothing
  <2>3. CASE d.id \notin stranded
    <3>1. existing[d.id].live
      BY <1>1, <2>3 DEF PointersLead
    <3>2. d.body # Blank
      BY <1>4 DEF ReplaceCheck, isPartialCheckDefinition, NoneBare
    <3>3. /\ DOMAIN wanted' = DOMAIN wanted \cup {d.id}
          /\ \A id \in DOMAIN wanted \ {d.id} : wanted'[id] = wanted[id]
          /\ wanted'[d.id].hosts = ToSet(d.hosts) /\ wanted'[d.id].body = d.body
      BY <1>1, <2>3, <3>2, RecordSays
    <3>4. /\ ToSet(checks'[LastOf(d.id)].hosts) = wanted'[d.id].hosts
          /\ checks'[LastOf(d.id)].body = wanted'[d.id].body
      BY <1>2, <3>1, <3>3
    <3> QED BY <1>1, <1>2, <2>1, <3>3, <3>4, InPlaceAgrees
  <2> QED BY <2>2, <2>3
<1>5. ASSUME NoneTwice PROVE \A i \in DOMAIN checks' : IsInjective(checks'[i].hosts)
  <2>1. IsInjective(d.hosts) /\ \A i \in DOMAIN checks : IsInjective(checks[i].hosts)
    BY <1>5 DEF MergeInv, NoHostTwice, NoneTwice
  <2> QED BY <1>2, <2>1 DEF SameIds
<1>6. MergedByTheRules' /\ NoHostTwice'
  BY <1>4, <1>5, MergedMeans DEF NoHostTwice, NoneTwice
<1> QED BY <1>1, <1>2, <1>3, <1>6, RecordSays DEF MergeInv

LEMMA AddKeepsInv ==
  ASSUME MergeInv, NEW d \in Definitions, MergeCheck(d), AddCheck(d)
  PROVE  MergeInv'
<1>1. /\ stage = "open" /\ stage' = "open" /\ checks \in Seq(Entry) /\ PointersLead
      /\ d \in Entry /\ d.id \notin Present /\ checks' = Append(checks, d)
      /\ wanted \in [DOMAIN wanted -> Statement] /\ Record(d)
  BY DefinitionsAreEntries DEF MergeInv, MergeCheck, AddCheck, PointersLead
<1>2. /\ checks' \in Seq(Entry) /\ Present' = Present \cup {d.id}
      /\ LastOf(d.id)' = Len(checks') /\ checks'[Len(checks')] = d
      /\ \A id \in Present : LastOf(id)' = LastOf(id) /\ checks'[LastOf(id)] = checks[LastOf(id)]
  BY <1>1, NewIdComesLast
<1>3. PointersLead'
  <2>1. /\ existing' = [id \in Present \cup {d.id} |->
                           IF id = d.id THEN [at |-> Len(checks'), live |-> TRUE]
                           ELSE [existing[id] EXCEPT !.live = @ /\ ~Moves]]
        /\ stranded' = IF Moves THEN Present ELSE stranded
    BY <1>1 DEF AddCheck, Entered, PointersLead
  <2>2. /\ existing'[d.id] = [at |-> Len(checks'), live |-> TRUE]
        /\ Len(checks') \in Nat
    BY <1>2, <2>1, LenProperties
  <2>3. ASSUME NEW id \in Present
        PROVE  /\ existing'[id] \in [at : Nat, live : BOOLEAN] /\ existing'[id].at = LastOf(id)'
               /\ existing'[id].live <=> id \notin stranded'
    <3>1. id # d.id /\ existing[id] \in [at : Nat, live : BOOLEAN] /\ existing[id].at = LastOf(id)
      BY <1>1 DEF PointersLead
    <3>2. existing'[id] = [existing[id] EXCEPT !.live = @ /\ ~Moves]
      BY <2>1, <3>1
    <3>3. CASE Moves
      BY <1>2, <2>1, <3>1, <3>2, <3>3
    <3>4. CASE ~Moves
      <4>1. existing'[id] = existing[id]
        BY <3>1, <3>2, <3>4
      <4> QED BY <1>1, <1>2, <2>1, <3>1, <3>4, <4>1 DEF PointersLead
    <3> QED BY <3>3, <3>4
  <2>4. existing' \in [Present' -> [at : Nat, live : BOOLEAN]]
    BY <1>2, <2>1, <2>2, <2>3
  <2>5. \A id \in Present' : existing'[id].at = LastOf(id)'
    BY <1>2, <2>2, <2>3
  <2>6. /\ \A id \in Present' : existing'[id].live <=> id \notin stranded'
        /\ stranded' \subseteq Present'
    <3>1. stranded \subseteq Present /\ stranded' \subseteq Present
      BY <1>1, <2>1 DEF PointersLead
    <3> QED BY <1>1, <1>2, <2>2, <2>3, <3>1
  <2> QED BY <2>4, <2>5, <2>6 DEF PointersLead
<1>4. ASSUME NoneBare
      PROVE  Present' = DOMAIN wanted' /\ \A id \in Present' : Agrees(id)'
  <2>1. Present = DOMAIN wanted /\ \A id \in Present : Agrees(id)
    BY <1>1, <1>4, MergedMeans DEF MergeInv, MergeCheck
  <2>2. /\ DOMAIN wanted' = DOMAIN wanted \cup {d.id}
        /\ \A id \in DOMAIN wanted \ {d.id} : wanted'[id] = wanted[id]
        /\ wanted'[d.id].hosts = ToSet(d.hosts) /\ wanted'[d.id].body = d.body
    BY <1>1, <2>1, RecordSays DEF PointersLead
  <2>3. Agrees(d.id)'
    BY <1>2, <2>2 DEF Agrees
  <2>4. ASSUME NEW id \in Present PROVE Agrees(id)'
    <3>1. Agrees(id) /\ wanted'[id] = wanted[id]
      BY <1>1, <2>1, <2>2
    <3>2. checks'[LastOf(id)'] = checks[LastOf(id)]
      BY <1>2
    <3> QED BY <3>1, <3>2 DEF Agrees
  <2> QED BY <1>2, <2>1, <2>2, <2>3, <2>4
<1>5. ASSUME NoneTwice PROVE \A i \in DOMAIN checks' : IsInjective(checks'[i].hosts)
  <2>1. IsInjective(d.hosts) /\ \A i \in DOMAIN checks : IsInjective(checks[i].hosts)
    BY <1>5 DEF MergeInv, NoHostTwice, NoneTwice
  <2>2. /\ Len(checks) \in Nat /\ DOMAIN checks = 1..Len(checks)
        /\ DOMAIN checks' = 1..(Len(checks) + 1) /\ checks'[Len(checks) + 1] = d
        /\ \A i \in 1..Len(checks) : checks'[i] = checks[i]
    BY <1>1, AppendProperties, LenProperties
  <2> QED BY <2>1, <2>2
<1>6. MergedByTheRules' /\ NoHostTwice'
  BY <1>4, <1>5, MergedMeans DEF NoHostTwice, NoneTwice
<1> QED BY <1>1, <1>2, <1>3, <1>6, RecordSays DEF MergeInv

-----------------------------------------------------------------------------
(***************************************************************************)
(* Files.                                                                  *)
(***************************************************************************)
LEMMA InitHasInv == Init => MergeInv
<1> SUFFICES ASSUME Init PROVE MergeInv
  OBVIOUS
<1>1. stage = "start" /\ checks = <<>> /\ wanted = <<>>
  BY DEF Init
<1>2. checks \in Seq(Entry) /\ wanted \in [DOMAIN wanted -> Statement]
  BY <1>1
<1>3. MergedByTheRules /\ NoHostTwice
  BY <1>1 DEF MergedByTheRules, NoHostTwice
<1> QED BY <1>1, <1>2, <1>3 DEF MergeInv

LEMMA ReadMainMakesInv ==
  ASSUME ReadMain PROVE MergeInv'
<1>1. stage' = "between"
  BY DEF ReadMain
<1>2. checks' \in Seq(Definitions)
  <2>1. checks' \in UNION {[1..m -> Definitions] : m \in 0..MaxMain}
    BY DEF ReadMain, BoundedSeq, SeqOf
  <2>2. PICK m \in 0..MaxMain : checks' \in [1..m -> Definitions]
    BY <2>1, Zenon
  <2>3. m \in Nat
    BY FilesAssumption
  <2> QED BY <2>2, <2>3
<1>3. checks' \in Seq(Entry) /\ DOMAIN checks' = 1..Len(checks') /\ Len(checks') \in Nat
      /\ \A i \in DOMAIN checks' : checks'[i] \in Definitions /\ checks'[i] \in Entry
  BY <1>2, DefinitionsAreEntries, LenProperties, ElementOfSeq, SeqMonotonic
<1>4. /\ DOMAIN wanted' = Present'
      /\ \A id \in Present' : wanted'[id] = Said(checks'[LastOf(id)'])
      /\ wanted' = [id \in Present' |-> wanted'[id]]
  <2> DEFINE At(id) == IF Places(checks', id) # {} THEN Max(Places(checks', id)) ELSE 0
  <2>1. wanted' = [id \in Present' |-> Said(checks'[At(id)])]
    BY DEF ReadMain, Present, SelectLastInSeq, Places
  <2>2. \A id : At(id) = LastOf(id)'
    BY LastOfIsMax
  <2> HIDE DEF At
  <2> QED BY <2>1, <2>2
<1>5. ASSUME NEW id \in Present'
      PROVE  wanted'[id] \in Statement /\ Agrees(id)'
  <2>1. Places(checks', id) \in SUBSET (1..Len(checks')) /\ Places(checks', id) # {}
    BY <1>3 DEF Places, Present
  <2>2. LastOf(id)' \in DOMAIN checks'
    BY <1>3, <2>1, LastPlace, LastOfIsMax
  <2>3. checks'[LastOf(id)'] \in Entry
    BY <1>3, <2>2
  <2>4. checks'[LastOf(id)'].hosts \in Seq(Names) /\ checks'[LastOf(id)'].body \in Body
    BY <2>3 DEF Entry
  <2>5. ToSet(checks'[LastOf(id)'].hosts) \in SUBSET Names
    BY <2>4, LenProperties, ElementOfSeq DEF ToSet
  <2> QED BY <1>4, <2>4, <2>5 DEF Said, Statement, Agrees
<1>6. wanted' \in [DOMAIN wanted' -> Statement]
  BY <1>4, <1>5
<1>7. MergedByTheRules'
  BY <1>4, <1>5, MergedMeans
<1>8. NoHostTwice'
  BY <1>3 DEF NoHostTwice
<1> QED BY <1>1, <1>3, <1>6, <1>7, <1>8 DEF MergeInv

LEMMA OpenKeepsInv ==
  ASSUME MergeInv, OpenInclude PROVE MergeInv'
<1>1. /\ stage = "between" /\ checks \in Seq(Entry)
      /\ UNCHANGED <<checks, wanted>>
      /\ existing' = [id \in Present |-> [at |-> LastOf(id), live |-> TRUE]]
      /\ stranded' = {}
  BY DEF MergeInv, OpenInclude
<1>2. Present' = Present /\ \A id : LastOf(id)' = LastOf(id)
  BY <1>1, LastOfIsMax DEF Present
<1>3. \A id \in Present : LastOf(id) \in Nat
  BY <1>1, LastOfIsPlace, LenProperties
<1>4. PointersLead'
  BY <1>1, <1>2, <1>3 DEF PointersLead
<1>5. MergedByTheRules' /\ NoHostTwice'
  BY <1>1, <1>2 DEF MergeInv, MergedByTheRules, NoHostTwice
<1> QED BY <1>1, <1>4, <1>5 DEF MergeInv

LEMMA CloseKeepsInv ==
  ASSUME MergeInv, CloseInclude PROVE MergeInv'
<1>1. /\ stage = "open" /\ stage' = "between"
      /\ UNCHANGED <<checks, wanted>>
  BY DEF CloseInclude
<1>2. Present' = Present /\ \A id : LastOf(id)' = LastOf(id)
  BY <1>1, LastOfIsMax DEF Present
<1> QED BY <1>1, <1>2 DEF MergeInv, MergedByTheRules, NoHostTwice

LEMMA FailKeepsInv ==
  ASSUME MergeInv, LoadFails PROVE MergeInv'
BY DEF MergeInv, LoadFails, MergedByTheRules, NoHostTwice, merging

\* Validation completes intervals and nothing else.
LEMMA FinishLeavesIdsAndHosts ==
  ASSUME checks \in Seq(Entry), Finish
  PROVE  /\ stage' \in {"ready", "refused"} /\ UNCHANGED wanted
         /\ checks' \in Seq(Entry) /\ DOMAIN checks' = DOMAIN checks
         /\ \A i \in DOMAIN checks : checks'[i].id = checks[i].id /\ checks'[i].hosts = checks[i].hosts
<1>1. stage' \in {"ready", "refused"} /\ UNCHANGED wanted
  BY DEF Finish, merging
<1>2. CASE UNCHANGED checks
  BY <1>1, <1>2
<1>3. CASE checks' = [i \in DOMAIN checks |-> Completed(checks[i])]
  <2>1. Len(checks) \in Nat /\ DOMAIN checks = 1..Len(checks) /\ \A i \in DOMAIN checks : checks[i] \in Entry
    BY LenProperties, ElementOfSeq
  <2>2. ASSUME NEW c \in Entry
        PROVE  Completed(c) \in Entry /\ Completed(c).id = c.id /\ Completed(c).hosts = c.hosts
    BY DEF Completed, Entry, Body
  <2>3. checks' \in [1..Len(checks) -> Entry]
    BY <1>3, <2>1, <2>2
  <2>4. checks' \in Seq(Entry)
    BY <2>1, <2>3
  <2> QED BY <1>1, <1>3, <2>1, <2>2, <2>4
<1> QED BY <1>2, <1>3 DEF Finish

LEMMA FinishKeepsInv ==
  ASSUME MergeInv, Finish PROVE MergeInv'
<1>1. /\ stage' \in {"ready", "refused"} /\ UNCHANGED wanted
      /\ checks' \in Seq(Entry) /\ DOMAIN checks' = DOMAIN checks
      /\ \A i \in DOMAIN checks : checks'[i].hosts = checks[i].hosts
  BY FinishLeavesIdsAndHosts DEF MergeInv
<1>2. MergedByTheRules'
  BY <1>1 DEF MergedByTheRules
<1>3. NoHostTwice'
  BY <1>1 DEF MergeInv, NoHostTwice
<1> QED BY <1>1, <1>2, <1>3 DEF MergeInv

LEMMA StepKeepsInv == MergeInv /\ [Next]_vars => MergeInv'
<1> SUFFICES ASSUME MergeInv, [Next]_vars PROVE MergeInv'
  OBVIOUS
<1>1. CASE ReadMain
  BY <1>1, ReadMainMakesInv
<1>2. CASE OpenInclude
  BY <1>2, OpenKeepsInv
<1>3. ASSUME NEW d \in Definitions, MergeCheck(d), appendHostsToCheck(d) PROVE MergeInv'
  BY <1>3, AppendKeepsInv
<1>4. ASSUME NEW d \in Definitions, MergeCheck(d), ReplaceCheck(d) PROVE MergeInv'
  BY <1>4, ReplaceKeepsInv
<1>5. ASSUME NEW d \in Definitions, MergeCheck(d), AddCheck(d) PROVE MergeInv'
  BY <1>5, AddKeepsInv
<1>6. CASE CloseInclude
  BY <1>6, CloseKeepsInv
<1>7. CASE Finish
  BY <1>7, FinishKeepsInv
<1>8. CASE LoadFails
  BY <1>8, FailKeepsInv
<1>9. CASE UNCHANGED vars
  <2>1. UNCHANGED <<stage, checks, wanted, existing, stranded>>
    BY <1>9 DEF vars
  <2>2. Present' = Present /\ \A id : LastOf(id)' = LastOf(id)
    BY <2>1, LastOfIsMax DEF Present
  <2> QED BY <2>1, <2>2 DEF MergeInv, PointersLead, MergedByTheRules, NoHostTwice
<1> QED BY <1>1, <1>2, <1>3, <1>4, <1>5, <1>6, <1>7, <1>8, <1>9 DEF Next

LEMMA InvHolds == Spec => []MergeInv
BY InitHasInv, StepKeepsInv, PTL DEF Spec

-----------------------------------------------------------------------------
(***************************************************************************)
(* The theorems.                                                           *)
(***************************************************************************)
\* For any files and however append makes room: the checks are what the merging rules
\* of docs/ModularConfig.md:406-409 make of all definitions but those that mergeChecks
\* writes to an array append has left behind, and these are lost.
THEOREM FilesMergeByTheRules == Spec => []MergedByTheRules
<1>1. MergeInv => MergedByTheRules
  BY DEF MergeInv
<1> QED BY <1>1, InvHolds, PTL

\* For any files: merging lists no host twice in a check (appendHostsToCheck), unless a
\* definition did.
THEOREM HostsAreListedOnce == Spec => []NoHostTwice
<1>1. MergeInv => NoHostTwice
  BY DEF MergeInv
<1> QED BY <1>1, InvHolds, PTL

LEMMA StepAddsNoEntryTwice ==
  ASSUME MergeInv, Next, stage # "start",
         IsInjective([i \in DOMAIN checks |-> checks[i].id])
  PROVE  IsInjective([i \in DOMAIN checks' |-> checks'[i].id])
<1>0. checks \in Seq(Entry) /\ (stage = "open" => PointersLead)
  BY DEF MergeInv
<1>1. CASE /\ DOMAIN checks' = DOMAIN checks
           /\ \A i \in DOMAIN checks : checks'[i].id = checks[i].id
  BY <1>1 DEF IsInjective
<1>2. ASSUME NEW d \in Definitions, stage = "open",
             appendHostsToCheck(d) \/ ReplaceCheck(d)
      PROVE  /\ DOMAIN checks' = DOMAIN checks
             /\ \A i \in DOMAIN checks : checks'[i].id = checks[i].id
  <2>1. PICK e : checks' = Written(d.id, e) /\ e.id = d.id
    <3>1. CASE ReplaceCheck(d)
      BY <3>1 DEF ReplaceCheck
    <3>2. CASE appendHostsToCheck(d)
      <4>1. d.id \in Present /\ existing[d.id].at = LastOf(d.id)
        BY <1>0, <1>2, <3>2 DEF appendHostsToCheck, PointersLead
      <4>2. LastOf(d.id) \in DOMAIN checks /\ checks[LastOf(d.id)].id = d.id
        BY <1>0, <4>1, LastOfIsPlace
      <4>3. checks[LastOf(d.id)] \in Entry
        BY <1>0, <4>2, LenProperties, ElementOfSeq
      <4>4. \A h : [checks[LastOf(d.id)] EXCEPT !.hosts = h].id = d.id
        BY <4>2, <4>3 DEF Entry
      <4> QED BY <3>2, <4>1, <4>4 DEF appendHostsToCheck
    <3> QED BY <1>2, <3>1, <3>2
  <2>2. d.id \in Present /\ existing[d.id].at = LastOf(d.id)
    BY <1>0, <1>2 DEF appendHostsToCheck, ReplaceCheck, PointersLead
  <2>3. LastOf(d.id) \in DOMAIN checks /\ checks[LastOf(d.id)].id = d.id
    BY <1>0, <2>2, LastOfIsPlace
  <2> QED BY <1>0, <2>1, <2>2, <2>3 DEF Written
<1>3. ASSUME NEW d \in Definitions, stage = "open", AddCheck(d)
      PROVE  IsInjective([i \in DOMAIN checks' |-> checks'[i].id])
  <2>1. d.id \notin Present /\ checks' = Append(checks, d) /\ d \in Entry
    BY <1>0, <1>3, DefinitionsAreEntries DEF AddCheck, PointersLead
  <2>2. /\ Len(checks) \in Nat /\ DOMAIN checks = 1..Len(checks)
        /\ DOMAIN checks' = 1..(Len(checks) + 1) /\ checks'[Len(checks) + 1] = d
        /\ \A i \in 1..Len(checks) : checks'[i] = checks[i]
    BY <1>0, <2>1, AppendProperties, LenProperties
  <2>3. \A i \in 1..Len(checks) : checks[i].id # d.id
    BY <2>1, <2>2 DEF Present
  <2>4. \A i, k \in 1..Len(checks) : checks[i].id = checks[k].id => i = k
    BY <2>2 DEF IsInjective
  <2> QED BY <2>2, <2>3, <2>4 DEF IsInjective
<1>4. CASE Finish
  BY <1>0, <1>1, <1>4, FinishLeavesIdsAndHosts
<1>5. CASE OpenInclude \/ CloseInclude \/ LoadFails
  BY <1>1, <1>5 DEF OpenInclude, CloseInclude, LoadFails
<1> QED BY <1>1, <1>2, <1>3, <1>4, <1>5 DEF Next, ReadMain, MergeCheck

\* For any files: no included file makes a second entry of a check that is there once.
THEOREM FilesKeepEntriesUnique == Spec => EntriesStayUnique
<1> DEFINE Unique == stage # "start" =>
                       (IsInjective([i \in DOMAIN checks |-> checks[i].id]) =>
                          IsInjective([i \in DOMAIN checks' |-> checks'[i].id]))
<1>1. MergeInv /\ [Next]_vars => [Unique]_vars
  BY StepAddsNoEntryTwice
<1> QED BY <1>1, InvHolds, PTL DEF Spec, EntriesStayUnique
=============================================================================
