-------------------------- MODULE MemoryStoreProofs --------------------------
(***************************************************************************)
(* That a deleted memory stays deleted, for every set of facts, every cap  *)
(* and every number of records, deletions, failed writes and crashes, as   *)
(* long as no two clears of the repository are queued at once. The         *)
(* argument: the list in memory is what the last operation queued left     *)
(* there, so a failed deletion puts its own list back only when it is the  *)
(* whole queue (IdentityInv); and what was deleted is in no list, no body  *)
(* to be written and no list to be put back but those of a run that        *)
(* learned it again (DeletionInv).                                         *)
(***************************************************************************)
EXTENDS MemoryStore, SequenceTheorems, TLAPS

-----------------------------------------------------------------------------
(* Lists of facts *)

\* Taking one element out of a list without repetitions leaves the others, each once.
LEMMA RemovedAt ==
  ASSUME NEW M, NEW s \in Seq(M), NEW k \in 1..Len(s), IsInjective(s)
  PROVE /\ RemoveAt(s, k) \in Seq(M)
        /\ Len(RemoveAt(s,k)) = Len(s) - 1
        /\ ToSet(RemoveAt(s, k)) = ToSet(s) \ {s[k]}
        /\ IsInjective(RemoveAt(s, k))
<1> DEFINE a == SubSeq(s, 1, k-1)
           b == SubSeq(s, k+1, Len(s))
           r == RemoveAt(s, k)
<1>1. Len(s) \in Nat /\ k \in Nat /\ k <= Len(s) /\ 1 <= k /\ DOMAIN s = 1..Len(s)
  OBVIOUS
<1>2. /\ a \in Seq(M) /\ Len(a) = k - 1 /\ \A i \in 1..(k-1) : a[i] = s[i]
  OBVIOUS
<1>3. /\ b \in Seq(M) /\ Len(b) = Len(s) - k /\ \A i \in 1..(Len(s)-k) : b[i] = s[k+i]
  OBVIOUS
<1>4. r = a \o b
  BY DEF RemoveAt
<1> HIDE DEF a, b, r
<1>5. /\ r \in Seq(M) /\ Len(r) = Len(s) - 1
  <2>1. a \o b \in Seq(M) /\ Len(a \o b) = Len(a) + Len(b)
    BY <1>2, <1>3, ConcatProperties
  <2>2. Len(a) = k - 1 /\ Len(b) = Len(s) - k
    BY <1>2, <1>3
  <2> QED BY <1>1, <1>4, <2>1, <2>2
<1>6. ASSUME NEW i \in 1..(k-1) PROVE r[i] = s[i]
  <2>1. i \in 1..(Len(a) + Len(b)) /\ i <= Len(a)
    <3>1. Len(a) \in Nat /\ Len(b) \in Nat /\ Len(a) = k - 1 /\ Len(b) = Len(s) - k
      BY <1>1, <1>2, <1>3
    <3> QED BY <1>1, <3>1
  <2>2. r[i] = a[i]
    BY <1>2, <1>3, <1>4, <2>1
  <2> QED BY <1>2, <2>2
<1>7. ASSUME NEW i \in k..(Len(s)-1) PROVE r[i] = s[i+1]
  <2>1. i \in 1..(Len(a) + Len(b)) /\ i > Len(a) /\ i - Len(a) \in 1..(Len(s) - k)
    BY <1>1, <1>2, <1>3
  <2>2. r[i] = b[i - Len(a)]
    BY <1>2, <1>3, <1>4, <2>1
  <2>3. k + (i - Len(a)) = i + 1
    BY <1>1, <1>2
  <2>4. b[i - Len(a)] = s[k + (i - Len(a))]
    BY <1>3, <2>1
  <2> QED BY <2>2, <2>3, <2>4
\* The places of r are those of s but k.
<1> DEFINE p == [i \in 1..(Len(s)-1) |-> IF i < k THEN i ELSE i + 1]
<1>8. \A i \in 1..(Len(s)-1) : /\ r[i] = s[p[i]] /\ p[i] \in 1..Len(s) /\ p[i] # k
  <2>1. ASSUME NEW i \in 1..(Len(s)-1), i < k PROVE r[i] = s[p[i]] /\ p[i] \in 1..Len(s) /\ p[i] # k
    BY <1>1, <1>6, <2>1
  <2>2. ASSUME NEW i \in 1..(Len(s)-1), ~(i < k) PROVE r[i] = s[p[i]] /\ p[i] \in 1..Len(s) /\ p[i] # k
    BY <1>1, <1>7, <2>2
  <2> QED BY <2>1, <2>2
<1>9. \A i, j \in 1..(Len(s)-1) : p[i] = p[j] => i = j
  BY <1>1
<1>10. \A j \in 1..Len(s) : j # k => \E i \in 1..(Len(s)-1) : p[i] = j
  <2> SUFFICES ASSUME NEW j \in 1..Len(s), j # k PROVE \E i \in 1..(Len(s)-1) : p[i] = j
    OBVIOUS
  <2>1. CASE j < k 
    BY <1>1, <2>1
  <2>2. CASE j > k
    <3>1. j - 1 \in 1..(Len(s)-1) /\ ~(j - 1 < k) /\ (j - 1) + 1 = j
      BY <1>1, <2>2
    <3> QED BY <3>1
  <2> QED BY <1>1, <2>1, <2>2
<1> HIDE DEF p
<1>11. DOMAIN r = 1..(Len(s) - 1)
  BY <1>1, <1>5
<1>12. ToSet(r) = ToSet(s) \ {s[k]}
  <2>1. ASSUME NEW x \in ToSet(r) PROVE x \in ToSet(s) \ {s[k]}
    <3>1. PICK i \in 1..(Len(s)-1) : x = r[i]  BY <1>11 DEF ToSet
    <3>2. x = s[p[i]] /\ p[i] \in DOMAIN s /\ p[i] # k  BY <1>1, <1>8, <3>1
    <3>3. x # s[k] BY <1>1, <3>2 DEF IsInjective
    <3> QED BY <3>2, <3>3 DEF ToSet
  <2>2. ASSUME NEW x \in ToSet(s), x # s[k] PROVE x \in ToSet(r)
    <3>1. PICK j \in 1..Len(s) : x = s[j]  BY <1>1 DEF ToSet
    <3>2. PICK i \in 1..(Len(s)-1) : p[i] = j  BY <1>10, <2>2, <3>1
    <3>3. r[i] = x BY <1>8, <3>1, <3>2
    <3> QED BY <1>11, <3>3 DEF ToSet
  <2> QED BY <2>1, <2>2
<1>13. IsInjective(r)
  BY <1>1, <1>8, <1>9, <1>11 DEF IsInjective
<1> QED BY <1>5, <1>12, <1>13 DEF r

\* A prefix of a list without repetitions has none, and nothing the list has not.
LEMMA PrefixOf ==
  ASSUME NEW M, NEW s \in Seq(M), NEW n \in 0..Len(s), IsInjective(s)
  PROVE /\ SubSeq(s, 1, n) \in Seq(M) /\ Len(SubSeq(s, 1, n)) = n
        /\ ToSet(SubSeq(s, 1, n)) \subseteq ToSet(s)
        /\ IsInjective(SubSeq(s, 1, n))
<1> DEFINE a == SubSeq(s, 1, n)
<1>1. /\ Len(s) \in Nat /\ n \in Nat /\ n <= Len(s) /\ DOMAIN s = 1..Len(s)
  OBVIOUS
<1>2. /\ a \in Seq(M) /\ Len(a) = n /\ \A i \in 1..n : a[i] = s[i]
  OBVIOUS
<1> HIDE DEF a
<1>3. DOMAIN a = 1..n
  BY <1>2
<1>4. \A i \in 1..n : i \in 1..Len(s)
  BY <1>1
<1>5. ToSet(a) \subseteq ToSet(s)
  BY <1>1, <1>2, <1>3, <1>4 DEF ToSet
<1>6. IsInjective(a)
  BY <1>1, <1>2, <1>3, <1>4 DEF IsInjective
<1>7. QED  BY <1>2, <1>5, <1>6 DEF a

\* A new element put at the head of a list without repetitions adds itself alone.
LEMMA PutFirst ==
  ASSUME NEW M, NEW s \in Seq(M), NEW f \in M, IsInjective(s), f \notin ToSet(s)
  PROVE /\ << f >> \o s \in Seq(M) /\ Len(<< f >> \o s) = Len(s) + 1
        /\ ToSet(<< f >> \o s) = {f} \cup ToSet(s)
        /\ IsInjective(<< f >> \o s)
<1> DEFINE h == << f >>
           r == h \o s
<1>1. h \in Seq(M) /\ Len(h) = 1 /\ h[1] = f /\ Len(s) \in Nat /\ DOMAIN s = 1..Len(s)
  OBVIOUS
<1> HIDE DEF h
<1>2. /\ r \in Seq(M) /\ Len(r) = Len(h) + Len(s)
      /\ \A i \in 1..(Len(h) + Len(s)) : r[i] = IF i <= Len(h) THEN h[i] ELSE s[i - Len(h)]
  BY <1>1, ConcatProperties
<1> HIDE DEF r
<1>3. /\ Len(r) = Len(s) + 1 /\ DOMAIN r = 1..(Len(s) + 1) /\ r[1] = f
      /\ \A i \in 2..(Len(s) + 1) : r[i] = s[i - 1] /\ i - 1 \in 1..Len(s)
  BY <1>1, <1>2
<1>4. \A i \in 1..Len(s) : s[i] = r[i + 1] /\ i + 1 \in 2..(Len(s) + 1)
  BY <1>1, <1>3
<1>5. 1 \in 1..(Len(s) + 1) /\ \A i \in 1..(Len(s) + 1) : i = 1 \/ i \in 2..(Len(s) + 1)
  BY <1>1
<1>6. \A i \in 2..(Len(s) + 1) : i \in 1..(Len(s) + 1)
  BY <1>1
<1>7. \A i \in 2..(Len(s) + 1) : r[i] \in ToSet(s)
  BY <1>1, <1>3 DEF ToSet
<1>8. ToSet(r) = {f} \cup ToSet(s)
  <2>1. ToSet(r) = {r[i] : i \in 1..(Len(s) + 1)} /\ ToSet(s) = {s[i] : i \in 1..Len(s)}
    BY <1>1, <1>3 DEF ToSet
  <2>2. ASSUME NEW x \in ToSet(r) PROVE x \in {f} \cup ToSet(s)
    BY <1>3, <1>5, <1>7, <2>1, <2>2
  <2>3. ASSUME NEW x \in ToSet(s) PROVE x \in ToSet(r)
    BY <1>4, <1>6, <2>1, <2>3
  <2>4. f \in ToSet(r)
    BY <1>3, <1>5, <2>1
  <2>5. QED  BY <2>2, <2>3, <2>4
<1>9. \A i, j \in 2..(Len(s) + 1) : r[i] = r[j] => i = j
  <2> SUFFICES ASSUME NEW i \in 2..(Len(s) + 1), NEW j \in 2..(Len(s) + 1), r[i] = r[j]
               PROVE i = j
    OBVIOUS
  <2>1. s[i - 1] = s[j - 1] /\ i - 1 \in DOMAIN s /\ j - 1 \in DOMAIN s
    BY <1>1, <1>3
  <2>2. i - 1 = j - 1
    BY <2>1 DEF IsInjective
  <2>3. QED  BY <1>1, <2>2
<1>10. IsInjective(r)
  BY <1>3, <1>5, <1>7, <1>9 DEF IsInjective
<1>11. QED  BY <1>1, <1>2, <1>3, <1>8, <1>10 DEF r, h

\* A list has a memory taken out of it, or never had it.
LEMMA WithoutIt ==
  ASSUME NEW s \in Seq(Facts), Tidy(s), NEW f \in Facts
  PROVE /\ Without(s, f) \in Seq(Facts) /\ Tidy(Without(s, f))
        /\ ToSet(Without(s, f)) = ToSet(s) \ {f}
<1>1. MaxEntries \in Nat /\ Len(s) \in Nat /\ DOMAIN s = 1..Len(s)
  BY MemoryAssumption
<1>2. CASE f \notin ToSet(s)
  BY <1>2 DEF Without
<1>3. CASE f \in ToSet(s)
  <2> DEFINE k == CHOOSE n \in DOMAIN s : s[n] = f
  <2>1. k \in 1..Len(s) /\ s[k] = f
    BY <1>1, <1>3 DEF ToSet
  <2>2. Without(s, f) = RemoveAt(s, k)
    BY <1>3 DEF Without
  <2> HIDE DEF k
  <2>3. /\ RemoveAt(s, k) \in Seq(Facts) /\ Len(RemoveAt(s, k)) = Len(s) - 1
        /\ ToSet(RemoveAt(s, k)) = ToSet(s) \ {s[k]} /\ IsInjective(RemoveAt(s, k))
    BY <2>1, RemovedAt DEF Tidy
  <2>4. Len(RemoveAt(s, k)) <= MaxEntries
    BY <1>1, <2>3 DEF Tidy
  <2>5. QED  BY <2>1, <2>2, <2>3, <2>4 DEF Tidy
<1>4. QED  BY <1>2, <1>3

\* What a run learned heads the list; nothing else is new in it, and it keeps to the cap.
LEMMA MergedList ==
  ASSUME list.facts \in Seq(Facts), Tidy(list.facts), NEW f \in Facts
  PROVE /\ Merged(f) \in Seq(Facts) /\ Tidy(Merged(f))
        /\ f \in ToSet(Merged(f)) /\ ToSet(Merged(f)) \subseteq ToSet(list.facts) \cup {f}
<1> DEFINE rest == Without(list.facts, f)
           n == IF Len(rest) < MaxEntries THEN Len(rest) ELSE MaxEntries - 1
           kept == SubSeq(rest, 1, n)
<1>1. /\ rest \in Seq(Facts) /\ IsInjective(rest) /\ Len(rest) <= MaxEntries
      /\ ToSet(rest) = ToSet(list.facts) \ {f}
  BY WithoutIt DEF Tidy
<1>2. Merged(f) = << f >> \o kept
  BY DEF Merged
<1> HIDE DEF rest
<1>3. Len(rest) \in Nat /\ MaxEntries \in Nat /\ MaxEntries > 0
  BY <1>1, MemoryAssumption
<1>4. n \in 0..Len(rest) /\ n + 1 <= MaxEntries
  BY <1>3
<1> HIDE DEF n
<1>5. /\ kept \in Seq(Facts) /\ Len(kept) = n /\ ToSet(kept) \subseteq ToSet(rest)
      /\ IsInjective(kept)
  BY <1>1, <1>4, PrefixOf
<1> HIDE DEF kept
<1>6. f \notin ToSet(kept)
  BY <1>1, <1>5
<1>7. /\ << f >> \o kept \in Seq(Facts) /\ Len(<< f >> \o kept) = Len(kept) + 1
      /\ ToSet(<< f >> \o kept) = {f} \cup ToSet(kept)
      /\ IsInjective(<< f >> \o kept)
  BY <1>5, <1>6, PutFirst
<1>8. Len(<< f >> \o kept) <= MaxEntries
  BY <1>4, <1>5, <1>7
<1>9. QED  BY <1>1, <1>2, <1>5, <1>7, <1>8 DEF Tidy

-----------------------------------------------------------------------------
(* The queue *)

\* A save that joins the queue leaves the others where they are and comes last.
LEMMA Queued ==
  ASSUME saves \in Seq(Saves), NEW e \in Saves, saves' = Append(saves, e)
  PROVE /\ saves' \in Seq(Saves) /\ Len(saves) \in Nat /\ Len(saves') = Len(saves) + 1
        /\ DOMAIN saves = 1..Len(saves) /\ DOMAIN saves' = 1..(Len(saves) + 1)
        /\ \A i \in DOMAIN saves : i \in DOMAIN saves' /\ saves'[i] = saves[i]
        /\ saves'[Len(saves) + 1] = e /\ Len(saves) + 1 \in DOMAIN saves'
        /\ \A i \in DOMAIN saves' : i \in DOMAIN saves \/ i = Len(saves) + 1
<1>1. /\ saves' \in Seq(Saves) /\ Len(saves) \in Nat /\ Len(saves') = Len(saves) + 1
      /\ \A i \in 1..Len(saves) : saves'[i] = saves[i]
      /\ saves'[Len(saves) + 1] = e
  BY AppendProperties
<1>2. DOMAIN saves = 1..Len(saves) /\ DOMAIN saves' = 1..(Len(saves) + 1)
  BY <1>1
<1>3. QED  BY <1>1, <1>2

\* Once the head of the queue is served, every other save is one place nearer to it.
LEMMA Served ==
  ASSUME saves \in Seq(Saves), saves # << >>, saves' = Tail(saves)
  PROVE /\ saves' \in Seq(Saves) /\ Len(saves) \in Nat /\ Len(saves') = Len(saves) - 1
        /\ DOMAIN saves = 1..Len(saves) /\ DOMAIN saves' = 1..(Len(saves) - 1)
        /\ Head(saves) = saves[1] /\ 1 \in DOMAIN saves /\ Head(saves) \in Saves
        /\ \A i \in DOMAIN saves' : i + 1 \in DOMAIN saves /\ saves'[i] = saves[i + 1]
        /\ \A i \in DOMAIN saves : i > 1 => i - 1 \in DOMAIN saves' /\ saves'[i - 1] = saves[i]
<1>1. /\ saves' \in Seq(Saves) /\ Len(saves) \in Nat /\ Len(saves') = Len(saves) - 1
      /\ Head(saves) \in Saves /\ \A i \in 1..Len(saves') : saves'[i] = saves[i + 1]
  BY HeadTailProperties
<1>2. DOMAIN saves = 1..Len(saves) /\ DOMAIN saves' = 1..(Len(saves) - 1)
  BY <1>1
<1>3. Len(saves) > 0
  BY <1>1
<1>4. 1 \in DOMAIN saves
  BY <1>1, <1>2, <1>3
<1>5. Head(saves) = saves[1]
  OBVIOUS
<1>6. \A i \in DOMAIN saves' : i + 1 \in DOMAIN saves /\ saves'[i] = saves[i + 1]
  BY <1>1, <1>2
<1>7. \A i \in DOMAIN saves : i > 1 => i - 1 \in DOMAIN saves' /\ saves'[i - 1] = saves[i]
  <2> SUFFICES ASSUME NEW i \in DOMAIN saves, i > 1
               PROVE i - 1 \in DOMAIN saves' /\ saves'[i - 1] = saves[i]
    OBVIOUS
  <2>1. i - 1 \in DOMAIN saves' /\ (i - 1) + 1 = i
    BY <1>1, <1>2
  <2>2. QED  BY <1>6, <2>1
<1>8. QED  BY <1>1, <1>2, <1>4, <1>5, <1>6, <1>7

\* What a save may be: its body, and what a failed deletion puts back.
LEMMA SavesAre ==
  /\ \A w \in Saves : w.body \in Seq(Facts) /\ w.kind \in {"record", "delete"}
  /\ \A w \in Saves : w.kind = "delete" => /\ w.previous \in Lists /\ w.next \in Nat
                                           /\ w.gone \subseteq Facts
  /\ \A l \in Lists : l.id \in Nat /\ l.facts \in Seq(Facts)
BY DEF Saves, Lists

\* How many lists were made is a number, and what is counted never makes it less.
LEMMA Counted ==
  ASSUME spent \in [{"records", "forgets", "clears", "failures", "boots"} -> Nat],
         NEW k \in {"records", "forgets", "clears", "failures", "boots"}, NEW max, Cost(k, max)
  PROVE  /\ spent' \in [{"records", "forgets", "clears", "failures", "boots"} -> Nat]
         /\ ListsMade \in Nat /\ ListsMade' \in Nat /\ ListsMade' >= ListsMade
         /\ k \in {"records", "forgets", "boots"} => ListsMade' = ListsMade + 1
BY DEF Cost, ListsMade

-----------------------------------------------------------------------------
(* What the store holds is well formed, whatever happens *)

\* A store with nothing in it.
LEMMA InitStore == MemoryInit => StoreInv
<1> SUFFICES ASSUME MemoryInit PROVE StoreInv  OBVIOUS
<1>1. << >> \in Seq(Facts) /\ Tidy(<< >>)
  <2>1. Len(<< >>) = 0 /\ MaxEntries \in Nat /\ MaxEntries > 0
    BY MemoryAssumption
  <2>2. IsInjective(<< >>)
    BY DEF IsInjective
  <2>3. QED  BY <2>1, <2>2 DEF Tidy
<1>2. saves = << >> /\ saves \in Seq(Saves) /\ DOMAIN saves = {}
  BY DEF MemoryInit
<1>3. Absent \in Lists /\ Absent.facts = << >>
  BY DEF Absent, Lists
<1>4. spent \in [{"records", "forgets", "clears", "failures", "boots"} -> Nat]
  BY DEF MemoryInit, NoneSpent
<1>5. QED  BY <1>1, <1>2, <1>3, <1>4 DEF StoreInv, MemoryInit

\* A new list is no earlier one.
LEMMA Fresh ==
  ASSUME ListsMade \in Nat, NEW facts \in Seq(Facts)
  PROVE  /\ NewList(facts) \in Lists /\ NewList(facts).facts = facts
         /\ NewList(facts).id = ListsMade + 1 /\ NewList(facts).id # Absent.id
BY DEF NewList, Lists, Absent

\* Whatever joins the queue well formed keeps it so.
LEMMA QueueGrows ==
  ASSUME StoreInv, NEW e \in Saves, saves' = Append(saves, e), Tidy(e.body),
         e.kind = "delete" => Tidy(e.previous.facts) /\ e.previous.id # Absent.id
  PROVE  /\ saves' \in Seq(Saves)
         /\ \A i \in DOMAIN saves' : Tidy(saves'[i].body)
         /\ \A i \in DOMAIN saves' : saves'[i].kind = "delete" =>
               Tidy(saves'[i].previous.facts) /\ saves'[i].previous.id # Absent.id
<1>1. saves \in Seq(Saves)
  BY DEF StoreInv
<1>2. /\ saves' \in Seq(Saves) /\ saves'[Len(saves) + 1] = e
      /\ \A i \in DOMAIN saves : saves'[i] = saves[i]
      /\ \A i \in DOMAIN saves' : i \in DOMAIN saves \/ i = Len(saves) + 1
  BY <1>1, Queued
<1>3. QED  BY <1>2 DEF StoreInv

\* What leaves the queue leaves it well formed.
LEMMA QueueShrinks ==
  ASSUME StoreInv, saves # << >>, saves' = Tail(saves)
  PROVE  /\ saves' \in Seq(Saves)
         /\ \A i \in DOMAIN saves' : Tidy(saves'[i].body)
         /\ \A i \in DOMAIN saves' : saves'[i].kind = "delete" =>
               Tidy(saves'[i].previous.facts) /\ saves'[i].previous.id # Absent.id
<1>1. saves \in Seq(Saves)
  BY DEF StoreInv
<1>2. /\ saves' \in Seq(Saves)
      /\ \A i \in DOMAIN saves' : i + 1 \in DOMAIN saves /\ saves'[i] = saves[i + 1]
  BY <1>1, Served
<1>3. QED  BY <1>2 DEF StoreInv

\* No record, deletion, write, failure or crash leaves a repetition or a list over the cap.
LEMMA StoreKept == StoreInv /\ [MemoryNext]_memoryVars => StoreInv'
<1> SUFFICES ASSUME StoreInv, [MemoryNext]_memoryVars PROVE StoreInv'  OBVIOUS
<1>1. /\ list \in Lists /\ Tidy(list.facts) /\ list.facts \in Seq(Facts)
      /\ saves \in Seq(Saves) /\ forgotten \subseteq Facts
      /\ spent \in [{"records", "forgets", "clears", "failures", "boots"} -> Nat]
  BY SavesAre DEF StoreInv
<1>2. ListsMade \in Nat
  BY <1>1 DEF ListsMade
<1>3. ASSUME NEW f \in Facts, Record(f) PROVE StoreInv'
  <2> DEFINE e == [kind |-> "record", body |-> Merged(f)]
  <2>1. Merged(f) \in Seq(Facts) /\ Tidy(Merged(f))
    BY <1>1, MergedList
  <2>2. e \in Saves /\ e.body = Merged(f) /\ e.kind # "delete" /\ saves' = Append(saves, e)
    BY <1>3, <2>1 DEF Record, Saves
  <2> HIDE DEF e
  <2>3. /\ saves' \in Seq(Saves)
        /\ \A i \in DOMAIN saves' : Tidy(saves'[i].body)
        /\ \A i \in DOMAIN saves' : saves'[i].kind = "delete" =>
              Tidy(saves'[i].previous.facts) /\ saves'[i].previous.id # Absent.id
    BY <2>1, <2>2, QueueGrows
  <2>4. list' \in Lists /\ Tidy(list'.facts) /\ list'.id # Absent.id
    BY <1>2, <1>3, <2>1, Fresh DEF Record
  <2>5. spent' \in [{"records", "forgets", "clears", "failures", "boots"} -> Nat]
    BY <1>1, <1>3, Counted DEF Record
  <2>6. QED  BY <1>1, <1>3, <2>3, <2>4, <2>5 DEF Record, StoreInv
<1>4. ASSUME NEW next \in Lists, Tidy(next.facts), next.id = Absent.id => next = Absent,
             NEW gone \in SUBSET Facts, Delete(next, gone), list # Absent,
             spent' \in [{"records", "forgets", "clears", "failures", "boots"} -> Nat]
      PROVE  StoreInv'
  <2> DEFINE e == [kind |-> "delete", body |-> next.facts, next |-> next.id,
                   previous |-> list, gone |-> gone]
  <2>1. /\ e \in Saves /\ e.body = next.facts /\ e.previous = list
        /\ saves' = Append(saves, e) /\ list.id # Absent.id
    <3>1. next.facts \in Seq(Facts) /\ next.id \in Nat
      BY SavesAre
    <3>2. QED  BY <1>1, <1>4, <3>1 DEF Delete, Saves, StoreInv
  <2> HIDE DEF e
  <2>2. /\ saves' \in Seq(Saves)
        /\ \A i \in DOMAIN saves' : Tidy(saves'[i].body)
        /\ \A i \in DOMAIN saves' : saves'[i].kind = "delete" =>
              Tidy(saves'[i].previous.facts) /\ saves'[i].previous.id # Absent.id
    BY <1>1, <1>4, <2>1, QueueGrows
  <2>3. QED  BY <1>4, <2>2 DEF Delete, StoreInv
<1>5. ASSUME NEW f \in Facts, ForgetOne(f) PROVE StoreInv'
  <2> DEFINE left == Without(list.facts, f)
  <2>1. left \in Seq(Facts) /\ Tidy(left)
    BY <1>1, WithoutIt
  <2> HIDE DEF left
  <2>2. /\ NewList(left) \in Lists /\ Tidy(NewList(left).facts)
        /\ NewList(left).id # Absent.id
    BY <1>2, <2>1, Fresh
  <2>3. Delete(NewList(left), {f}) /\ {f} \in SUBSET Facts
    BY <1>5 DEF ForgetOne, left
  <2>4. spent' \in [{"records", "forgets", "clears", "failures", "boots"} -> Nat]
    BY <1>1, <1>5, Counted DEF ForgetOne
  <2>5. list # Absent
    BY <1>5 DEF ForgetOne, Absent, ToSet
  <2>6. QED  BY <1>4, <2>2, <2>3, <2>4, <2>5
<1>6. CASE ClearAll
  <2>1. Absent \in Lists /\ Tidy(Absent.facts)
    <3>1. Absent \in Lists /\ Absent.facts = << >>
      BY DEF Absent, Lists
    <3>2. Len(<< >>) = 0 /\ MaxEntries \in Nat /\ IsInjective(<< >>)
      BY MemoryAssumption DEF IsInjective
    <3>3. QED  BY <3>1, <3>2 DEF Tidy
  <2>2. Delete(Absent, ToSet(list.facts)) /\ ToSet(list.facts) \in SUBSET Facts
    BY <1>1, <1>6 DEF ClearAll, ToSet
  <2>3. spent' \in [{"records", "forgets", "clears", "failures", "boots"} -> Nat]
    BY <1>1, <1>6, Counted DEF ClearAll
  <2>4. QED  BY <1>4, <1>6, <2>1, <2>2, <2>3 DEF ClearAll
<1>7. CASE Written
  <2>1. Head(saves) \in Saves /\ Head(saves) = saves[1] /\ 1 \in DOMAIN saves
    BY <1>1, <1>7, Served DEF Written
  <2>2. /\ saves' \in Seq(Saves)
        /\ \A i \in DOMAIN saves' : Tidy(saves'[i].body)
        /\ \A i \in DOMAIN saves' : saves'[i].kind = "delete" =>
              Tidy(saves'[i].previous.facts) /\ saves'[i].previous.id # Absent.id
    BY <1>7, QueueShrinks DEF Written
  <2>3. onDisk' \in Seq(Facts) /\ Tidy(onDisk')
    BY <1>7, <2>1, SavesAre DEF Written, StoreInv
  <2>4. forgotten' \subseteq Facts
    BY <1>1, <1>7, <2>1, SavesAre DEF Written
  <2>5. QED  BY <1>7, <2>2, <2>3, <2>4 DEF Written, StoreInv
<1>8. CASE MemoryWriteFails
  <2>1. Head(saves) \in Saves /\ Head(saves) = saves[1] /\ 1 \in DOMAIN saves
    BY <1>1, <1>8, Served DEF MemoryWriteFails
  <2>2. /\ saves' \in Seq(Saves)
        /\ \A i \in DOMAIN saves' : Tidy(saves'[i].body)
        /\ \A i \in DOMAIN saves' : saves'[i].kind = "delete" =>
              Tidy(saves'[i].previous.facts) /\ saves'[i].previous.id # Absent.id
    BY <1>8, QueueShrinks DEF MemoryWriteFails
  <2>3. spent' \in [{"records", "forgets", "clears", "failures", "boots"} -> Nat]
    BY <1>1, <1>8, Counted DEF MemoryWriteFails
  <2>4. CASE list' = list
    BY <1>8, <2>2, <2>3, <2>4 DEF MemoryWriteFails, StoreInv
  <2>5. CASE Head(saves).kind = "delete" /\ list' = Head(saves).previous
    <3>1. list' \in Lists /\ Tidy(list'.facts) /\ (list'.id = Absent.id => list' = Absent)
      BY <2>1, <2>5, SavesAre DEF StoreInv
    <3>2. QED  BY <1>8, <2>2, <2>3, <3>1 DEF MemoryWriteFails, StoreInv
  <2>6. QED  BY <1>8, <2>4, <2>5 DEF MemoryWriteFails, RolledBack
<1>9. CASE Reboot
  <2>1. onDisk' \in Seq(Facts) /\ Tidy(onDisk')
    <3>1. << >> \in Seq(Facts) /\ Tidy(<< >>)
      <4>1. Len(<< >>) = 0 /\ MaxEntries \in Nat /\ IsInjective(<< >>)
        BY MemoryAssumption DEF IsInjective
      <4>2. QED  BY <4>1 DEF Tidy
    <3>2. onDisk' = onDisk \/ onDisk' = << >>
      BY <1>9 DEF Reboot
    <3>3. QED  BY <3>1, <3>2 DEF StoreInv
  <2>2. list' \in Lists /\ Tidy(list'.facts) /\ (list'.id = Absent.id => list' = Absent)
    <3>1. CASE onDisk' = << >>
      <4>1. list' = Absent /\ Absent.facts = onDisk' /\ Absent \in Lists
        BY <1>9, <3>1 DEF Reboot, Absent, Lists
      <4>2. QED  BY <2>1, <4>1
    <3>2. CASE onDisk' # << >>
      <4>1. list' = NewList(onDisk')
        BY <1>9, <3>2 DEF Reboot
      <4>2. QED  BY <1>2, <2>1, <4>1, Fresh
    <3>3. QED  BY <3>1, <3>2
  <2>3. saves' = << >> /\ saves' \in Seq(Saves) /\ DOMAIN saves' = {}
    BY <1>9 DEF Reboot
  <2>4. spent' \in [{"records", "forgets", "clears", "failures", "boots"} -> Nat]
    BY <1>1, <1>9, Counted DEF Reboot
  <2>5. QED  BY <1>9, <2>1, <2>2, <2>3, <2>4 DEF Reboot, StoreInv
<1>10. CASE UNCHANGED memoryVars
  BY <1>10 DEF memoryVars, StoreInv
<1>11. QED  BY <1>3, <1>5, <1>6, <1>7, <1>8, <1>9, <1>10 DEF MemoryNext

\* The store's types, and that the cap holds of what is in memory and of the file.
THEOREM StoreIsWellFormed == MemorySpec => []MemoryTypeOK
<1>1. StoreInv => MemoryTypeOK
  <2> SUFFICES ASSUME StoreInv PROVE MemoryTypeOK  OBVIOUS
  <2>1. list.facts \in Seq(Facts) /\ onDisk \in Seq(Facts)
    BY SavesAre DEF StoreInv
  <2>2. ToSet(list.facts) \subseteq Facts /\ ToSet(onDisk) \subseteq Facts
    BY <2>1 DEF ToSet
  <2>3. QED  BY <2>2 DEF StoreInv, MemoryTypeOK, Tidy
<1>2. QED  BY <1>1, InitStore, StoreKept, PTL DEF MemorySpec

-----------------------------------------------------------------------------
(* Which deletion a roll-back may undo *)

\* The list in memory stays the one the last save queued left there.
LEMMA IdentityKept ==
  ASSUME StoreInv, IdentityInv, [MemoryNext]_memoryVars, ClearsApart'
  PROVE  IdentityInv'
<1>1. /\ list \in Lists /\ saves \in Seq(Saves)
      /\ spent \in [{"records", "forgets", "clears", "failures", "boots"} -> Nat]
      /\ ListsMade \in Nat /\ list.id \in Nat /\ Len(saves) \in Nat
  BY SavesAre DEF StoreInv, ListsMade
<1>2. \A i \in DOMAIN saves : saves[i] \in Saves /\ i \in Nat
  BY <1>1
<1>3. ASSUME NEW e \in Saves, saves' = Append(saves, e),
             ListsMade' \in Nat, ListsMade' >= ListsMade, list'.id <= ListsMade',
             e.kind = "delete" => e.next <= ListsMade' /\ e.previous.id <= ListsMade',
             \A i \in DOMAIN saves : saves[i].kind = "delete" => saves[i].next # list'.id
      PROVE  IdentityInv'
  <2>1. /\ Len(saves') = Len(saves) + 1 /\ saves'[Len(saves) + 1] = e
        /\ \A i \in DOMAIN saves : saves'[i] = saves[i]
        /\ \A i \in DOMAIN saves' : i \in DOMAIN saves \/ i = Len(saves) + 1
    BY <1>1, <1>3, Queued
  <2>2. ASSUME NEW i \in DOMAIN saves', saves'[i].kind = "delete"
        PROVE  /\ saves'[i].next <= ListsMade' /\ saves'[i].previous.id <= ListsMade'
               /\ i # Len(saves') => saves'[i].next # list'.id
    <3>1. CASE i \in DOMAIN saves
      <4>1. saves'[i] = saves[i] /\ saves[i].kind = "delete"
        BY <2>1, <2>2, <3>1
      <4>2. /\ saves[i].next \in Nat /\ saves[i].next <= ListsMade
            /\ saves[i].previous.id \in Nat /\ saves[i].previous.id <= ListsMade
        BY <1>2, <3>1, <4>1, SavesAre DEF IdentityInv
      <4>3. saves[i].next <= ListsMade' /\ saves[i].previous.id <= ListsMade'
        BY SMTT(30), <1>1, <1>3, <4>2
      <4>4. QED  BY <1>3, <3>1, <4>1, <4>3
    <3>2. CASE i = Len(saves) + 1
      BY <1>3, <2>1, <2>2, <3>2
    <3>3. QED  BY <2>1, <3>1, <3>2
  <2>3. QED  BY <1>3, <2>2 DEF IdentityInv
<1>4. ASSUME saves # << >>, saves' = Tail(saves), ListsMade' \in Nat, ListsMade' >= ListsMade,
             list' = list
      PROVE  IdentityInv'
  <2>1. /\ Len(saves') = Len(saves) - 1 /\ DOMAIN saves' = 1..(Len(saves) - 1)
        /\ \A i \in DOMAIN saves' : i + 1 \in DOMAIN saves /\ saves'[i] = saves[i + 1]
    BY <1>1, <1>4, Served
  <2>2. ASSUME NEW i \in DOMAIN saves', saves'[i].kind = "delete"
        PROVE  /\ saves'[i].next <= ListsMade' /\ saves'[i].previous.id <= ListsMade'
               /\ i # Len(saves') => saves'[i].next # list'.id
    <3>1. /\ i + 1 \in DOMAIN saves /\ saves'[i] = saves[i + 1]
          /\ saves[i + 1].kind = "delete" /\ (i # Len(saves') => i + 1 # Len(saves))
      BY <1>1, <2>1, <2>2
    <3>2. /\ saves[i + 1].next \in Nat /\ saves[i + 1].next <= ListsMade
          /\ saves[i + 1].previous.id \in Nat /\ saves[i + 1].previous.id <= ListsMade
      BY <1>2, <3>1, SavesAre DEF IdentityInv
    <3>3. saves[i + 1].next <= ListsMade' /\ saves[i + 1].previous.id <= ListsMade'
      BY SMTT(30), <1>1, <1>4, <3>2
    <3>4. i + 1 # Len(saves) => saves[i + 1].next # list.id
      BY <3>1 DEF IdentityInv
    <3>5. QED  BY <1>4, <3>1, <3>3, <3>4
  <2>3. list'.id <= ListsMade'
    <3>1. list.id <= ListsMade
      BY DEF IdentityInv
    <3>2. QED  BY <1>1, <1>4, <3>1
  <2>4. QED  BY <2>2, <2>3 DEF IdentityInv
<1>5. ASSUME NEW f \in Facts, Record(f) PROVE IdentityInv'
  <2> DEFINE e == [kind |-> "record", body |-> Merged(f)]
  <2>1. Merged(f) \in Seq(Facts)
    BY <1>1, MergedList, SavesAre DEF StoreInv
  <2>2. e \in Saves /\ e.kind # "delete" /\ saves' = Append(saves, e)
    BY <1>5, <2>1 DEF Record, Saves
  <2> HIDE DEF e
  <2>3. ListsMade' \in Nat /\ ListsMade' = ListsMade + 1
    BY <1>1, <1>5, Counted DEF Record
  <2>4. list'.id = ListsMade + 1
    BY <1>1, <1>5, <2>1, Fresh DEF Record
  <2>5. \A i \in DOMAIN saves : saves[i].kind = "delete" => saves[i].next # list'.id
    BY <1>1, <1>2, <2>4, SavesAre DEF IdentityInv
  <2>6. ListsMade' >= ListsMade /\ list'.id <= ListsMade'
    BY <1>1, <2>3, <2>4
  <2>7. QED  BY <1>3, <2>2, <2>3, <2>5, <2>6
<1>6. ASSUME NEW f \in Facts, ForgetOne(f) PROVE IdentityInv'
  <2> DEFINE left == NewList(Without(list.facts, f))
             e == [kind |-> "delete", body |-> left.facts, next |-> left.id,
                   previous |-> list, gone |-> {f}]
  <2>1. left \in Lists /\ left.id = ListsMade + 1 /\ left.facts \in Seq(Facts)
    BY <1>1, WithoutIt, Fresh, SavesAre DEF StoreInv
  <2>2. list' = left /\ saves' = Append(saves, e)
    BY <1>6 DEF ForgetOne, Delete
  <2> HIDE DEF left
  <2>3. e \in Saves /\ e.next = left.id /\ e.previous = list
    BY <1>1, <2>1, SavesAre DEF Saves
  <2> HIDE DEF e
  <2>4. ListsMade' \in Nat /\ ListsMade' = ListsMade + 1
    BY <1>1, <1>6, Counted DEF ForgetOne
  <2>5. \A i \in DOMAIN saves : saves[i].kind = "delete" => saves[i].next # list'.id
    BY <1>1, <1>2, <2>1, <2>2, SavesAre DEF IdentityInv
  <2>6. ListsMade' >= ListsMade /\ list'.id <= ListsMade' /\ e.next <= ListsMade'
        /\ e.previous.id <= ListsMade'
    BY <1>1, <2>1, <2>2, <2>3, <2>4 DEF IdentityInv
  <2>7. QED  BY <1>3, <2>2, <2>3, <2>4, <2>5, <2>6
<1>7. CASE ClearAll
  <2> DEFINE e == [kind |-> "delete", body |-> Absent.facts, next |-> Absent.id,
                   previous |-> list, gone |-> ToSet(list.facts)]
  <2>1. list' = Absent /\ saves' = Append(saves, e)
    BY <1>7 DEF ClearAll, Delete
  <2>2. e \in Saves /\ e.kind = "delete" /\ e.next = 0 /\ Absent.id = 0
        /\ e.previous = list
    <3>1. Absent.facts \in Seq(Facts) /\ Absent.id = 0
      BY DEF Absent
    <3>2. ToSet(list.facts) \subseteq Facts
      BY <1>1, SavesAre DEF ToSet
    <3>3. QED  BY <1>1, <3>1, <3>2 DEF Saves
  <2> HIDE DEF e
  <2>3. ListsMade' \in Nat /\ ListsMade' >= ListsMade
    BY <1>1, <1>7, Counted DEF ClearAll
  <2>4. ASSUME NEW i \in DOMAIN saves, saves[i].kind = "delete"
        PROVE  saves[i].next # list'.id
    <3>1. /\ saves'[i] = saves[i] /\ i \in DOMAIN saves'
          /\ saves'[Len(saves) + 1] = e /\ Len(saves) + 1 \in DOMAIN saves'
          /\ i # Len(saves) + 1
      BY <1>1, <2>1, <2>2, Queued
    <3>2. saves[i].next = Absent.id => i = Len(saves) + 1
      BY <2>2, <2>4, <3>1 DEF ClearsApart
    <3>3. QED  BY <2>1, <3>1, <3>2
  <2>5. list'.id <= ListsMade' /\ e.next <= ListsMade'
        /\ e.previous.id <= ListsMade'
    BY <1>1, <2>1, <2>2, <2>3 DEF IdentityInv
  <2>6. QED  BY <1>3, <2>1, <2>2, <2>3, <2>4, <2>5
<1>8. CASE Written
  <2>1. ListsMade' = ListsMade
    BY <1>8 DEF Written, ListsMade
  <2>2. QED  BY <1>1, <1>4, <1>8, <2>1 DEF Written
<1>9. CASE MemoryWriteFails
  <2> saves # << >> /\ saves' = Tail(saves)
    BY <1>9 DEF MemoryWriteFails
  <2>1. ListsMade' \in Nat /\ ListsMade' >= ListsMade
    BY <1>1, <1>9, Counted DEF MemoryWriteFails
  <2>2. CASE list' = list
    BY <1>4, <2>1, <2>2
  <2>3. CASE Head(saves).kind = "delete" /\ list' = Head(saves).previous /\ list.id = Head(saves).next
    <3>1. /\ Head(saves) = saves[1] /\ 1 \in DOMAIN saves /\ DOMAIN saves' = 1..(Len(saves) - 1)
          /\ Len(saves') = Len(saves) - 1
      BY <1>1, Served
    <3>2. 1 = Len(saves)
      BY <2>3, <3>1 DEF IdentityInv
    <3>3. DOMAIN saves' = {}
      BY <1>1, <3>1, <3>2
    <3>4. list'.id \in Nat /\ list'.id <= ListsMade
      BY <1>2, <2>3, <3>1, SavesAre DEF IdentityInv
    <3>5. list'.id <= ListsMade'
      BY <1>1, <2>1, <3>4
    <3>6. QED  BY <3>3, <3>5 DEF IdentityInv
  <2>4. QED  BY <1>9, <2>2, <2>3 DEF MemoryWriteFails, RolledBack
<1>10. CASE Reboot
  <2>1. ListsMade' \in Nat /\ ListsMade' = ListsMade + 1
    BY <1>1, <1>10, Counted DEF Reboot
  <2>2. list' = Absent \/ list'.id = ListsMade + 1
    BY <1>10 DEF Reboot, NewList
  <2>3. list'.id <= ListsMade'
    BY <1>1, <2>1, <2>2 DEF Absent
  <2>4. saves' = << >> /\ DOMAIN saves' = {}
    BY <1>10 DEF Reboot
  <2>5. QED  BY <2>3, <2>4 DEF IdentityInv
<1>11. CASE UNCHANGED memoryVars
  BY <1>11 DEF memoryVars, IdentityInv, ListsMade
<1>12. QED  BY <1>5, <1>6, <1>7, <1>8, <1>9, <1>10, <1>11 DEF MemoryNext

-----------------------------------------------------------------------------
(* What was deleted is gone from all that is still to happen *)

\* What is gone from an i-th save on stays gone when what joins the queue has it not.
LEMMA GoneStays ==
  ASSUME saves \in Seq(Saves), NEW e \in Saves, saves' = Append(saves, e),
         NEW g, NEW i \in Nat, GoneFrom(g, i), g \notin ToSet(list'.facts),
         g \notin ToSet(e.body), e.kind = "delete" => g \notin ToSet(e.previous.facts)
  PROVE  GoneFrom(g, i)'
<1>1. /\ saves'[Len(saves) + 1] = e
      /\ \A j \in DOMAIN saves : saves'[j] = saves[j]
      /\ \A j \in DOMAIN saves' : j \in DOMAIN saves \/ j = Len(saves) + 1
  BY Queued
<1>2. QED  BY <1>1 DEF GoneFrom

\* A record asked for after the i-th save is still in the queue when another joins it.
LEMMA RecordStays ==
  ASSUME saves \in Seq(Saves), NEW e \in Saves, saves' = Append(saves, e),
         NEW g, NEW i \in Nat, RecordedAfter(g, i)
  PROVE  RecordedAfter(g, i)'
<1>1. \A j \in DOMAIN saves : j \in DOMAIN saves' /\ saves'[j] = saves[j]
  BY Queued
<1>2. QED  BY <1>1 DEF RecordedAfter

\* Both are told of a place nearer once the head of the queue is served.
LEMMA GoneShifts ==
  ASSUME saves \in Seq(Saves), saves # << >>, saves' = Tail(saves),
         NEW g, NEW i \in Nat, NEW n \in Nat, n <= i + 1, GoneFrom(g, n),
         g \notin ToSet(list'.facts)
  PROVE  GoneFrom(g, i)'
<1>1. /\ \A j \in DOMAIN saves' : j + 1 \in DOMAIN saves /\ saves'[j] = saves[j + 1]
      /\ \A j \in DOMAIN saves' : j \in Nat
  BY Served
<1>2. ASSUME NEW j \in DOMAIN saves', j >= i PROVE g \notin ToSet(saves'[j].body)
  <2>1. j + 1 >= n
    BY <1>1, <1>2
  <2>2. QED  BY <1>1, <2>1 DEF GoneFrom
<1>3. ASSUME NEW j \in DOMAIN saves', j > i, saves'[j].kind = "delete"
      PROVE  g \notin ToSet(saves'[j].previous.facts)
  <2>1. j + 1 > n
    BY <1>1, <1>3
  <2>2. QED  BY <1>1, <1>3, <2>1 DEF GoneFrom
<1>4. QED  BY <1>2, <1>3 DEF GoneFrom

\* What the later saves record they still record when the first is done.
LEMMA RecordShifts ==
  ASSUME saves \in Seq(Saves), saves # << >>, saves' = Tail(saves),
         NEW g, NEW i \in Nat, RecordedAfter(g, i + 1)
  PROVE  RecordedAfter(g, i)'
<1>1. PICK j \in DOMAIN saves : j > i + 1 /\ saves[j].kind = "record" /\ g \in ToSet(saves[j].body)
  BY DEF RecordedAfter
<1>2. /\ \A k \in DOMAIN saves : k > 1 => k - 1 \in DOMAIN saves' /\ saves'[k - 1] = saves[k]
      /\ j \in Nat
  BY Served
<1>3. j > 1 /\ j - 1 > i
  BY <1>1, <1>2
<1>4. QED  BY <1>1, <1>2, <1>3 DEF RecordedAfter

\* Nobody has deleted anything from a store just opened.
LEMMA InitDeletions == MemoryInit => IdentityInv /\ DeletionInv
<1> SUFFICES ASSUME MemoryInit PROVE IdentityInv /\ DeletionInv  OBVIOUS
<1>1. DOMAIN saves = {} /\ forgotten = {} /\ list.id = 0 /\ ListsMade = 0
  BY DEF MemoryInit, ListsMade, NoneSpent, Absent
<1>2. QED  BY <1>1 DEF IdentityInv, DeletionInv

\* No step brings a deleted memory back, short of a run that learns it again.
LEMMA DeletionKept ==
  ASSUME StoreInv, IdentityInv, DeletionInv, [MemoryNext]_memoryVars
  PROVE  DeletionInv'
<1>1. /\ list \in Lists /\ Tidy(list.facts) /\ list.facts \in Seq(Facts) /\ saves \in Seq(Saves)
      /\ Len(saves) \in Nat /\ forgotten \subseteq Facts /\ ListsMade \in Nat
  BY SavesAre DEF StoreInv, ListsMade
<1>2. \A i \in DOMAIN saves : saves[i] \in Saves /\ i \in Nat
  BY <1>1
<1>3. ASSUME NEW f \in Facts, Record(f) PROVE DeletionInv'
  <2> DEFINE e == [kind |-> "record", body |-> Merged(f)]
  <2>1. /\ Merged(f) \in Seq(Facts) /\ f \in ToSet(Merged(f))
        /\ ToSet(Merged(f)) \subseteq ToSet(list.facts) \cup {f}
    BY <1>1, MergedList
  <2>2. e \in Saves /\ e.kind = "record" /\ e.body = Merged(f) /\ saves' = Append(saves, e)
    BY <1>3, <2>1 DEF Record, Saves
  <2> HIDE DEF e
  <2>3. list'.facts = Merged(f)
    BY <1>1, <1>3, <2>1, Fresh DEF Record
  <2>4. /\ saves'[Len(saves) + 1] = e /\ Len(saves) + 1 \in DOMAIN saves'
        /\ \A i \in DOMAIN saves : saves'[i] = saves[i]
        /\ \A i \in DOMAIN saves' : i \in DOMAIN saves \/ i = Len(saves) + 1
        /\ \A i \in DOMAIN saves : Len(saves) + 1 > i
    BY <1>1, <2>2, Queued
  <2>5. ASSUME NEW g, g # f, NEW i \in Nat, GoneFrom(g, i) PROVE GoneFrom(g, i)'
    <3>1. g \notin ToSet(list'.facts) /\ g \notin ToSet(e.body)
      BY <2>1, <2>2, <2>3, <2>5 DEF GoneFrom
    <3>2. QED  BY <1>1, <2>2, <2>5, <3>1, GoneStays
  <2>6. ASSUME NEW i \in DOMAIN saves', saves'[i].kind = "delete", NEW g \in saves'[i].gone
        PROVE  RecordedAfter(g, i)' \/ GoneFrom(g, i)'
    <3>1. i \in DOMAIN saves /\ saves'[i] = saves[i] /\ i \in Nat
      BY <1>2, <2>2, <2>4, <2>6
    <3>2. CASE g = f
      BY <2>1, <2>2, <2>4, <3>1, <3>2 DEF RecordedAfter
    <3>3. CASE g # f /\ RecordedAfter(g, i)
      BY <1>1, <2>2, <3>1, <3>3, RecordStays
    <3>4. CASE g # f /\ GoneFrom(g, i)
      BY <2>5, <3>1, <3>4
    <3>5. QED  BY <2>6, <3>1, <3>2, <3>3, <3>4 DEF DeletionInv
  <2>7. ASSUME NEW g \in forgotten' PROVE GoneFrom(g, 0)' /\ g \notin ToSet(onDisk')
    <3>1. g \in forgotten /\ g # f /\ onDisk' = onDisk
      BY <1>3 DEF Record
    <3>2. GoneFrom(g, 0) /\ g \notin ToSet(onDisk)
      BY <3>1 DEF DeletionInv
    <3>3. QED  BY <2>5, <3>1, <3>2
  <2>8. QED  BY <2>6, <2>7 DEF DeletionInv
<1>4. ASSUME NEW next \in Lists, NEW gone \in SUBSET Facts, Delete(next, gone),
             ToSet(next.facts) \subseteq ToSet(list.facts), ToSet(next.facts) \cap gone = {}
      PROVE  DeletionInv'
  <2> DEFINE e == [kind |-> "delete", body |-> next.facts, next |-> next.id,
                   previous |-> list, gone |-> gone]
  <2>1. /\ e \in Saves /\ e.body = next.facts /\ e.previous = list /\ e.gone = gone
        /\ e.kind = "delete"
    <3>1. next.facts \in Seq(Facts) /\ next.id \in Nat
      BY SavesAre
    <3>2. QED  BY <1>1, <3>1 DEF Saves
  <2>2. saves' = Append(saves, e) /\ list' = next
    BY <1>4 DEF Delete
  <2> HIDE DEF e
  <2>3. /\ saves'[Len(saves) + 1] = e /\ Len(saves) + 1 \in DOMAIN saves'
        /\ \A i \in DOMAIN saves : saves'[i] = saves[i] /\ ~(i > Len(saves))
        /\ \A i \in DOMAIN saves' : i \in DOMAIN saves \/ i = Len(saves) + 1
    BY <1>1, <2>1, <2>2, Queued
  <2>4. ASSUME NEW g, NEW i \in Nat, GoneFrom(g, i) PROVE GoneFrom(g, i)'
    <3>1. g \notin ToSet(list.facts)
      BY <2>4 DEF GoneFrom
    <3>2. QED  BY <1>1, <1>4, <2>1, <2>2, <2>4, <3>1, GoneStays
  <2>5. ASSUME NEW i \in DOMAIN saves', saves'[i].kind = "delete", NEW g \in saves'[i].gone
        PROVE  RecordedAfter(g, i)' \/ GoneFrom(g, i)'
    <3>1. CASE i \in DOMAIN saves
      <4>1. saves'[i] = saves[i] /\ i \in Nat
        BY <1>2, <2>3, <3>1
      <4>2. RecordedAfter(g, i) \/ GoneFrom(g, i)
        BY <2>5, <3>1, <4>1 DEF DeletionInv
      <4>3. QED  BY <1>1, <2>1, <2>2, <2>4, <4>1, <4>2, RecordStays
    <3>2. CASE i = Len(saves) + 1
      <4>1. g \in gone /\ g \notin ToSet(list'.facts) /\ g \notin ToSet(e.body)
        BY <1>4, <2>1, <2>2, <2>3, <2>5, <3>2
      <4>2. \A j \in DOMAIN saves' : (j >= i => j = i) /\ ~(j > i)
        BY <1>1, <1>2, <2>3, <3>2
      <4>3. QED  BY <2>3, <3>2, <4>1, <4>2 DEF GoneFrom
    <3>3. QED  BY <2>3, <3>1, <3>2
  <2>6. ASSUME NEW g \in forgotten' PROVE GoneFrom(g, 0)' /\ g \notin ToSet(onDisk')
    <3>1. g \in forgotten /\ onDisk' = onDisk
      BY <1>4 DEF Delete
    <3>2. GoneFrom(g, 0) /\ g \notin ToSet(onDisk)
      BY <3>1 DEF DeletionInv
    <3>3. QED  BY <2>4, <3>1, <3>2
  <2>7. QED  BY <2>5, <2>6 DEF DeletionInv
<1>5. ASSUME NEW f \in Facts, ForgetOne(f) PROVE DeletionInv'
  <2> DEFINE left == Without(list.facts, f)
  <2>1. left \in Seq(Facts) /\ ToSet(left) = ToSet(list.facts) \ {f}
    BY <1>1, WithoutIt
  <2> HIDE DEF left
  <2>2. NewList(left) \in Lists /\ NewList(left).facts = left
    BY <1>1, <2>1, Fresh
  <2>3. Delete(NewList(left), {f}) /\ {f} \in SUBSET Facts
    BY <1>5 DEF ForgetOne, left
  <2>4. QED  BY <1>4, <2>1, <2>2, <2>3
<1>6. CASE ClearAll
  <2>1. Absent \in Lists /\ ToSet(Absent.facts) = {}
    BY DEF Absent, Lists, ToSet
  <2>2. Delete(Absent, ToSet(list.facts)) /\ ToSet(list.facts) \in SUBSET Facts
    BY <1>1, <1>6 DEF ClearAll, ToSet
  <2>3. QED  BY <1>4, <2>1, <2>2
<1>7. ASSUME saves # << >>, saves' = Tail(saves), list' = list,
             NEW i \in DOMAIN saves', saves'[i].kind = "delete", NEW g \in saves'[i].gone
      PROVE  RecordedAfter(g, i)' \/ GoneFrom(g, i)'
  <2>1. i + 1 \in DOMAIN saves /\ saves'[i] = saves[i + 1] /\ i \in Nat
    BY <1>1, <1>7, Served
  <2>2. RecordedAfter(g, i + 1) \/ GoneFrom(g, i + 1)
    BY <1>7, <2>1 DEF DeletionInv
  <2>3. CASE RecordedAfter(g, i + 1)
    BY <1>1, <1>7, <2>1, <2>3, RecordShifts
  <2>4. CASE GoneFrom(g, i + 1)
    <3>1. g \notin ToSet(list'.facts) /\ i + 1 \in Nat /\ i + 1 <= i + 1
      BY <1>7, <2>1, <2>4 DEF GoneFrom
    <3>2. QED  BY <1>1, <1>7, <2>1, <2>4, <3>1, GoneShifts
  <2>5. QED  BY <2>2, <2>3, <2>4
<1>8. CASE Written
  <2> saves # << >> /\ saves' = Tail(saves) /\ list' = list /\ onDisk' = Head(saves).body
    BY <1>8 DEF Written
  <2>1. Head(saves) = saves[1] /\ 1 \in DOMAIN saves
    BY <1>1, Served
  <2>2. ASSUME NEW g, NEW n \in {0, 1}, GoneFrom(g, n)
        PROVE  GoneFrom(g, 0)' /\ g \notin ToSet(onDisk')
    <3>1. g \notin ToSet(list'.facts) /\ g \notin ToSet(onDisk')
      BY <2>1, <2>2 DEF GoneFrom
    <3>2. n \in Nat /\ 0 \in Nat /\ n <= 0 + 1
      BY <2>2
    <3>3. QED  BY <1>1, <2>2, <3>1, <3>2, GoneShifts
  <2>3. ASSUME NEW g \in forgotten' PROVE GoneFrom(g, 0)' /\ g \notin ToSet(onDisk')
    <3>1. CASE g \in forgotten
      BY <2>2, <3>1 DEF DeletionInv
    <3>2. CASE Head(saves).kind = "delete" /\ g \in Head(saves).gone /\ g \notin RecordedSince
      <4>1. ~RecordedAfter(g, 1)
        <5>1. SUFFICES ASSUME NEW j \in DOMAIN saves, j > 1, saves[j].kind = "record",
                              g \in ToSet(saves[j].body)
                       PROVE  FALSE
          BY DEF RecordedAfter
        <5>2. j \in 2..Len(saves)
          BY <1>1, <5>1
        <5>3. QED  BY <3>2, <5>1, <5>2 DEF RecordedSince
      <4>2. GoneFrom(g, 1)
        BY <2>1, <3>2, <4>1 DEF DeletionInv
      <4>3. QED  BY <2>2, <4>2
    <3>3. QED  BY <1>8, <3>1, <3>2 DEF Written
  <2>4. QED  BY <1>7, <2>3 DEF DeletionInv
<1>9. CASE MemoryWriteFails
  <2> saves # << >> /\ saves' = Tail(saves) /\ onDisk' = onDisk /\ forgotten' = forgotten
    BY <1>9 DEF MemoryWriteFails
  <2>1. ASSUME NEW g \in forgotten', g \notin ToSet(list'.facts)
        PROVE  GoneFrom(g, 0)' /\ g \notin ToSet(onDisk')
    <3>1. GoneFrom(g, 0) /\ g \notin ToSet(onDisk') /\ 0 \in Nat /\ 0 <= 0 + 1
      BY <2>1 DEF DeletionInv
    <3>2. QED  BY <1>1, <2>1, <3>1, GoneShifts
  <2>2. CASE list' = list
    <3>1. \A g \in forgotten' : g \notin ToSet(list'.facts)
      BY <2>2 DEF DeletionInv, GoneFrom
    <3>2. QED  BY <1>7, <2>1, <2>2, <3>1 DEF DeletionInv
  <2>3. CASE Head(saves).kind = "delete" /\ list' = Head(saves).previous
                /\ list.id = Head(saves).next
    <3>1. /\ Head(saves) = saves[1] /\ 1 \in DOMAIN saves /\ DOMAIN saves' = 1..(Len(saves) - 1)
      BY <1>1, Served
    <3>2. 1 = Len(saves)
      BY <2>3, <3>1 DEF IdentityInv
    <3>3. DOMAIN saves' = {}
      BY <1>1, <3>1, <3>2
    <3>4. \A g \in forgotten' : g \notin ToSet(list'.facts)
      BY <2>3, <3>1 DEF DeletionInv, GoneFrom
    <3>5. QED  BY <2>1, <3>3, <3>4 DEF DeletionInv
  <2>4. QED  BY <1>9, <2>2, <2>3 DEF MemoryWriteFails, RolledBack
<1>10. CASE Reboot
  <2>1. DOMAIN saves' = {} /\ forgotten' = forgotten
    BY <1>10 DEF Reboot
  <2>2. list'.facts = onDisk'
    <3>1. onDisk' = onDisk \/ onDisk' = << >>
      BY <1>10 DEF Reboot
    <3>2. CASE onDisk' = << >>
      BY <1>10, <3>2 DEF Reboot, Absent
    <3>3. CASE onDisk' # << >>
      BY <1>10, <3>3 DEF Reboot, NewList
    <3>4. QED  BY <3>2, <3>3
  <2>3. \A g \in forgotten : g \notin ToSet(onDisk')
    BY <1>10 DEF Reboot, DeletionInv, ToSet
  <2>4. QED  BY <2>1, <2>2, <2>3 DEF DeletionInv, GoneFrom
<1>11. CASE UNCHANGED memoryVars
  BY <1>11 DEF memoryVars, DeletionInv, GoneFrom, RecordedAfter
<1>12. QED  BY <1>3, <1>5, <1>6, <1>8, <1>9, <1>10, <1>11 DEF MemoryNext

\* A deletion that was reported done sticks, whatever was recorded, deleted or failed around
\* it, in every behaviour in which no two clears of the repository are queued together
\* (memory.ts tells a list of its own from a newer one by identity, and clear leaves none).
THEOREM ReportedDeletionsStick == MemorySpec /\ []ClearsApart => []DeletionsStick
<1>1. MemoryInit => MemoryInv
  BY InitStore, InitDeletions DEF MemoryInv
<1>2. MemoryInv /\ [MemoryNext]_memoryVars /\ ClearsApart' => MemoryInv'
  BY StoreKept, IdentityKept, DeletionKept DEF MemoryInv
<1>3. MemoryInv => DeletionsStick
  <2> SUFFICES ASSUME MemoryInv, NEW f \in forgotten
               PROVE  /\ f \notin ToSet(list.facts) /\ f \notin ToSet(onDisk)
                      /\ \A i \in DOMAIN saves : f \notin ToSet(saves[i].body)
    BY DEF DeletionsStick
  <2>1. GoneFrom(f, 0) /\ f \notin ToSet(onDisk)
    BY DEF MemoryInv, DeletionInv
  <2>2. \A i \in DOMAIN saves : i >= 0
    BY DEF MemoryInv, StoreInv
  <2>3. QED  BY <2>1, <2>2 DEF GoneFrom
<1>4. QED  BY <1>1, <1>2, <1>3, PTL DEF MemorySpec
=============================================================================
