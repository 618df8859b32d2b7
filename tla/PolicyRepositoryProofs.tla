----------------------- MODULE PolicyRepositoryProofs ----------------------
(***************************************************************************)
(* For every policy file and any sequence of questions: what the loops     *)
(* have indexed so far is what a scan of the policies they have read would *)
(* find, so the finished indexes agree and every answer is a scan's.       *)
(***************************************************************************)
EXTENDS PolicyRepository, TLAPS

\* The places among the first n with a number, and with a holder's key.
Numbered(n, number) == {i \in 1..n : policies[i].number = number}
Named(n, key)       == {i \in 1..n : Lowered[policies[i].name] = key}

\* How many policies each loop has read.
ReadForNumbers   == IF loop = "numbers" THEN added ELSE Len(policies)
ReadForClaimants == CASE loop = "numbers" -> 0
                      [] loop = "claimants" -> added
                      [] loop = "done" -> Len(policies)

NumbersUpTo(n) ==
    \A number \in Numbers :
        /\ byNumber[number] = None => Numbered(n, number) = {}
        /\ byNumber[number] # None => /\ byNumber[number] \in Numbered(n, number)
                                      /\ \A i \in Numbered(n, number) : i <= byNumber[number]

\* One key's list is exactly the places with that key, in file order.
ListIs(list, places) ==
    /\ \A i \in 1..Len(list) : list[i] \in places
    /\ \A place \in places : \E i \in 1..Len(list) : list[i] = place
    /\ \A i, j \in 1..Len(list) : i < j => list[i] < list[j]

ClaimantsUpTo(n) == \A key \in Keys : ListIs(byClaimant[key], Named(n, key))

IndexInv == /\ RepositoryTypeOK
            /\ NumbersUpTo(ReadForNumbers)
            /\ ClaimantsUpTo(ReadForClaimants)
-----------------------------------------------------------------------------
LEMMA PolicyFacts ==
    ASSUME RepositoryTypeOK
    PROVE  /\ policies \in Seq([number : Numbers, name : Names])
           /\ Len(policies) \in Nat /\ DOMAIN policies = 1..Len(policies)
           /\ \A i \in 1..Len(policies) : /\ policies[i].number \in Numbers
                                          /\ policies[i].name \in Names
                                          /\ Lowered[policies[i].name] \in Keys
  <1>1. policies \in Seq([number : Numbers, name : Names])
    BY RepositoryAssumption DEF RepositoryAssumption, RepositoryTypeOK
  <1>2. Len(policies) \in Nat /\ DOMAIN policies = 1..Len(policies)
    BY <1>1
  <1>3. ASSUME NEW S, NEW seq \in Seq(S), NEW i \in 1..Len(seq)
        PROVE  seq[i] \in S
    OBVIOUS
  <1>4. \A i \in 1..Len(policies) : policies[i] \in [number : Numbers, name : Names]
    BY <1>1, <1>3
  <1>5. \A i \in 1..Len(policies) : policies[i].number \in Numbers /\ policies[i].name \in Names
    BY <1>4
  <1> QED BY <1>1, <1>2, <1>5 DEF Keys

\* Appending a place greater than every place listed lists one place more.
LEMMA AppendLists ==
    ASSUME NEW m \in Nat, NEW list \in Seq(1..m), NEW n \in Nat,
           NEW places \in SUBSET (1..n), ListIs(list, places)
    PROVE  ListIs(Append(list, n + 1), places \cup {n + 1})
  <1> DEFINE longer == Append(list, n + 1)
  <1>1. /\ Len(longer) = Len(list) + 1 /\ Len(list) \in Nat
        /\ \A i \in 1..Len(list) : longer[i] = list[i]
        /\ longer[Len(list) + 1] = n + 1
    <2>1. list \in Seq(Int)
      <3>1. ASSUME NEW S, NEW T, S \subseteq T, NEW seq \in Seq(S) PROVE seq \in Seq(T)
        BY <3>1
      <3> QED BY <3>1
    <2> QED BY <2>1
  <1>2. \A i \in 1..Len(list) : list[i] \in places
    BY DEF ListIs
  <1>3. \A i \in 1..Len(longer) : i \in 1..Len(list) \/ i = Len(list) + 1
    BY <1>1
  <1> HIDE DEF longer
  <1>4. \A i \in 1..Len(longer) : longer[i] \in places \cup {n + 1}
    BY <1>1, <1>2, <1>3
  <1>5. \A place \in places \cup {n + 1} : \E i \in 1..Len(longer) : longer[i] = place
    <2> SUFFICES ASSUME NEW place \in places \cup {n + 1}
                 PROVE  \E i \in 1..Len(longer) : longer[i] = place
      OBVIOUS
    <2>1. CASE place \in places
      <3>1. PICK i \in 1..Len(list) : list[i] = place
        BY <2>1 DEF ListIs
      <3>2. i \in 1..Len(longer) /\ longer[i] = place
        BY <1>1, <3>1
      <3> QED BY <3>2
    <2>2. CASE place = n + 1
      <3>1. Len(list) + 1 \in 1..Len(longer) /\ longer[Len(list) + 1] = place
        BY <1>1, <2>2
      <3> QED BY <3>1
    <2> QED BY <2>1, <2>2
  <1>6. \A i, j \in 1..Len(longer) : i < j => longer[i] < longer[j]
    <2> SUFFICES ASSUME NEW i \in 1..Len(longer), NEW j \in 1..Len(longer), i < j
                 PROVE  longer[i] < longer[j]
      OBVIOUS
    <2>1. i \in 1..Len(list)
      BY <1>1
    <2>2. CASE j \in 1..Len(list)
      <3>1. list[i] < list[j]
        BY <2>1, <2>2 DEF ListIs
      <3> QED BY <3>1, <2>1, <2>2, <1>1
    <2>3. CASE j = Len(list) + 1
      <3>1. list[i] \in 1..n
        BY <2>1, <1>2
      <3>2. longer[i] = list[i] /\ longer[j] = n + 1
        BY <1>1, <2>1, <2>3
      <3> QED BY <3>1, <3>2
    <2> QED BY <1>3, <2>2, <2>3
  <1> QED BY <1>4, <1>5, <1>6 DEF ListIs, longer

LEMMA InitIndexed == Init => IndexInv
  <1> SUFFICES ASSUME Init PROVE IndexInv
    OBVIOUS
  <1>1. RepositoryTypeOK
    <2>1. policies \in Seq([number : Numbers, name : Names])
      BY RepositoryAssumption DEF RepositoryAssumption, Init
    <2>2. 0 \in 0..Len(policies)
      BY <2>1
    <2>3. byNumber \in [Numbers -> DOMAIN policies \cup {None}]
      BY DEF Init
    <2>4. byClaimant \in [Keys -> Seq(DOMAIN policies)]
      BY DEF Init
    <2> QED BY <2>2, <2>3, <2>4 DEF Init, RepositoryTypeOK
  <1>2. \A x : Numbered(0, x) = {} /\ Named(0, x) = {}
    BY DEF Numbered, Named
  <1>3. NumbersUpTo(ReadForNumbers)
    BY <1>2 DEF Init, NumbersUpTo, ReadForNumbers
  <1>4. ClaimantsUpTo(ReadForClaimants)
    <2>1. ReadForClaimants = 0 /\ \A key \in Keys : byClaimant[key] = <<>>
      BY DEF Init, ReadForClaimants
    <2>2. ListIs(<<>>, {})
      BY DEF ListIs
    <2> QED BY <1>2, <2>1, <2>2 DEF ClaimantsUpTo
  <1> QED BY <1>1, <1>3, <1>4 DEF IndexInv

\* The dictionary comprehension leaves the last policy of each number.
LEMMA AddNumberIndexes ==
    ASSUME IndexInv, AddNumber
    PROVE  IndexInv'
  <1> USE DEF IndexInv
  <1> DEFINE number == policies[added + 1].number
             now    == added + 1
  <1>1. /\ loop = "numbers" /\ loop' = "numbers" /\ policies' = policies /\ added' = added + 1
        /\ byClaimant' = byClaimant /\ answer' = answer
        /\ added \in Nat /\ now \in 1..Len(policies) /\ added' \in 0..Len(policies)
    BY PolicyFacts DEF AddNumber, RepositoryTypeOK
  <1>2. number \in Numbers /\ DOMAIN policies = 1..Len(policies) /\ now # None
    BY <1>1, PolicyFacts, RepositoryAssumption DEF RepositoryAssumption
  <1>3. /\ byNumber' = [byNumber EXCEPT ![number] = now]
        /\ byNumber' \in [Numbers -> DOMAIN policies \cup {None}]
    BY <1>1, <1>2 DEF AddNumber, Indexed, RepositoryTypeOK
  <1>4. RepositoryTypeOK'
    BY <1>1, <1>3 DEF RepositoryTypeOK
  <1>5. \A x : Numbered(now, x) = IF x = number THEN Numbered(added, x) \cup {now} ELSE Numbered(added, x)
    BY <1>1 DEF Numbered
  <1>6. NumbersUpTo(added)
    BY <1>1 DEF ReadForNumbers
  <1>7. NumbersUpTo(added)'
    <2> SUFFICES ASSUME NEW x \in Numbers
                 PROVE  /\ byNumber'[x] = None => Numbered(now, x) = {}
                        /\ byNumber'[x] # None => /\ byNumber'[x] \in Numbered(now, x)
                                                  /\ \A i \in Numbered(now, x) : i <= byNumber'[x]
      BY <1>1 DEF NumbersUpTo, Numbered
    <2>1. CASE x = number
      <3>1. byNumber'[x] = now
        BY <1>2, <1>3, <2>1 DEF RepositoryTypeOK
      <3>2. now \in Numbered(now, x)
        BY <1>5, <2>1
      <3>3. \A i \in Numbered(now, x) : i <= now
        BY <1>1 DEF Numbered
      <3> QED BY <1>2, <3>1, <3>2, <3>3
    <2>2. CASE x # number
      <3>1. byNumber'[x] = byNumber[x]
        BY <1>2, <1>3, <2>2 DEF RepositoryTypeOK
      <3>2. Numbered(now, x) = Numbered(added, x)
        BY <1>5, <2>2
      <3> QED BY <1>6, <3>1, <3>2 DEF NumbersUpTo
    <2> QED BY <2>1, <2>2
  <1>8. NumbersUpTo(ReadForNumbers)'
    BY <1>1, <1>7 DEF ReadForNumbers
  <1>9. ClaimantsUpTo(ReadForClaimants)'
    <2>1. ClaimantsUpTo(0) /\ ReadForClaimants' = 0
      BY <1>1 DEF ReadForClaimants
    <2> QED BY <1>1, <2>1 DEF ClaimantsUpTo, Named
  <1> QED BY <1>4, <1>8, <1>9

\* setdefault and append list each policy under its holder, in file order.
LEMMA AddClaimantIndexes ==
    ASSUME IndexInv, AddClaimant
    PROVE  IndexInv'
  <1> USE DEF IndexInv
  <1> DEFINE key == Lowered[policies[added + 1].name]
             now == added + 1
  <1>1. /\ loop = "claimants" /\ loop' = "claimants" /\ policies' = policies /\ added' = added + 1
        /\ byNumber' = byNumber /\ answer' = answer
        /\ added \in Nat /\ now \in 1..Len(policies) /\ added' \in 0..Len(policies)
    BY PolicyFacts DEF AddClaimant, RepositoryTypeOK
  <1>2. key \in Keys /\ DOMAIN policies = 1..Len(policies) /\ Len(policies) \in Nat
    BY <1>1, PolicyFacts
  <1>3. byClaimant \in [Keys -> Seq(1..Len(policies))]
    BY <1>2 DEF RepositoryTypeOK
  <1>4. byClaimant' = [byClaimant EXCEPT ![key] = Append(byClaimant[key], now)]
    BY <1>1, <1>2, <1>3 DEF AddClaimant, Listed
  <1>5. Append(byClaimant[key], now) \in Seq(1..Len(policies))
    BY <1>1, <1>2, <1>3
  <1>6. byClaimant' \in [Keys -> Seq(DOMAIN policies)]
    BY <1>2, <1>3, <1>4, <1>5
  <1>7. RepositoryTypeOK'
    BY <1>1, <1>6 DEF RepositoryTypeOK
  <1>8. \A x : Named(now, x) = IF x = key THEN Named(added, x) \cup {now} ELSE Named(added, x)
    BY <1>1 DEF Named
  <1>9. ClaimantsUpTo(added)
    BY <1>1 DEF ReadForClaimants
  <1>10. ClaimantsUpTo(added)'
    <2> SUFFICES ASSUME NEW x \in Keys
                 PROVE  ListIs(byClaimant'[x], Named(now, x))
      BY <1>1 DEF ClaimantsUpTo, Named
    <2>1. CASE x = key
      <3>1. byClaimant'[x] = Append(byClaimant[x], added + 1)
        BY <1>2, <1>3, <1>4, <2>1
      <3>2. ListIs(byClaimant[x], Named(added, x)) /\ Named(added, x) \in SUBSET (1..added)
        BY <1>9 DEF ClaimantsUpTo, Named
      <3>3. ListIs(Append(byClaimant[x], added + 1), Named(added, x) \cup {added + 1})
        BY <1>1, <1>2, <1>3, <3>2, AppendLists
      <3>4. Named(now, x) = Named(added, x) \cup {added + 1}
        BY <1>8, <2>1
      <3> QED BY <3>1, <3>3, <3>4
    <2>2. CASE x # key
      <3>1. byClaimant'[x] = byClaimant[x] /\ Named(now, x) = Named(added, x)
        BY <1>2, <1>3, <1>4, <1>8, <2>2
      <3> QED BY <1>9, <3>1 DEF ClaimantsUpTo
    <2> QED BY <2>1, <2>2
  <1>11. ClaimantsUpTo(ReadForClaimants)'
    BY <1>1, <1>10 DEF ReadForClaimants
  <1>12. NumbersUpTo(ReadForNumbers)'
    <2>1. NumbersUpTo(Len(policies)) /\ ReadForNumbers' = Len(policies)
      BY <1>1 DEF ReadForNumbers
    <2> QED BY <1>1, <2>1 DEF NumbersUpTo, Numbered
  <1> QED BY <1>7, <1>11, <1>12

LEMMA NextIndexed == IndexInv /\ [Next]_vars => IndexInv'
  <1> SUFFICES ASSUME IndexInv, [Next]_vars PROVE IndexInv'
    OBVIOUS
  <1> USE DEF IndexInv
  <1>1. CASE AddNumber
    BY <1>1, AddNumberIndexes
  <1>2. CASE NumbersDone
    <2>1. /\ loop = "numbers" /\ loop' = "claimants" /\ added = Len(policies) /\ added' = 0
          /\ UNCHANGED <<policies, byNumber, byClaimant, answer>> /\ Len(policies) \in Nat
      BY <1>2, PolicyFacts DEF NumbersDone
    <2>2. RepositoryTypeOK'
      BY <2>1 DEF RepositoryTypeOK
    <2>3. /\ ReadForNumbers = Len(policies) /\ ReadForNumbers' = Len(policies)
          /\ ReadForClaimants = 0 /\ ReadForClaimants' = 0
      BY <2>1 DEF ReadForNumbers, ReadForClaimants
    <2> QED BY <2>1, <2>2, <2>3 DEF NumbersUpTo, Numbered, ClaimantsUpTo, Named
  <1>3. CASE AddClaimant
    BY <1>3, AddClaimantIndexes
  <1>4. CASE ClaimantsDone
    <2>1. /\ loop = "claimants" /\ loop' = "done" /\ added = Len(policies)
          /\ UNCHANGED <<policies, added, byNumber, byClaimant, answer>>
      BY <1>4 DEF ClaimantsDone
    <2>2. RepositoryTypeOK'
      BY <2>1 DEF RepositoryTypeOK
    <2>3. /\ ReadForNumbers = Len(policies) /\ ReadForNumbers' = Len(policies)
          /\ ReadForClaimants = Len(policies) /\ ReadForClaimants' = Len(policies)
      BY <2>1 DEF ReadForNumbers, ReadForClaimants
    <2> QED BY <2>1, <2>2, <2>3 DEF NumbersUpTo, Numbered, ClaimantsUpTo, Named
  <1>5. ASSUME NEW number \in Numbers, PolicyLookupByNumber(number)
        PROVE  IndexInv'
    <2>1. /\ UNCHANGED <<policies, loop, added, byNumber, byClaimant>>
          /\ answer' \in Answers
      <3>1. byNumber[number] # None => byNumber[number] \in Nat
        BY PolicyFacts DEF RepositoryTypeOK
      <3> QED BY <1>5, <3>1 DEF PolicyLookupByNumber, GetByNumber, Answers
    <2> QED BY <2>1 DEF RepositoryTypeOK, ReadForNumbers, ReadForClaimants,
                        NumbersUpTo, Numbered, ClaimantsUpTo, Named
  <1>6. ASSUME NEW name \in Names, PolicyLookupByClaimant(name)
        PROVE  IndexInv'
    <2>1. /\ UNCHANGED <<policies, loop, added, byNumber, byClaimant>>
          /\ answer' \in Answers
      <3>1. FindByClaimant(name) \in Seq(Nat)
        <4>1. Lowered[name] \in Keys
          BY DEF Keys
        <4>2. byClaimant[Lowered[name]] \in Seq(1..Len(policies))
          BY <4>1, PolicyFacts DEF RepositoryTypeOK
        <4>3. ASSUME NEW S, NEW T, S \subseteq T, NEW seq \in Seq(S) PROVE seq \in Seq(T)
          BY <4>3
        <4>4. byClaimant[Lowered[name]] \in Seq(Nat)
          BY <4>2, <4>3, PolicyFacts
        <4> QED BY <4>1, <4>4 DEF FindByClaimant
      <3> QED BY <1>6, <3>1 DEF PolicyLookupByClaimant, Answers
    <2> QED BY <2>1 DEF RepositoryTypeOK, ReadForNumbers, ReadForClaimants,
                        NumbersUpTo, Numbered, ClaimantsUpTo, Named
  <1>7. CASE UNCHANGED vars
    BY <1>7 DEF vars, RepositoryTypeOK, ReadForNumbers, ReadForClaimants,
                NumbersUpTo, Numbered, ClaimantsUpTo, Named
  <1> QED BY <1>1, <1>2, <1>3, <1>4, <1>5, <1>6, <1>7 DEF Next

LEMMA AlwaysIndexed == Spec => []IndexInv
  <1> QED BY InitIndexed, NextIndexed, PTL DEF Spec

\* What is in the two indexes, and what each loop has read, is well typed at
\* every step of the constructor and of the lookups.
THEOREM RepositoryTypeCorrect == Spec => []RepositoryTypeOK
  <1>1. IndexInv => RepositoryTypeOK
    BY DEF IndexInv
  <1> QED BY <1>1, AlwaysIndexed, PTL

\* Once both loops of __init__ are over, the indexes speak of the same
\* policies, whatever numbers and names repeat in the file.
THEOREM IndexesAlwaysAgree == Spec => []IndexesAgree
  <1>1. IndexInv => IndexesAgree
    <2> SUFFICES ASSUME IndexInv, loop = "done" PROVE IndexesAgree
      BY DEF IndexesAgree
    <2> USE DEF IndexInv
    <2>1. NumbersUpTo(Len(policies)) /\ ClaimantsUpTo(Len(policies))
      BY DEF ReadForNumbers, ReadForClaimants
    <2>2. ASSUME NEW number \in Numbers, byNumber[number] # None,
                 NEW holder, holder = Lowered[policies[byNumber[number]].name]
          PROVE  \E i \in DOMAIN byClaimant[holder] : byClaimant[holder][i] = byNumber[number]
      <3>1. byNumber[number] \in 1..Len(policies) /\ holder \in Keys
        BY <2>2, PolicyFacts DEF RepositoryTypeOK
      <3>2. byNumber[number] \in Named(Len(policies), holder)
        BY <2>2, <3>1 DEF Named
      <3>3. \E i \in 1..Len(byClaimant[holder]) : byClaimant[holder][i] = byNumber[number]
        BY <2>1, <3>1, <3>2 DEF ClaimantsUpTo, ListIs
      <3>4. DOMAIN byClaimant[holder] = 1..Len(byClaimant[holder])
        BY <3>1 DEF RepositoryTypeOK
      <3> QED BY <3>3, <3>4
    <2>3. ASSUME NEW key \in Keys, NEW i \in DOMAIN byClaimant[key],
                 NEW found, found = byNumber[policies[byClaimant[key][i]].number]
          PROVE  found # None /\ byClaimant[key][i] <= found
      <3>1. i \in 1..Len(byClaimant[key])
        BY <2>3 DEF RepositoryTypeOK
      <3>2. byClaimant[key][i] \in 1..Len(policies)
        BY <2>1, <3>1 DEF ClaimantsUpTo, ListIs, Named
      <3>3. /\ policies[byClaimant[key][i]].number \in Numbers
            /\ byClaimant[key][i] \in Numbered(Len(policies), policies[byClaimant[key][i]].number)
        BY <3>2, PolicyFacts DEF Numbered
      <3> QED BY <2>1, <2>3, <3>3 DEF NumbersUpTo
    <2> QED BY <2>2, <2>3 DEF IndexesAgree
  <1> QED BY <1>1, AlwaysIndexed, PTL

\* Every answer of either lookup tool is a scan's answer.
THEOREM RepositoryImplementsBook == Spec => ImplementsPolicyBook
  <1>1. Init => Book!Init
    BY DEF Init, Book!Init
  <1>2. ASSUME IndexInv, [Next]_vars
        PROVE  [Book!Ask]_<<policies, answer>>
    <2> USE <1>2 DEF IndexInv
    <2>1. ASSUME NEW number \in Numbers, PolicyLookupByNumber(number)
          PROVE  Book!Ask
      <3> DEFINE places == IF byNumber[number] = None THEN <<>> ELSE <<byNumber[number]>>
      <3>1. /\ loop = "done" /\ policies' = policies
            /\ answer' = [by |-> "number", asked |-> number, places |-> places]
        BY <2>1 DEF PolicyLookupByNumber, GetByNumber
      <3>2. places \in Seq(Nat)
        <4>1. byNumber[number] # None => byNumber[number] \in Nat
          BY PolicyFacts DEF RepositoryTypeOK
        <4> QED BY <4>1
      <3>3. answer' # NotAsked
        <4> HIDE DEF places
        <4>1. answer' \in Answers
          BY <2>1, <3>1, <3>2 DEF Answers
        <4> QED BY <4>1, RepositoryAssumption DEF RepositoryAssumption
      <3>4. NumbersUpTo(Len(policies))
        BY <3>1 DEF ReadForNumbers
      <3>5. Book!WithNumber(policies, Len(policies), number) = Numbered(Len(policies), number)
        BY DEF Book!WithNumber, Numbered
      <3>6. Book!AnswersNumber(places, number)
        <4>1. CASE byNumber[number] = None
          BY <3>4, <3>5, <4>1 DEF Book!AnswersNumber, NumbersUpTo
        <4>2. CASE byNumber[number] # None
          BY <3>4, <3>5, <4>2 DEF Book!AnswersNumber, NumbersUpTo
        <4> QED BY <4>1, <4>2
      <3>7. /\ answer'.by = "number" /\ answer'.asked = number /\ answer'.places = places
        BY <3>1
      <3> QED BY <3>1, <3>3, <3>6, <3>7 DEF Book!Ask
    <2>2. ASSUME NEW name \in Names, PolicyLookupByClaimant(name)
          PROVE  Book!Ask
      <3> DEFINE key == Lowered[name]
      <3>1. key \in Keys
        BY DEF Keys
      <3>2. /\ loop = "done" /\ policies' = policies
            /\ answer' = [by |-> "claimant", asked |-> name, places |-> byClaimant[key]]
        BY <2>2, <3>1 DEF PolicyLookupByClaimant, FindByClaimant
      <3>3. byClaimant[key] \in Seq(1..Len(policies)) /\ Len(policies) \in Nat
        BY <3>1, PolicyFacts DEF RepositoryTypeOK
      <3>4. answer' # NotAsked
        <4>1. ASSUME NEW S, NEW T, S \subseteq T, NEW seq \in Seq(S) PROVE seq \in Seq(T)
          BY <4>1
        <4>2. byClaimant[key] \in Seq(Nat)
          BY <3>3, <4>1
        <4>3. answer' \in Answers
          BY <3>2, <4>2 DEF Answers
        <4> QED BY <4>3, RepositoryAssumption DEF RepositoryAssumption
      <3>5. ListIs(byClaimant[key], Named(Len(policies), key))
        BY <3>1, <3>2 DEF ReadForClaimants, ClaimantsUpTo
      <3>6. Book!WithName(policies, Len(policies), key) = Named(Len(policies), key)
        BY DEF Book!WithName, Named
      <3>7. Book!PlacesIn(byClaimant[key]) = Named(Len(policies), key)
        BY <3>5 DEF Book!PlacesIn, ListIs
      <3>8. Book!InFileOrder(byClaimant[key])
        BY <3>5 DEF Book!InFileOrder, ListIs
      <3>9. Book!AnswersName(byClaimant[key], name)
        BY <3>6, <3>7, <3>8 DEF Book!AnswersName
      <3>10. /\ answer'.by = "claimant" /\ answer'.asked = name /\ answer'.places = byClaimant[key]
        BY <3>2
      <3> QED BY <3>2, <3>4, <3>9, <3>10 DEF Book!Ask
    <2>3. AddNumber \/ NumbersDone \/ AddClaimant \/ ClaimantsDone \/ UNCHANGED vars
          => UNCHANGED <<policies, answer>>
      BY DEF AddNumber, NumbersDone, AddClaimant, ClaimantsDone, vars
    <2> QED BY <1>2, <2>1, <2>2, <2>3 DEF Next
  <1> QED BY <1>1, <1>2, AlwaysIndexed, PTL DEF Spec, ImplementsPolicyBook, Book!Spec
=============================================================================
