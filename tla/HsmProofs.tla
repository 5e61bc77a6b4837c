------------------------------- MODULE HsmProofs -------------------------------
(***************************************************************************)
(* Theorems about Hsm, for any ids an operator uses, any number of key     *)
(* pairs and any life of them.                                             *)
(***************************************************************************)
EXTENDS HsmInvariant, FiniteSetTheorems, TLAPS

-----------------------------------------------------------------------------
(* Maps and names. *)

LEMMA EmptyMap == DOMAIN <<>> = {}
  OBVIOUS

\* A name of one id, and a name with a time appended.
LEMMA SingleName ==
    ASSUME NEW id
    PROVE  IsName(<<id>>) /\ Generated(<<id>>) /\ <<id>> # <<>> /\ <<id>>[1] = id
  BY DEF IsName, Generated

LEMMA LongerName ==
    ASSUME NEW name, IsName(name), NEW t
    PROVE  /\ IsName(Append(name, t)) /\ ~Generated(Append(name, t))
           /\ Front(Append(name, t)) = name /\ Append(name, t) # <<>>
  <1> DEFINE S == {name[i] : i \in 1..Len(name)} \cup {t}
  <1>1. name \in Seq(S) /\ Len(name) \in Nat \ {0}
    BY DEF IsName
  <1> HIDE DEF S
  <1>2. t \in S
    BY DEF S
  <1>3. Append(name, t) \in Seq(S) /\ Len(Append(name, t)) = Len(name) + 1
    BY <1>1, <1>2
  <1>4. IsName(Append(name, t))
    <2>1. \A q \in Seq(S) : q \in [1..Len(q) -> S]
      OBVIOUS
    <2>2. Append(name, t) = [i \in 1..Len(Append(name, t)) |-> Append(name, t)[i]]
      BY <1>3, <2>1
    <2>3. QED
      BY <1>1, <1>3, <2>2 DEF IsName
  <1>5. Front(Append(name, t)) = name
    BY <1>1, <1>2, <1>3 DEF Front
  <1>6. QED
    BY <1>1, <1>3, <1>4, <1>5 DEF Generated

LEMMA Defaults ==
    /\ Len(DefaultKeys) = 3
    /\ DOMAIN DefaultKeys = 1..3
    /\ DefaultNames = {<<"card_signing">>, <<"transaction_signing">>, <<"user_encryption">>}
    /\ \A id \in OtherIds : <<id>> \notin DefaultNames
  <1>1. Len(DefaultKeys) = 3 /\ DOMAIN DefaultKeys = 1..3
    BY DEF DefaultKeys
  <1>2. DefaultNames = {<<"card_signing">>, <<"transaction_signing">>, <<"user_encryption">>}
    BY <1>1 DEF DefaultNames, DefaultKeys
  <1>3. ASSUME NEW id \in OtherIds PROVE <<id>> \notin DefaultNames
    <2>1. id \notin {"card_signing", "transaction_signing", "user_encryption"}
      BY <1>1, HsmAssumption DEF DefaultKeys
    <2>2. QED
      BY <1>2, <2>1
  <1>4. QED
    BY <1>1, <1>2, <1>3
-----------------------------------------------------------------------------
(* What the operations do to memory and files. *)

CoreInv == TypeOK /\ NameInv /\ GenerateInv /\ OutsideInv /\ LoadedInv /\ UniqueInv
           /\ MemoryIsSaved

LEMMA KeyType ==
    ASSUME TypeOK
    PROVE  /\ \A name \in DOMAIN keys : name # <<>> /\ keys[name] \in Pair
           /\ \A name \in DOMAIN files : /\ name # <<>>
                                        /\ files[name] \in [sealed : DerivedKeys, pair : Pair]
                                              \cup {Torn}
           /\ drawn \in Nat /\ drawn <= MaxPairs /\ MaxPairs \in Nat /\ now \in Nat
  BY HsmAssumption DEF TypeOK, IsMap

\* A readable file is not a torn one.
LEMMA Readable ==
    ASSUME TypeOK, NEW name \in Loadable(Configured)
    PROVE  /\ name \in DOMAIN files /\ files[name] \in [sealed : DerivedKeys, pair : Pair]
           /\ files[name].sealed = Configured /\ files[name].pair \in Pair
  <1>1. name \in DOMAIN files /\ files[name].sealed = Configured
    BY DEF Loadable
  <1>2. files[name] # Torn
    BY <1>1, HsmAssumption DEF Torn
  <1>3. QED
    BY <1>1, <1>2, KeyType

LEMMA TornIsUnreadable == Torn.sealed # Configured
  BY HsmAssumption DEF Torn

LEMMA NewPairType ==
    ASSUME TypeOK, drawn < MaxPairs
    PROVE  NewPair \in Pair /\ NewPair.public = drawn + 1 /\ drawn + 1 \in 1..MaxPairs
  <1>1. drawn + 1 \in 1..MaxPairs /\ now + Lifetime \in Nat
    BY KeyType, HsmAssumption
  <1>2. QED
    BY <1>1 DEF NewPair, Pair

LEMMA SaveEffect ==
    ASSUME CoreInv, NEW name, NEW next, GenerateKeyPair(name, next)
    PROVE  /\ name \notin DOMAIN keys /\ drawn' = drawn + 1 /\ drawn' \in 1..MaxPairs
           /\ DOMAIN keys' = DOMAIN keys \cup {name}
           /\ DOMAIN files' = DOMAIN files \cup {name}
           /\ \A z \in DOMAIN keys : keys'[z] = keys[z]
           /\ \A z \in DOMAIN files \ {name} : files'[z] = files[z]
           /\ keys'[name] = NewPair /\ files'[name] = [sealed |-> Configured, pair |-> NewPair]
           /\ NewPair \in Pair /\ NewPair.public = drawn + 1
           /\ Loadable(Configured)' = Loadable(Configured) \cup {name}
  <1>1. masterKey = Configured /\ TypeOK
    BY DEF CoreInv, NameInv
  <1>2. /\ keys' = With(keys, name, NewPair)
        /\ files' = With(files, name, [sealed |-> Configured, pair |-> NewPair])
        /\ name \notin DOMAIN keys /\ drawn' = drawn + 1 /\ drawn < MaxPairs
    BY <1>1 DEF GenerateKeyPair, SaveKeyToDisk
  <1>3. NewPair \in Pair /\ NewPair.public = drawn + 1 /\ drawn + 1 \in 1..MaxPairs
    BY <1>1, <1>2, NewPairType
  <1>4. /\ DOMAIN keys' = DOMAIN keys \cup {name}
        /\ DOMAIN files' = DOMAIN files \cup {name}
        /\ \A z \in DOMAIN keys : keys'[z] = keys[z]
        /\ \A z \in DOMAIN files \ {name} : files'[z] = files[z]
        /\ keys'[name] = NewPair /\ files'[name] = [sealed |-> Configured, pair |-> NewPair]
    BY <1>2 DEF With, Over
  <1>5. Loadable(Configured)' = Loadable(Configured) \cup {name}
    BY <1>4 DEF Loadable
  <1>6. QED
    BY <1>2, <1>3, <1>4, <1>5

\* What a failed save, or a crash in the middle of one, does to the files.
Torned(name) == files' = With(files, name, Torn)

LEMMA TornEffect ==
    ASSUME TypeOK, NEW name, Torned(name)
    PROVE  /\ DOMAIN files' = DOMAIN files \cup {name} /\ files'[name] = Torn
           /\ \A z \in DOMAIN files \ {name} : files'[z] = files[z]
           /\ Loadable(Configured)' = Loadable(Configured) \ {name}
  <1>1. /\ DOMAIN files' = DOMAIN files \cup {name} /\ files'[name] = Torn
        /\ \A z \in DOMAIN files \ {name} : files'[z] = files[z]
    BY DEF Torned, With, Over
  <1>2. QED
    BY <1>1, TornIsUnreadable DEF Loadable

-----------------------------------------------------------------------------
(* Rotation. *)

\* The replacements are numbered one to one.
LEMMA Numbering ==
    ASSUME CoreInv, RotateKeys
    PROVE  \E f \in [Due -> drawn + 1 .. drawn'] : IsInjective(f)
  <1>1. IsFiniteSet(Due) /\ Cardinality(Due) \in Nat
    BY FS_Subset, FS_CardinalityType DEF CoreInv, NameInv, Due
  <1>2. drawn \in Nat /\ drawn' = drawn + Cardinality(Due)
    BY KeyType DEF CoreInv, RotateKeys
  <1>3. IsFiniteSet(drawn + 1 .. drawn') /\ Cardinality(drawn + 1 .. drawn') = Cardinality(Due)
    BY <1>1, <1>2, FS_Interval
  <1>4. ExistsBijection(Due, drawn + 1 .. drawn')
    BY <1>1, <1>3, FS_SameCardinalityBij
  <1>5. QED
    BY <1>4 DEF ExistsBijection, Bijection, Injection, IsInjective
\* Rotation adds or replaces rotated keys, under new numbers; the others keep
\* their pairs.
LEMMA RotateEffect ==
    ASSUME CoreInv, RotateKeys
    PROVE  /\ drawn' \in Nat /\ drawn <= drawn' /\ drawn' <= MaxPairs
           /\ IsFiniteSet(DOMAIN keys') /\ DOMAIN keys \subseteq DOMAIN keys'
           /\ \A name \in DOMAIN keys' : IsName(name) /\ name # <<>> /\ keys'[name] \in Pair
           /\ \A name \in DOMAIN keys' :
                 \/ name \in DOMAIN keys /\ keys'[name].public = keys[name].public
                 \/ ~Generated(name) /\ keys'[name].public \in drawn + 1 .. drawn'
           /\ \A n, m \in DOMAIN keys' : keys'[n].public = keys'[m].public => n = m
  <1> DEFINE New == {Append(old, now) : old \in Due}
             Numbered(number) == [new \in New |-> [NewPair EXCEPT !.public = number[Front(new)]]]
             Old == [old \in Due |-> [keys[old] EXCEPT !.active = FALSE]]
  <1>0. TypeOK /\ NameInv /\ UniqueInv /\ Due \subseteq DOMAIN keys
    BY DEF CoreInv, Due
  <1>1. PICK number \in [Due -> drawn + 1 .. drawn'] :
           IsInjective(number) /\ keys' = Over(Numbered(number), Over(Old, keys))
    <2>1. LET number == CHOOSE f \in [Due -> drawn + 1 .. drawn'] : IsInjective(f)
          IN  keys' = Over(Numbered(number), Over(Old, keys))
      BY DEF RotateKeys
    <2>2. QED
      BY <2>1, Numbering
  <1>2. /\ drawn \in Nat /\ drawn' \in Nat /\ drawn <= drawn' /\ drawn' <= MaxPairs
        /\ now + Lifetime \in Nat
    <2>1. Cardinality(Due) \in Nat
      BY <1>0, FS_Subset, FS_CardinalityType DEF NameInv
    <2>2. QED
      BY <1>0, <2>1, KeyType, HsmAssumption DEF RotateKeys
  <1>3. ASSUME NEW new \in New
        PROVE  /\ Front(new) \in Due /\ new = Append(Front(new), now)
               /\ IsName(new) /\ ~Generated(new) /\ new # <<>>
    <2>1. PICK old \in Due : new = Append(old, now)
      OBVIOUS
    <2>2. IsName(old)
      BY <1>0 DEF NameInv
    <2>3. QED
      BY <2>1, <2>2, LongerName
  <1>4. DOMAIN keys' = New \cup DOMAIN keys
    BY <1>0, <1>1 DEF Over
  <1>5. ASSUME NEW new \in New
        PROVE  /\ keys'[new].public = number[Front(new)]
               /\ keys'[new].public \in drawn + 1 .. drawn' /\ keys'[new] \in Pair
    <2>1. keys'[new] = [NewPair EXCEPT !.public = number[Front(new)]]
      BY <1>1, <1>5 DEF Over
    <2>2. number[Front(new)] \in drawn + 1 .. drawn'
      BY <1>1, <1>3
    <2>3. number[Front(new)] \in 1..MaxPairs
      BY <1>2, <2>2, HsmAssumption
    <2>4. QED
      BY <1>2, <2>1, <2>2, <2>3 DEF NewPair, Pair
  <1>6. ASSUME NEW name \in DOMAIN keys, name \notin New
        PROVE  keys'[name].public = keys[name].public /\ keys'[name] \in Pair
    <2>1. keys'[name] = Over(Old, keys)[name]
      BY <1>0, <1>1, <1>6 DEF Over
    <2>2. keys[name] \in Pair
      BY <1>0, KeyType
    <2>3. CASE name \in Due
      <3>1. keys'[name] = [keys[name] EXCEPT !.active = FALSE]
        BY <2>1, <2>3 DEF Over
      <3>2. QED
        BY <2>2, <3>1 DEF Pair
    <2>4. CASE name \notin Due
      BY <2>1, <2>2, <2>4, <1>6 DEF Over
    <2>5. QED
      BY <2>3, <2>4
  <1>7. IsFiniteSet(DOMAIN keys')
    <2>1. [old \in Due |-> Append(old, now)] \in Surjection(Due, New)
      BY DEF Surjection
    <2>2. IsFiniteSet(New)
      BY <1>0, <2>1, FS_Subset, FS_Surjection DEF NameInv
    <2>3. IsFiniteSet(DOMAIN keys)
      BY <1>0 DEF NameInv
    <2>4. QED
      BY <1>4, <2>2, <2>3, FS_Union
  <1>8. \A name \in DOMAIN keys : IsName(name) /\ name # <<>> /\ keys[name].public \in 1..drawn
    BY <1>0, KeyType DEF NameInv, UniqueInv, PairOf
  <1> HIDE DEF New, Old, Numbered
  <1>9. ASSUME NEW n \in DOMAIN keys', NEW m \in DOMAIN keys', keys'[n].public = keys'[m].public
        PROVE  n = m
    <2>1. CASE n \in New /\ m \in New
      <3>1. number[Front(n)] = number[Front(m)] /\ Front(n) \in Due /\ Front(m) \in Due
        BY <1>3, <1>5, <1>9, <2>1
      <3>2. Front(n) = Front(m)
        BY <1>1, <3>1 DEF IsInjective
      <3>3. QED
        BY <1>3, <2>1, <3>2
    <2>2. CASE n \notin New /\ m \notin New
      BY <1>0, <1>4, <1>6, <1>9, <2>2 DEF UniqueInv, PairOf
    <2>3. ASSUME NEW x \in New, NEW y \in DOMAIN keys, y \notin New
          PROVE  keys'[x].public # keys'[y].public
      <3>1. keys'[x].public \in drawn + 1 .. drawn' /\ keys'[y].public \in 1..drawn
        BY <1>5, <1>6, <1>8, <2>3
      <3>2. QED
        BY <1>2, <3>1
    <2>4. QED
      BY <1>4, <1>9, <2>1, <2>2, <2>3
  <1>10. QED
    BY <1>2, <1>3, <1>4, <1>5, <1>6, <1>7, <1>8, <1>9
-----------------------------------------------------------------------------
(* The invariant is inductive. *)

LEMMA CoreIsEnough ==
    ASSUME CoreInv
    PROVE  SignedAndSealedSurvive /\ PublishedIsUsed /\ DeletedStaysDeleted
  <1>0. TypeOK /\ NameInv /\ OutsideInv /\ LoadedInv /\ UniqueInv /\ MemoryIsSaved
    BY DEF CoreInv
  <1>1. \A name \in DefaultNames : Generated(name)
    BY Defaults, SingleName
  <1>2. ASSUME NEW name, NEW public, Stands(name, public), name \in DOMAIN keys
        PROVE  keys[name].public = public
    BY <1>0, <1>1, <1>2 DEF Stands, MemoryIsSaved
  <1>3. ASSUME pc = "serving", NEW name, NEW public, Stands(name, public)
        PROVE  name \in DOMAIN keys
    BY <1>0, <1>3 DEF Stands, LoadedInv
  <1>4. SignedAndSealedSurvive
    <2>1. ASSUME pc = "serving", sealed # {} PROVE <<"user_encryption">> \in DOMAIN keys
      BY <1>0, <2>1, Defaults DEF OutsideInv, LoadedInv
    <2>2. QED
      BY <1>0, <1>2, <1>3, <2>1
      DEF SignedAndSealedSurvive, Verifies, Opens, OutsideInv, NameInv
  <1>5. PublishedIsUsed
    BY <1>0, <1>2 DEF PublishedIsUsed, OutsideInv
  <1>6. DeletedStaysDeleted
    BY <1>0 DEF DeletedStaysDeleted, UniqueInv, PairOf
  <1>7. QED
    BY <1>4, <1>5, <1>6

\* Memory and readable files may lose keys, as long as they keep the same ones.
LEMMA ShrinkStep ==
    ASSUME CoreInv,
           \A z \in DOMAIN keys' : z \in DOMAIN keys /\ keys'[z] = keys[z],
           \A z \in Loadable(Configured)' : z \in Loadable(Configured) /\ files'[z] = files[z],
           \A z \in DOMAIN keys' : z \in DOMAIN files => z \in DOMAIN files' /\ files'[z] = files[z],
           masterKey' = masterKey, drawn <= drawn', drawn' \in Nat,
           \A z \in DOMAIN keys' : PairOf(z) \notin deleted',
           \A z \in Loadable(Configured)' : SavedPair(z) \notin deleted'
    PROVE  UniqueInv' /\ MemoryIsSaved'
  <1>0. UniqueInv /\ MemoryIsSaved /\ drawn \in Nat
    BY KeyType DEF CoreInv
  <1>1. \A x \in 1..drawn : x \in 1..drawn'
    BY <1>0
  <1>2. UniqueInv'
    BY <1>0, <1>1 DEF UniqueInv, PairOf, SavedPair
  <1>3. MemoryIsSaved'
    BY <1>0 DEF MemoryIsSaved
  <1>4. QED
    BY <1>2, <1>3

\* What is known outside stays true while default files and keys are kept.
LEMMA OutsideStays ==
    ASSUME CoreInv, signed' \subseteq signed, UNCHANGED <<sealed, published>>,
           \A z \in DefaultNames \cap Loadable(Configured) :
              z \in Loadable(Configured)' /\ files'[z].pair = files[z].pair
    PROVE  OutsideInv'
  <1>1. <<"user_encryption">> \in DefaultNames
    BY Defaults
  <1>2. QED
    BY <1>1 DEF CoreInv, OutsideInv, Stands

LEMMA StepStart == ASSUME CoreInv, Start PROVE CoreInv'
  <1>0. TypeOK /\ NameInv /\ OutsideInv /\ UniqueInv
    BY DEF CoreInv
  <1>1. /\ masterKey' = Configured /\ keys' = [name \in Loadable(Configured) |-> files[name].pair]
        /\ pc' = IF Loadable(Configured) = {} THEN "generate" ELSE "sync"
        /\ UNCHANGED <<files, published, drawn, signed, sealed, deleted, now>>
    BY DEF Start, Derives, history
  <1>2. DOMAIN keys' = Loadable(Configured) /\ Loadable(Configured)' = Loadable(Configured)
        /\ Loadable(Configured) \subseteq DOMAIN files
        /\ \A name \in Loadable(Configured) : keys'[name] = files[name].pair
    BY <1>1 DEF Loadable
  <1>3. TypeOK'
    <2>1. \A name \in Loadable(Configured) : name # <<>> /\ files[name].pair \in Pair
      BY <1>0, KeyType, Readable
    <2>2. IsMap(keys, Pair)'
      BY <1>2, <2>1 DEF IsMap
    <2>3. QED
      BY <1>0, <1>1, <2>2, HsmAssumption DEF TypeOK, PCs, IsMap
  <1>4. NameInv'
    BY <1>0, <1>1, <1>2, FS_Subset DEF NameInv
  <1>5. GenerateInv'
    <2>1. ASSUME Loadable(Configured) = {}
          PROVE  /\ DOMAIN keys' = {<<DefaultKeys[i]>> : i \in 1..0}
                 /\ signed = {} /\ sealed = {} /\ DOMAIN published = {}
      <3>1. \A name, public : ~Stands(name, public)
        BY <2>1 DEF Stands
      <3>2. signed = {} /\ sealed = {} /\ DOMAIN published = {}
        BY <1>0, <2>1, <3>1 DEF OutsideInv
      <3>3. {<<DefaultKeys[i]>> : i \in 1..0} = {}
        OBVIOUS
      <3>4. QED
        BY <1>2, <2>1, <3>2, <3>3
    <2>2. 0 \in 0 .. Len(DefaultKeys) - 1
      BY Defaults
    <2>3. QED
      BY <1>1, <2>1, <2>2 DEF GenerateInv
  <1>6. OutsideInv'
    BY <1>1, <1>2, OutsideStays
  <1>7. LoadedInv'
    BY <1>2 DEF LoadedInv
  <1>8. UniqueInv'
    BY <1>0, <1>1, <1>2 DEF UniqueInv, PairOf, SavedPair
  <1>9. MemoryIsSaved'
    BY <1>1, <1>2 DEF MemoryIsSaved, Loadable
  <1>10. QED
    BY <1>3, <1>4, <1>5, <1>6, <1>7, <1>8, <1>9 DEF CoreInv

\* The part of the invariant that any successful save keeps.
LEMMA SaveStep ==
    ASSUME CoreInv, NEW name, IsName(name), name # <<>>, NEW next \in PCs,
           GenerateKeyPair(name, next)
    PROVE  TypeOK' /\ NameInv' /\ UniqueInv' /\ MemoryIsSaved'
  <1>0. TypeOK /\ NameInv /\ UniqueInv /\ MemoryIsSaved /\ drawn \in Nat
    BY KeyType DEF CoreInv
  <1>1. /\ name \notin DOMAIN keys /\ drawn' = drawn + 1 /\ drawn' \in 1..MaxPairs
        /\ DOMAIN keys' = DOMAIN keys \cup {name}
        /\ DOMAIN files' = DOMAIN files \cup {name}
        /\ \A z \in DOMAIN keys : keys'[z] = keys[z]
        /\ \A z \in DOMAIN files \ {name} : files'[z] = files[z]
        /\ keys'[name] = NewPair /\ files'[name] = [sealed |-> Configured, pair |-> NewPair]
        /\ NewPair \in Pair /\ NewPair.public = drawn + 1
        /\ Loadable(Configured)' = Loadable(Configured) \cup {name}
    BY SaveEffect
  <1>2. UNCHANGED <<masterKey, published, signed, sealed, deleted, now>> /\ pc' = next
    BY DEF GenerateKeyPair, history
  <1>3. TypeOK'
    <2>1. IsMap(keys, Pair)'
      BY <1>0, <1>1 DEF TypeOK, IsMap
    <2>2. IsMap(files, [sealed : DerivedKeys, pair : Pair] \cup {Torn})'
      <3>1. [sealed |-> Configured, pair |-> NewPair] \in [sealed : DerivedKeys, pair : Pair]
        BY <1>1, HsmAssumption
      <3>2. QED
        BY <1>0, <1>1, <3>1 DEF TypeOK, IsMap
    <2>3. \A x \in 1..drawn : x \in 1..drawn'
      BY <1>0, <1>1
    <2>4. QED
      BY <1>0, <1>1, <1>2, <2>1, <2>2, <2>3, HsmAssumption DEF TypeOK, IsMap
  <1>4. NameInv'
    BY <1>0, <1>1, <1>2, FS_AddElement DEF NameInv
  <1>5. UniqueInv'
    <2>1. /\ \A z \in DOMAIN keys : keys[z].public # drawn + 1
          /\ \A z \in Loadable(Configured) : files[z].pair.public # drawn + 1
          /\ \A x \in 1..drawn : x \in 1..drawn' /\ x # drawn + 1
          /\ drawn + 1 \notin deleted
      BY <1>0, <1>1 DEF UniqueInv, PairOf, SavedPair, TypeOK
    <2>2. \A z \in Loadable(Configured) \ {name} : files'[z] = files[z]
      BY <1>1 DEF Loadable
    <2>3. QED
      BY <1>0, <1>1, <1>2, <2>1, <2>2 DEF UniqueInv, PairOf, SavedPair
  <1>6. MemoryIsSaved'
    BY <1>0, <1>1, <1>2 DEF MemoryIsSaved, NameInv
  <1>7. QED
    BY <1>3, <1>4, <1>5, <1>6
\* The default key whose turn it is.
LEMMA NextDefault ==
    ASSUME CoreInv, pc = "generate"
    PROVE  \E n \in 0..2 : /\ DOMAIN keys = {<<DefaultKeys[i]>> : i \in 1..n}
                          /\ Cardinality(DOMAIN keys) = n
                          /\ {<<DefaultKeys[i]>> : i \in 1..n} \cup {<<DefaultKeys[n + 1]>>}
                                = {<<DefaultKeys[i]>> : i \in 1..n + 1}
                          /\ <<DefaultKeys[n + 1]>> \in DefaultNames
  <1>1. PICK n \in 0..2 : DOMAIN keys = {<<DefaultKeys[i]>> : i \in 1..n}
    BY Defaults DEF CoreInv, GenerateInv
  <1> DEFINE First(k) == {<<DefaultKeys[i]>> : i \in 1..k}
             a == <<DefaultKeys[1]>>
             b == <<DefaultKeys[2]>>
  <1>2. First(0) = {} /\ First(1) = {a} /\ First(2) = {a, b}
    OBVIOUS
  <1>3. a # b
    BY DEF DefaultKeys
  <1> HIDE DEF a, b
  <1>4. Cardinality({}) = 0 /\ Cardinality({a}) = 1 /\ IsFiniteSet({a})
    BY FS_EmptySet, FS_Singleton
  <1>5. Cardinality({a} \cup {b}) = 2 /\ {a, b} = {a} \cup {b}
    BY <1>3, <1>4, FS_AddElement
  <1>6. Cardinality(First(n)) = n
    BY <1>2, <1>4, <1>5
  <1>7. First(n) \cup {<<DefaultKeys[n + 1]>>} = First(n + 1)
    <2>1. \A i \in 1..n + 1 : i \in 1..n \/ i = n + 1
      OBVIOUS
    <2>2. \A i \in 1..n : i \in 1..n + 1
      OBVIOUS
    <2>3. n + 1 \in 1..n + 1
      OBVIOUS
    <2>4. QED
      BY <2>1, <2>2, <2>3
  <1>8. <<DefaultKeys[n + 1]>> \in DefaultNames
    BY Defaults DEF DefaultNames
  <1>9. QED
    BY <1>1, <1>6, <1>7, <1>8

LEMMA StepGenerateDefaultKeys == ASSUME CoreInv, GenerateDefaultKeys PROVE CoreInv'
  <1>0. TypeOK /\ GenerateInv /\ pc = "generate"
    BY DEF CoreInv, GenerateDefaultKeys
  <1>1. PICK n \in 0..2 : /\ DOMAIN keys = {<<DefaultKeys[i]>> : i \in 1..n}
                          /\ Cardinality(DOMAIN keys) = n
                          /\ {<<DefaultKeys[i]>> : i \in 1..n} \cup {<<DefaultKeys[n + 1]>>}
                                = {<<DefaultKeys[i]>> : i \in 1..n + 1}
                          /\ <<DefaultKeys[n + 1]>> \in DefaultNames
    BY <1>0, NextDefault
  <1> DEFINE name == <<DefaultKeys[n + 1]>>
             next == IF n + 1 = Len(DefaultKeys) THEN "sync" ELSE "generate"
  <1>2. GenerateKeyPair(name, next)
    BY <1>1 DEF GenerateDefaultKeys
  <1>3. IsName(name) /\ name # <<>> /\ next \in PCs
    BY SingleName DEF PCs
  <1>4. TypeOK' /\ NameInv' /\ UniqueInv' /\ MemoryIsSaved'
    <2> HIDE DEF name, next
    <2>1. QED
      BY <1>2, <1>3, SaveStep
  <1>5. DOMAIN keys' = {<<DefaultKeys[i]>> : i \in 1..n + 1}
    BY <1>1, <1>2, SaveEffect
  <1>6. pc' = next /\ UNCHANGED <<signed, sealed, published>>
    BY <1>2 DEF GenerateKeyPair, history
  <1>7. signed = {} /\ sealed = {} /\ DOMAIN published = {}
    BY <1>0 DEF GenerateInv
  <1>8. GenerateInv'
    <2>1. pc' = "generate" => n + 1 \in 0 .. Len(DefaultKeys) - 1
      BY <1>6, Defaults
    <2>2. QED
      BY <1>5, <1>6, <1>7, <2>1 DEF GenerateInv
  <1>9. OutsideInv'
    BY <1>6, <1>7 DEF OutsideInv
  <1>10. LoadedInv'
    <2>1. CASE n + 1 = 3
      <3>1. DefaultNames \subseteq DOMAIN keys'
        BY <1>5, <2>1, Defaults DEF DefaultNames
      <3>2. QED
        BY <3>1 DEF LoadedInv
    <2>2. CASE n + 1 # 3
      BY <1>6, <2>2, Defaults DEF LoadedInv
    <2>3. QED
      BY <2>1, <2>2
  <1>11. QED
    BY <1>4, <1>8, <1>9, <1>10 DEF CoreInv

LEMMA StepGenerateOther ==
    ASSUME CoreInv, NEW id \in OtherIds, pc = "serving", GenerateKeyPair(<<id>>, pc)
    PROVE  CoreInv'
  <1> DEFINE name == <<id>>
  <1>0. IsName(name) /\ name # <<>> /\ name \notin DefaultNames /\ pc \in PCs
    BY SingleName, Defaults DEF PCs
  <1>1. TypeOK' /\ NameInv' /\ UniqueInv' /\ MemoryIsSaved'
    BY <1>0, SaveStep
  <1>2. /\ DOMAIN keys \subseteq DOMAIN keys'
        /\ \A z \in DOMAIN files \ {name} : files'[z] = files[z]
        /\ Loadable(Configured)' = Loadable(Configured) \cup {name}
    BY SaveEffect
  <1>3. pc' = pc /\ UNCHANGED <<signed, sealed, published>>
    BY DEF GenerateKeyPair, history
  <1>4. GenerateInv'
    BY <1>3 DEF GenerateInv
  <1>5. OutsideInv'
    BY <1>0, <1>2, <1>3, OutsideStays DEF Loadable
  <1>6. LoadedInv'
    BY <1>0, <1>2, <1>3 DEF CoreInv, LoadedInv
  <1>7. QED
    BY <1>1, <1>4, <1>5, <1>6 DEF CoreInv

\* A file that is torn, under the name of no key in memory, or none is.
LEMMA TornStep ==
    ASSUME CoreInv, NEW name, IsName(name), name # <<>>, name \notin DOMAIN keys',
           files' = files \/ Torned(name), masterKey' = masterKey,
           \A z \in DOMAIN keys' : z \in DOMAIN keys /\ keys'[z] = keys[z],
           drawn \in Nat, drawn' \in Nat, drawn <= drawn', deleted' = deleted
    PROVE  /\ NameInv' /\ UniqueInv' /\ MemoryIsSaved'
           /\ IsMap(files, [sealed : DerivedKeys, pair : Pair] \cup {Torn})' /\ IsMap(keys, Pair)'
           /\ \A z \in Loadable(Configured)' : z \in Loadable(Configured) /\ files'[z] = files[z]
           /\ \A z \in Loadable(Configured) \ {name} :
                 z \in Loadable(Configured)' /\ files'[z] = files[z]
  <1>0. TypeOK /\ NameInv /\ UniqueInv
    BY DEF CoreInv
  <1>1. /\ DOMAIN files' \subseteq DOMAIN files \cup {name} /\ DOMAIN files \subseteq DOMAIN files'
        /\ \A z \in DOMAIN files \ {name} : files'[z] = files[z]
        /\ \A z \in DOMAIN files' : (z \in DOMAIN files /\ files'[z] = files[z]) \/ files'[z] = Torn
        /\ Loadable(Configured)' \subseteq Loadable(Configured)
        /\ Loadable(Configured) \ {name} \subseteq Loadable(Configured)'
    <2>1. CASE files' = files
      BY <2>1 DEF Loadable
    <2>2. CASE Torned(name)
      BY <1>0, <2>2, TornEffect
    <2>3. QED
      BY <2>1, <2>2
  <1>2. /\ \A z \in Loadable(Configured)' : z \in Loadable(Configured) /\ files'[z] = files[z]
        /\ \A z \in Loadable(Configured) \ {name} :
              z \in Loadable(Configured)' /\ files'[z] = files[z]
    <2>1. \A z \in Loadable(Configured)' : z \in DOMAIN files' /\ files'[z] # Torn
      BY TornIsUnreadable DEF Loadable
    <2>2. QED
      BY <1>1, <2>1 DEF Loadable
  <1>3. IsMap(files, [sealed : DerivedKeys, pair : Pair] \cup {Torn})' /\ IsMap(keys, Pair)'
    BY <1>0, <1>1 DEF IsMap, TypeOK
  <1>4. NameInv'
    <2>1. IsFiniteSet(DOMAIN files')
      <3>1. IsFiniteSet(DOMAIN files)
        BY <1>0 DEF NameInv
      <3>2. IsFiniteSet(DOMAIN files \cup {name})
        BY <3>1, FS_AddElement
      <3>3. QED
        BY <1>1, <3>2, FS_Subset
    <2>2. IsFiniteSet(DOMAIN keys')
      <3>1. IsFiniteSet(DOMAIN keys) /\ DOMAIN keys' \subseteq DOMAIN keys
        BY <1>0 DEF NameInv
      <3>2. QED
        BY <3>1, FS_Subset
    <2>3. QED
      BY <1>0, <1>1, <2>1, <2>2 DEF NameInv
  <1>5. UniqueInv' /\ MemoryIsSaved'
    <2>1. \A z \in DOMAIN keys' : z \in DOMAIN files => z \in DOMAIN files' /\ files'[z] = files[z]
      BY <1>1
    <2>2. /\ \A z \in DOMAIN keys' : PairOf(z) \notin deleted'
          /\ \A z \in Loadable(Configured)' : SavedPair(z) \notin deleted'
      BY <1>0, <1>2 DEF UniqueInv
    <2>3. QED
      BY <1>2, <2>1, <2>2, ShrinkStep
  <1>6. QED
    BY <1>2, <1>3, <1>4, <1>5
LEMMA StepGenerateFails ==
    ASSUME CoreInv, NEW id \in OtherIds, pc = "serving", GenerateFails(<<id>>)
    PROVE  CoreInv'
  <1> DEFINE name == <<id>>
  <1>0. TypeOK /\ OutsideInv /\ LoadedInv
    BY DEF CoreInv
  <1>1. IsName(name) /\ name # <<>> /\ name \notin DefaultNames
    BY SingleName, Defaults
  <1>2. /\ files' = files \/ Torned(name)
        /\ name \notin DOMAIN keys' /\ drawn < MaxPairs /\ drawn' = drawn + 1
        /\ UNCHANGED <<pc, masterKey, keys, published, signed, sealed, deleted, now>>
    BY DEF GenerateFails, SaveFails, Torned, history
  <1>3. drawn \in Nat /\ drawn' \in 0..MaxPairs /\ drawn <= drawn' /\ drawn' \in Nat
        /\ \A x \in 1..drawn : x \in 1..drawn'
    BY <1>0, <1>2, KeyType
  <1>4. \A z \in DOMAIN keys' : z \in DOMAIN keys /\ keys'[z] = keys[z]
    BY <1>2
  <1> HIDE DEF name
  <1>5. /\ NameInv' /\ UniqueInv' /\ MemoryIsSaved'
        /\ IsMap(files, [sealed : DerivedKeys, pair : Pair] \cup {Torn})' /\ IsMap(keys, Pair)'
        /\ \A z \in Loadable(Configured)' : z \in Loadable(Configured)
        /\ \A z \in Loadable(Configured) \ {name} :
              z \in Loadable(Configured)' /\ files'[z] = files[z]
    BY <1>1, <1>2, <1>3, <1>4, TornStep
  <1>6. TypeOK'
    BY <1>0, <1>2, <1>3, <1>5 DEF TypeOK, IsMap
  <1>7. GenerateInv' /\ LoadedInv'
    BY <1>0, <1>2, <1>5 DEF GenerateInv, LoadedInv
  <1>8. OutsideInv'
    BY <1>1, <1>2, <1>5, OutsideStays
  <1>9. QED
    BY <1>5, <1>6, <1>7, <1>8 DEF CoreInv

LEMMA StepCrash == ASSUME CoreInv, Crash PROVE CoreInv'
  <1>0. TypeOK /\ GenerateInv /\ drawn \in Nat
    BY KeyType DEF CoreInv
  <1>1. /\ pc' = "down" /\ keys' = <<>>
        /\ UNCHANGED <<masterKey, published, drawn, signed, sealed, deleted, now>>
    BY DEF Crash, history
  <1>2. \A z \in DOMAIN keys' : z \in DOMAIN keys /\ keys'[z] = keys[z]
    BY <1>1, EmptyMap
  <1>3. PICK name : /\ IsName(name) /\ name # <<>>
                    /\ files' = files \/ Torned(name)
                    /\ name \in DefaultNames => pc = "generate"
    <2>1. CASE files' = files
      <3>1. \A id \in {"none"} : IsName(<<id>>) /\ <<id>> # <<>> /\ <<id>> \notin DefaultNames
        BY SingleName, Defaults
      <3>2. QED
        BY <2>1, <3>1
    <2>2. ASSUME NEW name \in Saving, Torned(name)
          PROVE  IsName(name) /\ name # <<>> /\ (name \in DefaultNames => pc = "generate")
      <3>1. CASE pc = "generate"
        <4>1. name = <<DefaultKeys[Cardinality(DOMAIN keys) + 1]>>
          BY <2>2, <3>1 DEF Saving
        <4>2. QED
          BY <3>1, <4>1, SingleName
      <3>2. CASE pc = "serving"
        <4>1. PICK id \in OtherIds : name = <<id>>
          BY <2>2, <3>2 DEF Saving
        <4>2. QED
          BY <4>1, SingleName, Defaults
      <3>3. CASE pc \notin {"generate", "serving"}
        BY <2>2, <3>3 DEF Saving
      <3>4. QED
        BY <3>1, <3>2, <3>3
    <2>3. QED
      BY <2>1, <2>2 DEF Crash, Torned
  <1>4. /\ NameInv' /\ UniqueInv' /\ MemoryIsSaved'
        /\ IsMap(files, [sealed : DerivedKeys, pair : Pair] \cup {Torn})' /\ IsMap(keys, Pair)'
        /\ \A z \in Loadable(Configured) \ {name} :
              z \in Loadable(Configured)' /\ files'[z] = files[z]
    <2>1. name \notin DOMAIN keys' /\ drawn <= drawn' /\ drawn' \in Nat
      BY <1>0, <1>1, EmptyMap
    <2>2. QED
      BY <1>0, <1>1, <1>2, <1>3, <2>1, TornStep
  <1>5. TypeOK'
    BY <1>0, <1>1, <1>4 DEF TypeOK, IsMap, PCs
  <1>6. GenerateInv' /\ LoadedInv'
    BY <1>1 DEF GenerateInv, LoadedInv
  <1>7. OutsideInv'
    <2>1. CASE name \in DefaultNames
      <3>1. signed' = {} /\ sealed' = {} /\ DOMAIN published' = {}
        BY <1>0, <1>1, <1>3, <2>1 DEF GenerateInv
      <3>2. QED
        BY <3>1 DEF OutsideInv
    <2>2. CASE name \notin DefaultNames
      BY <1>1, <1>4, <2>2, OutsideStays
    <2>3. QED
      BY <2>1, <2>2
  <1>8. QED
    BY <1>4, <1>5, <1>6, <1>7 DEF CoreInv

LEMMA StepDelete == ASSUME CoreInv, DeleteKey PROVE CoreInv'
  <1>0. TypeOK /\ NameInv /\ UniqueInv /\ MemoryIsSaved /\ OutsideInv /\ LoadedInv /\ drawn \in Nat
    BY KeyType DEF CoreInv
  <1>1. PICK id \in OtherIds : /\ <<id>> \in DOMAIN keys /\ keys' = Without(keys, <<id>>)
                               /\ DeleteFile(<<id>>)
    BY DEF DeleteKey
  <1> DEFINE name == <<id>>
  <1>2. name \notin DefaultNames /\ Generated(name)
    BY SingleName, Defaults
  <1>3. /\ pc = "serving" /\ signed' \subseteq signed
        /\ UNCHANGED <<pc, masterKey, published, drawn, sealed, now>>
    BY DEF DeleteKey
  <1> HIDE DEF name
  <1>4. DOMAIN keys' = DOMAIN keys \ {name} /\ \A z \in DOMAIN keys' : keys'[z] = keys[z]
    BY <1>1 DEF Without, Restrict, name
  <1>5. /\ DOMAIN files' \subseteq DOMAIN files /\ \A z \in DOMAIN files' : files'[z] = files[z]
        /\ \A z \in DOMAIN files \ {name} : z \in DOMAIN files'
        /\ \/ name \notin DOMAIN files' /\ deleted' = deleted \cup {keys[name].public}
           \/ deleted' = deleted
    BY <1>1 DEF DeleteFile, Without, Restrict, name
  <1>6. /\ \A z \in Loadable(Configured)' : z \in Loadable(Configured) /\ files'[z] = files[z]
        /\ \A z \in Loadable(Configured) \ {name} :
              z \in Loadable(Configured)' /\ files'[z] = files[z]
        /\ name \notin DOMAIN files' => name \notin Loadable(Configured)'
    BY <1>5 DEF Loadable
  <1>7. name \in DOMAIN keys
    BY <1>1 DEF name
  <1>8. UniqueInv' /\ MemoryIsSaved'
    <2>1. /\ \A z \in DOMAIN keys' : keys'[z].public # keys[name].public
          /\ \A z \in Loadable(Configured) \ {name} : files[z].pair.public # keys[name].public
      BY <1>0, <1>4, <1>7 DEF UniqueInv, PairOf, SavedPair
    <2>2. /\ \A z \in DOMAIN keys' : PairOf(z)' \notin deleted'
          /\ \A z \in Loadable(Configured)' : SavedPair(z)' \notin deleted'
      BY <1>0, <1>4, <1>5, <1>6, <2>1 DEF UniqueInv, PairOf, SavedPair
    <2>3. /\ \A z \in DOMAIN keys' : PairOf(z) \notin deleted'
          /\ \A z \in Loadable(Configured)' : SavedPair(z) \notin deleted'
      BY <1>4, <1>6, <2>2 DEF PairOf, SavedPair
    <2>4. \A z \in DOMAIN keys' : z \in DOMAIN files => z \in DOMAIN files' /\ files'[z] = files[z]
      BY <1>4, <1>5
    <2>5. QED
      BY <1>0, <1>3, <1>4, <1>6, <2>3, <2>4, ShrinkStep
  <1>9. TypeOK'
    <2>1. keys[name].public \in 1..drawn
      BY <1>0, <1>7 DEF UniqueInv, PairOf
    <2>2. deleted' \subseteq 1..drawn
      BY <1>0, <1>5, <2>1 DEF TypeOK
    <2>3. IsMap(keys, Pair)' /\ IsMap(files, [sealed : DerivedKeys, pair : Pair] \cup {Torn})'
      BY <1>0, <1>4, <1>5 DEF TypeOK, IsMap
    <2>4. QED
      BY <1>0, <1>3, <2>2, <2>3 DEF TypeOK, IsMap
  <1>10. NameInv'
    BY <1>0, <1>3, <1>4, <1>5, FS_Subset DEF NameInv
  <1>11. GenerateInv' /\ LoadedInv'
    BY <1>0, <1>2, <1>3, <1>4, <1>6 DEF GenerateInv, LoadedInv, name
  <1>12. OutsideInv'
    BY <1>2, <1>3, <1>6, OutsideStays
  <1>13. QED
    BY <1>8, <1>9, <1>10, <1>11, <1>12 DEF CoreInv

LEMMA StepRotate == ASSUME CoreInv, RotateKeys PROVE CoreInv'
  <1>0. /\ TypeOK /\ NameInv /\ UniqueInv /\ MemoryIsSaved /\ OutsideInv /\ LoadedInv
        /\ drawn \in Nat
    BY KeyType DEF CoreInv
  <1>1. pc = "serving" /\ UNCHANGED <<pc, masterKey, files, published, signed, sealed, deleted, now>>
    BY DEF RotateKeys, history
  <1>2. /\ drawn' \in Nat /\ drawn <= drawn' /\ drawn' <= MaxPairs
        /\ IsFiniteSet(DOMAIN keys') /\ DOMAIN keys \subseteq DOMAIN keys'
        /\ \A name \in DOMAIN keys' : IsName(name) /\ name # <<>> /\ keys'[name] \in Pair
        /\ \A name \in DOMAIN keys' :
              \/ name \in DOMAIN keys /\ keys'[name].public = keys[name].public
              \/ ~Generated(name) /\ keys'[name].public \in drawn + 1 .. drawn'
        /\ \A n, m \in DOMAIN keys' : keys'[n].public = keys'[m].public => n = m
    BY RotateEffect
  <1>3. Loadable(Configured)' = Loadable(Configured)
    BY <1>1 DEF Loadable
  <1>4. \A x \in 1..drawn : x \in 1..drawn' /\ x \notin drawn + 1 .. drawn'
    BY <1>0, <1>2
  <1>5. TypeOK'
    <2>1. IsMap(keys, Pair)' /\ drawn' \in 0..MaxPairs
      BY <1>2, HsmAssumption DEF IsMap
    <2>2. QED
      BY <1>0, <1>1, <1>4, <2>1 DEF TypeOK, IsMap
  <1>6. NameInv'
    BY <1>0, <1>1, <1>2 DEF NameInv
  <1>7. GenerateInv' /\ LoadedInv'
    BY <1>0, <1>1, <1>2, <1>3 DEF GenerateInv, LoadedInv
  <1>8. OutsideInv'
    BY <1>1, <1>3, OutsideStays
  <1>9. UniqueInv'
    <2>1. deleted \subseteq 1..drawn
      BY <1>0 DEF TypeOK
    <2>2. \A x \in drawn + 1 .. drawn' : x \in 1..drawn' \ deleted
      BY <1>0, <1>2, <2>1
    <2>3. \A n \in DOMAIN keys' : keys'[n].public \in 1..drawn' \ deleted
      BY <1>0, <1>2, <1>4, <2>2 DEF UniqueInv, PairOf
    <2>4. ASSUME NEW n \in DOMAIN keys', NEW m \in Loadable(Configured),
                 keys'[n].public = files[m].pair.public
          PROVE  n = m
      <3>1. files[m].pair.public \in 1..drawn
        BY <1>0 DEF UniqueInv, SavedPair
      <3>2. n \in DOMAIN keys /\ keys'[n].public = keys[n].public
        BY <1>2, <1>4, <2>4, <3>1
      <3>3. QED
        BY <1>0, <2>4, <3>2 DEF UniqueInv, PairOf, SavedPair
    <2>5. QED
      BY <1>0, <1>1, <1>2, <1>3, <1>4, <2>3, <2>4 DEF UniqueInv, PairOf, SavedPair
  <1>10. MemoryIsSaved'
    BY <1>0, <1>1, <1>2 DEF MemoryIsSaved
  <1>11. QED
    BY <1>5, <1>6, <1>7, <1>8, <1>9, <1>10 DEF CoreInv
\* The steps that change neither keys nor files.
LEMMA QuietStep ==
    ASSUME CoreInv, UNCHANGED <<masterKey, keys, files, drawn, deleted>>, TypeOK',
           GenerateInv', OutsideInv', pc' \in {"sync", "serving"} => pc \in {"sync", "serving"}
    PROVE  CoreInv'
  <1>1. Loadable(Configured)' = Loadable(Configured)
    BY DEF Loadable
  <1>2. NameInv' /\ MemoryIsSaved' /\ LoadedInv'
    BY <1>1 DEF CoreInv, NameInv, MemoryIsSaved, LoadedInv
  <1>3. UniqueInv'
    BY <1>1 DEF CoreInv, UniqueInv, PairOf, SavedPair
  <1>4. QED
    BY <1>2, <1>3 DEF CoreInv

LEMMA StepSync == ASSUME CoreInv, SyncKeysToDatabase PROVE CoreInv'
  <1>0. TypeOK /\ OutsideInv /\ MemoryIsSaved /\ NameInv
    BY DEF CoreInv
  <1>1. PICK n \in 0..Len(DefaultKeys) :
           /\ \A name \in {<<DefaultKeys[i]>> : i \in 1..n} : HasPublicKey(name)
           /\ published' = Over([name \in {<<DefaultKeys[i]>> : i \in 1..n} |-> keys[name].public],
                                published)
    BY DEF SyncKeysToDatabase
  <1>2. /\ pc = "sync" /\ pc' = "serving"
        /\ UNCHANGED <<masterKey, keys, files, drawn, signed, sealed, deleted, now>>
    BY DEF SyncKeysToDatabase, history
  <1> DEFINE synced == {<<DefaultKeys[i]>> : i \in 1..n}
  <1>3. ASSUME NEW name \in synced
        PROVE  /\ name \in DefaultNames /\ Stands(name, keys[name].public)
               /\ name # <<>> /\ keys[name].public \in 1..MaxPairs
    <2>1. name \in DefaultNames
      BY Defaults DEF DefaultNames
    <2>2. name \in DOMAIN keys /\ Generated(name)
      BY <1>1, <2>1, Defaults, SingleName DEF HasPublicKey
    <2>3. Stands(name, keys[name].public)
      BY <1>0, <2>1, <2>2 DEF MemoryIsSaved, NameInv, Stands, Loadable
    <2>4. QED
      BY <1>0, <2>1, <2>2, <2>3, KeyType DEF Pair
  <1> HIDE DEF synced
  <1>4. /\ DOMAIN published' = synced \cup DOMAIN published
        /\ \A name \in synced : published'[name] = keys[name].public
        /\ \A name \in DOMAIN published \ synced : published'[name] = published[name]
    BY <1>1 DEF Over, synced
  <1>5. TypeOK'
    BY <1>0, <1>2, <1>3, <1>4 DEF TypeOK, IsMap, PCs
  <1>6. OutsideInv'
    <2>1. \A name, public : Stands(name, public)' <=> Stands(name, public)
      BY <1>2 DEF Stands, Loadable
    <2>2. \A name \in DOMAIN published' : Stands(name, published'[name])
      BY <1>0, <1>3, <1>4 DEF OutsideInv
    <2>3. Loadable(Configured)' = Loadable(Configured)
      BY <1>2 DEF Loadable
    <2>4. \A name \in DOMAIN published' : Stands(name, published[name])'
      BY <2>2, <1>2, <2>3 DEF Stands
    <2>5. \A sig \in signed' : Stands(sig.name, sig.public)'
      BY <1>0, <1>2, <2>3 DEF Stands, OutsideInv
    <2>6. QED
      BY <1>0, <1>2, <2>3, <2>4, <2>5 DEF OutsideInv
  <1>7. GenerateInv'
    BY <1>2 DEF GenerateInv
  <1>8. QED
    BY <1>2, <1>5, <1>6, <1>7, QuietStep

LEMMA StepSign == ASSUME CoreInv, Sign PROVE CoreInv'
  <1>0. TypeOK /\ NameInv /\ OutsideInv /\ MemoryIsSaved /\ UniqueInv
    BY DEF CoreInv
  <1>1. PICK id \in SigningKeys :
           /\ <<id>> \in DOMAIN keys
           /\ signed' = signed \cup {[name |-> <<id>>, public |-> keys[<<id>>].public]}
    BY DEF Sign
  <1>2. pc = "serving"
        /\ UNCHANGED <<pc, masterKey, keys, files, published, drawn, sealed, deleted, now>>
    BY DEF Sign
  <1>3. <<id>> \in DefaultNames /\ Generated(<<id>>) /\ keys[<<id>>].public \in 1..drawn
    BY <1>0, <1>1, Defaults, SingleName DEF SigningKeys, UniqueInv, PairOf
  <1>4. Stands(<<id>>, keys[<<id>>].public)
    BY <1>0, <1>1, <1>3 DEF MemoryIsSaved, NameInv, Stands, Loadable
  <1>5. TypeOK'
    BY <1>0, <1>1, <1>2, <1>3 DEF TypeOK
  <1>6. OutsideInv'
    <2>1. \A sig \in signed' : Stands(sig.name, sig.public)
      BY <1>0, <1>1, <1>4 DEF OutsideInv
    <2>2. Loadable(Configured)' = Loadable(Configured)
      BY <1>2 DEF Loadable
    <2>3. \A sig \in signed' : Stands(sig.name, sig.public)'
      BY <1>2, <2>1, <2>2 DEF Stands
    <2>4. \A name \in DOMAIN published' : Stands(name, published[name])'
      BY <1>0, <1>2, <2>2 DEF Stands, OutsideInv
    <2>5. QED
      BY <1>0, <1>2, <2>2, <2>3, <2>4 DEF OutsideInv
  <1>7. GenerateInv'
    BY <1>2 DEF GenerateInv
  <1>8. QED
    BY <1>2, <1>5, <1>6, <1>7, QuietStep

LEMMA StepEncrypt == ASSUME CoreInv, EncryptCardData PROVE CoreInv'
  <1>0. TypeOK /\ NameInv /\ OutsideInv /\ MemoryIsSaved
    BY DEF CoreInv
  <1>1. /\ pc = "serving" /\ <<"user_encryption">> \in DOMAIN keys
        /\ sealed' = sealed \cup {Configured}
        /\ UNCHANGED <<pc, masterKey, keys, files, published, drawn, signed, deleted, now>>
    BY <1>0 DEF EncryptCardData, NameInv
  <1>2. <<"user_encryption">> \in Loadable(Configured)
    BY <1>0, <1>1, SingleName DEF MemoryIsSaved, NameInv, Loadable
  <1>3. TypeOK'
    BY <1>0, <1>1, HsmAssumption DEF TypeOK
  <1>4. OutsideInv'
    BY <1>0, <1>1, <1>2 DEF OutsideInv, Stands, Loadable
  <1>5. GenerateInv'
    BY <1>1 DEF GenerateInv
  <1>6. QED
    BY <1>1, <1>3, <1>4, <1>5, QuietStep

LEMMA StepStill == ASSUME CoreInv, Tick \/ UNCHANGED vars PROVE CoreInv'
  <1>0. TypeOK /\ OutsideInv /\ GenerateInv
    BY DEF CoreInv
  <1>1. UNCHANGED <<pc, masterKey, keys, files, published, drawn, signed, sealed, deleted>>
    BY DEF Tick, vars, history
  <1>2. now' \in Nat
    BY <1>0 DEF TypeOK, Tick, vars
  <1>3. TypeOK'
    BY <1>0, <1>1, <1>2 DEF TypeOK
  <1>4. OutsideInv' /\ GenerateInv'
    BY <1>0, <1>1 DEF OutsideInv, GenerateInv, Stands, Loadable
  <1>5. QED
    BY <1>1, <1>3, <1>4, QuietStep

LEMMA InitCoreInv == ASSUME Init PROVE CoreInv
  <1>1. /\ DOMAIN keys = {} /\ DOMAIN files = {} /\ DOMAIN published = {}
        /\ pc = "down" /\ masterKey = Configured /\ drawn = 0 /\ now = 0
        /\ signed = {} /\ sealed = {} /\ deleted = {}
    BY EmptyMap DEF Init
  <1>2. TypeOK
    BY <1>1, HsmAssumption DEF TypeOK, PCs, IsMap
  <1>3. NameInv
    BY <1>1, FS_EmptySet DEF NameInv
  <1>4. GenerateInv /\ OutsideInv /\ LoadedInv
    BY <1>1 DEF GenerateInv, OutsideInv, LoadedInv
  <1>5. UniqueInv /\ MemoryIsSaved
    BY <1>1 DEF UniqueInv, MemoryIsSaved, Loadable
  <1>6. QED
    BY <1>2, <1>3, <1>4, <1>5 DEF CoreInv

LEMMA StepCoreInv == ASSUME CoreInv, [Next]_vars PROVE CoreInv'
  <1>1. CASE GenerateOther
    BY <1>1, StepGenerateOther, StepGenerateFails DEF GenerateOther
  <1>2. CASE ~GenerateOther
    BY <1>2, StepStart, StepGenerateDefaultKeys, StepSync, StepCrash, StepSign, StepEncrypt,
       StepDelete, StepRotate, StepStill DEF Next
  <1>3. QED
    BY <1>1, <1>2

-----------------------------------------------------------------------------
(* Theorems. *)

\* The inductive invariant holds: types, the uniqueness of key pairs, and that
\* what is known outside has its readable file.
THEOREM Invariant == Spec => []IInv
  <1>1. CoreInv => IInv
    BY CoreIsEnough DEF CoreInv, IInv
  <1>2. QED
    BY InitCoreInv, StepCoreInv, <1>1, PTL DEF Spec

\* A key that can sign is one a restart brings back (GenerateKeyPair and
\* saveKeyToDisk, hsm.go), whatever failed or was cut short before.
THEOREM KeysAreSaved == Spec => []MemoryIsSaved
  <1>1. IInv => MemoryIsSaved
    BY DEF IInv
  <1>2. QED
    BY Invariant, <1>1, PTL

\* Over any number of crashes, restarts, rotations and deletions of other keys,
\* signatures verify and sealed card data opens while the server serves.
THEOREM SecretsOutliveTheProcess == Spec => []SignedAndSealedSurvive
  <1>1. IInv => SignedAndSealedSurvive
    BY DEF IInv
  <1>2. QED
    BY Invariant, <1>1, PTL

\* The public keys in table hsm_keys are those of the keys that sign, wherever a
\* synchronisation stopped (SyncKeysToDatabase, hsm_key_service.go).
THEOREM PublishedKeysAreUsed == Spec => []PublishedIsUsed
  <1>1. IInv => PublishedIsUsed
    BY DEF IInv
  <1>2. QED
    BY Invariant, <1>1, PTL

\* A key DeleteKey has reported deleted does not come back.
THEOREM DeletedForGood == Spec => []DeletedStaysDeleted
  <1>1. IInv => DeletedStaysDeleted
    BY DEF IInv
  <1>2. QED
    BY Invariant, <1>1, PTL
=============================================================================
