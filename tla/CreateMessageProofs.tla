------------------------ MODULE CreateMessageProofs ------------------------
(***************************************************************************)
(* Theorems about CreateMessage, for any messages: the cards of a host are *)
(* named apart, a placeholder can be found by its mac, every field is      *)
(* saved or its failure shown, a listed tag takes effect, the state says   *)
(* whether a failure counted, no card has two macs, and every address is   *)
(* on a card.                                                              *)
(***************************************************************************)
EXTENDS CreateMessage, TLAPS, SequenceTheorems, FiniteSetTheorems

-----------------------------------------------------------------------------
(* The lowest free bond number                                             *)

\* Among intervals from 0, the smallest ends in the smallest number.
LEMMA SmallestOf ==
    ASSUME NEW S, S \subseteq Nat, S # {}
    PROVE  \E n \in S : \A m \in S : n <= m
<1> DEFINE intervals == {0 .. n : n \in S}
<1>1. intervals # {} /\ intervals \subseteq FiniteSubsetsOf(Nat)
  <2>1. ASSUME NEW n \in S PROVE 0 .. n \in FiniteSubsetsOf(Nat)
    <3>1. n \in Nat /\ 0 \in Int /\ n \in Int
      OBVIOUS
    <3>2. IsFiniteSet(0 .. n)
      BY <3>1, FS_Interval
    <3>3. 0 .. n \in SUBSET Nat
      BY <3>1
    <3>4. QED
      BY <3>2, <3>3 DEF FiniteSubsetsOf
  <2>2. QED
    BY <2>1
<1>2. PICK x \in intervals : \A y \in intervals : ~ (<<y, x>> \in StrictSubsetOrdering(Nat))
  <2> HIDE DEF intervals
  <2> QED
    BY <1>1, FS_StrictSubsetOrderingWellFounded, WFMin
<1>3. PICK n \in S : x = 0 .. n
  BY <1>2
<1>4. ASSUME NEW m \in S, m < n PROVE FALSE
  <2>1. 0 .. m \subseteq 0 .. n /\ 0 .. m # 0 .. n
    <3>1. n \in 0 .. n /\ n \notin 0 .. m
      BY <1>4
    <3>2. QED
      BY <1>4, <3>1
  <2>2. <<0 .. m, 0 .. n>> \in StrictSubsetOrdering(Nat)
    BY <2>1 DEF StrictSubsetOrdering
  <2>3. QED
    BY <1>2, <1>3, <2>2
<1>5. QED
  BY <1>4

\* More numbers than names: one of them is free.
LEMMA SomeFree ==
    ASSUME NEW taken, IsFiniteSet(taken)
    PROVE  \E n \in 0 .. Cardinality(taken) : n \notin taken
<1>1. Cardinality(taken) \in Nat
  BY FS_CardinalityType
<1>2. SUFFICES ASSUME 0 .. Cardinality(taken) \subseteq taken PROVE FALSE
  OBVIOUS
<1>3. Cardinality(0 .. Cardinality(taken)) = Cardinality(taken) + 1
  BY <1>1, FS_Interval
<1>4. Cardinality(0 .. Cardinality(taken)) <= Cardinality(taken)
  BY <1>2, FS_Subset
<1>5. QED
  BY <1>1, <1>3, <1>4

\* next_bond_name returns a name that is not taken.
LEMMA NextBondNameFree ==
    ASSUME NEW taken, IsFiniteSet(taken)
    PROVE  next_bond_name(taken) \in Nat \ taken
<1> DEFINE N == 0 .. Cardinality(taken)
           free == {n \in N : n \notin taken}
<1>0. Cardinality(taken) \in Nat
  BY FS_CardinalityType
<1>1. free \subseteq Nat /\ free # {}
  BY <1>0, SomeFree
<1>2. PICK n \in free : \A m \in free : n <= m
  <2> HIDE DEF free
  <2> QED
    BY <1>1, SmallestOf
<1>3. 0 .. (n - 1) \subseteq taken
  <2>1. SUFFICES ASSUME NEW m \in 0 .. (n - 1), m \notin taken PROVE FALSE
    OBVIOUS
  <2>2. m \in free
    BY <1>0, <2>1
  <2>3. QED
    BY <1>0, <1>2, <2>2
<1>4. \E k \in N : k \notin taken /\ 0 .. (k - 1) \subseteq taken
  BY <1>2, <1>3
<1>5. next_bond_name(taken) \in N /\ next_bond_name(taken) \notin taken
  BY <1>4 DEF next_bond_name
<1>6. QED
  BY <1>0, <1>5

-----------------------------------------------------------------------------
(* Sequences of cards                                                      *)

LEMMA Appended ==
    ASSUME NEW s, s \in Seq(Range(s)), NEW e
    PROVE  LET t == Append(s, e) IN
           /\ t \in Seq(Range(t))
           /\ Len(t) = Len(s) + 1 /\ DOMAIN t = 1 .. Len(s) + 1
           /\ \A i \in 1 .. Len(s) : t[i] = s[i]
           /\ t[Len(s) + 1] = e
           /\ Range(t) = Range(s) \cup {e}
<1> DEFINE S == Range(s) \cup {e}
           t == Append(s, e)
<1>1. s \in Seq(S) /\ e \in S
  BY SeqMonotonic
<1>2. /\ t \in Seq(S) /\ Len(t) = Len(s) + 1
      /\ \A i \in 1 .. Len(s) : t[i] = s[i]
      /\ t[Len(s) + 1] = e
  BY <1>1, AppendProperties
<1>3. /\ Len(s) \in Nat /\ DOMAIN s = 1 .. Len(s)
      /\ DOMAIN t = 1 .. Len(s) + 1
  BY <1>1, <1>2, LenProperties
<1>4. t \in Seq(Range(t))
  BY <1>2, SeqOfRange
<1>5. Range(t) = S
  BY <1>2, <1>3 DEF Range
<1>6. QED
  BY <1>2, <1>3, <1>4, <1>5

LEMMA Taken ==
    ASSUME NEW s, s \in Seq(Range(s)), s # <<>>
    PROVE  /\ Tail(s) \in Seq(Range(Tail(s)))
           /\ Head(s) \in Range(s)
           /\ Range(s) = Range(Tail(s)) \cup {Head(s)}
<1>1. /\ Head(s) \in Range(s) /\ Tail(s) \in Seq(Range(s)) /\ Len(Tail(s)) = Len(s) - 1
      /\ \A i \in 1 .. Len(Tail(s)) : Tail(s)[i] = s[i + 1]
  BY HeadTailProperties
<1>2. /\ Len(s) \in Nat \ {0} /\ DOMAIN s = 1 .. Len(s)
      /\ DOMAIN Tail(s) = 1 .. Len(Tail(s))
  BY <1>1, LenProperties, EmptySeq
<1>3. Head(s) = s[1]
  BY <1>1
<1>4. Range(Tail(s)) \subseteq Range(s)
  BY <1>1, <1>2 DEF Range
<1>5. ASSUME NEW i \in DOMAIN s, i # 1 PROVE s[i] \in Range(Tail(s))
  <2>1. i - 1 \in 1 .. Len(Tail(s)) /\ Tail(s)[i - 1] = s[i]
    BY <1>1, <1>2, <1>5
  <2>2. QED
    BY <1>2, <2>1 DEF Range
<1>6. Range(s) \subseteq Range(Tail(s)) \cup {Head(s)}
  BY <1>3, <1>5 DEF Range
<1>7. QED
  BY <1>1, <1>4, <1>6, SeqOfRange

LEMMA FiniteRange ==
    ASSUME NEW s, s \in Seq(Range(s))
    PROVE  IsFiniteSet(Range(s))
<1>1. Len(s) \in Nat /\ s \in [1 .. Len(s) -> Range(s)] /\ DOMAIN s = 1 .. Len(s)
  BY LenProperties
<1>2. s \in Surjection(1 .. Len(s), Range(s))
  BY <1>1 DEF Surjection, Range
<1>3. QED
  BY <1>1, <1>2, FS_Surjection, FS_Interval

-----------------------------------------------------------------------------
(* The inductive invariant                                                 *)

IsCard(c) ==
    c = [order |-> c.order, mac |-> c.mac, addresses |-> c.addresses,
         placeholder |-> c.placeholder]

CardsOK ==
    /\ counter \in Nat
    /\ \A c \in by_order : IsCard(c) /\ c.placeholder = FALSE /\ c.order \in Nat
    /\ unordered \in Seq(Range(unordered))
    /\ \A c \in Range(unordered) : IsCard(c) /\ c.placeholder = FALSE
    /\ placeholders \in Seq(Range(placeholders))
    /\ \A c \in Range(placeholders) : c.placeholder = TRUE
    /\ cards \in Seq(Range(cards))
    /\ \A c \in Range(cards) :
          \/ c.placeholder = TRUE
          \/ c.placeholder = FALSE /\ c.order \in 0 .. counter

\* The loops of the code follow one another.
LoopsInOrder ==
    /\ networks # <<>> => cards = <<>>
    /\ names # <<>> => Built

\* No two real cards have one number.
OrdersDistinct ==
    /\ \A c, d \in by_order : c.order = d.order => c = d
    /\ \A c \in by_order, d \in Range(cards) : ~d.placeholder => c.order # d.order
    /\ \A i, j \in DOMAIN cards :
          i # j /\ ~cards[i].placeholder /\ ~cards[j].placeholder
              => cards[i].order # cards[j].order

\* A real card is named after its number, a placeholder after none.
NamesOK ==
    /\ names \in Seq(Int) /\ Len(names) <= Len(cards)
    /\ \A i \in DOMAIN names :
          IF cards[i].placeholder
          THEN \A d \in Range(cards) : ~d.placeholder => names[i] # d.order - 1
          ELSE names[i] = cards[i].order - 1

IInv == CardsOK /\ LoopsInOrder /\ OrdersDistinct /\ NamesOK /\ NamesDistinct

LEMMA MergedCard ==
    ASSUME NEW clash, NEW card, IsCard(clash)
    PROVE  /\ IsCard(Merged(clash, card))
           /\ Merged(clash, card).order = clash.order
           /\ Merged(clash, card).placeholder = clash.placeholder
           /\ clash.mac # NoMac => Merged(clash, card).mac = clash.mac
<1>1. PICK o, m, a, p : clash = [order |-> o, mac |-> m, addresses |-> a, placeholder |-> p]
  BY DEF IsCard
<1>2. PICK n, b : Merged(clash, card) = [clash EXCEPT !.addresses = b, !.mac = n]
                  /\ (clash.mac # NoMac => n = clash.mac)
  BY DEF Merged
<1>3. Merged(clash, card) = [order |-> o, mac |-> n, addresses |-> b, placeholder |-> p]
  BY <1>1, <1>2
<1>4. QED
  BY <1>1, <1>2, <1>3 DEF IsCard

-----------------------------------------------------------------------------
(* A card is added                                                         *)

CardListOK ==
    /\ counter \in Nat
    /\ cards \in Seq(Range(cards))
    /\ \A c \in Range(cards) :
          \/ c.placeholder = TRUE
          \/ c.placeholder = FALSE /\ c.order \in 0 .. counter

LEMMA AddedCard ==
    ASSUME CardsOK, OrdersDistinct, NEW card, Add(card), by_order' \subseteq by_order,
           counter' \in Nat, counter <= counter',
           \/ card.placeholder = TRUE
           \/ /\ card.placeholder = FALSE /\ card.order \in 0 .. counter'
              /\ \A d \in Range(cards) : ~d.placeholder => d.order # card.order
              /\ \A c \in by_order' : c.order # card.order
    PROVE  CardListOK' /\ OrdersDistinct'
<1> DEFINE n == Len(cards) + 1
<1>1. /\ cards' \in Seq(Range(cards'))
      /\ DOMAIN cards' = 1 .. n
      /\ \A i \in 1 .. Len(cards) : cards'[i] = cards[i]
      /\ cards'[n] = card
      /\ Range(cards') = Range(cards) \cup {card}
  BY Appended DEF CardsOK, Add
<1>2. Len(cards) \in Nat /\ DOMAIN cards = 1 .. Len(cards)
  BY LenProperties DEF CardsOK
<1>3. CardListOK'
  <2>1. ASSUME NEW c \in Range(cards')
        PROVE  \/ c.placeholder = TRUE
               \/ c.placeholder = FALSE /\ c.order \in 0 .. counter'
    <3>1. CASE c = card
      BY <3>1
    <3>2. CASE c \in Range(cards)
      BY <3>2 DEF CardsOK
    <3>3. QED
      BY <1>1, <3>1, <3>2
  <2>2. QED
    BY <1>1, <2>1 DEF CardListOK
<1>4. \A c, d \in by_order' : c.order = d.order => c = d
  BY DEF OrdersDistinct
<1>5. \A c \in by_order', d \in Range(cards') : ~d.placeholder => c.order # d.order
  <2>1. SUFFICES ASSUME NEW c \in by_order', NEW d \in Range(cards'), ~d.placeholder
                 PROVE  c.order # d.order
    OBVIOUS
  <2>2. CASE d = card
    BY <2>1, <2>2
  <2>3. CASE d \in Range(cards)
    BY <2>1, <2>3 DEF OrdersDistinct
  <2>4. QED
    BY <1>1, <2>2, <2>3
<1>6. \A i, j \in DOMAIN cards' :
          i # j /\ ~cards'[i].placeholder /\ ~cards'[j].placeholder
              => cards'[i].order # cards'[j].order
  <2>1. SUFFICES ASSUME NEW i \in 1 .. n, NEW j \in 1 .. n, i # j,
                        ~cards'[i].placeholder, ~cards'[j].placeholder
                 PROVE  cards'[i].order # cards'[j].order
    BY <1>1
  <2>2. \A k \in 1 .. Len(cards) : cards[k] \in Range(cards)
    BY <1>2 DEF Range
  <2>3. CASE i # n /\ j # n
    <3>1. i \in 1 .. Len(cards) /\ j \in 1 .. Len(cards)
      BY <1>2, <2>3
    <3>2. QED
      BY <1>1, <1>2, <2>1, <3>1 DEF OrdersDistinct
  <2>4. CASE i = n
    <3>1. j \in 1 .. Len(cards)
      BY <1>2, <2>1, <2>4
    <3>2. QED
      BY <1>1, <2>1, <2>2, <2>4, <3>1
  <2>5. CASE j = n
    <3>1. i \in 1 .. Len(cards)
      BY <1>2, <2>1, <2>5
    <3>2. QED
      BY <1>1, <2>1, <2>2, <2>5, <3>1
  <2>6. QED
    BY <2>3, <2>4, <2>5
<1>7. QED
  BY <1>3, <1>4, <1>5, <1>6 DEF OrdersDistinct

-----------------------------------------------------------------------------
(* The loops                                                               *)

LEMMA AddNetworkStep ==
    ASSUME IInv, AddNetwork
    PROVE  CardsOK' /\ OrdersDistinct' /\ cards' = <<>>
<1> DEFINE card == CardOf(Head(networks))
<1>0. cards = <<>> /\ cards' = <<>> /\ counter' = counter
  BY DEF IInv, LoopsInOrder, AddNetwork
<1>1. IsCard(card) /\ card.placeholder = FALSE
  BY DEF CardOf, IsCard
<1>2. Range(cards') = {} /\ DOMAIN cards' = {}
  BY <1>0 DEF Range
<1> USE DEF IInv, CardsOK, OrdersDistinct
<1>3. CASE unordered' = Append(unordered, card) /\ UNCHANGED <<by_order, placeholders>>
  <2>1. /\ unordered' \in Seq(Range(unordered'))
        /\ Range(unordered') = Range(unordered) \cup {card}
    BY <1>3, Appended
  <2>2. QED
    BY <1>0, <1>1, <1>2, <1>3, <2>1
<1>4. CASE /\ card.order \in Nat /\ \A c \in by_order : c.order # card.order
           /\ by_order' = by_order \cup {card} /\ UNCHANGED <<placeholders, unordered>>
  BY <1>0, <1>1, <1>2, <1>4
<1>5. ASSUME NEW clash \in by_order, clash.order = card.order, card.order \in Nat,
             UNCHANGED unordered
      PROVE  /\ /\ placeholders' = Append(placeholders, [card EXCEPT !.placeholder = TRUE])
                /\ UNCHANGED by_order
                => CardsOK' /\ OrdersDistinct'
             /\ /\ by_order' = (by_order \ {clash}) \cup {Merged(clash, card)}
                /\ UNCHANGED placeholders
                => CardsOK' /\ OrdersDistinct'
  <2>1. CASE /\ placeholders' = Append(placeholders, [card EXCEPT !.placeholder = TRUE])
             /\ UNCHANGED by_order
    <3>1. [card EXCEPT !.placeholder = TRUE].placeholder = TRUE
      BY <1>1 DEF IsCard
    <3>2. /\ placeholders' \in Seq(Range(placeholders'))
          /\ Range(placeholders') = Range(placeholders) \cup {[card EXCEPT !.placeholder = TRUE]}
      BY <2>1, Appended
    <3>3. QED
      BY <1>0, <1>2, <1>5, <2>1, <3>1, <3>2
  <2>2. CASE /\ by_order' = (by_order \ {clash}) \cup {Merged(clash, card)}
             /\ UNCHANGED placeholders
    <3>1. /\ IsCard(Merged(clash, card)) /\ Merged(clash, card).placeholder = FALSE
          /\ Merged(clash, card).order = clash.order
      BY <1>5, MergedCard
    <3>2. QED
      BY <1>0, <1>2, <1>5, <2>2, <3>1
  <2>3. QED
    BY <2>1, <2>2
<1>6. QED
  BY <1>0, <1>3, <1>4, <1>5 DEF AddNetwork

LEMMA TakeOrderedStep ==
    ASSUME IInv, TakeOrdered
    PROVE  CardsOK' /\ OrdersDistinct'
<1>1. PICK card \in by_order :
          /\ Add(card) /\ by_order' = by_order \ {card}
          /\ counter' = IF card.order > counter THEN card.order ELSE counter
  BY DEF TakeOrdered
<1>2. UNCHANGED <<placeholders, unordered>> /\ card.order \in Nat /\ counter \in Nat
  BY DEF TakeOrdered, IInv, CardsOK
<1>3. counter' \in Nat /\ counter <= counter' /\ card.order \in 0 .. counter'
  BY <1>1, <1>2
<1>4. \A c \in by_order' : c.order # card.order
  BY <1>1 DEF IInv, OrdersDistinct
<1>5. \A d \in Range(cards) : ~d.placeholder => d.order # card.order
  BY DEF IInv, OrdersDistinct
<1>6. CardListOK' /\ OrdersDistinct'
  BY <1>1, <1>3, <1>4, <1>5, AddedCard DEF IInv, CardsOK
<1>7. QED
  BY <1>1, <1>2, <1>6 DEF IInv, CardsOK, CardListOK

LEMMA TakePlaceholderStep ==
    ASSUME IInv, TakePlaceholder
    PROVE  CardsOK' /\ OrdersDistinct'
<1>1. /\ Add(Head(placeholders)) /\ placeholders' = Tail(placeholders)
      /\ UNCHANGED <<by_order, unordered, counter>>
  BY DEF TakePlaceholder
<1>2. /\ placeholders' \in Seq(Range(placeholders'))
      /\ Range(placeholders') \subseteq Range(placeholders)
      /\ Head(placeholders) \in Range(placeholders)
  BY <1>1, Taken DEF TakePlaceholder, IInv, CardsOK
<1>3. Head(placeholders).placeholder = TRUE
  BY <1>2 DEF IInv, CardsOK
<1>4. CardListOK' /\ OrdersDistinct'
  <2>1. by_order' \subseteq by_order /\ counter' \in Nat /\ counter <= counter'
    BY <1>1 DEF IInv, CardsOK
  <2>2. QED
    BY <1>1, <1>3, <2>1, AddedCard DEF IInv
<1>5. QED
  BY <1>1, <1>2, <1>4 DEF IInv, CardsOK, CardListOK

LEMMA TakeUnorderedStep ==
    ASSUME IInv, TakeUnordered
    PROVE  CardsOK' /\ OrdersDistinct'
<1> DEFINE card == [Head(unordered) EXCEPT !.order = counter + 1]
<1>1. /\ Add(card) /\ unordered' = Tail(unordered) /\ counter' = counter + 1
      /\ by_order = {} /\ UNCHANGED <<by_order, placeholders>>
  BY DEF TakeUnordered
<1>2. /\ unordered' \in Seq(Range(unordered'))
      /\ Range(unordered') \subseteq Range(unordered)
      /\ Head(unordered) \in Range(unordered)
  BY <1>1, Taken DEF TakeUnordered, IInv, CardsOK
<1>3. card.placeholder = FALSE /\ card.order = counter + 1
  BY <1>2 DEF IInv, CardsOK, IsCard
<1>4. counter \in Nat /\ card.order \in 0 .. counter'
  BY <1>1, <1>3 DEF IInv, CardsOK
<1>5. \A d \in Range(cards) : ~d.placeholder => d.order # card.order
  BY <1>3, <1>4 DEF IInv, CardsOK
<1>6. CardListOK' /\ OrdersDistinct'
  <2>1. by_order' \subseteq by_order /\ counter' \in Nat /\ counter <= counter'
    BY <1>1, <1>4
  <2> HIDE DEF card
  <2>2. QED
    BY <1>1, <1>3, <1>4, <1>5, <2>1, AddedCard DEF IInv
<1>7. QED
  BY <1>1, <1>2, <1>6 DEF IInv, CardsOK, CardListOK

LEMMA AddPortStep ==
    ASSUME IInv, AddPort
    PROVE  CardsOK' /\ OrdersDistinct'
<1>1. /\ by_order = {} /\ UNCHANGED <<by_order, placeholders, unordered>>
  BY DEF AddPort
<1>2. CASE UNCHANGED <<cards, counter>>
  BY <1>1, <1>2 DEF IInv, CardsOK, OrdersDistinct
<1>3. CASE ~UNCHANGED <<cards, counter>>
  <2>1. PICK card : /\ Add(card) /\ card.order = counter + 1 /\ card.placeholder = FALSE
                    /\ counter' = counter + 1
    BY <1>3 DEF AddPort
  <2>2. counter \in Nat /\ card.order \in 0 .. counter'
    BY <2>1 DEF IInv, CardsOK
  <2>3. \A d \in Range(cards) : ~d.placeholder => d.order # card.order
    BY <2>1, <2>2 DEF IInv, CardsOK
  <2>4. CardListOK' /\ OrdersDistinct'
    <3>1. by_order' \subseteq by_order /\ counter' \in Nat /\ counter <= counter'
      BY <1>1, <2>1, <2>2
    <3>2. QED
      BY <1>1, <2>1, <2>2, <2>3, <3>1, AddedCard DEF IInv
  <2>5. QED
    BY <1>1, <2>4 DEF IInv, CardsOK, CardListOK
<1>4. QED
  BY <1>2, <1>3

\* Nothing is built once a card has been named.
LEMMA BuildStep ==
    ASSUME IInv, Build
    PROVE  IInv'
<1>1. ~Built /\ names' = names
  BY DEF Built, Build, AddNetwork, TakeOrdered, TakePlaceholder, TakeUnordered, AddPort
<1>2. names' = <<>>
  BY <1>1 DEF IInv, LoopsInOrder
<1>3. CardsOK' /\ OrdersDistinct'
  BY AddNetworkStep, TakeOrderedStep, TakePlaceholderStep, TakeUnorderedStep, AddPortStep
     DEF Build
<1>4. networks' # <<>> => cards' = <<>>
  <2>1. CASE AddNetwork
    BY <2>1, AddNetworkStep
  <2>2. CASE TakeOrdered \/ TakePlaceholder \/ TakeUnordered \/ AddPort
    BY <2>2 DEF TakeOrdered, TakePlaceholder, TakeUnordered, AddPort
  <2>3. QED
    BY <2>1, <2>2 DEF Build
<1>5. Len(cards') \in Nat
  BY <1>3, LenProperties DEF CardsOK
<1>6. NamesOK' /\ NamesDistinct'
  BY <1>2, <1>5, EmptySeq DEF NamesOK, NamesDistinct
<1>7. QED
  BY <1>2, <1>3, <1>4, <1>6 DEF IInv, LoopsInOrder

-----------------------------------------------------------------------------
(* A card is named                                                         *)

LEMMA TakenFinite ==
    ASSUME CardsOK, names \in Seq(Int)
    PROVE  IsFiniteSet(taken_names)
<1> DEFINE numbers == [i \in 1 .. Len(cards) |-> cards[i].order - 1]
           of == {c.order - 1 : c \in {d \in Range(cards) : ~d.placeholder}}
<1>1. Len(cards) \in Nat /\ DOMAIN cards = 1 .. Len(cards)
  BY LenProperties DEF CardsOK
<1>2. IsFiniteSet(1 .. Len(cards))
  BY <1>1, FS_Interval
<1>3. numbers \in Surjection(1 .. Len(cards), Range(numbers))
  BY DEF Surjection, Range
<1>4. IsFiniteSet(Range(numbers))
  <2> HIDE DEF numbers
  <2> QED
    BY <1>2, <1>3, FS_Surjection
<1>5. of \subseteq Range(numbers)
  BY <1>1 DEF Range
<1>6. IsFiniteSet(of)
  <2> HIDE DEF of, numbers
  <2> QED
    BY <1>4, <1>5, FS_Subset
<1>7. IsFiniteSet(Range(names))
  BY SeqOfRange, FiniteRange
<1>8. IsFiniteSet(of \cup Range(names))
  <2> HIDE DEF of
  <2> QED
    BY <1>6, <1>7, FS_Union
<1>9. QED
  BY <1>8 DEF taken_names

\* The name a card gets is no earlier card's, and a placeholder's is no number
\* of a real card.
LEMMA NewName ==
    ASSUME IInv, NameCard
    PROVE  LET k == Len(names) + 1
               name == names'[k]
           IN /\ name \in Int /\ names' = Append(names, name)
              /\ \A i \in DOMAIN names : names[i] # name
              /\ IF cards[k].placeholder
                 THEN \A d \in Range(cards) : ~d.placeholder => name # d.order - 1
                 ELSE name = cards[k].order - 1
<1> DEFINE k == Len(names) + 1
           name == IF cards[k].placeholder THEN next_bond_name(taken_names)
                   ELSE cards[k].order - 1
<1>1. names' = Append(names, name)
  BY DEF NameCard
<1>2. /\ Len(names) \in Nat /\ DOMAIN names = 1 .. Len(names)
      /\ Len(cards) \in Nat /\ DOMAIN cards = 1 .. Len(cards)
      /\ k \in DOMAIN cards /\ k \notin DOMAIN names /\ DOMAIN names \subseteq DOMAIN cards
  BY LenProperties DEF IInv, CardsOK, NamesOK, NameCard
<1>3. cards[k] \in Range(cards)
  BY <1>2 DEF Range
<1>4. CASE cards[k].placeholder
  <2>1. name \in Nat \ taken_names
    BY <1>4, TakenFinite, NextBondNameFree DEF IInv, NamesOK
  <2>2. \A i \in DOMAIN names : names[i] \in taken_names
    BY DEF taken_names, Range
  <2>3. \A d \in Range(cards) : ~d.placeholder => d.order - 1 \in taken_names
    BY DEF taken_names
  <2>4. names'[k] = name
    BY <1>1, <2>1, AppendProperties DEF IInv, NamesOK
  <2> HIDE DEF name
  <2>5. QED
    BY <1>1, <1>4, <2>1, <2>2, <2>3, <2>4
<1>5. CASE ~cards[k].placeholder
  <2>1. cards[k].order \in Nat /\ name = cards[k].order - 1
    BY <1>3, <1>5 DEF IInv, CardsOK
  <2>2. ASSUME NEW i \in DOMAIN names PROVE names[i] # name
    <3>1. i \in DOMAIN cards /\ i # k /\ cards[i] \in Range(cards)
      BY <1>2 DEF Range
    <3>2. CASE cards[i].placeholder
      BY <1>3, <1>5, <2>1, <2>2, <3>2 DEF IInv, NamesOK
    <3>3. CASE ~cards[i].placeholder
      <4>1. cards[i].order \in Nat /\ cards[i].order # cards[k].order
        BY <1>2, <1>5, <3>1, <3>3 DEF IInv, CardsOK, OrdersDistinct
      <4>2. names[i] = cards[i].order - 1
        BY <2>2, <3>3 DEF IInv, NamesOK
      <4>3. QED
        BY <2>1, <4>1, <4>2
    <3>4. QED
      BY <3>2, <3>3
  <2>3. names'[k] = name
    BY <1>1, <2>1, AppendProperties DEF IInv, NamesOK
  <2> HIDE DEF name
  <2>4. QED
    BY <1>1, <1>5, <2>1, <2>2, <2>3
<1>6. QED
  BY <1>4, <1>5

LEMMA NameCardStep ==
    ASSUME IInv, NameCard
    PROVE  IInv'
<1> DEFINE k == Len(names) + 1
           name == names'[k]
<1>1. /\ name \in Int /\ names' = Append(names, name)
      /\ \A i \in DOMAIN names : names[i] # name
      /\ IF cards[k].placeholder
         THEN \A d \in Range(cards) : ~d.placeholder => name # d.order - 1
         ELSE name = cards[k].order - 1
  BY NewName
<1>2. UNCHANGED <<networks, ports, by_order, placeholders, unordered, cards, counter>>
  BY DEF NameCard
<1>3. CardsOK' /\ OrdersDistinct' /\ LoopsInOrder'
  <2>1. CardsOK' /\ OrdersDistinct'
    BY <1>2 DEF IInv, CardsOK, OrdersDistinct
  <2>2. LoopsInOrder'
    BY <1>2 DEF NameCard, IInv, LoopsInOrder, Built
  <2>3. QED
    BY <2>1, <2>2
<1>4. /\ names' \in Seq(Int) /\ Len(names') = k
      /\ \A i \in 1 .. Len(names) : names'[i] = names[i]
  BY <1>1, AppendProperties DEF IInv, NamesOK
<1>5. /\ Len(names) \in Nat /\ DOMAIN names = 1 .. Len(names)
      /\ DOMAIN names' = 1 .. k /\ Len(cards) \in Nat /\ k <= Len(cards)
  BY <1>4, LenProperties DEF IInv, CardsOK, NamesOK, NameCard
<1> HIDE DEF name
<1>6. NamesOK'
  <2>1. ASSUME NEW i \in 1 .. k
        PROVE  IF cards[i].placeholder
               THEN \A d \in Range(cards) : ~d.placeholder => names'[i] # d.order - 1
               ELSE names'[i] = cards[i].order - 1
    <3>1. CASE i = k
      BY <1>1, <3>1 DEF name
    <3>2. CASE i # k
      <4>1. i \in DOMAIN names /\ names'[i] = names[i]
        BY <1>4, <1>5, <3>2
      <4>2. QED
        BY <4>1 DEF IInv, NamesOK
    <3>3. QED
      BY <3>1, <3>2
  <2>2. QED
    BY <1>2, <1>4, <1>5, <2>1 DEF NamesOK
<1>7. NamesDistinct'
  <2>1. SUFFICES ASSUME NEW i \in 1 .. k, NEW j \in 1 .. k, i # j
                 PROVE  names'[i] # names'[j]
    BY <1>5 DEF NamesDistinct
  <2>2. \A n \in 1 .. k : n # k => n \in DOMAIN names /\ names'[n] = names[n]
    BY <1>4, <1>5
  <2>3. names'[k] = name
    BY DEF name
  <2>4. QED
    BY <1>1, <2>1, <2>2, <2>3 DEF IInv, NamesDistinct
<1>8. QED
  BY <1>3, <1>6, <1>7 DEF IInv

-----------------------------------------------------------------------------
LEMMA Unchanged ==
    ASSUME IInv, UNCHANGED netVars
    PROVE  IInv'
<1> USE DEF netVars
<1>1. CardsOK' /\ OrdersDistinct'
  BY DEF IInv, CardsOK, OrdersDistinct
<1>2. LoopsInOrder' /\ NamesOK' /\ NamesDistinct'
  BY DEF IInv, LoopsInOrder, Built, NamesOK, NamesDistinct
<1>3. QED
  BY <1>1, <1>2 DEF IInv

LEMMA Initially == Init => IInv
<1> SUFFICES ASSUME NetInit(message.networks, message.ports) PROVE IInv
  BY DEF Init
<1>1. Range(<<>>) = {} /\ DOMAIN <<>> = {} /\ Len(<<>>) = 0
  BY EmptySeq DEF Range
<1>2. \A S : <<>> \in Seq(S)
  BY EmptySeq
<1>3. CardsOK /\ OrdersDistinct
  BY <1>1, <1>2 DEF NetInit, CardsOK, OrdersDistinct
<1>4. LoopsInOrder /\ NamesOK /\ NamesDistinct
  BY <1>1, <1>2 DEF NetInit, LoopsInOrder, NamesOK, NamesDistinct
<1>5. QED
  BY <1>3, <1>4 DEF IInv

\* What each part of create_instances does to the cards.
LEMMA NetSteps ==
    ASSUME [Next]_vars
    PROVE  Build \/ NameCard \/ UNCHANGED netVars
BY DEF Next, Validate, BuildCards, LookUp, RecreateRow, ResolveAll, WriteBatch, Replay,
       NameCards, WriteState, vars

LEMMA Invariance == Spec => []IInv
<1>1. IInv /\ [Next]_vars => IInv'
  BY NetSteps, BuildStep, NameCardStep, Unchanged
<1>2. QED
  BY Initially, <1>1, PTL DEF Spec

(* No two cards of a host get one name (_persist_net_endpoints), for any   *)
(* networks and ports: so a row is re-selected by (server_id, name) as its *)
(* own card and no other.                                                  *)
THEOREM BondNamesDistinct == Spec => []NamesDistinct
<1>1. IInv => NamesDistinct
  BY DEF IInv
<1>2. QED
  BY Invariance, <1>1, PTL

-----------------------------------------------------------------------------
(* Placeholders and their macs                                             *)

\* p has a mac, and its number is that of a card in known with another one.
Backed(p, known) ==
    /\ p.mac # NoMac
    /\ \E c \in known : ~c.placeholder /\ c.order = p.order /\ c.mac \notin {NoMac, p.mac}

Known == by_order \cup Range(cards)

Clashed == Range(placeholders) \cup {c \in Range(cards) : c.placeholder}

\* Cards are added, but none is lost.
LEMMA StillBacked ==
    ASSUME PlaceholderHasMac, Known \subseteq Known', Clashed' \subseteq Clashed
    PROVE  PlaceholderHasMac'
BY DEF PlaceholderHasMac, Known, Clashed

LEMMA AddNetworkKeepsMacs ==
    ASSUME IInv, PlaceholderHasMac, AddNetwork
    PROVE  PlaceholderHasMac'
<1> DEFINE card == CardOf(Head(networks))
<1>0. cards = <<>> /\ cards' = <<>> /\ Range(<<>>) = {}
  BY DEF IInv, LoopsInOrder, AddNetwork, Range
<1>1. Known = by_order /\ Known' = by_order' /\ Clashed = Range(placeholders)
      /\ Clashed' = Range(placeholders')
  BY <1>0 DEF Known, Clashed
<1>2. PlaceholderHasMac <=> \A p \in Clashed : Backed(p, Known)
  BY DEF PlaceholderHasMac, Backed, Known, Clashed
<1>3. PlaceholderHasMac' <=> \A p \in Clashed' : Backed(p, Known')
  BY DEF PlaceholderHasMac, Backed, Known, Clashed
<1>4. CASE UNCHANGED placeholders /\ by_order \subseteq by_order'
  BY <1>1, <1>4, StillBacked
<1>5. ASSUME NEW clash \in by_order, clash.order = card.order, Rival(clash, card),
             placeholders' = Append(placeholders, [card EXCEPT !.placeholder = TRUE]),
             UNCHANGED by_order
      PROVE  PlaceholderHasMac'
  <2> DEFINE p == [card EXCEPT !.placeholder = TRUE]
  <2>1. Range(placeholders') = Range(placeholders) \cup {p}
    BY <1>5, Appended DEF IInv, CardsOK
  <2>2. p.mac = card.mac /\ p.order = card.order
    BY DEF CardOf
  <2>3. ~clash.placeholder
    BY DEF IInv, CardsOK
  <2>4. Backed(p, Known')
    BY <1>1, <1>5, <2>2, <2>3 DEF Rival, Backed
  <2> HIDE DEF p
  <2>5. QED
    BY <1>1, <1>2, <1>3, <1>5, <2>1, <2>4
<1>6. ASSUME NEW clash \in by_order, UNCHANGED placeholders,
             by_order' = (by_order \ {clash}) \cup {Merged(clash, card)}
      PROVE  PlaceholderHasMac'
  <2>1. /\ Merged(clash, card).order = clash.order
        /\ Merged(clash, card).placeholder = clash.placeholder
        /\ clash.mac # NoMac => Merged(clash, card).mac = clash.mac
    BY MergedCard DEF IInv, CardsOK
  <2>2. SUFFICES ASSUME NEW p \in Range(placeholders) PROVE Backed(p, by_order')
    BY <1>1, <1>3, <1>6
  <2>3. p.mac # NoMac
    BY <1>1, <1>2 DEF Backed
  <2>4. PICK c \in by_order :
           ~c.placeholder /\ c.order = p.order /\ c.mac \notin {NoMac, p.mac}
    BY <1>1, <1>2 DEF Backed
  <2>5. CASE c = clash
    BY <1>6, <2>1, <2>3, <2>4, <2>5 DEF Backed
  <2>6. CASE c # clash
    BY <1>6, <2>3, <2>4, <2>6 DEF Backed
  <2>7. QED
    BY <2>5, <2>6
<1>7. QED
  BY <1>4, <1>5, <1>6 DEF AddNetwork

LEMMA AddedKeepsMacs ==
    ASSUME IInv, PlaceholderHasMac, NEW card, Add(card),
           \/ by_order' = by_order \ {card} /\ ~card.placeholder /\ UNCHANGED placeholders
           \/ by_order' = by_order /\ ~card.placeholder
                /\ Range(placeholders') \subseteq Range(placeholders)
           \/ /\ by_order' = by_order /\ card \in Range(placeholders)
              /\ Range(placeholders') \subseteq Range(placeholders)
    PROVE  PlaceholderHasMac'
<1>1. Range(cards') = Range(cards) \cup {card}
  BY Appended DEF Add, IInv, CardsOK
<1>2. Known \subseteq Known'
  BY <1>1 DEF Known
<1>3. Clashed' \subseteq Clashed
  BY <1>1 DEF Clashed
<1>4. QED
  BY <1>2, <1>3, StillBacked

LEMMA BuildKeepsMacs ==
    ASSUME IInv, PlaceholderHasMac, Build
    PROVE  PlaceholderHasMac'
<1>1. CASE AddNetwork
  BY <1>1, AddNetworkKeepsMacs
<1>2. CASE TakeOrdered
  <2>1. PICK card \in by_order : Add(card) /\ by_order' = by_order \ {card}
    BY <1>2 DEF TakeOrdered
  <2>2. ~card.placeholder /\ UNCHANGED placeholders
    BY <1>2 DEF TakeOrdered, IInv, CardsOK
  <2>3. QED
    BY <2>1, <2>2, AddedKeepsMacs
<1>3. CASE TakePlaceholder
  <2>1. /\ Range(placeholders') \subseteq Range(placeholders)
        /\ Head(placeholders) \in Range(placeholders)
    BY <1>3, Taken DEF TakePlaceholder, IInv, CardsOK
  <2>2. QED
    BY <1>3, <2>1, AddedKeepsMacs DEF TakePlaceholder
<1>4. CASE TakeUnordered
  <2>1. PICK card : Add(card) /\ card = [Head(unordered) EXCEPT !.order = counter + 1]
    BY <1>4 DEF TakeUnordered
  <2>2. Head(unordered) \in Range(unordered)
    BY <1>4, Taken DEF TakeUnordered, IInv, CardsOK
  <2>3. ~card.placeholder
    BY <2>1, <2>2 DEF IInv, CardsOK, IsCard
  <2>4. QED
    BY <1>4, <2>1, <2>3, AddedKeepsMacs DEF TakeUnordered
<1>5. CASE AddPort
  <2>1. CASE UNCHANGED cards
    BY <1>5, <2>1 DEF AddPort, PlaceholderHasMac
  <2>2. CASE ~UNCHANGED cards
    <3>1. PICK card : Add(card) /\ ~card.placeholder
      BY <1>5, <2>2 DEF AddPort
    <3>2. QED
      BY <1>5, <3>1, AddedKeepsMacs DEF AddPort
  <2>3. QED
    BY <2>1, <2>2
<1>6. QED
  BY <1>1, <1>2, <1>3, <1>4, <1>5 DEF Build

(* "The mac still finds this row again; it is always set": however the     *)
(* numbers of the networks clash, a placeholder has a mac, and another     *)
(* card with another mac has its number.                                   *)
THEOREM PlaceholdersHaveMacs == Spec => []PlaceholderHasMac
<1>1. Init => PlaceholderHasMac
  BY DEF Init, NetInit, PlaceholderHasMac, Range
<1>2. IInv /\ PlaceholderHasMac /\ [Next]_vars => PlaceholderHasMac'
  <2>1. IInv /\ PlaceholderHasMac /\ NameCard => PlaceholderHasMac'
    BY DEF NameCard, PlaceholderHasMac
  <2>2. PlaceholderHasMac /\ UNCHANGED netVars => PlaceholderHasMac'
    BY DEF netVars, PlaceholderHasMac
  <2>3. QED
    BY <2>1, <2>2, NetSteps, BuildKeepsMacs
<1>3. QED
  BY Invariance, <1>1, <1>2, PTL DEF Spec

-----------------------------------------------------------------------------
(* The fields of the row: each is saved, or its failure is recorded        *)

LEMMA LeastOf ==
    ASSUME NEW S, S \subseteq Nat, S # {}
    PROVE  Min(S) \in S /\ \A i \in S : Min(S) <= i
<1>1. PICK n \in S : \A m \in S : n <= m
  BY SmallestOf
<1>2. QED
  BY <1>1 DEF Min

LEMMA GreatestOf ==
    ASSUME NEW S, NEW n \in Nat, S \subseteq 0 .. n, S # {}
    PROVE  Max(S) \in S /\ \A i \in S : i <= Max(S)
<1> DEFINE above == {k \in Nat : \A i \in S : i <= k}
<1>1. above \subseteq Nat /\ n \in above
  OBVIOUS
<1>2. PICK k \in above : \A m \in above : k <= m
  <2> HIDE DEF above
  <2> QED
    BY <1>1, SmallestOf
<1>3. k \in Nat /\ \A i \in S : i <= k
  BY <1>2
<1>4. k \in S
  <2>1. SUFFICES ASSUME k \notin S PROVE FALSE
    OBVIOUS
  <2>2. \A i \in S : i \in Nat /\ i < k
    BY <1>3, <2>1
  <2>3. PICK j \in S : TRUE
    OBVIOUS
  <2>4. k - 1 \in Nat
    BY <1>3, <2>2, <2>3
  <2>5. k - 1 \in Nat /\ \A i \in S : i <= k - 1
    BY <1>3, <2>2, <2>4
  <2>6. k <= k - 1
    BY <1>2, <2>5
  <2>7. QED
    BY <1>3, <2>6
<1>5. \E x \in S : \A y \in S : x >= y
  BY <1>3, <1>4
<1>6. Max(S) \in S /\ \A y \in S : Max(S) >= y
  BY <1>5 DEF Max
<1>7. QED
  BY <1>6

\* What a step of the table writes.
LEMMA StepWrites ==
    ASSUME NEW m, NEW i \in 1 .. 8
    PROVE  /\ Resolve(m, Steps[i]).column \in Columns
           /\ Steps[i] \in Range(Steps)
<1>1. Len(Steps) = 8 /\ DOMAIN Steps = 1 .. 8
  BY DEF Steps
<1>2. Steps[i] \in Range(Steps)
  BY <1>1 DEF Range
<1>3. Resolve(m, Steps[i]).column \in Columns
  <2>1. CASE Steps[i] \in {"owner", "responsible", "cost_center"}
    <3>1. DOMAIN IdColumn = {"owner", "responsible", "cost_center"}
      BY DEF IdColumn
    <3>2. IdColumn[Steps[i]] \in Columns /\ Steps[i] \in Columns
      BY <2>1 DEF IdColumn, Columns
    <3>3. Ladder(m, Steps[i]).column \in {IdColumn[Steps[i]], Steps[i]}
      BY DEF Ladder, FieldWrite
    <3>4. QED
      BY <2>1, <3>1, <3>2, <3>3 DEF Resolve
  <2>2. CASE Steps[i] = "cloud_resource_project"
    BY <2>2 DEF Resolve, FieldWrite, Columns, IdColumn
  <2>3. CASE Steps[i] \in {"dc", "tenant", "flavor", "server_monthly_payment"}
    BY <2>3 DEF Resolve, FieldWrite, Columns, IdColumn
  <2>4. i \in {1, 2, 3, 4, 5, 6, 7, 8}
    OBVIOUS
  <2>5. QED
    BY <2>1, <2>2, <2>3, <2>4 DEF Steps
<1>4. QED
  BY <1>2, <1>3

LEMMA TagPlaces ==
    ASSUME NEW m \in Messages
    PROVE  /\ Len(m.tags) \in Nat /\ DOMAIN m.tags = 1 .. Len(m.tags)
           /\ cmdb_tags(m) \subseteq 1 .. Len(m.tags)
           /\ \A i \in DOMAIN m.tags : m.tags[i] \in Range(m.tags)
<1>1. m.tags \in Seq(Range(m.tags))
  BY MessagesAssumption
<1>2. QED
  BY <1>1, LenProperties DEF cmdb_tags, Range

\* The writes of a create, one by one: what CMDB would take is of a column.
LEMMA WritesAre ==
    ASSUME NEW m \in Messages
    PROVE  /\ create_writes(m) = [i \in DOMAIN create_writes(m) |-> create_writes(m)[i]]
           /\ \A i \in DOMAIN create_writes(m) :
                 \/ i \in 1 .. 8 /\ create_writes(m)[i] = Resolve(m, Steps[i])
                 \/ \E k \in leftover_tags(m) :
                       i = 8 + k /\ create_writes(m)[i] = FieldWrite(m.tags[k], m.tags[k][1], m.tags[k])
           /\ \A k \in leftover_tags(m) : 8 + k \in DOMAIN create_writes(m)
           /\ \A i \in 1 .. 8 : Resolves(m, Steps[i]) => i \in DOMAIN create_writes(m)
           /\ DOMAIN create_writes(m) \subseteq 0 .. (8 + Len(m.tags))
<1>1. Len(Steps) = 8
  BY DEF Steps
<1>2. leftover_tags(m) \subseteq 1 .. Len(m.tags) /\ Len(m.tags) \in Nat
  BY TagPlaces DEF leftover_tags
<1> DEFINE D == {k \in 1 .. 8 : Resolves(m, Steps[k])} \cup {8 + k : k \in leftover_tags(m)}
<1>3. create_writes(m) = [i \in D |-> IF i <= 8 THEN Resolve(m, Steps[i])
                                      ELSE FieldWrite(m.tags[i - 8], m.tags[i - 8][1], m.tags[i - 8])]
  BY <1>1 DEF create_writes
<1>4. DOMAIN create_writes(m) = D
  BY <1>3
<1>5. ASSUME NEW i \in D
      PROVE  \/ i \in 1 .. 8 /\ create_writes(m)[i] = Resolve(m, Steps[i])
             \/ \E k \in leftover_tags(m) :
                   i = 8 + k /\ create_writes(m)[i] = FieldWrite(m.tags[k], m.tags[k][1], m.tags[k])
  <2>1. CASE i \in 1 .. 8
    BY <1>3, <2>1
  <2>2. ASSUME NEW k \in leftover_tags(m), i = 8 + k
        PROVE  create_writes(m)[i] = FieldWrite(m.tags[k], m.tags[k][1], m.tags[k])
    <3>1. k \in Nat \ {0} /\ ~(i <= 8) /\ i - 8 = k
      BY <1>2, <2>2
    <3>2. QED
      BY <1>3, <3>1
  <2>3. QED
    BY <2>1, <2>2
<1>6. D \subseteq 0 .. (8 + Len(m.tags))
  BY <1>2
<1>7. QED
  BY <1>3, <1>4, <1>5, <1>6

LEMMA Writable ==
    ASSUME NEW m \in Messages, NEW i \in DOMAIN create_writes(m),
           create_writes(m)[i].value \notin m.bad
    PROVE  create_writes(m)[i].column \in Columns
<1>1. CASE i \in 1 .. 8 /\ create_writes(m)[i] = Resolve(m, Steps[i])
  BY <1>1, StepWrites
<1>2. ASSUME NEW k \in leftover_tags(m),
             create_writes(m)[i] = FieldWrite(m.tags[k], m.tags[k][1], m.tags[k])
      PROVE  create_writes(m)[i].column \in Columns
  <2>1. /\ create_writes(m)[i].column = m.tags[k][1]
        /\ create_writes(m)[i].value = m.tags[k]
    BY <1>2 DEF FieldWrite
  <2>2. /\ m.tags[k] \in Range(m.tags) /\ m.tags[k] # CapTag
        /\ m.tags[k][1] \notin Range(Steps) \cup {"state"}
    BY TagPlaces DEF leftover_tags, cmdb_tags
  <2>3. QED
    BY <2>1, <2>2, MessagesAssumption
<1>3. QED
  BY <1>1, <1>2, WritesAre

-----------------------------------------------------------------------------
W == create_writes(message)

\* What has become of the i-th write: it is in the row, its failure is
\* recorded, or a later write has its column.
Settled(i) ==
    \/ W[i].column \in Columns /\ row[W[i].column] = W[i].value
    \/ W[i].field \in Recorded
    \/ \E j \in DOMAIN W : j > i /\ W[j].column = W[i].column

\* The writes are replayed in order, and those no longer waiting are settled.
Replaying ==
    /\ DOMAIN writes \subseteq DOMAIN W
    /\ \A i \in DOMAIN writes : writes[i] = W[i]
    /\ \A i \in DOMAIN W \ DOMAIN writes :
          Settled(i) /\ \A j \in DOMAIN writes : i < j

Written == pc \in {"cards", "state"} \/ Done

FieldInv ==
    /\ message \in Messages
    /\ row = [c \in Columns |-> row[c]]
    /\ pc = "validate" => ~recreated
    /\ pc = "batch" => writes = W
    /\ pc = "replay" => Replaying
    /\ Written => \A i \in DOMAIN W : Settled(i)

\* Once settled, a write stays so as long as the row keeps its columns.
LEMMA StaysSettled ==
    ASSUME UNCHANGED message, Recorded \subseteq Recorded', NEW i \in DOMAIN W, Settled(i),
           \/ row'[W[i].column] = row[W[i].column]
           \/ \E j \in DOMAIN W : j > i /\ W[j].column = W[i].column
    PROVE  Settled(i)'
BY DEF Settled, W

LEMMA Kept ==
    ASSUME FieldInv, UNCHANGED <<message, row, errors>>, Written' => Written,
           pc' \notin {"validate", "batch", "replay"}
    PROVE  FieldInv'
<1>1. Recorded' = Recorded /\ W' = W
  BY DEF Recorded, W
<1>2. \A i : Settled(i) => Settled(i)'
  BY <1>1 DEF Settled
<1>3. QED
  BY <1>1, <1>2 DEF FieldInv

\* The batch: the value of a column is that of its last write.
LEMMA BatchIs ==
    ASSUME message \in Messages, writes = W, NEW i \in DOMAIN W,
           ~(\E j \in DOMAIN W : j > i /\ W[j].column = W[i].column)
    PROVE  W[i].column \in DOMAIN Batch /\ Batch[W[i].column] = W[i].value
<1> DEFINE c == W[i].column
<1>1. /\ Len(message.tags) \in Nat /\ DOMAIN W \subseteq 0 .. (8 + Len(message.tags))
  BY WritesAre, TagPlaces DEF W
<1>2. i \in WritesOf(c) /\ WritesOf(c) \subseteq 0 .. (8 + Len(message.tags))
  BY <1>1 DEF WritesOf
<1>3. Max(WritesOf(c)) \in WritesOf(c) /\ i <= Max(WritesOf(c))
  <2>1. 8 + Len(message.tags) \in Nat
    BY <1>1
  <2>2. QED
    BY <1>2, <2>1, GreatestOf
<1>4. Max(WritesOf(c)) = i
  <2>1. Max(WritesOf(c)) \in Nat /\ i \in Nat
    BY <1>1, <1>2, <1>3
  <2>2. ~(Max(WritesOf(c)) > i)
    BY <1>3 DEF WritesOf
  <2>3. QED
    BY <1>3, <2>1, <2>2
<1>5. LastWrite(c) = W[i].value
  BY <1>4 DEF LastWrite
<1>6. c \in {w.column : w \in Range(writes)}
  BY DEF Range
<1>7. QED
  BY <1>5, <1>6 DEF Batch

LEMMA BatchStep ==
    ASSUME FieldInv, WriteBatch
    PROVE  FieldInv'
<1>1. /\ UNCHANGED <<message, recreated, errors>> /\ pc = "batch" /\ pc' \in {"cards", "replay"}
      /\ writes = W /\ message \in Messages
  BY DEF WriteBatch, At, BatchLands, BatchFails, FieldInv
<1>2. Recorded' = Recorded /\ W' = W
  BY <1>1 DEF Recorded, W
<1>3. row' = [c \in Columns |-> row'[c]]
  <2>1. ApplyBatch => row' = [c \in Columns |-> row'[c]]
    BY DEF ApplyBatch
  <2>2. UNCHANGED row => row' = [c \in Columns |-> row'[c]]
    BY DEF FieldInv
  <2>3. QED
    BY <2>1, <2>2 DEF WriteBatch, BatchLands, BatchFails
<1>4. CASE BatchLands(message.bad) /\ At("batch", "cards")
  <2>1. ASSUME NEW i \in DOMAIN W PROVE Settled(i)'
    <3>1. SUFFICES ASSUME ~(\E j \in DOMAIN W : j > i /\ W[j].column = W[i].column)
                   PROVE  W[i].column \in Columns /\ row'[W[i].column] = W[i].value
      BY <1>2 DEF Settled
    <3>2. W[i].column \in DOMAIN Batch /\ Batch[W[i].column] = W[i].value
      BY <1>1, <3>1, BatchIs
    <3>3. W[i].value \notin message.bad
      BY <1>4, <3>2 DEF BatchLands, Range
    <3>4. W[i].column \in Columns
      BY <1>1, <3>3, Writable DEF W
    <3>5. QED
      BY <1>4, <3>2, <3>4 DEF BatchLands, ApplyBatch
  <2>2. pc' = "cards"
    BY <1>4 DEF At
  <2>3. QED
    BY <1>1, <1>2, <1>3, <2>1, <2>2 DEF FieldInv
<1>5. CASE BatchFails(message.bad) /\ At("batch", "replay")
  <2>1. writes' = W /\ pc' = "replay"
    BY <1>1, <1>5 DEF BatchFails, At
  <2>2. Replaying'
    BY <1>2, <2>1 DEF Replaying
  <2>3. ~Written'
    BY <2>1 DEF Written, Done
  <2>4. QED
    BY <1>1, <1>2, <1>3, <2>1, <2>2, <2>3 DEF FieldInv
<1>6. QED
  BY <1>4, <1>5 DEF WriteBatch

\* Failures stay recorded.
LEMMA Records ==
    ASSUME NEW field, NEW mark, NEW include, AddError(field, mark, include)
    PROVE  Recorded' = Recorded \cup {field}
<1>1. PICK e : e.field = field /\ errors' = errors \cup {e}
  BY DEF AddError
<1>2. QED
  BY <1>1 DEF Recorded

LEMMA ReplayOne ==
    ASSUME FieldInv, pc = "replay", ReplayWrite(message.bad), UNCHANGED <<message, pc, recreated>>
    PROVE  FieldInv'
<1>1. Replaying /\ message \in Messages /\ row = [c \in Columns |-> row[c]]
  BY DEF FieldInv
<1>2. DOMAIN writes \subseteq Nat /\ DOMAIN W \subseteq Nat
  BY <1>1, WritesAre, TagPlaces DEF Replaying, W
<1>3. PICK next : /\ next \in DOMAIN writes /\ \A i \in DOMAIN writes : next <= i
                  /\ next = Min(DOMAIN writes)
  BY <1>2, LeastOf DEF ReplayWrite
<1>4. writes[next] = W[next] /\ next \in DOMAIN W
  BY <1>1, <1>3 DEF Replaying
<1>5. W' = W
  BY DEF W
<1>6. /\ writes' = [i \in DOMAIN writes \ {next} |-> writes[i]]
      /\ \/ /\ W[next].value \notin message.bad /\ Apply(W[next]) /\ UNCHANGED errors
         \/ RecordFailure(W[next]) /\ (Apply(W[next]) \/ UNCHANGED row)
  BY <1>3, <1>4 DEF ReplayWrite
<1>7. Recorded \subseteq Recorded'
  BY <1>6, Records DEF RecordFailure, Recorded
<1>8. /\ row' = [c \in Columns |-> row'[c]]
      /\ \A c \in Columns : c # W[next].column => row'[c] = row[c]
  BY <1>1, <1>6 DEF Apply
<1>9. Settled(next)'
  <2>1. CASE RecordFailure(W[next])
    BY <1>5, <2>1, Records DEF RecordFailure, Settled
  <2>2. CASE W[next].value \notin message.bad /\ Apply(W[next])
    <3>1. W[next].column \in Columns
      BY <1>1, <1>4, <2>2, Writable DEF W
    <3>2. row'[W[next].column] = W[next].value
      BY <1>1, <2>2, <3>1 DEF Apply
    <3>3. QED
      BY <1>5, <3>1, <3>2 DEF Settled
  <2>3. QED
    BY <1>6, <2>1, <2>2
<1>10. ASSUME NEW i \in DOMAIN W \ DOMAIN writes PROVE Settled(i)'
  <2>1. Settled(i) /\ i < next
    BY <1>1, <1>3 DEF Replaying
  <2>2. CASE W[i].column = W[next].column
    <3>1. next > i
      BY <1>2, <1>4, <2>1
    <3>2. QED
      BY <1>4, <1>5, <2>2, <3>1 DEF Settled
  <2>3. CASE W[i].column # W[next].column
    BY <1>5, <1>7, <1>8, <2>1, <2>3 DEF Settled
  <2>4. QED
    BY <2>2, <2>3
<1>11. Replaying'
  <2>1. DOMAIN writes' = DOMAIN writes \ {next}
    BY <1>6
  <2>2. \A i \in DOMAIN writes' : writes'[i] = W[i]
    BY <1>1, <1>6, <2>1 DEF Replaying
  <2>3. ASSUME NEW i \in DOMAIN W \ DOMAIN writes' PROVE Settled(i)' /\ \A j \in DOMAIN writes' : i < j
    <3>1. CASE i = next
      BY <1>2, <1>3, <1>9, <2>1, <3>1
    <3>2. CASE i \in DOMAIN W \ DOMAIN writes
      BY <1>1, <1>10, <2>1, <3>2 DEF Replaying
    <3>3. QED
      BY <2>1, <3>1, <3>2
  <2>4. QED
    BY <1>1, <1>5, <2>1, <2>2, <2>3 DEF Replaying
<1>12. ~Written'
  BY DEF Written, Done
<1>13. QED
  BY <1>1, <1>8, <1>11, <1>12 DEF FieldInv

LEMMA FieldInvStep ==
    ASSUME FieldInv, [Next]_vars
    PROVE  FieldInv'
<1>1. ASSUME UNCHANGED <<message, row, errors>>, Written' => Written,
             pc' \notin {"validate", "batch", "replay"}
      PROVE  FieldInv'
  BY <1>1, Kept
<1>2. CASE Validate
  BY <1>1, <1>2 DEF Validate, At, fieldVars, Written, Done, FieldInv
<1>3. CASE BuildCards
  BY <1>1, <1>3 DEF BuildCards, fieldVars, Written, Done
<1>4. CASE LookUp
  <2>1. pc' \in {"dead", "recreate"} /\ ~Written' /\ UNCHANGED <<message, row>>
    BY <1>4 DEF LookUp, At, FindTenant, fieldVars, Written, Done
  <2>2. QED
    BY <2>1 DEF FieldInv
<1>5. CASE RecreateRow
  BY <1>1, <1>5 DEF RecreateRow, At, fieldVars, Written, Done
<1>6. CASE ResolveAll
  <2>1. CASE pc' = "dead"
    BY <1>1, <1>6, <2>1 DEF ResolveAll, At, fieldVars, Written, Done
  <2>2. CASE pc' = "batch"
    <3>1. writes' = W' /\ ~Written' /\ UNCHANGED <<message, row>>
      BY <1>6, <2>2 DEF ResolveAll, At, ResolveFields, Written, Done, W
    <3>2. QED
      BY <2>2, <3>1 DEF FieldInv
  <2>3. QED
    BY <1>6, <2>1, <2>2 DEF ResolveAll, At
<1>7. CASE WriteBatch
  BY <1>7, BatchStep
<1>8. CASE Replay
  <2>1. CASE pc = "replay" /\ ReplayWrite(message.bad) /\ UNCHANGED pc
    BY <1>8, <2>1, ReplayOne DEF Replay
  <2>2. CASE DOMAIN writes = {} /\ At("replay", "cards") /\ UNCHANGED fieldVars
    <3>1. \A i \in DOMAIN W : Settled(i)
      BY <2>2 DEF FieldInv, Replaying, At
    <3>2. W' = W /\ Recorded' = Recorded /\ UNCHANGED row
      BY <1>8, <2>2 DEF Replay, W, Recorded, fieldVars
    <3>3. \A i \in DOMAIN W' : Settled(i)'
      BY <3>1, <3>2 DEF Settled
    <3>4. QED
      BY <1>8, <2>2, <3>2, <3>3 DEF FieldInv, At, Replay
  <2>3. QED
    BY <1>8, <2>1, <2>2 DEF Replay
<1>9. CASE NameCards
  <2>1. UNCHANGED <<message, row, errors>> /\ pc' \in {"cards", "state"} /\ pc = "cards"
    BY <1>9 DEF NameCards, At, fieldVars
  <2>2. QED
    BY <1>1, <2>1 DEF Written
<1>10. CASE WriteState
  <2>1. pc = "state" /\ pc' = "acked" /\ UNCHANGED <<message, recreated, row>>
    BY <1>10 DEF WriteState, At, SetState
  <2>2. Recorded \subseteq Recorded'
    BY <1>10 DEF WriteState, SetState, AddError, Recorded
  <2>3. W' = W /\ \A i \in DOMAIN W : Settled(i)
    BY <2>1 DEF FieldInv, Written, W
  <2>4. \A i \in DOMAIN W : Settled(i)'
    BY <2>1, <2>2, <2>3 DEF Settled
  <2>5. QED
    BY <2>1, <2>3, <2>4 DEF FieldInv
<1>11. CASE UNCHANGED vars
  <2>1. UNCHANGED <<message, pc, recreated, row, errors, writes>>
    BY <1>11 DEF vars, fieldVars
  <2>2. W' = W /\ Recorded' = Recorded
    BY <2>1 DEF W, Recorded
  <2>3. QED
    BY <2>1, <2>2 DEF FieldInv, Replaying, Written, Done, Settled
<1>12. QED
  BY <1>2, <1>3, <1>4, <1>5, <1>6, <1>7, <1>8, <1>9, <1>10, <1>11 DEF Next

LEMMA FieldsAre == Spec => []FieldInv
<1>1. Init => FieldInv
  BY DEF Init, FieldInit, FieldInv, Written, Done
<1>2. FieldInv /\ [Next]_vars => FieldInv'
  BY FieldInvStep
<1>3. QED
  BY <1>1, <1>2, PTL DEF Spec

(* "This allows valid fields to be saved and shows which fields failed": of *)
(* the writes of a column the last is in the row, or a failure of it is     *)
(* recorded, whatever the CMDB refuses and whichever way the update went,   *)
(* for any message.                                                         *)
THEOREM FieldsSavedOrShown == Spec => []SavedOrShown
<1>1. FieldInv => SavedOrShown
  BY DEF FieldInv, Written, SavedOrShown, Settled, W
<1>2. QED
  BY FieldsAre, <1>1, PTL

-----------------------------------------------------------------------------
(* Tags on the whitelist                                                   *)

Listed == CMDB_FIELDS_WHITELIST \ {"state"}

\* A class that a tag on the whitelist names, without a tenant.
Wanted(c) ==
    /\ c \in Listed /\ message.cap_tenant # "found"
    /\ \E tag \in Range(message.tags) : tag[1] = c

LEMMA WantedTag ==
    ASSUME message \in Messages, NEW c, Wanted(c)
    PROVE  tag_fields(message, c) # {}
<1>1. PICK k \in DOMAIN message.tags : message.tags[k][1] = c
  BY DEF Wanted, Range
<1>2. c \in {"responsible", "owner", "role", "project", "task"}
  BY DEF Wanted, Listed, CMDB_FIELDS_WHITELIST
<1>3. message.tags[k] # CapTag
  BY <1>1, <1>2 DEF CapTag
<1>4. k \in cmdb_tags(message)
  BY <1>1, <1>2, <1>3 DEF cmdb_tags, IsListed, CMDB_FIELDS_WHITELIST
<1>5. QED
  BY <1>1, <1>4 DEF tag_fields

LEMMA WriteIs ==
    ASSUME NEW field, NEW column, NEW value
    PROVE  /\ FieldWrite(field, column, value).field = field
           /\ FieldWrite(field, column, value).column = column
           /\ FieldWrite(field, column, value).value = value
BY DEF FieldWrite

LEMMA LadderIs ==
    ASSUME NEW m, NEW name
    PROVE  /\ Ladder(m, name).column \in {IdColumn[name], name}
           /\ m.cap_tenant # "found" /\ tag_fields(m, name) # {} =>
                 Ladder(m, name) = FieldWrite(<<name, "">>, name, m.tags[Max(tag_fields(m, name))])
<1>1. Ladder(m, name).column \in {IdColumn[name], name}
  BY DEF Ladder, FieldWrite
<1>2. ASSUME m.cap_tenant # "found", tag_fields(m, name) # {}
      PROVE  Ladder(m, name) = FieldWrite(<<name, "">>, name, m.tags[Max(tag_fields(m, name))])
  BY <1>2 DEF Ladder
<1>3. QED
  BY <1>1, <1>2

\* A step without a ladder writes a column of its own.
LEMMA PlainIs ==
    ASSUME NEW m, NEW name, name \notin DOMAIN IdColumn
    PROVE  Resolve(m, name).column \in {"cloud_resource_project_id", name}
BY DEF Resolve, FieldWrite

\* The writes of its column are those of its tags, and recorded as such.
LEMMA WantedWrites ==
    ASSUME message \in Messages, NEW c, Wanted(c), NEW i \in DOMAIN W, W[i].column = c
    PROVE  W[i].value \in Range(message.tags) /\ W[i].field[1] = c
<1>1. ASSUME NEW k \in DOMAIN message.tags, W[i].value = message.tags[k]
      PROVE  W[i].value \in Range(message.tags)
  BY <1>1 DEF Range
<1>2. CASE i \in 1 .. 8 /\ W[i] = Resolve(message, Steps[i])
  <2>1. c \in {"responsible", "owner", "role", "project", "task"}
    BY DEF Wanted, Listed, CMDB_FIELDS_WHITELIST
  <2>2. DOMAIN IdColumn = {"owner", "responsible", "cost_center"}
    BY DEF IdColumn
  <2>3. i \in {1, 2, 3, 4, 5, 6, 7, 8}
    BY <1>2
  <2>4. Steps[i] \in {"dc", "cloud_resource_project", "tenant", "owner", "responsible", "flavor",
                      "server_monthly_payment", "cost_center"}
    BY <2>3 DEF Steps
  <2>5. Steps[i] \in DOMAIN IdColumn
    <3>1. SUFFICES ASSUME Steps[i] \notin DOMAIN IdColumn PROVE FALSE
      OBVIOUS
    <3>2. c \in {"cloud_resource_project_id", Steps[i]}
      BY <1>2, <3>1, PlainIs
    <3>3. QED
      BY <2>1, <2>2, <2>4, <3>1, <3>2
  <2>6. W[i] = Ladder(message, Steps[i])
    BY <1>2, <2>5 DEF Resolve
  <2>7. IdColumn[Steps[i]] \in {"owner_id", "responsible_id", "cost_center_id"}
    BY <2>2, <2>5 DEF IdColumn
  <2>8. Steps[i] = c
    <3>1. W[i].column \in {IdColumn[Steps[i]], Steps[i]}
      BY <2>6, LadderIs
    <3>2. QED
      BY <2>1, <2>7, <3>1
  <2>9. W[i] = FieldWrite(<<c, "">>, c, message.tags[Max(tag_fields(message, c))])
    BY <2>6, <2>8, WantedTag, LadderIs DEF Wanted
  <2>10. Max(tag_fields(message, c)) \in DOMAIN message.tags
    <3>1. /\ Len(message.tags) \in Nat /\ tag_fields(message, c) \subseteq 1 .. Len(message.tags)
          /\ DOMAIN message.tags = 1 .. Len(message.tags)
      BY TagPlaces DEF tag_fields
    <3>2. tag_fields(message, c) \subseteq 0 .. Len(message.tags)
      BY <3>1
    <3>3. Max(tag_fields(message, c)) \in tag_fields(message, c)
      BY <3>1, <3>2, WantedTag, GreatestOf
    <3>4. QED
      BY <3>1, <3>3
  <2>11. PICK f, v : /\ W[i] = FieldWrite(f, c, v) /\ f = <<c, "">>
                     /\ v = message.tags[Max(tag_fields(message, c))]
    BY <2>9
  <2>12. W[i].field = f /\ W[i].value = v
    <3>1. W[i] = FieldWrite(f, c, v)
      BY <2>11
    <3>2. QED
      BY <3>1 DEF FieldWrite
  <2>13. f[1] = c
    BY <2>11
  <2>14. QED
    BY <1>1, <2>10, <2>11, <2>12, <2>13
<1>3. ASSUME NEW k \in leftover_tags(message),
             W[i] = FieldWrite(message.tags[k], message.tags[k][1], message.tags[k])
      PROVE  W[i].value \in Range(message.tags) /\ W[i].field[1] = c
  <2>1. /\ W[i].field = message.tags[k] /\ W[i].column = message.tags[k][1]
        /\ W[i].value = message.tags[k]
    BY <1>3 DEF FieldWrite
  <2>2. k \in DOMAIN message.tags
    BY DEF leftover_tags, cmdb_tags
  <2>3. QED
    BY <1>1, <2>1, <2>2
<1>4. QED
  BY <1>2, <1>3, WritesAre DEF W

\* There is such a write.
LEMMA WantedIsWritten ==
    ASSUME message \in Messages, NEW c, Wanted(c)
    PROVE  \E i \in DOMAIN W : W[i].column = c
<1>1. c \in {"responsible", "owner", "role", "project", "task"}
  BY DEF Wanted, Listed, CMDB_FIELDS_WHITELIST
<1>2. CASE c \in {"responsible", "owner"}
  <2>1. PICK i \in 1 .. 8 : Steps[i] = c
    <3>1. Steps[4] = "owner" /\ Steps[5] = "responsible"
      BY DEF Steps
    <3>2. 4 \in 1 .. 8 /\ 5 \in 1 .. 8
      OBVIOUS
    <3>3. QED
      BY <1>2, <3>1, <3>2
  <2>2. i \in DOMAIN W
    BY <1>2, <2>1, WritesAre DEF W, Resolves
  <2>3. W[i] = Resolve(message, c)
    <3>1. ASSUME NEW k \in leftover_tags(message), i = 8 + k PROVE FALSE
      <4>1. k \in Nat \ {0}
        BY TagPlaces DEF leftover_tags
      <4>2. QED
        BY <2>1, <3>1, <4>1
    <3>2. QED
      BY <2>1, <2>2, <3>1, WritesAre DEF W
  <2>4. c \in DOMAIN IdColumn
    BY <1>2 DEF IdColumn
  <2>5. W[i].column = c
    <3>1. W[i] = Ladder(message, c)
      BY <2>3, <2>4 DEF Resolve
    <3>2. W[i] = FieldWrite(<<c, "">>, c, message.tags[Max(tag_fields(message, c))])
      BY <3>1, WantedTag, LadderIs DEF Wanted
    <3>3. PICK f, v : W[i] = FieldWrite(f, c, v)
      BY <3>2
    <3>4. QED
      BY <3>3, WriteIs
  <2>6. QED
    BY <2>2, <2>5
<1>3. CASE c \in {"role", "project", "task"}
  <2>1. PICK k \in cmdb_tags(message) : message.tags[k][1] = c
    BY WantedTag DEF tag_fields
  <2>2. Range(Steps) = {"dc", "cloud_resource_project", "tenant", "owner", "responsible", "flavor",
                        "server_monthly_payment", "cost_center"}
    <3>1. DOMAIN Steps = 1 .. 8
      BY DEF Steps
    <3>2. \A i \in 1 .. 8 : i \in {1, 2, 3, 4, 5, 6, 7, 8}
      OBVIOUS
    <3>3. \A i \in {1, 2, 3, 4, 5, 6, 7, 8} :
              Steps[i] \in {"dc", "cloud_resource_project", "tenant", "owner", "responsible",
                            "flavor", "server_monthly_payment", "cost_center"}
      BY DEF Steps
    <3>4. \A s \in Range(Steps) : s \in {"dc", "cloud_resource_project", "tenant", "owner",
                       "responsible", "flavor", "server_monthly_payment", "cost_center"}
      BY <3>1, <3>2, <3>3 DEF Range
    <3>5. Range(Steps) = {Steps[i] : i \in 1 .. 8}
      BY <3>1 DEF Range
    <3>6. QED
      BY <3>4, <3>5 DEF Steps
  <2>3. k \in leftover_tags(message)
    BY <1>3, <2>1, <2>2 DEF leftover_tags
  <2>4. 8 + k \in DOMAIN W
    BY <2>3, WritesAre DEF W
  <2>5. ASSUME 8 + k \in 1 .. 8 PROVE FALSE
    <3>1. k \in Nat \ {0}
      BY <2>3, TagPlaces DEF leftover_tags
    <3>2. QED
      BY <2>5, <3>1
  <2>6. PICK j \in leftover_tags(message) : /\ 8 + k = 8 + j
                 /\ W[8 + k] = FieldWrite(message.tags[j], message.tags[j][1], message.tags[j])
    BY <2>4, <2>5, WritesAre DEF W
  <2>7. j = k
    <3>1. k \in Nat /\ j \in Nat
      BY <2>3, TagPlaces DEF leftover_tags
    <3>2. QED
      BY <2>6, <3>1
  <2>8. W[8 + k].column = c
    BY <2>1, <2>6, <2>7 DEF FieldWrite
  <2>9. QED
    BY <2>4, <2>8
<1>4. QED
  BY <1>1, <1>2, <1>3

(* A tag on the whitelist takes effect, unless a tenant takes precedence:   *)
(* its class gets the value of such a tag, or a failure of the write is     *)
(* recorded; for any message, whatever the CMDB refuses.                    *)
THEOREM ListedTagsAreWritten == Spec => []ListedTagsLand
<1>1. ASSUME FieldInv, Done, NEW c, Wanted(c)
      PROVE  row[c] \in Range(message.tags) \/ \E field \in Recorded : field[1] = c
  <2>1. message \in Messages /\ \A i \in DOMAIN W : Settled(i)
    BY <1>1 DEF FieldInv, Written
  <2> DEFINE of == {i \in DOMAIN W : W[i].column = c}
  <2>2. /\ Len(message.tags) \in Nat /\ 8 + Len(message.tags) \in Nat
        /\ of \subseteq 0 .. (8 + Len(message.tags)) /\ of # {}
    BY <1>1, <2>1, WritesAre, TagPlaces, WantedIsWritten DEF W
  <2>3. PICK i \in of : \A j \in of : j <= i
    <3> HIDE DEF of
    <3> QED
      BY <2>2, GreatestOf
  <2>4. ~(\E j \in DOMAIN W : j > i /\ W[j].column = W[i].column)
    <3>1. \A j \in of : j \in Nat
      BY <2>2
    <3>2. QED
      BY <2>3, <3>1
  <2>5. \/ row[c] = W[i].value
        \/ W[i].field \in Recorded
    BY <2>1, <2>4 DEF Settled
  <2>6. W[i].value \in Range(message.tags) /\ W[i].field[1] = c
    BY <1>1, <2>1, WantedWrites
  <2>7. QED
    BY <2>5, <2>6
<1>2. FieldInv => ListedTagsLand
  <2>1. SUFFICES ASSUME FieldInv, Done, message.cap_tenant # "found",
                        NEW tag \in Range(message.tags), tag[1] \in CMDB_FIELDS_WHITELIST \ {"state"}
                 PROVE  \/ row[tag[1]] \in Range(message.tags)
                        \/ \E field \in Recorded : field[1] = tag[1]
    BY DEF ListedTagsLand
  <2>2. Wanted(tag[1])
    BY <2>1 DEF Wanted, Listed
  <2>3. QED
    BY <1>1, <2>1, <2>2
<1>3. QED
  BY FieldsAre, <1>2, PTL

-----------------------------------------------------------------------------
(* The state and what explains it                                          *)

\* Failures are recorded with the flags of their step.
Flagged ==
    \A e \in errors : /\ e.mark_state_error <=> MarksState(e.field)
                      /\ e.include_in_status_details <=> InDetails(e.field)

\* What the state says of the failures recorded before it was written.
StateWritten ==
    /\ state = "setup" => <<"state", "">> \in Recorded
    /\ state # "setup" => (state = "error" <=> Counted # {})
    /\ state = "error" => Counted \subseteq details

StateInv ==
    /\ Flagged
    /\ pc = "validate" => ~recreated
    /\ pc # "acked" => state = "setup" /\ <<"state", "">> \notin Recorded
    /\ Done => StateWritten

LEMMA AddFlagged ==
    ASSUME Flagged, NEW field, AddError(field, MarksState(field), InDetails(field))
    PROVE  Flagged'
<1> DEFINE e == [field |-> field, mark_state_error |-> MarksState(field),
                 include_in_status_details |-> InDetails(field)]
<1>1. /\ e.field = field
      /\ e.mark_state_error <=> MarksState(field)
      /\ e.include_in_status_details <=> InDetails(field)
  BY DEF MarksState, InDetails
<1>2. errors' = errors \cup {e}
  BY DEF AddError
<1> HIDE DEF e
<1>3. QED
  BY <1>1, <1>2 DEF Flagged

\* No field is called state.
LEMMA NoStateField ==
    ASSUME NEW m \in Messages, NEW i \in DOMAIN create_writes(m)
    PROVE  create_writes(m)[i].field # <<"state", "">>
<1>1. CASE i \in 1 .. 8 /\ create_writes(m)[i] = Resolve(m, Steps[i])
  <2>1. Steps[i] # "state"
    <3>1. i \in {1, 2, 3, 4, 5, 6, 7, 8}
      BY <1>1
    <3>2. QED
      BY <3>1 DEF Steps
  <2>2. Ladder(m, Steps[i]).field = <<Steps[i], "">>
    BY DEF Ladder, FieldWrite
  <2>3. Resolve(m, Steps[i]).field = <<Steps[i], "">>
    BY <2>2 DEF Resolve, FieldWrite
  <2>4. <<Steps[i], "">>[1] = Steps[i] /\ <<"state", "">>[1] = "state"
    OBVIOUS
  <2>5. <<Steps[i], "">> # <<"state", "">>
    BY <2>1, <2>4
  <2>6. QED
    BY <1>1, <2>3, <2>5
<1>2. ASSUME NEW k \in leftover_tags(m),
             create_writes(m)[i] = FieldWrite(m.tags[k], m.tags[k][1], m.tags[k])
      PROVE  create_writes(m)[i].field # <<"state", "">>
  <2>1. create_writes(m)[i].field = m.tags[k]
    BY <1>2 DEF FieldWrite
  <2>2. m.tags[k][1] # "state"
    BY DEF leftover_tags, cmdb_tags
  <2>3. <<"state", "">>[1] = "state"
    OBVIOUS
  <2>4. QED
    BY <2>1, <2>2, <2>3
<1>3. QED
  BY <1>1, <1>2, WritesAre

\* What a step records: until the state is written, nothing of that name.
LEMMA Recording ==
    ASSUME FieldInv, StateInv, [Next]_vars
    PROVE  /\ Flagged'
           /\ pc # "acked" /\ ~WriteState => <<"state", "">> \notin Recorded'
<1>1. CASE UNCHANGED errors
  BY <1>1 DEF StateInv, Flagged, Recorded
<1>2. ASSUME NEW field, AddError(field, MarksState(field), InDetails(field)),
             field # <<"state", "">> \/ WriteState
      PROVE  /\ Flagged'
             /\ pc # "acked" /\ ~WriteState => <<"state", "">> \notin Recorded'
  <2>1. Recorded' = Recorded \cup {field}
    BY <1>2, Records DEF AddError, Recorded
  <2>2. QED
    BY <1>2, <2>1, AddFlagged DEF StateInv
<1>3. CASE LookUp
  <2>1. MarksState(<<"cap_tenant", "">>) = TRUE /\ InDetails(<<"cap_tenant", "">>) = TRUE
    BY DEF MarksState, InDetails
  <2>2. UNCHANGED errors \/ AddError(<<"cap_tenant", "">>, TRUE, TRUE)
    BY <1>3 DEF LookUp, FindTenant, fieldVars
  <2>3. <<"cap_tenant", "">> # <<"state", "">>
    OBVIOUS
  <2>4. QED
    BY <1>1, <1>2, <2>1, <2>2, <2>3
<1>4. CASE WriteState
  <2>1. MarksState(<<"state", "">>) = TRUE /\ InDetails(<<"state", "">>) = TRUE
    BY DEF MarksState, InDetails
  <2>2. UNCHANGED errors \/ AddError(<<"state", "">>, TRUE, TRUE)
    BY <1>4 DEF WriteState, SetState
  <2>3. QED
    BY <1>1, <1>2, <1>4, <2>1, <2>2
<1>5. CASE pc = "replay" /\ ReplayWrite(message.bad)
  <2>1. DOMAIN writes \subseteq DOMAIN W /\ \A i \in DOMAIN writes : writes[i] = W[i]
    BY <1>5 DEF FieldInv, Replaying
  <2>2. DOMAIN writes \subseteq 0 .. (8 + Len(message.tags)) /\ Len(message.tags) \in Nat
    BY <2>1, WritesAre, TagPlaces DEF FieldInv, W
  <2>3. Min(DOMAIN writes) \in DOMAIN writes
    BY <1>5, <2>2, LeastOf DEF ReplayWrite
  <2>4. writes[Min(DOMAIN writes)].field # <<"state", "">>
    BY <2>1, <2>3, NoStateField DEF FieldInv, W
  <2>5. UNCHANGED errors \/ RecordFailure(writes[Min(DOMAIN writes)])
    BY <1>5 DEF ReplayWrite
  <2>6. QED
    BY <1>1, <1>2, <2>4, <2>5 DEF RecordFailure
<1>6. UNCHANGED errors \/ LookUp \/ WriteState \/ (pc = "replay" /\ ReplayWrite(message.bad))
  BY DEF Next, vars, fieldVars, Validate, BuildCards, RecreateRow, ResolveAll,
         ResolveFields, WriteBatch, BatchLands, BatchFails, Replay, NameCards
<1>7. QED
  BY <1>1, <1>3, <1>4, <1>5, <1>6

LEMMA StateInvStep ==
    ASSUME FieldInv, StateInv, [Next]_vars
    PROVE  StateInv'
<1>1. Flagged' /\ (pc # "acked" /\ ~WriteState => <<"state", "">> \notin Recorded')
  BY Recording
<1>2. CASE WriteState
  <2>1. /\ pc = "state" /\ pc' = "acked" /\ state = "setup"
        /\ <<"state", "">> \notin Recorded
    BY <1>2 DEF WriteState, At, StateInv
  <2>2. failed <=> Counted # {}
    <3>1. \A e \in errors : e.mark_state_error <=> e.field \in Counted
      BY <2>1 DEF StateInv, Flagged, MarksState, Counted, Recorded
    <3>2. \A field \in Counted : \E e \in errors : e.field = field
      BY DEF Counted, Recorded
    <3>3. QED
      BY <3>1, <3>2 DEF failed
  <2>3. Counted \subseteq status_details
    BY <2>1 DEF StateInv, Flagged, InDetails, status_details, Recorded, Counted
  <2>4. ready_state(message) \notin {"error", "setup"}
    BY DEF ready_state
  <2>5. UNCHANGED errors \/ AddError(<<"state", "">>, TRUE, TRUE)
    BY <1>2 DEF WriteState, SetState
  <2>6. Counted' = Counted
    <3>1. Recorded' = Recorded \/ Recorded' = Recorded \cup {<<"state", "">>}
      BY <2>5, Records DEF Recorded
    <3>2. QED
      BY <3>1 DEF Counted
  <2>7. \/ StateLands(message)
        \/ UNCHANGED state /\ <<"state", "">> \in Recorded'
    BY <1>2 DEF WriteState, SetState, AddError, Recorded
  <2>8. StateWritten'
    BY <2>1, <2>2, <2>3, <2>4, <2>6, <2>7 DEF StateLands, StateWritten
  <2>9. QED
    BY <1>1, <2>1, <2>8 DEF StateInv
<1>3. CASE UNCHANGED vars
  <2>1. UNCHANGED <<pc, recreated, state, details, errors>>
    BY <1>3 DEF vars, fieldVars
  <2>2. Recorded' = Recorded /\ Counted' = Counted /\ Done' = Done
    BY <2>1 DEF Recorded, Counted, Done
  <2>3. QED
    BY <1>1, <2>1, <2>2 DEF StateInv, StateWritten
<1>4. CASE Validate
  <2>1. /\ pc = "validate" /\ pc' # "validate" /\ UNCHANGED <<state, errors, recreated>>
    BY <1>4 DEF Validate, At, fieldVars
  <2>2. Recorded' = Recorded /\ ~Done'
    BY <2>1 DEF Recorded, Done, StateInv
  <2>3. QED
    BY <1>1, <2>1, <2>2 DEF StateInv
<1>5. CASE BuildCards \/ LookUp \/ RecreateRow \/ ResolveAll \/ WriteBatch \/ Replay \/ NameCards
  <2>1. pc # "acked" /\ pc' \notin {"acked", "validate"} /\ UNCHANGED state /\ pc # "state"
    BY <1>5 DEF BuildCards, LookUp, FindTenant, RecreateRow, ResolveAll, ResolveFields, WriteBatch,
                BatchLands, BatchFails, Replay, ReplayWrite, NameCards, At, fieldVars, Built
  <2>2. ~WriteState
    BY <2>1 DEF WriteState, At
  <2>3. QED
    BY <1>1, <2>1, <2>2 DEF StateInv, Done
<1>6. QED
  BY <1>2, <1>3, <1>4, <1>5 DEF Next

(* The row of an acknowledged create is error exactly when a failure that   *)
(* counts was recorded before the state was written, with each of them in   *)
(* status_details; a row left in setup has the failed write of its state on *)
(* record.  For any message and whatever the CMDB refuses, the state        *)
(* included.                                                                *)
THEOREM ErrorsExplained == Spec => []ErrorIsExplained
<1>1. Init => StateInv
  BY DEF Init, FieldInit, StateInv, Flagged, Done, Recorded
<1>2. FieldInv /\ StateInv /\ [Next]_vars => StateInv'
  BY StateInvStep
<1>3. StateInv => ErrorIsExplained
  BY DEF StateInv, StateWritten, ErrorIsExplained
<1>4. QED
  BY FieldsAre, <1>1, <1>2, <1>3, PTL DEF Spec

-----------------------------------------------------------------------------
(* Where the entries of the message are                                    *)

AddressesOf(S) == UNION {c.addresses : c \in S}

Waiting == by_order \cup Range(placeholders) \cup Range(unordered)

Held == Waiting \cup Range(cards)

\* Every entry to read or read is in one place.
Parts ==
    [networks |-> UNION {CardOf(n).addresses : n \in Range(networks)},
     ports |-> UNION {p.ips : p \in Range(ports)},
     by_order |-> AddressesOf(by_order),
     placeholders |-> AddressesOf(Range(placeholders)),
     unordered |-> AddressesOf(Range(unordered)),
     cards |-> AddressesOf(Range(cards))]

Separate(P) == \A j, k \in DOMAIN P : j # k => P[j] \cap P[k] = {}

Apart(s) == \A i, j \in DOMAIN s : i # j => s[i].addresses \cap s[j].addresses = {}

ToRead ==
    /\ networks \in Seq(Range(networks)) /\ Range(networks) \subseteq Range(message.networks)
    /\ ports \in Seq(Range(ports)) /\ Range(ports) \subseteq Range(message.ports)
    /\ \A i, j \in DOMAIN networks :
          i # j => CardOf(networks[i]).addresses \cap CardOf(networks[j]).addresses = {}
    /\ \A i, j \in DOMAIN ports : i # j => ports[i].ips \cap ports[j].ips = {}

OnePlace ==
    /\ Separate(Parts)
    /\ \A c, d \in by_order : c # d => c.addresses \cap d.addresses = {}
    /\ Apart(placeholders) /\ Apart(unordered) /\ Apart(cards)

\* What has been read is on a card, and nothing else is.
ReadIsHeld ==
    /\ \A n \in Range(message.networks) :
          n \in Range(networks) \/ CardOf(n).addresses \subseteq AddressesOf(Held)
    /\ \A p \in Range(message.ports) :
          p \in Range(ports) \/ \A entry \in p.ips : OnCards(entry.addr)
    /\ AddressesOf(Waiting) \subseteq FixedEntries
    /\ networks # <<>> \/ Waiting # {} => AddressesOf(Range(cards)) \subseteq FixedEntries

\* A port adds only what nothing else carries.
PortsAddNew ==
    \A e, f \in AddressesOf(Range(cards)) :
        e \notin FixedEntries /\ e.addr = f.addr => e = f

\* The networks of a card have its mac or none.
MacsKept ==
    \A c \in Held, n \in Range(message.networks) :
        CardOf(n).addresses \cap c.addresses # {} => CardOf(n).mac \in {NoMac, c.mac}

PlacesInv ==
    /\ IInv /\ message \in Messages /\ (pc = "recreate" => Built)
    /\ ToRead /\ OnePlace /\ ReadIsHeld /\ MacsKept

-----------------------------------------------------------------------------
\* Addresses that move from one part to another leave the parts separate.
LEMMA Moved ==
    ASSUME NEW P, NEW Q, DOMAIN Q = DOMAIN P, Separate(P),
           NEW x \in DOMAIN P, NEW y \in DOMAIN P, x # y,
           NEW A, A \subseteq P[x],
           Q[x] \subseteq P[x], Q[x] \cap A = {}, Q[y] = P[y] \cup A,
           \A k \in DOMAIN P \ {x, y} : Q[k] = P[k]
    PROVE  Separate(Q)
<1>1. SUFFICES ASSUME NEW j \in DOMAIN P, NEW k \in DOMAIN P, j # k,
                      NEW e, e \in Q[j], e \in Q[k]
               PROVE  FALSE
  BY DEF Separate
<1>2. P[j] \cap P[k] = {} /\ P[x] \cap P[j] = (IF x = j THEN P[x] ELSE {})
      /\ P[x] \cap P[k] = (IF x = k THEN P[x] ELSE {})
  BY <1>1 DEF Separate
<1>3. \A l \in DOMAIN P : e \in Q[l] => e \in P[l] \/ (l = y /\ e \in A)
  OBVIOUS
<1>4. QED
  BY <1>1, <1>2, <1>3

\* What holds of the elements of a sequence apart holds of its tail.
LEMMA TailApart ==
    ASSUME NEW s, s \in Seq(Range(s)), s # <<>>, NEW f,
           \A i, j \in DOMAIN s : i # j => f[s[i]] \cap f[s[j]] = {}
    PROVE  /\ \A i, j \in DOMAIN Tail(s) : i # j => f[Tail(s)[i]] \cap f[Tail(s)[j]] = {}
           /\ \A x \in Range(Tail(s)) : f[x] \cap f[Head(s)] = {}
<1>1. /\ Tail(s) \in Seq(Range(s)) /\ Len(Tail(s)) = Len(s) - 1
      /\ \A i \in 1 .. Len(Tail(s)) : Tail(s)[i] = s[i + 1]
  BY HeadTailProperties
<1>2. /\ Len(s) \in Nat \ {0} /\ DOMAIN s = 1 .. Len(s)
      /\ DOMAIN Tail(s) = 1 .. Len(Tail(s))
  BY <1>1, LenProperties, EmptySeq
<1>3. Head(s) = s[1] /\ 1 \in DOMAIN s
  BY <1>1, <1>2
<1>4. \A i \in DOMAIN Tail(s) : i + 1 \in DOMAIN s /\ i + 1 # 1 /\ Tail(s)[i] = s[i + 1]
  BY <1>1, <1>2
<1>5. ASSUME NEW i \in DOMAIN Tail(s), NEW j \in DOMAIN Tail(s), i # j
      PROVE  f[Tail(s)[i]] \cap f[Tail(s)[j]] = {}
  <2>1. i + 1 # j + 1
    BY <1>1, <1>2, <1>5
  <2>2. QED
    BY <1>4, <2>1
<1>6. ASSUME NEW x \in Range(Tail(s)) PROVE f[x] \cap f[Head(s)] = {}
  <2>1. PICK i \in DOMAIN Tail(s) : x = Tail(s)[i]
    BY DEF Range
  <2>2. QED
    BY <1>3, <1>4, <2>1
<1>7. QED
  BY <1>5, <1>6

\* A card that shares no entry with the others joins them.
LEMMA JoinsApart ==
    ASSUME NEW s, s \in Seq(Range(s)), Apart(s), NEW card,
           card.addresses \cap AddressesOf(Range(s)) = {}
    PROVE  LET t == Append(s, card) IN
           Apart(t) /\ AddressesOf(Range(t)) = AddressesOf(Range(s)) \cup card.addresses
<1> DEFINE t == Append(s, card)
           n == Len(s) + 1
<1>1. /\ DOMAIN t = 1 .. n /\ \A i \in 1 .. Len(s) : t[i] = s[i]
      /\ t[n] = card /\ Range(t) = Range(s) \cup {card}
  BY Appended
<1>2. Len(s) \in Nat /\ DOMAIN s = 1 .. Len(s)
  BY LenProperties
<1> HIDE DEF t
<1>3. \A i \in 1 .. n : i # n => i \in DOMAIN s /\ t[i] = s[i] /\ s[i] \in Range(s)
  BY <1>1, <1>2 DEF Range
<1>4. \A i \in DOMAIN s : s[i].addresses \cap card.addresses = {}
  BY DEF AddressesOf, Range
<1>5. Apart(t)
  <2>1. SUFFICES ASSUME NEW i \in 1 .. n, NEW j \in 1 .. n, i # j
                 PROVE  t[i].addresses \cap t[j].addresses = {}
    BY <1>1 DEF Apart
  <2>2. CASE i = n
    BY <1>1, <1>3, <1>4, <2>1, <2>2
  <2>3. CASE j = n
    BY <1>1, <1>3, <1>4, <2>1, <2>3
  <2>4. CASE i # n /\ j # n
    BY <1>3, <2>1, <2>4 DEF Apart
  <2>5. QED
    BY <2>2, <2>3, <2>4
<1>6. AddressesOf(Range(t)) = AddressesOf(Range(s)) \cup card.addresses
  BY <1>1 DEF AddressesOf
<1>7. QED
  BY <1>5, <1>6 DEF t

\* The first card leaves the others.
LEMMA LeavesApart ==
    ASSUME NEW s, s \in Seq(Range(s)), s # <<>>, Apart(s)
    PROVE  /\ Apart(Tail(s))
           /\ AddressesOf(Range(Tail(s))) \cap Head(s).addresses = {}
           /\ AddressesOf(Range(s)) = AddressesOf(Range(Tail(s))) \cup Head(s).addresses
<1> DEFINE f == [c \in Range(s) |-> c.addresses]
<1>1. /\ Tail(s) \in Seq(Range(Tail(s))) /\ Head(s) \in Range(s)
      /\ Range(s) = Range(Tail(s)) \cup {Head(s)}
  BY Taken
<1>2. \A i, j \in DOMAIN s : i # j => f[s[i]] \cap f[s[j]] = {}
  BY DEF Apart, Range
<1>3. \A i \in DOMAIN Tail(s) : Tail(s)[i] \in Range(s)
  BY <1>1 DEF Range
<1>4. \A c \in Range(s) : f[c] = c.addresses
  OBVIOUS
<1> HIDE DEF f
<1>5. /\ \A i, j \in DOMAIN Tail(s) : i # j => f[Tail(s)[i]] \cap f[Tail(s)[j]] = {}
      /\ \A c \in Range(Tail(s)) : f[c] \cap f[Head(s)] = {}
  BY <1>2, TailApart
<1>6. Apart(Tail(s))
  BY <1>3, <1>4, <1>5 DEF Apart
<1>7. \A c \in Range(Tail(s)) : c.addresses \cap Head(s).addresses = {}
  BY <1>1, <1>4, <1>5
<1>8. QED
  BY <1>1, <1>6, <1>7 DEF AddressesOf

-----------------------------------------------------------------------------
(* The entries of a message                                                *)

LEMMA EntriesApart ==
    ASSUME message \in Messages
    PROVE  /\ \A n, o \in DOMAIN message.networks : n # o =>
                 CardOf(message.networks[n]).addresses
                     \cap CardOf(message.networks[o]).addresses = {}
           /\ \A n, o \in Range(message.networks) :
                 CardOf(n).addresses \cap CardOf(o).addresses # {} => n = o
           /\ \A p \in Range(message.ports) : p.ips \cap FixedEntries = {}
           /\ \A p, q \in DOMAIN message.ports :
                 p # q => message.ports[p].ips \cap message.ports[q].ips = {}
<1>1. \A n : CardOf(n).addresses \subseteq Range(n)
  BY DEF CardOf
<1>2. \A n, o \in DOMAIN message.networks :
         n # o => Range(message.networks[n]) \cap Range(message.networks[o]) = {}
  BY MessagesAssumption
<1>3. \A n, o \in DOMAIN message.networks : n # o =>
         CardOf(message.networks[n]).addresses
             \cap CardOf(message.networks[o]).addresses = {}
  BY <1>1, <1>2
<1>4. ASSUME NEW n \in Range(message.networks), NEW o \in Range(message.networks),
             CardOf(n).addresses \cap CardOf(o).addresses # {}
      PROVE  n = o
  <2>1. PICK i \in DOMAIN message.networks : n = message.networks[i]
    BY DEF Range
  <2>2. PICK j \in DOMAIN message.networks : o = message.networks[j]
    BY DEF Range
  <2>3. QED
    BY <1>3, <1>4, <2>1, <2>2
<1>5. ASSUME NEW p \in Range(message.ports) PROVE p.ips \cap FixedEntries = {}
  <2>1. PICK j \in DOMAIN message.ports : p = message.ports[j]
    BY DEF Range
  <2>2. \A i \in DOMAIN message.networks : Range(message.networks[i]) \cap p.ips = {}
    BY <2>1, MessagesAssumption
  <2>3. \A n \in Range(message.networks) : Range(n) \cap p.ips = {}
    BY <2>2 DEF Range
  <2>4. \A n \in Range(message.networks) : CardOf(n).addresses \cap p.ips = {}
    BY <1>1, <2>3
  <2>5. QED
    BY <2>4 DEF FixedEntries
<1>6. QED
  BY <1>3, <1>4, <1>5, MessagesAssumption

LEMMA PartsAre ==
    /\ DOMAIN Parts = {"networks", "ports", "by_order", "placeholders", "unordered", "cards"}
    /\ Parts["networks"] = UNION {CardOf(n).addresses : n \in Range(networks)}
    /\ Parts["ports"] = UNION {p.ips : p \in Range(ports)}
    /\ Parts["by_order"] = AddressesOf(by_order)
    /\ Parts["placeholders"] = AddressesOf(Range(placeholders))
    /\ Parts["unordered"] = AddressesOf(Range(unordered))
    /\ Parts["cards"] = AddressesOf(Range(cards))
BY DEF Parts

LEMMA PartsAreNext ==
    /\ DOMAIN Parts' = {"networks", "ports", "by_order", "placeholders", "unordered", "cards"}
    /\ Parts'["networks"] = UNION {CardOf(n).addresses : n \in Range(networks')}
    /\ Parts'["ports"] = UNION {p.ips : p \in Range(ports')}
    /\ Parts'["by_order"] = AddressesOf(by_order')
    /\ Parts'["placeholders"] = AddressesOf(Range(placeholders'))
    /\ Parts'["unordered"] = AddressesOf(Range(unordered'))
    /\ Parts'["cards"] = AddressesOf(Range(cards'))
BY DEF Parts

HasMac(A, mac) ==
    \A n \in Range(message.networks) :
        CardOf(n).addresses \cap A # {} => CardOf(n).mac = mac

\* A card of the next state has the macs of the cards its entries come from.
LEMMA MacsFollow ==
    ASSUME MacsKept, message' = message, NEW A, NEW mac, HasMac(A, mac),
           \A c \in Held' : \A e \in c.addresses :
               \/ e \in A /\ mac \in {NoMac, c.mac}
               \/ \E d \in Held : e \in d.addresses /\ d.mac \in {NoMac, c.mac}
    PROVE  MacsKept'
<1>1. SUFFICES ASSUME NEW c \in Held', NEW n \in Range(message.networks),
                      NEW e \in c.addresses, e \in CardOf(n).addresses
               PROVE  CardOf(n).mac \in {NoMac, c.mac}
  BY DEF MacsKept
<1>2. CASE e \in A /\ mac \in {NoMac, c.mac}
  BY <1>1, <1>2 DEF HasMac
<1>3. ASSUME NEW d \in Held, e \in d.addresses, d.mac \in {NoMac, c.mac}
      PROVE  CardOf(n).mac \in {NoMac, c.mac}
  <2>1. CardOf(n).mac \in {NoMac, d.mac}
    BY <1>1, <1>3 DEF MacsKept
  <2>2. QED
    BY <1>3, <2>1
<1>4. QED
  BY <1>1, <1>2, <1>3

-----------------------------------------------------------------------------
(* A network is read                                                       *)

\* Its entries are no other network's, and they are on no card yet.
LEMMA NetworkRead ==
    ASSUME PlacesInv, AddNetwork, message' = message
    PROVE  LET card == CardOf(Head(networks)) IN
           /\ ToRead' /\ UNCHANGED ports
           /\ Head(networks) \in Range(message.networks)
           /\ Range(networks) = Range(networks') \cup {Head(networks)}
           /\ card.addresses \subseteq Parts["networks"] /\ card.addresses \subseteq FixedEntries
           /\ Parts'["networks"] \subseteq Parts["networks"]
           /\ Parts'["networks"] \cap card.addresses = {}
           /\ \A n \in Range(message.networks) :
                 CardOf(n).addresses \cap card.addresses # {} => CardOf(n).mac = card.mac
           /\ cards = <<>> /\ cards' = <<>> /\ Range(<<>>) = {}
<1> DEFINE card == CardOf(Head(networks))
           f == [n \in Range(networks) |-> CardOf(n).addresses]
<1>0. PlacesInv /\ ToRead /\ IInv /\ networks # <<>> /\ networks' = Tail(networks)
      /\ UNCHANGED <<ports, cards>>
  BY DEF PlacesInv, AddNetwork
<1>1. /\ networks' \in Seq(Range(networks')) /\ Head(networks) \in Range(networks)
      /\ Range(networks) = Range(networks') \cup {Head(networks)}
  BY <1>0, Taken DEF ToRead
<1>2. Head(networks) \in Range(message.networks)
  BY <1>0, <1>1 DEF ToRead
<1>3. \A n \in Range(networks) : f[n] = CardOf(n).addresses
  OBVIOUS
<1>4. \A i \in DOMAIN networks : networks[i] \in Range(networks)
  BY DEF Range
<1>5. \A i \in DOMAIN networks' : networks'[i] \in Range(networks)
  BY <1>1 DEF Range
<1>6. \A i, j \in DOMAIN networks : i # j => f[networks[i]] \cap f[networks[j]] = {}
  BY <1>0, <1>4 DEF ToRead
<1> HIDE DEF f
<1>7. /\ \A i, j \in DOMAIN networks' : i # j => f[networks'[i]] \cap f[networks'[j]] = {}
      /\ \A n \in Range(networks') : f[n] \cap f[Head(networks)] = {}
  BY <1>0, <1>6, TailApart DEF ToRead
<1>8. /\ \A i, j \in DOMAIN networks' : i # j =>
             CardOf(networks'[i]).addresses \cap CardOf(networks'[j]).addresses = {}
      /\ \A n \in Range(networks') : CardOf(n).addresses \cap card.addresses = {}
  BY <1>1, <1>3, <1>5, <1>7
<1>9. ToRead'
  BY <1>0, <1>1, <1>8 DEF ToRead
<1>10. /\ card.addresses \subseteq Parts["networks"]
       /\ Parts'["networks"] \subseteq Parts["networks"]
       /\ Parts'["networks"] \cap card.addresses = {}
  BY <1>1, <1>8, PartsAre, PartsAreNext
<1>11. card.addresses \subseteq FixedEntries
  BY <1>2 DEF FixedEntries
<1>12. \A n \in Range(message.networks) :
          CardOf(n).addresses \cap card.addresses # {} => CardOf(n).mac = card.mac
  BY <1>0, <1>2, EntriesApart DEF PlacesInv
<1>13. cards = <<>> /\ cards' = <<>> /\ Range(<<>>) = {}
  BY <1>0 DEF IInv, LoopsInOrder, Range
<1>14. QED
  BY <1>0, <1>1, <1>2, <1>9, <1>10, <1>11, <1>12, <1>13

LEMMA WaitingAre ==
    /\ AddressesOf(Waiting) = Parts["by_order"] \cup Parts["placeholders"] \cup Parts["unordered"]
    /\ AddressesOf(Waiting') = Parts'["by_order"] \cup Parts'["placeholders"]
                                  \cup Parts'["unordered"]
    /\ AddressesOf(Held) = AddressesOf(Waiting) \cup Parts["cards"]
    /\ AddressesOf(Held') = AddressesOf(Waiting') \cup Parts'["cards"]
BY PartsAre, PartsAreNext DEF Waiting, Held, AddressesOf

\* Its entries go to one of the three kinds of cards that wait.
LEMMA NetworkPlaced ==
    ASSUME PlacesInv, AddNetwork, message' = message,
           NEW y \in {"by_order", "placeholders", "unordered"},
           LET card == CardOf(Head(networks)) IN
           /\ Parts'[y] = Parts[y] \cup card.addresses
           /\ \A k \in {"by_order", "placeholders", "unordered"} \ {y} : Parts'[k] = Parts[k]
           /\ \A c, d \in by_order' : c # d => c.addresses \cap d.addresses = {}
           /\ Apart(placeholders') /\ Apart(unordered')
           /\ \A c \in Waiting' : \A e \in c.addresses :
                 \/ e \in card.addresses /\ card.mac \in {NoMac, c.mac}
                 \/ \E d \in Waiting : e \in d.addresses /\ d.mac \in {NoMac, c.mac}
    PROVE  OnePlace' /\ ReadIsHeld' /\ MacsKept'
<1> DEFINE card == CardOf(Head(networks))
           A == card.addresses
           mac == card.mac
<1>1. /\ UNCHANGED ports /\ Head(networks) \in Range(message.networks)
      /\ Range(networks) = Range(networks') \cup {Head(networks)}
      /\ A \subseteq Parts["networks"] /\ A \subseteq FixedEntries
      /\ Parts'["networks"] \subseteq Parts["networks"] /\ Parts'["networks"] \cap A = {}
      /\ \A n \in Range(message.networks) :
            CardOf(n).addresses \cap A # {} => CardOf(n).mac = mac
      /\ cards = <<>> /\ cards' = <<>> /\ Range(<<>>) = {}
  BY NetworkRead
<1>2. Parts'["ports"] = Parts["ports"] /\ Parts'["cards"] = Parts["cards"] /\ Parts'["cards"] = {}
  BY <1>1, PartsAre, PartsAreNext DEF AddressesOf
<1>3. Parts'[y] = Parts[y] \cup A /\ y # "networks" /\ y \in DOMAIN Parts
      /\ DOMAIN Parts = DOMAIN Parts' /\ "networks" \in DOMAIN Parts
      /\ \A k \in DOMAIN Parts \ {"networks", y} : Parts'[k] = Parts[k]
  BY <1>2, PartsAre, PartsAreNext
<1>4. \A c \in Waiting' : \A e \in c.addresses :
         \/ e \in A /\ mac \in {NoMac, c.mac}
         \/ \E d \in Waiting : e \in d.addresses /\ d.mac \in {NoMac, c.mac}
  OBVIOUS
<1>5. Held' = Waiting' /\ Waiting \subseteq Held
  BY <1>1 DEF Held
<1>6. A \subseteq AddressesOf(Waiting') /\ AddressesOf(Waiting) \subseteq AddressesOf(Waiting')
      /\ AddressesOf(Waiting') = AddressesOf(Waiting) \cup A
  BY <1>3, WaitingAre
<1>7. CardOf(Head(networks)).addresses = A
  OBVIOUS
<1>8. Apart(cards')
  BY <1>1 DEF Apart, Range
<1> HIDE DEF A, mac, card
<1>9. Separate(Parts')
  BY <1>1, <1>3, Moved DEF PlacesInv, OnePlace
<1>10. OnePlace'
  BY <1>8, <1>9 DEF OnePlace
<1>11. MacsKept'
  <2>1. \A c \in Held' : \A e \in c.addresses :
           \/ e \in A /\ mac \in {NoMac, c.mac}
           \/ \E d \in Held : e \in d.addresses /\ d.mac \in {NoMac, c.mac}
    BY <1>4, <1>5
  <2>2. HasMac(A, mac) /\ MacsKept
    BY <1>1 DEF HasMac, PlacesInv
  <2>3. QED
    BY <2>1, <2>2, MacsFollow
<1>12. ReadIsHeld'
  <2>1. ASSUME NEW n \in Range(message.networks)
        PROVE  n \in Range(networks') \/ CardOf(n).addresses \subseteq AddressesOf(Held')
    <3>1. CASE n = Head(networks)
      BY <1>5, <1>6, <1>7, <3>1
    <3>2. CASE n # Head(networks)
      <4>1. n \in Range(networks) \/ CardOf(n).addresses \subseteq AddressesOf(Held)
        BY DEF PlacesInv, ReadIsHeld
      <4>2. AddressesOf(Held) \subseteq AddressesOf(Held')
        BY <1>2, <1>5, <1>6, WaitingAre
      <4>3. QED
        BY <1>1, <3>2, <4>1, <4>2
    <3>3. QED
      BY <3>1, <3>2
  <2>2. \A p \in Range(message.ports) :
           p \in Range(ports') \/ \A entry \in p.ips : OnCards(entry.addr)'
    BY <1>1 DEF PlacesInv, ReadIsHeld, OnCards
  <2>3. AddressesOf(Waiting') \subseteq FixedEntries
    BY <1>1, <1>6 DEF PlacesInv, ReadIsHeld
  <2>4. AddressesOf(Range(cards')) = {}
    BY <1>2, PartsAreNext
  <2>5. FixedEntries' = FixedEntries
    BY DEF FixedEntries
  <2>6. QED
    BY <2>1, <2>2, <2>3, <2>4, <2>5 DEF ReadIsHeld
<1>13. QED
  BY <1>10, <1>11, <1>12

LEMMA AddNetworkPlaces ==
    ASSUME PlacesInv, AddNetwork, message' = message
    PROVE  OnePlace' /\ ReadIsHeld' /\ MacsKept'
<1> DEFINE card == CardOf(Head(networks))
<1>1. /\ card.addresses \subseteq Parts["networks"] /\ Separate(Parts)
      /\ PlacesInv /\ OnePlace /\ CardsOK
  BY NetworkRead DEF PlacesInv, OnePlace, IInv
<1>2. /\ card.addresses \cap AddressesOf(by_order) = {}
      /\ card.addresses \cap AddressesOf(Range(placeholders)) = {}
      /\ card.addresses \cap AddressesOf(Range(unordered)) = {}
  <2>1. \A k \in DOMAIN Parts \ {"networks"} : Parts["networks"] \cap Parts[k] = {}
    BY <1>1, PartsAre DEF Separate
  <2>2. QED
    BY <1>1, <2>1, PartsAre
<1>3. IsCard(card)
  BY DEF CardOf, IsCard
<1>4. CASE unordered' = Append(unordered, card) /\ UNCHANGED <<by_order, placeholders>>
  <2>1. Range(unordered') = Range(unordered) \cup {card}
    BY <1>1, <1>4, Appended DEF CardsOK
  <2>2. /\ Apart(unordered')
        /\ AddressesOf(Range(unordered')) = AddressesOf(Range(unordered)) \cup card.addresses
    BY <1>1, <1>2, <1>4, JoinsApart DEF OnePlace, CardsOK
  <2>3. Waiting' = Waiting \cup {card}
    BY <1>4, <2>1 DEF Waiting
  <2> HIDE DEF card
  <2>4. \A c \in Waiting' : \A e \in c.addresses :
           \/ e \in card.addresses /\ card.mac \in {NoMac, c.mac}
           \/ \E d \in Waiting : e \in d.addresses /\ d.mac \in {NoMac, c.mac}
    BY <2>3
  <2>5. /\ \A c, d \in by_order' : c # d => c.addresses \cap d.addresses = {}
        /\ Apart(placeholders')
    BY <1>1, <1>4 DEF OnePlace
  <2>6. /\ Parts'["unordered"] = Parts["unordered"] \cup card.addresses
        /\ \A k \in {"by_order", "placeholders", "unordered"} \ {"unordered"} :
              Parts'[k] = Parts[k]
    BY <1>4, <2>2, PartsAre, PartsAreNext
  <2>7. QED
    BY <2>2, <2>4, <2>5, <2>6, NetworkPlaced DEF card
<1>5. CASE by_order' = by_order \cup {card} /\ UNCHANGED <<placeholders, unordered>>
  <2>1. AddressesOf(by_order') = AddressesOf(by_order) \cup card.addresses
    BY <1>5 DEF AddressesOf
  <2>2. Waiting' = Waiting \cup {card}
    BY <1>5 DEF Waiting
  <2> HIDE DEF card
  <2>3. \A c \in Waiting' : \A e \in c.addresses :
           \/ e \in card.addresses /\ card.mac \in {NoMac, c.mac}
           \/ \E d \in Waiting : e \in d.addresses /\ d.mac \in {NoMac, c.mac}
    BY <2>2
  <2>4. \A c, d \in by_order' : c # d => c.addresses \cap d.addresses = {}
    <3>1. \A c \in by_order : c.addresses \cap card.addresses = {}
      BY <1>2 DEF AddressesOf
    <3>2. QED
      BY <1>1, <1>5, <3>1 DEF OnePlace
  <2>5. Apart(placeholders') /\ Apart(unordered')
    BY <1>1, <1>5 DEF OnePlace
  <2>6. /\ Parts'["by_order"] = Parts["by_order"] \cup card.addresses
        /\ \A k \in {"by_order", "placeholders", "unordered"} \ {"by_order"} :
              Parts'[k] = Parts[k]
    BY <1>5, <2>1, PartsAre, PartsAreNext
  <2>7. QED
    BY <2>3, <2>4, <2>5, <2>6, NetworkPlaced DEF card
<1>6. CASE /\ placeholders' = Append(placeholders, [card EXCEPT !.placeholder = TRUE])
           /\ UNCHANGED <<by_order, unordered>>
  <2> DEFINE p == [card EXCEPT !.placeholder = TRUE]
  <2>1. p.addresses = card.addresses /\ p.mac = card.mac
    BY DEF CardOf
  <2> HIDE DEF p
  <2>2. placeholders' = Append(placeholders, p) /\ placeholders \in Seq(Range(placeholders))
    BY <1>1, <1>6 DEF p, CardsOK
  <2>3. Range(placeholders') = Range(placeholders) \cup {p}
    BY <2>2, Appended
  <2>4. /\ Apart(placeholders')
        /\ AddressesOf(Range(placeholders')) = AddressesOf(Range(placeholders)) \cup card.addresses
    BY <1>1, <1>2, <2>1, <2>2, JoinsApart DEF OnePlace
  <2>5. Waiting' = Waiting \cup {p}
    BY <1>6, <2>3 DEF Waiting
  <2> HIDE DEF card
  <2>6. \A c \in Waiting' : \A e \in c.addresses :
           \/ e \in card.addresses /\ card.mac \in {NoMac, c.mac}
           \/ \E d \in Waiting : e \in d.addresses /\ d.mac \in {NoMac, c.mac}
    BY <2>1, <2>5
  <2>7. /\ \A c, d \in by_order' : c # d => c.addresses \cap d.addresses = {}
        /\ Apart(unordered')
    BY <1>1, <1>6 DEF OnePlace
  <2>8. /\ Parts'["placeholders"] = Parts["placeholders"] \cup card.addresses
        /\ \A k \in {"by_order", "placeholders", "unordered"} \ {"placeholders"} :
              Parts'[k] = Parts[k]
    BY <1>6, <2>4, PartsAre, PartsAreNext
  <2>9. QED
    BY <2>4, <2>6, <2>7, <2>8, NetworkPlaced DEF card
<1>7. ASSUME NEW clash \in by_order, ~Rival(clash, card),
             by_order' = (by_order \ {clash}) \cup {Merged(clash, card)},
             UNCHANGED <<placeholders, unordered>>
      PROVE  OnePlace' /\ ReadIsHeld' /\ MacsKept'
  <2> DEFINE merged == Merged(clash, card)
  <2>1. /\ merged.addresses = clash.addresses \cup card.addresses
        /\ merged.mac = IF clash.mac # NoMac THEN clash.mac ELSE card.mac
    <3>1. IsCard(clash)
      BY <1>1 DEF CardsOK
    <3>2. PICK o, m, a, q : clash = [order |-> o, mac |-> m, addresses |-> a, placeholder |-> q]
      BY <3>1 DEF IsCard
    <3>3. QED
      BY <3>2 DEF Merged
  <2>2. card.mac \in {NoMac, merged.mac} /\ clash.mac \in {NoMac, merged.mac}
    BY <1>7, <2>1 DEF Rival
  <2> HIDE DEF merged
  <2>3. by_order' = (by_order \ {clash}) \cup {merged}
    BY <1>7 DEF merged
  <2>4. AddressesOf(by_order') = AddressesOf(by_order) \cup card.addresses
    BY <1>7, <2>1, <2>3 DEF AddressesOf
  <2> HIDE DEF card
  <2>5. Waiting' \subseteq Waiting \cup {merged} /\ clash \in Waiting
    BY <1>7, <2>3 DEF Waiting
  <2>6. \A c \in Waiting' : \A e \in c.addresses :
           \/ e \in card.addresses /\ card.mac \in {NoMac, c.mac}
           \/ \E d \in Waiting : e \in d.addresses /\ d.mac \in {NoMac, c.mac}
    BY <2>1, <2>2, <2>5
  <2>7. \A c, d \in by_order' : c # d => c.addresses \cap d.addresses = {}
    <3>1. \A c \in by_order : c.addresses \cap card.addresses = {}
      BY <1>2 DEF AddressesOf
    <3>2. \A c \in by_order \ {clash} : c.addresses \cap merged.addresses = {}
      BY <1>1, <1>7, <2>1, <3>1 DEF OnePlace
    <3>3. QED
      BY <1>1, <2>3, <3>2 DEF OnePlace
  <2>8. Apart(placeholders') /\ Apart(unordered')
    BY <1>1, <1>7 DEF OnePlace
  <2>9. /\ Parts'["by_order"] = Parts["by_order"] \cup card.addresses
        /\ \A k \in {"by_order", "placeholders", "unordered"} \ {"by_order"} :
              Parts'[k] = Parts[k]
    BY <1>7, <2>4, PartsAre, PartsAreNext
  <2>10. QED
    BY <2>6, <2>7, <2>8, <2>9, NetworkPlaced DEF card
<1>8. QED
  BY <1>4, <1>5, <1>6, <1>7 DEF AddNetwork

-----------------------------------------------------------------------------
(* A card joins the result                                                 *)

LEMMA CardAdded ==
    ASSUME PlacesInv, NEW card, Add(card), NEW x \in DOMAIN Parts, x # "cards",
           card.addresses \subseteq Parts[x],
           Parts'[x] \subseteq Parts[x], Parts'[x] \cap card.addresses = {},
           \A k \in DOMAIN Parts \ {x, "cards"} : Parts'[k] = Parts[k]
    PROVE  /\ Separate(Parts') /\ Apart(cards')
           /\ Range(cards') = Range(cards) \cup {card}
           /\ Parts'["cards"] = Parts["cards"] \cup card.addresses
<1>1. cards \in Seq(Range(cards)) /\ Apart(cards) /\ Separate(Parts)
  BY DEF PlacesInv, OnePlace, IInv, CardsOK
<1>2. cards' = Append(cards, card)
  BY DEF Add
<1>3. "cards" \in DOMAIN Parts /\ DOMAIN Parts' = DOMAIN Parts
  BY PartsAre, PartsAreNext
<1>4. card.addresses \cap Parts["cards"] = {}
  BY <1>1, <1>3 DEF Separate
<1>5. /\ Apart(cards')
      /\ AddressesOf(Range(cards')) = AddressesOf(Range(cards)) \cup card.addresses
  BY <1>1, <1>2, <1>4, JoinsApart, PartsAre
<1>6. Range(cards') = Range(cards) \cup {card}
  BY <1>1, <1>2, Appended
<1>7. Parts'["cards"] = Parts["cards"] \cup card.addresses
  BY <1>5, PartsAre, PartsAreNext
<1>8. Separate(Parts')
  BY <1>1, <1>3, <1>7, Moved
<1>9. QED
  BY <1>5, <1>6, <1>7, <1>8

\* A card that waited, with its entries and its mac.
LEMMA CardTaken ==
    ASSUME PlacesInv, message' = message, networks = <<>>, UNCHANGED <<networks, ports>>,
           NEW card, Add(card),
           NEW x \in {"by_order", "placeholders", "unordered"},
           Parts[x] = Parts'[x] \cup card.addresses, Parts'[x] \cap card.addresses = {},
           \A k \in {"by_order", "placeholders", "unordered"} \ {x} : Parts'[k] = Parts[k],
           Waiting' \subseteq Waiting,
           \E d \in Waiting : card.addresses = d.addresses /\ card.mac = d.mac,
           \A c, d \in by_order' : c # d => c.addresses \cap d.addresses = {},
           Apart(placeholders'), Apart(unordered')
    PROVE  /\ ToRead' /\ OnePlace' /\ ReadIsHeld' /\ MacsKept'
           /\ AddressesOf(Range(cards')) \subseteq FixedEntries
<1>1. /\ Parts'["networks"] = Parts["networks"] /\ Parts'["ports"] = Parts["ports"]
      /\ x \in DOMAIN Parts /\ x # "cards"
      /\ \A k \in DOMAIN Parts \ {x, "cards"} : Parts'[k] = Parts[k]
  BY PartsAre, PartsAreNext
<1>2. /\ Separate(Parts') /\ Apart(cards')
      /\ Range(cards') = Range(cards) \cup {card}
      /\ Parts'["cards"] = Parts["cards"] \cup card.addresses
  BY <1>1, CardAdded
<1>3. ToRead'
  BY DEF PlacesInv, ToRead
<1>4. OnePlace'
  BY <1>2 DEF OnePlace
<1>5. /\ AddressesOf(Waiting') \subseteq AddressesOf(Waiting)
      /\ AddressesOf(Held') = AddressesOf(Held)
      /\ card.addresses \subseteq AddressesOf(Waiting)
  BY <1>2, WaitingAre
<1>6. AddressesOf(Waiting) \subseteq FixedEntries /\ AddressesOf(Range(cards)) \subseteq FixedEntries
  BY DEF PlacesInv, ReadIsHeld
<1>7. AddressesOf(Range(cards')) \subseteq FixedEntries
  BY <1>2, <1>5, <1>6, PartsAre, PartsAreNext
<1>8. ReadIsHeld'
  <2>1. \A n \in Range(message.networks) :
           n \in Range(networks') \/ CardOf(n).addresses \subseteq AddressesOf(Held')
    BY <1>5 DEF PlacesInv, ReadIsHeld
  <2>2. \A p \in Range(message.ports) :
           p \in Range(ports') \/ \A entry \in p.ips : OnCards(entry.addr)'
    BY <1>2 DEF PlacesInv, ReadIsHeld, OnCards
  <2>3. AddressesOf(Waiting') \subseteq FixedEntries /\ FixedEntries' = FixedEntries
    BY <1>5, <1>6 DEF FixedEntries
  <2>4. QED
    BY <1>7, <2>1, <2>2, <2>3 DEF ReadIsHeld
<1>9. MacsKept'
  <2>1. \A c \in Held' : \A e \in c.addresses :
           \/ e \in {} /\ NoMac \in {NoMac, c.mac}
           \/ \E d \in Held : e \in d.addresses /\ d.mac \in {NoMac, c.mac}
    BY <1>2 DEF Held
  <2>2. HasMac({}, NoMac) /\ MacsKept
    BY DEF HasMac, PlacesInv
  <2>3. QED
    BY <2>1, <2>2, MacsFollow
<1>10. QED
  BY <1>3, <1>4, <1>7, <1>8, <1>9

LEMMA TakePlaces ==
    ASSUME PlacesInv, TakeOrdered \/ TakePlaceholder \/ TakeUnordered, message' = message
    PROVE  /\ ToRead' /\ OnePlace' /\ ReadIsHeld' /\ MacsKept'
           /\ AddressesOf(Range(cards')) \subseteq FixedEntries
<1>1. PlacesInv /\ OnePlace /\ CardsOK
  BY DEF PlacesInv, IInv
<1>2. CASE TakeOrdered
  <2>1. PICK card \in by_order : Add(card) /\ by_order' = by_order \ {card}
    BY <1>2 DEF TakeOrdered
  <2>2. networks = <<>> /\ UNCHANGED <<networks, ports, placeholders, unordered>>
    BY <1>2 DEF TakeOrdered
  <2>3. /\ AddressesOf(by_order) = AddressesOf(by_order') \cup card.addresses
        /\ AddressesOf(by_order') \cap card.addresses = {}
    BY <1>1, <2>1 DEF AddressesOf, OnePlace
  <2>4. /\ Parts["by_order"] = Parts'["by_order"] \cup card.addresses
        /\ Parts'["by_order"] \cap card.addresses = {}
        /\ \A k \in {"by_order", "placeholders", "unordered"} \ {"by_order"} :
              Parts'[k] = Parts[k]
    BY <2>2, <2>3, PartsAre, PartsAreNext
  <2>5. Waiting' \subseteq Waiting /\ card \in Waiting
    BY <2>1, <2>2 DEF Waiting
  <2>6. /\ \A c, d \in by_order' : c # d => c.addresses \cap d.addresses = {}
        /\ Apart(placeholders') /\ Apart(unordered')
    BY <1>1, <2>1, <2>2 DEF OnePlace
  <2>7. QED
    BY <2>1, <2>2, <2>4, <2>5, <2>6, CardTaken
<1>3. CASE TakePlaceholder
  <2>1. /\ Add(Head(placeholders)) /\ placeholders' = Tail(placeholders) /\ placeholders # <<>>
        /\ networks = <<>> /\ UNCHANGED <<networks, ports, by_order, unordered>>
    BY <1>3 DEF TakePlaceholder
  <2>2. PICK card : card = Head(placeholders)
    OBVIOUS
  <2>3. card \in Range(placeholders) /\ Range(placeholders') \subseteq Range(placeholders)
    BY <1>1, <2>1, <2>2, Taken DEF CardsOK
  <2>4. /\ Apart(placeholders')
        /\ AddressesOf(Range(placeholders')) \cap card.addresses = {}
        /\ AddressesOf(Range(placeholders)) = AddressesOf(Range(placeholders')) \cup card.addresses
    BY <1>1, <2>1, <2>2, LeavesApart DEF CardsOK, OnePlace
  <2>5. /\ Parts["placeholders"] = Parts'["placeholders"] \cup card.addresses
        /\ Parts'["placeholders"] \cap card.addresses = {}
        /\ \A k \in {"by_order", "placeholders", "unordered"} \ {"placeholders"} :
              Parts'[k] = Parts[k]
    BY <2>1, <2>4, PartsAre, PartsAreNext
  <2>6. Waiting' \subseteq Waiting /\ card \in Waiting
    BY <2>1, <2>3 DEF Waiting
  <2>7. /\ \A c, d \in by_order' : c # d => c.addresses \cap d.addresses = {}
        /\ Apart(unordered')
    BY <1>1, <2>1 DEF OnePlace
  <2>8. QED
    BY <2>1, <2>2, <2>4, <2>5, <2>6, <2>7, CardTaken
<1>4. CASE TakeUnordered
  <2>1. /\ Add([Head(unordered) EXCEPT !.order = counter + 1]) /\ unordered' = Tail(unordered)
        /\ unordered # <<>> /\ networks = <<>>
        /\ UNCHANGED <<networks, ports, by_order, placeholders>>
    BY <1>4 DEF TakeUnordered
  <2>2. PICK first : first = Head(unordered)
    OBVIOUS
  <2>3. first \in Range(unordered) /\ Range(unordered') \subseteq Range(unordered)
    BY <1>1, <2>1, <2>2, Taken DEF CardsOK
  <2>4. PICK card : /\ Add(card)
                    /\ card.addresses = first.addresses /\ card.mac = first.mac
    <3>1. IsCard(first)
      BY <1>1, <2>3 DEF CardsOK
    <3>2. PICK card : card = [first EXCEPT !.order = counter + 1]
      OBVIOUS
    <3>3. card.addresses = first.addresses /\ card.mac = first.mac
      BY <3>1, <3>2 DEF IsCard
    <3>4. Add(card)
      BY <2>1, <2>2, <3>2
    <3>5. QED
      BY <3>3, <3>4
  <2>5. /\ Apart(unordered')
        /\ AddressesOf(Range(unordered')) \cap card.addresses = {}
        /\ AddressesOf(Range(unordered)) = AddressesOf(Range(unordered')) \cup card.addresses
    BY <1>1, <2>1, <2>2, <2>4, LeavesApart DEF CardsOK, OnePlace
  <2>6. /\ Parts["unordered"] = Parts'["unordered"] \cup card.addresses
        /\ Parts'["unordered"] \cap card.addresses = {}
        /\ \A k \in {"by_order", "placeholders", "unordered"} \ {"unordered"} :
              Parts'[k] = Parts[k]
    BY <2>1, <2>5, PartsAre, PartsAreNext
  <2>7. Waiting' \subseteq Waiting /\ first \in Waiting
    BY <2>1, <2>3 DEF Waiting
  <2>8. /\ \A c, d \in by_order' : c # d => c.addresses \cap d.addresses = {}
        /\ Apart(placeholders')
    BY <1>1, <2>1 DEF OnePlace
  <2>9. QED
    BY <2>1, <2>4, <2>5, <2>6, <2>7, <2>8, CardTaken
<1>5. QED
  BY <1>2, <1>3, <1>4

-----------------------------------------------------------------------------
(* A port is read                                                          *)

LEMMA PortRead ==
    ASSUME PlacesInv, AddPort, message' = message
    PROVE  LET port == Head(ports) IN
           /\ ToRead' /\ port \in Range(message.ports)
           /\ Range(ports) = Range(ports') \cup {port}
           /\ port.ips \subseteq Parts["ports"] /\ port.ips \cap FixedEntries = {}
           /\ Parts'["ports"] \subseteq Parts["ports"] /\ Parts'["ports"] \cap port.ips = {}
<1> DEFINE port == Head(ports)
           f == [p \in Range(ports) |-> p.ips]
<1>0. ToRead /\ ports # <<>> /\ ports' = Tail(ports) /\ UNCHANGED networks
  BY DEF PlacesInv, AddPort
<1>1. /\ ports' \in Seq(Range(ports')) /\ port \in Range(ports)
      /\ Range(ports) = Range(ports') \cup {port}
  BY <1>0, Taken DEF ToRead
<1>2. port \in Range(message.ports)
  BY <1>0, <1>1 DEF ToRead
<1>3. \A p \in Range(ports) : f[p] = p.ips
  OBVIOUS
<1>4. /\ \A i \in DOMAIN ports : ports[i] \in Range(ports)
      /\ \A i \in DOMAIN ports' : ports'[i] \in Range(ports)
  BY <1>1 DEF Range
<1>5. \A i, j \in DOMAIN ports : i # j => f[ports[i]] \cap f[ports[j]] = {}
  BY <1>0, <1>4 DEF ToRead
<1> HIDE DEF f
<1>6. /\ \A i, j \in DOMAIN ports' : i # j => f[ports'[i]] \cap f[ports'[j]] = {}
      /\ \A p \in Range(ports') : f[p] \cap f[port] = {}
  BY <1>0, <1>5, TailApart DEF ToRead
<1>7. /\ \A i, j \in DOMAIN ports' : i # j => ports'[i].ips \cap ports'[j].ips = {}
      /\ \A p \in Range(ports') : p.ips \cap port.ips = {}
  BY <1>1, <1>3, <1>4, <1>6
<1>8. ToRead'
  BY <1>0, <1>1, <1>7 DEF ToRead
<1>9. /\ port.ips \subseteq Parts["ports"]
      /\ Parts'["ports"] \subseteq Parts["ports"] /\ Parts'["ports"] \cap port.ips = {}
  BY <1>1, <1>7, PartsAre, PartsAreNext
<1>10. port.ips \cap FixedEntries = {}
  BY <1>2, EntriesApart DEF PlacesInv
<1>11. QED
  BY <1>1, <1>2, <1>8, <1>9, <1>10

\* Its fresh addresses join the result, if there are any.
LEMMA PortPlaces ==
    ASSUME PlacesInv, AddPort, message' = message
    PROVE  LET fresh == Fresh(Head(ports).ips) IN
           /\ ToRead' /\ OnePlace' /\ ReadIsHeld' /\ MacsKept'
           /\ AddressesOf(Range(cards')) = AddressesOf(Range(cards)) \cup fresh
<1> DEFINE port == Head(ports)
           fresh == Fresh(port.ips)
<1>1. /\ ToRead' /\ port \in Range(message.ports)
      /\ Range(ports) = Range(ports') \cup {port}
      /\ port.ips \subseteq Parts["ports"] /\ port.ips \cap FixedEntries = {}
      /\ Parts'["ports"] \subseteq Parts["ports"] /\ Parts'["ports"] \cap port.ips = {}
  BY PortRead
<1>2. fresh \subseteq port.ips /\ \A e \in port.ips : e \in fresh \/ OnCards(e.addr)
  BY DEF Fresh
<1>3. /\ networks = <<>> /\ Waiting = {} /\ Waiting' = {}
      /\ UNCHANGED <<networks, by_order, placeholders, unordered>>
  BY DEF AddPort, Waiting, Range
<1>4. PICK mac : mac = port.mac
  OBVIOUS
<1>5. \/ fresh = {} /\ UNCHANGED cards
      \/ \E card : Add(card) /\ card.addresses = fresh /\ card.mac = mac
  BY <1>4 DEF AddPort
<1> HIDE DEF port, fresh
<1>6. /\ Separate(Parts') /\ Apart(cards')
      /\ \A c \in Range(cards') : c \in Range(cards) \/ (c.addresses = fresh /\ c.mac = mac)
      /\ Range(cards) \subseteq Range(cards')
      /\ Parts'["cards"] = Parts["cards"] \cup fresh
  <2>1. /\ fresh \subseteq Parts["ports"] /\ Parts'["ports"] \cap fresh = {}
        /\ "ports" \in DOMAIN Parts /\ "cards" \in DOMAIN Parts /\ DOMAIN Parts' = DOMAIN Parts
        /\ \A k \in DOMAIN Parts \ {"ports", "cards"} : Parts'[k] = Parts[k]
    BY <1>1, <1>2, <1>3, PartsAre, PartsAreNext
  <2>2. CASE fresh = {} /\ UNCHANGED cards
    <3>1. Parts'["cards"] = Parts["cards"] \cup fresh
      BY <2>2, PartsAre, PartsAreNext
    <3>2. Separate(Parts) /\ Apart(cards')
      BY <2>2 DEF PlacesInv, OnePlace
    <3>3. Separate(Parts')
      BY <1>1, <2>1, <3>1, <3>2, Moved
    <3>4. Range(cards) \subseteq Range(cards') /\ Range(cards') \subseteq Range(cards)
      BY <2>2
    <3>5. \A c \in Range(cards') : c \in Range(cards) \/ (c.addresses = fresh /\ c.mac = mac)
      BY <3>4
    <3>6. QED
      BY <3>1, <3>2, <3>3, <3>4, <3>5
  <2>3. CASE ~ (fresh = {} /\ UNCHANGED cards)
    <3>1. PICK card : Add(card) /\ card.addresses = fresh /\ card.mac = mac
      BY <1>5, <2>3
    <3>2. /\ Separate(Parts') /\ Apart(cards')
          /\ Range(cards') = Range(cards) \cup {card}
          /\ Parts'["cards"] = Parts["cards"] \cup card.addresses
      BY <1>1, <2>1, <3>1, CardAdded
    <3>3. \A c \in Range(cards') : c \in Range(cards) \/ (c.addresses = fresh /\ c.mac = mac)
      BY <3>1, <3>2
    <3>4. QED
      BY <3>1, <3>2, <3>3
  <2>4. QED
    BY <2>2, <2>3
<1>7. AddressesOf(Range(cards')) = AddressesOf(Range(cards)) \cup fresh
  BY <1>6, PartsAre, PartsAreNext
<1>8. OnePlace'
  BY <1>3, <1>6 DEF PlacesInv, OnePlace
<1>9. MacsKept'
  <2>1. \A c \in Held' : \A e \in c.addresses :
           \/ e \in fresh /\ mac \in {NoMac, c.mac}
           \/ \E d \in Held : e \in d.addresses /\ d.mac \in {NoMac, c.mac}
    BY <1>3, <1>6 DEF Held
  <2>2. \A n \in Range(message.networks) : CardOf(n).addresses \subseteq FixedEntries
    BY DEF FixedEntries
  <2>3. HasMac(fresh, mac) /\ MacsKept
    BY <1>1, <1>2, <2>2 DEF HasMac, PlacesInv
  <2>4. QED
    BY <2>1, <2>3, MacsFollow
<1>10. ReadIsHeld'
  <2>1. AddressesOf(Held) \subseteq AddressesOf(Held')
    BY <1>3, <1>6, WaitingAre
  <2>2. \A n \in Range(message.networks) :
           n \in Range(networks') \/ CardOf(n).addresses \subseteq AddressesOf(Held')
    BY <1>3, <2>1 DEF PlacesInv, ReadIsHeld
  <2>3. ASSUME NEW p \in Range(message.ports), p \notin Range(ports'), NEW e \in p.ips
        PROVE  OnCards(e.addr)'
    <3>1. CASE OnCards(e.addr)
      BY <1>6, <3>1 DEF OnCards
    <3>2. CASE ~OnCards(e.addr)
      <4>1. p = port
        BY <1>1, <2>3, <3>2 DEF PlacesInv, ReadIsHeld
      <4>2. e \in AddressesOf(Range(cards'))
        BY <1>2, <1>7, <2>3, <3>2, <4>1
      <4>3. QED
        BY <4>2 DEF AddressesOf, OnCards
    <3>3. QED
      BY <3>1, <3>2
  <2>4. AddressesOf(Waiting') \subseteq FixedEntries'
    BY <1>3 DEF AddressesOf
  <2>5. QED
    BY <1>3, <2>2, <2>3, <2>4 DEF ReadIsHeld
<1>11. QED
  BY <1>1, <1>7, <1>8, <1>9, <1>10 DEF fresh, port

-----------------------------------------------------------------------------
LEMMA PlacesInitially == Init => PlacesInv
<1> SUFFICES ASSUME Init PROVE PlacesInv
  OBVIOUS
<1>1. /\ networks = message.networks /\ ports = message.ports /\ by_order = {}
      /\ placeholders = <<>> /\ unordered = <<>> /\ cards = <<>>
      /\ message \in Messages /\ pc = "validate"
  BY DEF Init, NetInit
<1>2. Range(<<>>) = {} /\ DOMAIN <<>> = {} /\ AddressesOf({}) = {}
  BY DEF Range, AddressesOf
<1>3. ToRead
  BY <1>1, EntriesApart, MessagesAssumption DEF ToRead
<1>4. Parts["networks"] \subseteq FixedEntries /\ Parts["ports"] \cap FixedEntries = {}
  <2>1. Parts["networks"] \subseteq FixedEntries
    BY <1>1, PartsAre DEF FixedEntries
  <2>2. \A p \in Range(ports) : p.ips \cap FixedEntries = {}
    BY <1>1, EntriesApart
  <2>3. QED
    BY <2>1, <2>2, PartsAre
<1>5. OnePlace
  <2>1. Separate(Parts)
    <3>1. \A k \in DOMAIN Parts \ {"networks", "ports"} : Parts[k] = {}
      BY <1>1, <1>2, PartsAre
    <3>2. Parts["networks"] \cap Parts["ports"] = {}
      BY <1>4
    <3>3. ASSUME NEW j \in DOMAIN Parts, NEW k \in DOMAIN Parts, j # k
          PROVE  Parts[j] \cap Parts[k] = {}
      BY <3>1, <3>2, <3>3
    <3>4. QED
      BY <3>3 DEF Separate
  <2>2. QED
    BY <1>1, <1>2, <2>1 DEF OnePlace, Apart
<1>6. Waiting = {} /\ Held = {}
  BY <1>1, <1>2 DEF Waiting, Held
<1>7. ReadIsHeld /\ MacsKept
  BY <1>1, <1>2, <1>6 DEF ReadIsHeld, MacsKept
<1>8. QED
  BY <1>1, <1>3, <1>5, <1>7, Initially DEF PlacesInv

LEMMA PlacesUnchanged ==
    ASSUME PlacesInv, UNCHANGED <<networks, ports, by_order, placeholders, unordered, cards>>,
           message' = message
    PROVE  ToRead' /\ OnePlace' /\ ReadIsHeld' /\ MacsKept'
<1>1. Parts' = Parts /\ Held' = Held /\ Waiting' = Waiting /\ FixedEntries' = FixedEntries
  BY DEF Parts, Held, Waiting, FixedEntries
<1>2. ToRead' /\ OnePlace'
  BY <1>1 DEF PlacesInv, ToRead, OnePlace
<1>3. ReadIsHeld'
  BY <1>1 DEF PlacesInv, ReadIsHeld, OnCards
<1>4. MacsKept'
  BY <1>1 DEF PlacesInv, MacsKept
<1>5. QED
  BY <1>2, <1>3, <1>4

LEMMA PlacesStep ==
    ASSUME PlacesInv, [Next]_vars
    PROVE  PlacesInv'
<1>1. IInv' /\ IInv
  BY NetSteps, BuildStep, NameCardStep, Unchanged DEF PlacesInv
<1>2. message' = message
  BY DEF Next, Validate, BuildCards, LookUp, RecreateRow, ResolveAll, WriteBatch, Replay,
         NameCards, WriteState, vars
<1>3. ToRead' /\ OnePlace' /\ ReadIsHeld' /\ MacsKept'
  <2>1. CASE AddNetwork
    BY <1>2, <2>1, NetworkRead, AddNetworkPlaces
  <2>2. CASE TakeOrdered \/ TakePlaceholder \/ TakeUnordered
    BY <1>2, <2>2, TakePlaces
  <2>3. CASE AddPort
    BY <1>2, <2>3, PortPlaces
  <2>4. CASE NameCard \/ UNCHANGED netVars
    BY <1>2, <2>4, PlacesUnchanged DEF NameCard, netVars
  <2>5. QED
    BY <2>1, <2>2, <2>3, <2>4, NetSteps DEF Build
<1>4. pc' = "recreate" => Built'
  <2>1. CASE LookUp
    BY <2>1 DEF LookUp, At, Built, netVars
  <2>2. CASE UNCHANGED vars
    BY <2>2 DEF vars, netVars, Built, PlacesInv
  <2>3. CASE ~LookUp /\ Next
    BY <2>3 DEF Next, Validate, BuildCards, RecreateRow, ResolveAll, WriteBatch, Replay,
                NameCards, WriteState, At
  <2>4. QED
    BY <2>1, <2>2, <2>3
<1>5. QED
  BY <1>1, <1>2, <1>3, <1>4 DEF PlacesInv

LEMMA PlacesAre == Spec => []PlacesInv
BY PlacesInitially, PlacesStep, PTL DEF Spec

(* Networks merged into one card do not have two macs between them, for    *)
(* any networks, in whatever order they are read and merged                *)
(* (build_host_networks).                                                  *)
THEOREM MacsNotMixed == Spec => []CardsNotMixed
<1>1. PlacesInv => CardsNotMixed
  <2>1. SUFFICES ASSUME PlacesInv, NEW card \in Range(cards),
                        NEW n \in Range(message.networks), NEW o \in Range(message.networks),
                        CardOf(n).addresses \cap card.addresses # {},
                        CardOf(o).addresses \cap card.addresses # {}
                 PROVE  \/ CardOf(n).mac = CardOf(o).mac
                        \/ NoMac \in {CardOf(n).mac, CardOf(o).mac}
    BY DEF CardsNotMixed
  <2>2. card \in Held
    BY DEF Held
  <2>3. CardOf(n).mac \in {NoMac, card.mac} /\ CardOf(o).mac \in {NoMac, card.mac}
    BY <2>1, <2>2 DEF PlacesInv, MacsKept
  <2>4. QED
    BY <2>3
<1>2. QED
  BY PlacesAre, <1>1, PTL

-----------------------------------------------------------------------------
(* How often an address is on the cards                                    *)

\* As often as there are entries with it, when each is on one card.
LEMMA PlacedOnce ==
    ASSUME Apart(cards), NEW E, IsFiniteSet(E), NEW ip,
           \A e \in E : e.addr = ip /\ e \in AddressesOf(Range(cards)),
           \A e \in AddressesOf(Range(cards)) : e.addr = ip => e \in E
    PROVE  Placed(ip) = Cardinality(E)
<1> DEFINE Places(i) == {i} \X {entry \in cards[i].addresses : entry.addr = ip}
           T == UNION {Places(i) : i \in DOMAIN cards}
           card == [e \in E |-> CHOOSE i \in DOMAIN cards : e \in cards[i].addresses]
           g == [e \in E |-> <<card[e], e>>]
<1>1. \A e \in AddressesOf(Range(cards)) : \E i \in DOMAIN cards : e \in cards[i].addresses
  BY DEF AddressesOf, Range
<1>2. \A i \in DOMAIN cards : cards[i].addresses \subseteq AddressesOf(Range(cards))
  BY DEF AddressesOf, Range
<1>3. ASSUME NEW e \in E PROVE card[e] \in DOMAIN cards /\ e \in cards[card[e]].addresses
  <2>1. \E i \in DOMAIN cards : e \in cards[i].addresses
    BY <1>1
  <2>2. QED
    BY <2>1
<1>4. ASSUME NEW i \in DOMAIN cards, NEW e \in cards[i].addresses, e.addr = ip
      PROVE  e \in E /\ card[e] = i
  <2>1. e \in E
    BY <1>2, <1>4
  <2>2. card[e] \in DOMAIN cards /\ e \in cards[card[e]].addresses
    BY <1>3, <2>1
  <2> HIDE DEF card
  <2>3. card[e] = i
    BY <1>4, <2>2 DEF Apart
  <2>4. QED
    BY <2>1, <2>3
<1> HIDE DEF card
<1>5. \A t : t \in T <=> \E i \in DOMAIN cards : \E e \in cards[i].addresses :
                            e.addr = ip /\ t = <<i, e>>
  OBVIOUS
<1> HIDE DEF T
<1>6. g \in [E -> T]
  <2>1. \A e \in E : <<card[e], e>> \in T
    BY <1>3, <1>5
  <2>2. QED
    BY <2>1
<1>7. IsInjective(g)
  <2>1. ASSUME NEW e \in E, NEW f \in E, g[e] = g[f] PROVE e = f
    BY <2>1
  <2>2. DOMAIN g = E
    OBVIOUS
  <2> HIDE DEF g
  <2>3. QED
    BY <2>1, <2>2 DEF IsInjective
<1>8. \A t \in T : \E e \in E : g[e] = t
  <2>1. SUFFICES ASSUME NEW t \in T PROVE \E e \in E : g[e] = t
    OBVIOUS
  <2>2. PICK i \in DOMAIN cards : \E e \in cards[i].addresses : e.addr = ip /\ t = <<i, e>>
    BY <1>5
  <2>3. PICK e \in cards[i].addresses : e.addr = ip /\ t = <<i, e>>
    BY <2>2
  <2>4. e \in E /\ card[e] = i
    BY <1>4, <2>3
  <2>5. QED
    BY <2>3, <2>4
<1>9. ExistsBijection(E, T)
  <2> HIDE DEF g
  <2>1. g \in Injection(E, T) /\ g \in Surjection(E, T)
    BY <1>6, <1>7, <1>8 DEF Injection, Surjection
  <2>2. QED
    BY <2>1 DEF ExistsBijection, Bijection
<1>10. Cardinality(T) = Cardinality(E)
  BY <1>9, FS_Bijection
<1>11. Placed(ip) = Cardinality(T)
  BY DEF Placed, T
<1>12. QED
  BY <1>10, <1>11

LEMMA EntriesFinite ==
    ASSUME message \in Messages
    PROVE  IsFiniteSet(FixedEntries)
<1> DEFINE of == [n \in DOMAIN message.networks |-> CardOf(message.networks[n]).addresses]
<1>1. ASSUME NEW n \in DOMAIN message.networks
      PROVE  IsFiniteSet(CardOf(message.networks[n]).addresses)
  <2>1. message.networks[n] \in Seq(Range(message.networks[n]))
    BY MessagesAssumption
  <2>2. IsFiniteSet(Range(message.networks[n]))
    BY <2>1, FiniteRange
  <2>3. CardOf(message.networks[n]).addresses \in SUBSET Range(message.networks[n])
    BY DEF CardOf
  <2>4. QED
    BY <2>2, <2>3, FS_Subset
<1>2. DOMAIN message.networks = 1 .. Len(message.networks) /\ Len(message.networks) \in Nat
  <2>1. message.networks \in Seq(Range(message.networks))
    BY MessagesAssumption
  <2>2. QED
    BY <2>1, LenProperties
<1>3. IsFiniteSet(DOMAIN message.networks)
  BY <1>2, FS_Interval
<1>4. of \in Surjection(DOMAIN message.networks, Range(of))
  BY DEF Surjection, Range
<1>5. Range(of) = {CardOf(n).addresses : n \in Range(message.networks)}
  BY DEF Range
<1>6. \A A \in Range(of) : IsFiniteSet(A)
  BY <1>1 DEF Range
<1> HIDE DEF of
<1>7. IsFiniteSet(Range(of))
  BY <1>3, <1>4, FS_Surjection
<1>8. IsFiniteSet(UNION Range(of))
  BY <1>6, <1>7, FS_UNION
<1>9. QED
  BY <1>5, <1>8 DEF FixedEntries

\* A port lists an address once.
PortsListOnce ==
    \A m \in Messages : \A port \in Range(m.ports) :
        \A e, f \in port.ips : e.addr = f.addr => e = f

LEMMA PortsAddNewStep ==
    ASSUME PortsListOnce, PlacesInv, PortsAddNew, [Next]_vars
    PROVE  PortsAddNew'
<1>1. message' = message /\ FixedEntries' = FixedEntries /\ message \in Messages
  BY DEF Next, Validate, BuildCards, LookUp, RecreateRow, ResolveAll, WriteBatch, Replay,
         NameCards, WriteState, vars, FixedEntries, PlacesInv
<1>2. CASE AddNetwork
  <2>1. Range(cards') = {}
    BY <1>1, <1>2, NetworkRead
  <2>2. QED
    BY <2>1 DEF PortsAddNew, AddressesOf
<1>3. CASE TakeOrdered \/ TakePlaceholder \/ TakeUnordered
  <2>1. AddressesOf(Range(cards')) \subseteq FixedEntries
    BY <1>1, <1>3, TakePlaces
  <2>2. QED
    BY <1>1, <2>1 DEF PortsAddNew
<1>4. CASE AddPort
  <2> DEFINE port == Head(ports)
             fresh == Fresh(port.ips)
  <2>1. AddressesOf(Range(cards')) = AddressesOf(Range(cards)) \cup fresh
    BY <1>1, <1>4, PortPlaces
  <2>2. \A e, f \in fresh : e.addr = f.addr => e = f
    <3>1. port \in Range(message.ports)
      BY <1>1, <1>4, PortRead
    <3>2. \A e, f \in port.ips : e.addr = f.addr => e = f
      BY <1>1, <3>1 DEF PortsListOnce
    <3>3. QED
      BY <3>2 DEF Fresh
  <2>3. \A e \in AddressesOf(Range(cards)), f \in fresh : e.addr # f.addr
    BY DEF AddressesOf, Fresh, OnCards
  <2> HIDE DEF fresh
  <2>4. ASSUME NEW e \in AddressesOf(Range(cards')), NEW f \in AddressesOf(Range(cards')),
               e \notin FixedEntries, e.addr = f.addr
        PROVE  e = f
    <3>1. CASE e \in AddressesOf(Range(cards)) /\ f \in AddressesOf(Range(cards))
      BY <2>4, <3>1 DEF PortsAddNew
    <3>2. CASE e \in fresh /\ f \in fresh
      BY <2>2, <2>4, <3>2
    <3>3. QED
      BY <2>1, <2>3, <2>4, <3>1, <3>2
  <2>5. QED
    BY <1>1, <2>4 DEF PortsAddNew
<1>5. CASE NameCard \/ UNCHANGED netVars
  <2>1. cards' = cards
    BY <1>5 DEF NameCard, netVars
  <2>2. QED
    BY <1>1, <2>1 DEF PortsAddNew
<1>6. QED
  BY <1>2, <1>3, <1>4, <1>5, NetSteps DEF Build

(* Every fixed address is on the cards as often as the networks carry it,  *)
(* and one that only ports carry is there once, whatever is merged,        *)
(* renumbered or carried twice (build_host_networks), provided that no     *)
(* single port lists an address twice.                                     *)
THEOREM AddressesPlaced ==
    ASSUME PortsListOnce PROVE Spec => []EveryAddressPlaced
<1>1. Init => PortsAddNew
  BY DEF Init, NetInit, PortsAddNew, AddressesOf, Range
<1>2. PlacesInv /\ PortsAddNew /\ [Next]_vars => PortsAddNew'
  BY PortsAddNewStep
<1>3. PlacesInv /\ PortsAddNew => EveryAddressPlaced
  <2>1. SUFFICES ASSUME PlacesInv, PortsAddNew, pc = "recreate"
                 PROVE  /\ \A entry \in FixedEntries : Placed(entry.addr) = Fixed(entry.addr)
                        /\ \A port \in Range(message.ports) : \A entry \in port.ips :
                              Placed(entry.addr) = IF Fixed(entry.addr) = 0 THEN 1
                                                   ELSE Fixed(entry.addr)
    BY DEF EveryAddressPlaced
  <2> DEFINE With(ip) == {entry \in FixedEntries : entry.addr = ip}
             all == AddressesOf(Range(cards))
  <2>2. Built /\ ReadIsHeld /\ Apart(cards)
    BY <2>1 DEF PlacesInv, OnePlace
  <2>3. Range(networks) = {} /\ Range(ports) = {} /\ Held = Range(cards)
    BY <2>2 DEF Built, Held, Waiting, Range
  <2>4. FixedEntries \subseteq all
    BY <2>2, <2>3 DEF ReadIsHeld, FixedEntries
  <2>5. \A port \in Range(message.ports) : \A entry \in port.ips : OnCards(entry.addr)
    BY <2>2, <2>3 DEF ReadIsHeld
  <2>6. ASSUME NEW ip PROVE IsFiniteSet(With(ip)) /\ Fixed(ip) = Cardinality(With(ip))
    <3>1. IsFiniteSet(FixedEntries) /\ With(ip) \in SUBSET FixedEntries
      BY <2>1, EntriesFinite DEF PlacesInv
    <3>2. IsFiniteSet(With(ip))
      BY <3>1, FS_Subset
    <3>3. QED
      BY <3>2 DEF Fixed
  <2>7. ASSUME NEW ip, With(ip) # {} PROVE Placed(ip) = Fixed(ip) /\ Fixed(ip) # 0
    <3>1. PICK e \in FixedEntries : e.addr = ip
      BY <2>7
    <3>2. \A f \in all : f.addr = ip => f \in With(ip)
      BY <2>1, <2>4, <3>1 DEF PortsAddNew
    <3>3. \A f \in With(ip) : f.addr = ip /\ f \in all
      BY <2>4
    <3> HIDE DEF With
    <3>4. Placed(ip) = Cardinality(With(ip))
      BY <2>2, <2>6, <3>2, <3>3, PlacedOnce
    <3>5. Cardinality(With(ip)) # 0
      BY <2>6, <2>7, FS_EmptySet
    <3>6. QED
      BY <2>6, <3>4, <3>5
  <2>8. ASSUME NEW ip, With(ip) = {}, OnCards(ip) PROVE Placed(ip) = 1 /\ Fixed(ip) = 0
    <3>1. PICK e \in all : e.addr = ip
      BY <2>8 DEF OnCards, AddressesOf
    <3>2. e \notin FixedEntries
      BY <2>8, <3>1
    <3>3. \A f \in all : f.addr = ip => f \in {e}
      BY <2>1, <3>1, <3>2 DEF PortsAddNew
    <3>4. IsFiniteSet({e}) /\ Cardinality({e}) = 1
      BY FS_Singleton
    <3>5. \A f \in {e} : f.addr = ip /\ f \in all
      BY <3>1
    <3>6. Placed(ip) = Cardinality({e})
      BY <2>2, <3>3, <3>4, <3>5, PlacedOnce
    <3>7. Fixed(ip) = 0
      BY <2>6, <2>8, FS_EmptySet
    <3>8. QED
      BY <3>4, <3>6, <3>7
  <2>9. \A entry \in FixedEntries : With(entry.addr) # {}
    OBVIOUS
  <2> HIDE DEF With
  <2>10. QED
    BY <2>5, <2>7, <2>8, <2>9
<1>4. QED
  BY PlacesAre, <1>1, <1>2, <1>3, PTL DEF Spec
=============================================================================
