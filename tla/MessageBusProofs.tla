-------------------------- MODULE MessageBusProofs --------------------------
(***************************************************************************)
(* Proofs about MessageBus, for any classes, types, numbers of subscribers *)
(* and of dispatches nested in each other.                                 *)
(***************************************************************************)
EXTENDS MessageBus, FiniteSetTheorems, TLAPS

(***************************************************************************)
(* The two tables of ProtoUtils agree.                                     *)
(***************************************************************************)

Names ==
  {"LoginRequest", "LoginResponse", "DevicesListRequest", "DevicesListResponse",
   "DeviceSettingsRequest", "DeviceSettingsResponse", "CallEvents",
   "UpdateDeviceRequest", "UpdateDeviceResponse", "CurrentStateRequest",
   "CurrentStateResponse", "NetworkSettingsRequest", "NetworkSettingsResponse"}

\* The classes of the first table.
LEMMA KnownClasses == DOMAIN MessageType = Names
BY DEF MessageType, Names

\* No two classes have the same type, and none of them is Unknown.
LEMMA TypesDiffer ==
  ASSUME NEW c \in DOMAIN MessageType, NEW d \in DOMAIN MessageType
  PROVE  /\ MessageType[c] # Unknown
         /\ MessageType[c] = MessageType[d] => c = d
BY KnownClasses DEF MessageType, Names, Unknown

\* The message made for a type is of the class that has the type.
LEMMA MadeForTheType ==
  ASSUME NEW type, newMessageFor(type) # nullptr
  PROVE  /\ newMessageFor(type) \in DOMAIN MessageType
         /\ MessageType[newMessageFor(type)] = type
<1>1. type \in DOMAIN Made /\ newMessageFor(type) = Made[type]
  BY DEF newMessageFor
<1>2. Made[type] \in Names /\ MessageType[Made[type]] = type
  BY <1>1 DEF Made, Names, MessageType
<1>3. QED
  BY <1>1, <1>2, KnownClasses

(***************************************************************************)
(* The invariant.                                                          *)
(***************************************************************************)

\* What the static_cast of subscribe<T>() takes for granted: T is a message of its own,
\* with a type.  One that has none, as proto::Device, would join those who get all.
ClassesAreMessages == Classes \subseteq DOMAIN MessageType

\* Every subscriber has a number of its own.
Numbered ==
  /\ IsFiniteSet(AllSubscribers)
  /\ \A s \in AllSubscribers : s.id <= Cardinality(AllSubscribers)
  /\ \A k, l \in Lists : \A i \in 1 .. Len(mSubscribers[k]), j \in 1 .. Len(mSubscribers[l]) :
       mSubscribers[k][i].id = mSubscribers[l][j].id => k = l /\ i = j

\* Every subscriber is in the list of its class.
Listed ==
  \A list \in Lists : \A i \in 1 .. Len(mSubscribers[list]) :
    list = LET class == mSubscribers[list][i].class
           IN  IF class = Every THEN Unknown ELSE messageTypeFor(class)

Roomy ==
  /\ capacity \in [Lists -> Nat]
  /\ \A list \in Lists : Len(mSubscribers[list]) <= capacity[list]

Own(w) == MessageType[w.message]

\* A walk is in the list of its phase, and within what the list has become.
InList(w) ==
  /\ w \in Walk
  /\ w.list = IF w.phase = "direct" THEN Own(w) ELSE Unknown
  /\ w.next \in 1 .. w.end + 1 /\ w.end <= Len(mSubscribers[w.list])

\* Whom the walk has passed, and who is still to come.
Passed(w, list, i) ==
  \/ list = Own(w) /\ (w.phase = "direct" => i < w.next)
  \/ list = Unknown /\ w.phase = "all" /\ i < w.next

Ahead(w, list, i) ==
  \/ list = Own(w) /\ w.phase = "direct" /\ i \in w.next .. w.end
  \/ list = Unknown /\ w.phase = "direct"
  \/ list = Unknown /\ w.phase = "all" /\ i \in w.next .. w.end

OnlyPassed(w) ==
  \A id \in ToSet(w.called) :
    \E list \in {Own(w), Unknown} : \E i \in 1 .. Len(mSubscribers[list]) :
      mSubscribers[list][i].id = id /\ Passed(w, list, i)

NobodyTwice(w) ==
  \A i, j \in 1 .. Len(w.called) : w.called[i] = w.called[j] => i = j

NobodyMissed(w) ==
  \A id \in w.due :
    \/ id \in ToSet(w.called)
    \/ \E list \in {Own(w), Unknown} : \E i \in 1 .. Len(mSubscribers[list]) :
         mSubscribers[list][i].id = id /\ Ahead(w, list, i)

Good(w) ==
  /\ InList(w) /\ OnlyPassed(w) /\ NobodyTwice(w)
  /\ ClassesAreMessages => NobodyMissed(w)

Inv ==
  /\ mSubscribers \in [Lists -> Seq(Subscriber)]
  /\ walks \in Seq(Walk) /\ moved \in BOOLEAN
  /\ Roomy /\ Numbered /\ Listed
  /\ \A w \in ToSet(walks) : Good(w)

(***************************************************************************)
(* Lists and sequences.                                                    *)
(***************************************************************************)

\* There is a list for every class, and one for those who get all messages.
LEMMA TheLists ==
  /\ Unknown \in Lists
  /\ \A class \in Classes \cup DOMAIN MessageType : messageTypeFor(class) \in Lists
  /\ \A class \in DOMAIN MessageType :
       messageTypeFor(class) = MessageType[class] /\ MessageType[class] \in Lists
BY DEF Lists, messageTypeFor

\* The elements of a sequence.
LEMMA Elements ==
  ASSUME NEW S, NEW s \in Seq(S)
  PROVE  /\ \A x : x \in ToSet(s) <=> \E i \in 1 .. Len(s) : s[i] = x
         /\ ToSet(s) \subseteq S
BY DEF ToSet

\* push_back(), and a call that is noted.
LEMMA ElementsOfAppend ==
  ASSUME NEW S, NEW s \in Seq(S), NEW x \in S
  PROVE  ToSet(Append(s, x)) = ToSet(s) \cup {x}
<1> DEFINE t == Append(s, x)
<1>1. /\ t \in Seq(S) /\ Len(t) = Len(s) + 1 /\ Len(s) \in Nat
      /\ \A i \in 1 .. Len(s) + 1 : t[i] = IF i = Len(s) + 1 THEN x ELSE s[i]
  OBVIOUS
<1> HIDE DEF t
<1>2. \A y : y \in ToSet(t) <=> (y \in ToSet(s) \/ y = x)
  <2> TAKE y
  <2>1. y \in ToSet(t) <=> \E i \in 1 .. Len(s) + 1 : t[i] = y
    BY <1>1, Elements
  <2>2. y \in ToSet(s) <=> \E i \in 1 .. Len(s) : s[i] = y
    BY Elements
  <2>3. QED
    BY <1>1, <2>1, <2>2
<1>3. QED
  BY <1>2 DEF t

\* A walk begins, ends, or goes on.
LEMMA ElementsOfPush ==
  ASSUME NEW S, NEW s \in Seq(S), NEW x \in S
  PROVE  <<x>> \o s \in Seq(S) /\ ToSet(<<x>> \o s) \subseteq ToSet(s) \cup {x}
<1> DEFINE t == <<x>> \o s
<1>1. /\ t \in Seq(S) /\ Len(t) = Len(s) + 1 /\ Len(s) \in Nat
      /\ \A i \in 1 .. Len(s) + 1 : t[i] = IF i = 1 THEN x ELSE s[i - 1]
  OBVIOUS
<1> HIDE DEF t
<1>2. ASSUME NEW y \in ToSet(t), y # x PROVE y \in ToSet(s)
  <2>1. PICK i \in 1 .. Len(s) + 1 : t[i] = y
    BY <1>1, Elements
  <2>2. i - 1 \in 1 .. Len(s) /\ s[i - 1] = y
    BY <1>1, <1>2, <2>1
  <2>3. QED
    BY <2>2, Elements
<1>3. QED
  BY <1>1, <1>2 DEF t

\* The innermost walk is one of those under way, and so are the others.
LEMMA ElementsOfTail ==
  ASSUME NEW S, NEW s \in Seq(S), s # <<>>
  PROVE  /\ Tail(s) \in Seq(S) /\ ToSet(Tail(s)) \subseteq ToSet(s)
         /\ Head(s) \in ToSet(s) /\ Head(s) \in S
<1> DEFINE t == Tail(s)
<1>1. /\ t \in Seq(S) /\ Len(t) = Len(s) - 1 /\ Len(s) \in Nat /\ Len(s) # 0
      /\ \A i \in 1 .. Len(s) - 1 : t[i] = s[i + 1]
  OBVIOUS
<1>2. Head(s) = s[1] /\ Head(s) \in S
  OBVIOUS
<1> HIDE DEF t
<1>3. ASSUME NEW y \in ToSet(t) PROVE y \in ToSet(s)
  <2>1. PICK i \in 1 .. Len(s) - 1 : t[i] = y
    BY <1>1, <1>3, Elements
  <2>2. i + 1 \in 1 .. Len(s) /\ s[i + 1] = y
    BY <1>1, <2>1
  <2>3. QED
    BY <2>2, Elements
<1>4. Head(s) \in ToSet(s)
  BY <1>1, <1>2, Elements
<1>5. QED
  BY <1>1, <1>2, <1>3, <1>4 DEF t

\* Who is in any of the lists.
LEMMA InAnyList ==
  ASSUME NEW lists \in [Lists -> Seq(Subscriber)]
  PROVE  LET all == UNION {ToSet(lists[list]) : list \in Lists}
         IN  /\ \A s : s \in all <=>
                  \E list \in Lists : \E i \in 1 .. Len(lists[list]) : lists[list][i] = s
             /\ all \subseteq Subscriber
<1>1. \A list \in Lists : lists[list] \in Seq(Subscriber)
  OBVIOUS
<1>2. \A list \in Lists : \A s : s \in ToSet(lists[list]) <=>
        \E i \in 1 .. Len(lists[list]) : lists[list][i] = s
  BY <1>1, Elements
<1>3. \A list \in Lists : ToSet(lists[list]) \subseteq Subscriber
  BY <1>1, Elements
<1>4. QED
  BY <1>2, <1>3

\* Who has subscribed: whoever is in a list.
LEMMA InSomeList ==
  ASSUME mSubscribers \in [Lists -> Seq(Subscriber)]
  PROVE  /\ \A s : s \in AllSubscribers <=>
              \E list \in Lists : \E i \in 1 .. Len(mSubscribers[list]) : mSubscribers[list][i] = s
         /\ AllSubscribers \subseteq Subscriber
BY InAnyList DEF AllSubscribers

\* The list of the message of a walk.
LEMMA OwnList ==
  ASSUME NEW w \in Walk
  PROVE  Own(w) \in Lists /\ Own(w) # Unknown /\ w.message \in DOMAIN MessageType
<1>1. w.message \in DOMAIN MessageType
  BY DEF Walk
<1>2. QED
  BY <1>1, TheLists, TypesDiffer DEF Own

(***************************************************************************)
(* The steps.                                                              *)
(***************************************************************************)

\* The lists only grow: their elements keep their places.
Grow ==
  \A list \in Lists :
    /\ Len(mSubscribers[list]) \in Nat /\ Len(mSubscribers'[list]) \in Nat
    /\ Len(mSubscribers[list]) <= Len(mSubscribers'[list])
    /\ \A i \in 1 .. Len(mSubscribers[list]) : mSubscribers'[list][i] = mSubscribers[list][i]

\* What is true of a walk stays true when somebody subscribes.
LEMMA GoodWhenListsGrow ==
  ASSUME NEW w, Good(w), Grow
  PROVE  Good(w)'
<1>1. w \in Walk /\ Own(w) \in Lists /\ w.list \in Lists /\ Unknown \in Lists
  BY OwnList, TheLists DEF Good, InList, Walk
<1>2. InList(w)'
  <2>1. w.end \in Nat
    BY <1>1 DEF Walk
  <2>2. w.end <= Len(mSubscribers'[w.list])
    BY <1>1, <2>1 DEF Good, InList, Grow
  <2>3. QED
    BY <2>2 DEF Good, InList, Own
<1>3. \A list \in {Own(w), Unknown} : \A i \in 1 .. Len(mSubscribers[list]) :
        i \in 1 .. Len(mSubscribers'[list]) /\ mSubscribers'[list][i] = mSubscribers[list][i]
  BY <1>1 DEF Grow
<1>4. OnlyPassed(w)'
  <2> SUFFICES ASSUME NEW id \in ToSet(w.called)
               PROVE  \E list \in {Own(w), Unknown} : \E i \in 1 .. Len(mSubscribers'[list]) :
                        mSubscribers'[list][i].id = id /\ Passed(w, list, i)
    BY DEF OnlyPassed, Passed, Own
  <2>1. PICK list \in {Own(w), Unknown} : \E i \in 1 .. Len(mSubscribers[list]) :
          mSubscribers[list][i].id = id /\ Passed(w, list, i)
    BY DEF Good, OnlyPassed
  <2>2. QED
    BY <1>3, <2>1
<1>5. ASSUME ClassesAreMessages PROVE NobodyMissed(w)'
  <2> SUFFICES ASSUME NEW id \in w.due, id \notin ToSet(w.called)
               PROVE  \E list \in {Own(w), Unknown} : \E i \in 1 .. Len(mSubscribers'[list]) :
                        mSubscribers'[list][i].id = id /\ Ahead(w, list, i)
    BY DEF NobodyMissed, Ahead, Own
  <2>1. PICK list \in {Own(w), Unknown} : \E i \in 1 .. Len(mSubscribers[list]) :
          mSubscribers[list][i].id = id /\ Ahead(w, list, i)
    BY <1>5 DEF Good, NobodyMissed
  <2>2. QED
    BY <1>3, <2>1
<1>6. QED
  BY <1>2, <1>4, <1>5 DEF Good, NobodyTwice

\* A push_back() into the list of the class.
LEMMA PushKeeps ==
  ASSUME Inv, NEW list \in Lists, NEW class \in Classes \cup {Every}, push(list, class),
         list = IF class = Every THEN Unknown ELSE messageTypeFor(class)
  PROVE  Inv'
<1> DEFINE new == [id |-> Cardinality(AllSubscribers) + 1, class |-> class]
           old == mSubscribers[list]
           now == Append(old, new)
<1>1. /\ mSubscribers' = [mSubscribers EXCEPT ![list] = now]
      /\ capacity' = [capacity EXCEPT ![list] = grown(list)]
      /\ moved' \in BOOLEAN /\ walks' = walks
      /\ Cardinality(AllSubscribers) < MaxSubscribers
  BY DEF push
<1>2. Cardinality(AllSubscribers) \in Nat
  BY FS_CardinalityType DEF Inv, Numbered
<1>3. new \in Subscriber /\ new.id = Cardinality(AllSubscribers) + 1 /\ new.class = class
  BY <1>1, <1>2, BusAssumption DEF Subscriber, Ids
<1> HIDE DEF new
<1>4. /\ mSubscribers \in [Lists -> Seq(Subscriber)] /\ old \in Seq(Subscriber)
      /\ \A k \in Lists : Len(mSubscribers[k]) \in Nat
  BY DEF Inv
<1>5. /\ now \in Seq(Subscriber) /\ Len(now) = Len(old) + 1
      /\ \A i \in 1 .. Len(old) : now[i] = old[i]
      /\ now[Len(old) + 1] = new
  BY <1>3, <1>4
<1> HIDE DEF now
<1>6. /\ mSubscribers' \in [Lists -> Seq(Subscriber)]
      /\ mSubscribers'[list] = now
      /\ \A k \in Lists : k # list => mSubscribers'[k] = mSubscribers[k]
  BY <1>1, <1>4, <1>5
<1>7. Grow
  <2> SUFFICES ASSUME NEW k \in Lists
               PROVE  /\ Len(mSubscribers[k]) \in Nat /\ Len(mSubscribers'[k]) \in Nat
                      /\ Len(mSubscribers[k]) <= Len(mSubscribers'[k])
                      /\ \A i \in 1 .. Len(mSubscribers[k]) :
                           mSubscribers'[k][i] = mSubscribers[k][i]
    BY DEF Grow
  <2>1. CASE k = list
    BY <1>4, <1>5, <1>6, <2>1
  <2>2. CASE k # list
    BY <1>4, <1>6, <2>2
  <2>3. QED
    BY <2>1, <2>2
<1>8. \A k \in Lists : \A i \in 1 .. Len(mSubscribers'[k]) :
        \/ i \in 1 .. Len(mSubscribers[k]) /\ mSubscribers'[k][i] = mSubscribers[k][i]
        \/ k = list /\ i = Len(old) + 1 /\ mSubscribers'[k][i] = new
  <2> TAKE k \in Lists
  <2>1. CASE k = list
    BY <1>4, <1>5, <1>6, <2>1
  <2>2. CASE k # list
    BY <1>6, <2>2
  <2>3. QED
    BY <2>1, <2>2
<1>9. Roomy'
  <2>1. capacity[list] \in Nat /\ Len(old) \in Nat /\ Len(old) <= capacity[list]
    BY <1>4 DEF Inv, Roomy
  <2>2. grown(list) \in Nat /\ Len(old) + 1 <= grown(list)
    BY <2>1 DEF grown
  <2>3. QED
    BY <1>1, <1>5, <1>6, <2>2 DEF Inv, Roomy
<1>10. Listed'
  <2> SUFFICES ASSUME NEW k \in Lists, NEW i \in 1 .. Len(mSubscribers'[k])
               PROVE  k = LET c == mSubscribers'[k][i].class
                          IN  IF c = Every THEN Unknown ELSE messageTypeFor(c)
    BY DEF Listed
  <2>1. CASE k = list /\ mSubscribers'[k][i] = new
    BY <1>3, <2>1
  <2>2. CASE i \in 1 .. Len(mSubscribers[k]) /\ mSubscribers'[k][i] = mSubscribers[k][i]
    BY <2>2 DEF Inv, Listed
  <2>3. QED
    BY <1>8, <2>1, <2>2
<1>11. Numbered'
  <2>1. \A s : s \in AllSubscribers' <=> (s \in AllSubscribers \/ s = new)
    <3>1. \A s : s \in AllSubscribers <=>
            \E k \in Lists : \E i \in 1 .. Len(mSubscribers[k]) : mSubscribers[k][i] = s
      BY <1>4, InSomeList
    <3>2. \A s : s \in AllSubscribers' <=>
            \E k \in Lists : \E i \in 1 .. Len(mSubscribers'[k]) : mSubscribers'[k][i] = s
      BY <1>6, InAnyList DEF AllSubscribers
    <3>3. \A s : s \in AllSubscribers' => s \in AllSubscribers \/ s = new
      BY <1>8, <3>1, <3>2
    <3>4. \A s : s \in AllSubscribers => s \in AllSubscribers'
      BY <1>7, <3>1, <3>2 DEF Grow
    <3>5. new \in AllSubscribers'
      <4>1. Len(old) + 1 \in 1 .. Len(mSubscribers'[list]) /\ mSubscribers'[list][Len(old) + 1] = new
        BY <1>4, <1>5, <1>6
      <4>2. QED
        BY <3>2, <4>1
    <3>6. QED
      BY <3>3, <3>4, <3>5
  <2>2. AllSubscribers' = AllSubscribers \cup {new}
    BY <2>1
  <2>3. \A s \in AllSubscribers : s.id <= Cardinality(AllSubscribers) /\ s.id \in Nat
    <3> SUFFICES ASSUME NEW s \in AllSubscribers
                 PROVE  s.id <= Cardinality(AllSubscribers) /\ s.id \in Nat
      OBVIOUS
    <3>1. s \in Subscriber
      BY <1>4, InSomeList
    <3>2. s.id \in Nat
      BY <3>1, BusAssumption DEF Subscriber, Ids
    <3>3. QED
      BY <3>2 DEF Inv, Numbered
  <2>4. new \notin AllSubscribers
    BY <1>2, <1>3, <2>3
  <2>5. /\ IsFiniteSet(AllSubscribers')
        /\ Cardinality(AllSubscribers') = Cardinality(AllSubscribers) + 1
    BY <2>2, <2>4, FS_AddElement DEF Inv, Numbered
  <2>6. \A s \in AllSubscribers' : s.id <= Cardinality(AllSubscribers')
    BY <1>2, <1>3, <2>1, <2>3, <2>5
  <2>7. ASSUME NEW k \in Lists, NEW l \in Lists,
               NEW i \in 1 .. Len(mSubscribers'[k]), NEW j \in 1 .. Len(mSubscribers'[l]),
               mSubscribers'[k][i].id = mSubscribers'[l][j].id
        PROVE  k = l /\ i = j
    <3>1. \A m \in Lists : \A n \in 1 .. Len(mSubscribers[m]) : mSubscribers[m][n].id # new.id
      <4> TAKE m \in Lists
      <4> TAKE n \in 1 .. Len(mSubscribers[m])
      <4>1. mSubscribers[m][n] \in AllSubscribers
        BY <1>4, InSomeList
      <4>2. QED
        BY <1>2, <1>3, <2>3, <4>1
    <3>2. CASE /\ i \in 1 .. Len(mSubscribers[k]) /\ mSubscribers'[k][i] = mSubscribers[k][i]
               /\ j \in 1 .. Len(mSubscribers[l]) /\ mSubscribers'[l][j] = mSubscribers[l][j]
      BY <2>7, <3>2 DEF Inv, Numbered
    <3>3. QED
      BY <1>8, <2>7, <3>1, <3>2
  <2>8. QED
    BY <2>5, <2>6, <2>7 DEF Numbered
<1>12. \A w \in ToSet(walks') : Good(w)'
  <2>1. \A w \in ToSet(walks) : Good(w)
    BY DEF Inv
  <2>2. \A w \in ToSet(walks) : Good(w)'
    BY <1>7, <2>1, GoodWhenListsGrow
  <2>3. QED
    BY <1>1, <2>2
<1>13. walks' \in Seq(Walk)
  BY <1>1 DEF Inv
<1>14. QED
  BY <1>1, <1>6, <1>9, <1>10, <1>11, <1>12, <1>13 DEF Inv

\* The lists stay, and the walks are others.
LEMMA WalksKeep ==
  ASSUME Inv, UNCHANGED <<mSubscribers, capacity, moved>>, walks' \in Seq(Walk),
         \A w \in ToSet(walks') : w \in ToSet(walks) \/ Good(w)
  PROVE  Inv'
<1>1. Grow
  BY DEF Inv, Grow
<1>2. \A w : Good(w) => Good(w)'
  BY <1>1, GoodWhenListsGrow
<1>3. \A w \in ToSet(walks') : Good(w)'
  BY <1>2 DEF Inv
<1>4. AllSubscribers' = AllSubscribers
  BY DEF AllSubscribers
<1>5. Roomy' /\ Numbered' /\ Listed'
  BY <1>4 DEF Inv, Roomy, Numbered, Listed
<1>6. QED
  BY <1>3, <1>5 DEF Inv

\* The innermost walk goes on.
LEMMA ContinueKeeps ==
  ASSUME Inv, walks # <<>>, NEW v, Good(v), Continue(v)
  PROVE  Inv'
<1>1. /\ walks' = <<v>> \o Tail(walks) /\ UNCHANGED <<mSubscribers, capacity, moved>>
      /\ v \in Walk
  BY DEF Continue, Good, InList
<1>2. Tail(walks) \in Seq(Walk) /\ ToSet(Tail(walks)) \subseteq ToSet(walks)
  BY ElementsOfTail DEF Inv
<1>3. walks' \in Seq(Walk) /\ ToSet(walks') \subseteq ToSet(Tail(walks)) \cup {v}
  BY <1>1, <1>2, ElementsOfPush
<1>4. \A w \in ToSet(walks') : w \in ToSet(walks) \/ Good(w)
  BY <1>2, <1>3
<1>5. QED
  BY <1>1, <1>3, <1>4, WalksKeep

\* The innermost walk is as the invariant says.
LEMMA TopIsGood ==
  ASSUME Inv, walks # <<>>
  PROVE  Good(Top) /\ Top \in Walk
BY ElementsOfTail DEF Inv, Top

\* A walk that begins has everybody who is due ahead of it.
LEMMA DispatchKeeps ==
  ASSUME Inv, NEW type, dispatch(type)
  PROVE  Inv'
<1> DEFINE message == newMessageFor(type)
           wants(s) == s.class = Every \/ MessageType[s.class] = type
           due == {s.id : s \in {s \in AllSubscribers : wants(s)}}
           own == MessageType[message]
           new == [ message |-> message, running |-> FALSE, due |-> due, called |-> <<>>,
                    phase |-> "direct", list |-> Unknown, next |-> 1, end |-> 0 ]
           v == walkOver(new, own, "direct")
<1>1. message \in DOMAIN MessageType /\ own = type
  BY MadeForTheType DEF dispatch
<1>2. messageTypeFor(message) = own /\ own \in Lists
  BY <1>1, TheLists
<1>3. walks' = <<v>> \o walks /\ UNCHANGED <<mSubscribers, capacity, moved>>
  BY <1>2 DEF dispatch
<1>4. mSubscribers[own] \in Seq(Subscriber) /\ Len(mSubscribers[own]) \in Nat
  BY <1>2 DEF Inv
<1>5. due \in SUBSET Ids
  BY InSomeList DEF Inv, Subscriber
<1>6. ASSUME ClassesAreMessages, NEW id \in due
      PROVE  \E list \in {own, Unknown} : \E i \in 1 .. Len(mSubscribers[list]) :
               /\ mSubscribers[list][i].id = id
               /\ list = own => i \in 1 .. Len(mSubscribers[own])
  <2>1. PICK s \in AllSubscribers : wants(s) /\ s.id = id
    BY <1>6
  <2>2. s \in Subscriber
    BY InSomeList DEF Inv
  <2>3. PICK list \in Lists : \E i \in 1 .. Len(mSubscribers[list]) : mSubscribers[list][i] = s
    BY InSomeList DEF Inv
  <2>4. PICK i \in 1 .. Len(mSubscribers[list]) : mSubscribers[list][i] = s
    BY <2>3
  <2>5. list = IF s.class = Every THEN Unknown ELSE messageTypeFor(s.class)
    BY <2>4 DEF Inv, Listed
  <2>6. CASE s.class = Every
    BY <2>1, <2>4, <2>5, <2>6
  <2>7. CASE s.class # Every
    <3>1. s.class \in DOMAIN MessageType
      BY <1>6, <2>2, <2>7 DEF ClassesAreMessages, Subscriber
    <3>2. list = own
      BY <1>1, <2>1, <2>5, <2>7, <3>1, TheLists
    <3>3. QED
      BY <2>1, <2>4, <3>2
  <2>8. QED
    BY <2>6, <2>7
<1> HIDE DEF message, due, own
<1>7. /\ new \in Walk /\ new.message = message /\ new.due = due /\ new.called = <<>>
      /\ new.next = 1 /\ new.phase = "direct"
  BY <1>1, <1>5, TheLists DEF Walk
<1> HIDE DEF new
<1>8. /\ v \in Walk
      /\ v.message = message /\ v.phase = "direct" /\ v.list = own /\ v.next = 1
      /\ v.end = Len(mSubscribers[own]) /\ v.due = due /\ v.called = <<>>
  BY <1>2, <1>4, <1>7 DEF Walk, walkOver
<1> HIDE DEF v
<1>9. Own(v) = own
  BY <1>8 DEF Own, own
<1>10. InList(v)
  BY <1>4, <1>8, <1>9 DEF InList
<1>11. OnlyPassed(v) /\ NobodyTwice(v)
  <2>1. ToSet(<<>>) = {}
    BY DEF ToSet
  <2>2. QED
    BY <1>8, <2>1 DEF OnlyPassed, NobodyTwice
<1>12. ClassesAreMessages => NobodyMissed(v)
  BY <1>6, <1>8, <1>9 DEF NobodyMissed, Ahead
<1>13. Good(v)
  BY <1>10, <1>11, <1>12 DEF Good
<1>14. walks' \in Seq(Walk) /\ ToSet(walks') \subseteq ToSet(walks) \cup {v}
  BY <1>3, <1>8, ElementsOfPush DEF Inv
<1>15. QED
  BY <1>3, <1>13, <1>14, WalksKeep

\* The next subscriber in the list is one that was not called before.
LEMMA CallNextKeeps ==
  ASSUME Inv, CallNext
  PROVE  Inv'
<1> DEFINE w == Top
           id == mSubscribers[w.list][w.next].id
           v == [w EXCEPT !.next = @ + 1, !.running = TRUE, !.called = Append(@, id)]
<1>1. walks # <<>> /\ w.next <= w.end /\ Continue(v)
  BY DEF CallNext, Walking, Top
<1>2. Good(w) /\ w \in Walk
  BY <1>1, TopIsGood
<1>3. /\ w.list \in Lists /\ w.next \in Nat /\ w.end \in Nat /\ w.called \in Seq(Ids)
      /\ w.next \in 1 .. Len(mSubscribers[w.list])
  <2>1. w.list \in Lists /\ w.next \in Nat /\ w.end \in Nat /\ w.called \in Seq(Ids)
    BY <1>2 DEF Walk
  <2>2. Len(mSubscribers[w.list]) \in Nat
    BY <2>1 DEF Inv
  <2>3. QED
    BY <1>1, <1>2, <2>1, <2>2 DEF Good, InList
<1>4. id \in Ids
  <2>1. mSubscribers[w.list] \in Seq(Subscriber)
    BY <1>3 DEF Inv
  <2>2. mSubscribers[w.list][w.next] \in Subscriber
    BY <1>3, <2>1
  <2>3. QED
    BY <2>2 DEF Subscriber
<1> HIDE DEF w, id
<1>5. /\ v \in Walk
      /\ v.message = w.message /\ v.phase = w.phase /\ v.list = w.list
      /\ v.next = w.next + 1 /\ v.end = w.end /\ v.due = w.due
      /\ v.called = Append(w.called, id)
  <2> DEFINE called == Append(w.called, id)
  <2>1. called \in Seq(Ids)
    BY <1>3, <1>4
  <2>2. w.next + 1 \in Nat
    BY <1>3
  <2>3. v = [w EXCEPT !.next = w.next + 1, !.running = TRUE, !.called = called]
    BY <1>2 DEF Walk
  <2> HIDE DEF called, v
  <2>4. QED
    BY <1>2, <2>1, <2>2, <2>3 DEF Walk, called
<1> HIDE DEF v
<1>6. Own(v) = Own(w) /\ Own(w) # Unknown /\ Own(w) \in Lists /\ Unknown \in Lists
  BY <1>2, <1>5, OwnList, TheLists DEF Own
<1>7. w.list = IF w.phase = "direct" THEN Own(w) ELSE Unknown
  BY <1>2 DEF Good, InList
<1>8. w.phase \in {"direct", "all"}
  BY <1>2 DEF Walk
<1>9. ToSet(v.called) = ToSet(w.called) \cup {id}
  BY <1>3, <1>4, <1>5, ElementsOfAppend
<1>10. InList(v)
  BY <1>1, <1>2, <1>3, <1>5, <1>6, <1>7 DEF Good, InList
<1>11. OnlyPassed(v)
  <2> SUFFICES ASSUME NEW x \in ToSet(v.called)
               PROVE  \E list \in {Own(w), Unknown} : \E i \in 1 .. Len(mSubscribers[list]) :
                        mSubscribers[list][i].id = x /\ Passed(v, list, i)
    BY <1>6 DEF OnlyPassed
  <2>1. CASE x = id
    <3>1. Passed(v, w.list, w.next)
      BY <1>3, <1>5, <1>6, <1>7, <1>8 DEF Passed
    <3>2. QED
      BY <1>3, <1>7, <2>1, <3>1 DEF id
  <2>2. CASE x \in ToSet(w.called)
    <3>1. PICK list \in {Own(w), Unknown} : \E i \in 1 .. Len(mSubscribers[list]) :
            mSubscribers[list][i].id = x /\ Passed(w, list, i)
      BY <1>2, <2>2 DEF Good, OnlyPassed
    <3>2. PICK i \in 1 .. Len(mSubscribers[list]) :
            mSubscribers[list][i].id = x /\ Passed(w, list, i)
      BY <3>1
    <3>3. Passed(v, list, i)
      BY <1>3, <1>5, <1>6, <3>2 DEF Passed
    <3>4. QED
      BY <3>2, <3>3
  <2>3. QED
    BY <1>9, <2>1, <2>2
<1>12. id \notin ToSet(w.called)
  <2> SUFFICES ASSUME id \in ToSet(w.called) PROVE FALSE
    OBVIOUS
  <2>1. PICK list \in {Own(w), Unknown} : \E i \in 1 .. Len(mSubscribers[list]) :
          mSubscribers[list][i].id = id /\ Passed(w, list, i)
    BY <1>2 DEF Good, OnlyPassed
  <2>2. PICK i \in 1 .. Len(mSubscribers[list]) :
          mSubscribers[list][i].id = id /\ Passed(w, list, i)
    BY <2>1
  <2>3. list \in Lists
    BY <1>6, <2>1
  <2>4. list = w.list /\ i = w.next
    BY <1>3, <2>2, <2>3 DEF Inv, Numbered, id
  <2>5. QED
    BY <1>3, <1>6, <1>7, <1>8, <2>2, <2>4 DEF Passed
<1>13. NobodyTwice(v)
  <2>1. \A x : x \in ToSet(w.called) <=> \E i \in 1 .. Len(w.called) : w.called[i] = x
    BY <1>3, Elements
  <2>2. /\ Len(v.called) = Len(w.called) + 1 /\ Len(w.called) \in Nat
        /\ \A i \in 1 .. Len(w.called) : v.called[i] = w.called[i]
        /\ v.called[Len(w.called) + 1] = id
    BY <1>3, <1>4, <1>5
  <2>3. \A i \in 1 .. Len(w.called) : w.called[i] # id
    BY <1>12, <2>1
  <2>4. \A i \in 1 .. Len(v.called) : i \in 1 .. Len(w.called) \/ i = Len(w.called) + 1
    BY <2>2
  <2>5. \A i, j \in 1 .. Len(w.called) : w.called[i] = w.called[j] => i = j
    BY <1>2 DEF Good, NobodyTwice
  <2>6. QED
    BY <2>2, <2>3, <2>4, <2>5 DEF NobodyTwice
<1>14. ASSUME ClassesAreMessages PROVE NobodyMissed(v)
  <2> SUFFICES ASSUME NEW x \in w.due, x \notin ToSet(v.called)
               PROVE  \E list \in {Own(w), Unknown} : \E i \in 1 .. Len(mSubscribers[list]) :
                        mSubscribers[list][i].id = x /\ Ahead(v, list, i)
    BY <1>5, <1>6 DEF NobodyMissed
  <2>1. x \notin ToSet(w.called) /\ x # id
    BY <1>9
  <2>2. PICK list \in {Own(w), Unknown} : \E i \in 1 .. Len(mSubscribers[list]) :
          mSubscribers[list][i].id = x /\ Ahead(w, list, i)
    BY <1>2, <1>14, <2>1 DEF Good, NobodyMissed
  <2>3. PICK i \in 1 .. Len(mSubscribers[list]) :
          mSubscribers[list][i].id = x /\ Ahead(w, list, i)
    BY <2>2
  <2>4. list # w.list \/ i # w.next
    BY <2>1, <2>3 DEF id
  <2>5. Ahead(v, list, i)
    BY <1>3, <1>5, <1>6, <1>7, <2>3, <2>4 DEF Ahead
  <2>6. QED
    BY <2>3, <2>5
<1>15. Good(v)
  BY <1>10, <1>11, <1>13, <1>14 DEF Good
<1>16. QED
  BY <1>1, <1>15, ContinueKeeps

\* Only who runs changes.
LEMMA SubscriberReturnsKeeps ==
  ASSUME Inv, SubscriberReturns
  PROVE  Inv'
<1> DEFINE w == Top
           v == [w EXCEPT !.running = FALSE]
<1>1. walks # <<>> /\ Continue(v)
  BY DEF SubscriberReturns
<1>2. Good(w) /\ w \in Walk
  BY <1>1, TopIsGood
<1> HIDE DEF w
<1>3. /\ v \in Walk
      /\ v.message = w.message /\ v.phase = w.phase /\ v.list = w.list
      /\ v.next = w.next /\ v.end = w.end /\ v.due = w.due /\ v.called = w.called
  BY <1>2 DEF Walk
<1> HIDE DEF v
<1>4. Own(v) = Own(w)
  BY <1>3 DEF Own
<1>5. InList(v) /\ NobodyTwice(v)
  BY <1>2, <1>3, <1>4 DEF Good, InList, NobodyTwice
<1>6. OnlyPassed(v)
  BY <1>2, <1>3, <1>4 DEF Good, OnlyPassed, Passed
<1>7. ClassesAreMessages => NobodyMissed(v)
  BY <1>2, <1>3, <1>4 DEF Good, NobodyMissed, Ahead
<1>8. QED
  BY <1>1, <1>5, <1>6, <1>7, ContinueKeeps DEF Good

\* The list of the message is through: all of it is passed, and who is due is among those
\* who get all messages.
LEMMA DirectEndsKeeps ==
  ASSUME Inv, DirectEnds
  PROVE  Inv'
<1> DEFINE w == Top
           v == walkOver(w, Unknown, "all")
<1>1. walks # <<>> /\ Continue(v) /\ w.next > w.end /\ w.phase = "direct"
  BY DEF DirectEnds, Walking
<1>2. Good(w) /\ w \in Walk
  BY <1>1, TopIsGood
<1> HIDE DEF w
<1>3. Unknown \in Lists /\ Len(mSubscribers[Unknown]) \in Nat
  BY TheLists DEF Inv
<1>4. /\ v \in Walk
      /\ v.message = w.message /\ v.phase = "all" /\ v.list = Unknown
      /\ v.next = 1 /\ v.end = Len(mSubscribers[Unknown])
      /\ v.due = w.due /\ v.called = w.called
  BY <1>2, <1>3 DEF Walk, walkOver
<1> HIDE DEF v
<1>5. Own(v) = Own(w) /\ Own(w) # Unknown
  BY <1>2, <1>4, OwnList DEF Own
<1>6. InList(v) /\ NobodyTwice(v)
  BY <1>2, <1>3, <1>4 DEF Good, InList, NobodyTwice
<1>7. OnlyPassed(v)
  BY <1>1, <1>2, <1>4, <1>5 DEF Good, OnlyPassed, Passed
<1>8. ASSUME ClassesAreMessages PROVE NobodyMissed(v)
  <2>1. w.next \in Nat /\ w.end \in Nat
    BY <1>2 DEF Walk
  <2>2. \A i : i \notin w.next .. w.end
    BY <1>1, <2>1
  <2>3. \A list, i : Ahead(w, list, i) => list = Unknown
    BY <1>1, <2>2 DEF Ahead
  <2> SUFFICES ASSUME NEW x \in w.due, x \notin ToSet(w.called)
               PROVE  \E list \in {Own(w), Unknown} : \E i \in 1 .. Len(mSubscribers[list]) :
                        mSubscribers[list][i].id = x /\ Ahead(v, list, i)
    BY <1>4, <1>5 DEF NobodyMissed
  <2>4. PICK list \in {Own(w), Unknown} : \E i \in 1 .. Len(mSubscribers[list]) :
          mSubscribers[list][i].id = x /\ Ahead(w, list, i)
    BY <1>2, <1>8 DEF Good, NobodyMissed
  <2>5. PICK i \in 1 .. Len(mSubscribers[list]) :
          mSubscribers[list][i].id = x /\ Ahead(w, list, i)
    BY <2>4
  <2>6. list = Unknown
    BY <2>3, <2>5
  <2>7. Ahead(v, list, i)
    BY <1>4, <2>5, <2>6 DEF Ahead
  <2>8. QED
    BY <2>5, <2>7
<1>9. QED
  BY <1>1, <1>6, <1>7, <1>8, ContinueKeeps DEF Good

\* A walk that ends is forgotten.
LEMMA DispatchEndsKeeps ==
  ASSUME Inv, DispatchEnds
  PROVE  Inv'
<1>1. walks # <<>> /\ walks' = Tail(walks) /\ UNCHANGED <<mSubscribers, capacity, moved>>
  BY DEF DispatchEnds, Walking
<1>2. walks' \in Seq(Walk) /\ ToSet(walks') \subseteq ToSet(walks)
  BY <1>1, ElementsOfTail DEF Inv
<1>3. QED
  BY <1>1, <1>2, WalksKeep

\* A subscriber is pushed into the list of its class.
LEMMA SubscribeKeeps ==
  ASSUME Inv, (\E T \in Classes : subscribe(T)) \/ subscribeAll
  PROVE  Inv'
<1>1. messageTypeFor(Every) = Unknown
  BY KnownClasses DEF messageTypeFor, Every, Names
<1>2. ASSUME NEW T \in Classes, subscribe(T) PROVE Inv'
  <2>1. messageTypeFor(T) \in Lists /\ push(messageTypeFor(T), T)
    BY <1>2, TheLists DEF subscribe
  <2>2. QED
    BY <1>1, <2>1, PushKeeps
<1>3. CASE subscribeAll
  BY <1>3, TheLists, PushKeeps DEF subscribeAll
<1>4. QED
  BY <1>2, <1>3

\* Nobody has subscribed.
LEMMA InvInit ==
  ASSUME Init
  PROVE  Inv
<1>1. /\ mSubscribers \in [Lists -> Seq(Subscriber)] /\ walks \in Seq(Walk) /\ moved \in BOOLEAN
      /\ \A list \in Lists : mSubscribers[list] = <<>>
  <2>1. <<>> \in Seq(Subscriber) /\ <<>> \in Seq(Walk)
    OBVIOUS
  <2>2. mSubscribers = [list \in Lists |-> <<>>]
    BY DEF Init
  <2>3. mSubscribers \in [Lists -> Seq(Subscriber)] /\ \A list \in Lists : mSubscribers[list] = <<>>
    BY <2>1, <2>2
  <2>4. walks \in Seq(Walk) /\ moved \in BOOLEAN
    BY <2>1 DEF Init
  <2>5. QED
    BY <2>3, <2>4
<1>2. ToSet(<<>>) = {}
  BY DEF ToSet
<1>3. AllSubscribers = {}
  BY <1>1, InSomeList
<1>4. Numbered
  <2>1. IsFiniteSet(AllSubscribers)
    BY <1>3, FS_EmptySet
  <2>2. QED
    BY <1>1, <1>3, <2>1 DEF Numbered
<1>5. Roomy /\ Listed
  BY <1>1 DEF Init, Roomy, Listed
<1>6. QED
  BY <1>1, <1>2, <1>4, <1>5 DEF Init, Inv

\* No step breaks the invariant.
LEMMA InvNext ==
  ASSUME Inv, [Next]_vars
  PROVE  Inv'
<1>1. CASE (\E T \in Classes : subscribe(T)) \/ subscribeAll
  BY <1>1, SubscribeKeeps
<1>2. ASSUME NEW type \in Received, dispatch(type) PROVE Inv'
  BY <1>2, DispatchKeeps
<1>3. CASE CallNext
  BY <1>3, CallNextKeeps
<1>4. CASE SubscriberReturns
  BY <1>4, SubscriberReturnsKeeps
<1>5. CASE DirectEnds
  BY <1>5, DirectEndsKeeps
<1>6. CASE DispatchEnds
  BY <1>6, DispatchEndsKeeps
<1>7. CASE UNCHANGED vars
  BY <1>7, WalksKeep DEF vars, Inv
<1>8. QED
  BY <1>1, <1>2, <1>3, <1>4, <1>5, <1>6, <1>7 DEF Next

\* Every walk has called those it has passed, and has those who are due ahead of it, in
\* every state and however many dispatches are nested.
THEOREM Invariance == Spec => []Inv
<1>1. Init => Inv
  BY InvInit
<1>2. Inv /\ [Next]_vars => Inv'
  BY InvNext
<1>3. QED
  BY <1>1, <1>2, PTL DEF Spec

(***************************************************************************)
(* The properties.                                                         *)
(***************************************************************************)

\* The lists hold subscribers within their capacity, and no walk leaves its list.
THEOREM TypeCorrect == Spec => []TypeOK
<1>1. Inv => TypeOK
  <2> SUFFICES ASSUME Inv PROVE TypeOK
    OBVIOUS
  <2>1. \A list \in Lists : Len(mSubscribers[list]) <= capacity[list]
    BY DEF Inv, Roomy
  <2>2. \A w \in ToSet(walks) : w.next <= w.end + 1 /\ w.end <= Len(mSubscribers[w.list])
    <3> SUFFICES ASSUME NEW w \in ToSet(walks)
                 PROVE  w.next <= w.end + 1 /\ w.end <= Len(mSubscribers[w.list])
      OBVIOUS
    <3>1. w \in Walk /\ InList(w)
      BY DEF Inv, Good, InList
    <3>2. w.next \in Nat /\ w.end \in Nat
      BY <3>1 DEF Walk
    <3>3. QED
      BY <3>1, <3>2 DEF InList
  <2>3. QED
    BY <2>1, <2>2 DEF Inv, TypeOK
<1>2. QED
  BY <1>1, Invariance, PTL

\* The static_cast of subscribe<T>() is sound, when every T is a message of its own:
\* nobody is called with a message of another class.
THEOREM TheCastIsSound ==
  ASSUME ClassesAreMessages
  PROVE  Spec => []CastIsSound
<1>1. Inv => CastIsSound
  <2> SUFFICES ASSUME Inv, NEW w \in ToSet(walks), NEW s \in AllSubscribers,
                      s.id \in ToSet(w.called), s.class # Every
               PROVE  s.class = w.message
    BY DEF CastIsSound
  <2>1. Good(w) /\ w \in Walk
    BY DEF Inv, Good, InList
  <2>2. s \in Subscriber
    BY InSomeList DEF Inv
  <2>3. PICK k \in Lists : \E i \in 1 .. Len(mSubscribers[k]) : mSubscribers[k][i] = s
    BY InSomeList DEF Inv
  <2>4. PICK i \in 1 .. Len(mSubscribers[k]) : mSubscribers[k][i] = s
    BY <2>3
  <2>5. PICK l \in {Own(w), Unknown} : \E j \in 1 .. Len(mSubscribers[l]) :
          mSubscribers[l][j].id = s.id /\ Passed(w, l, j)
    BY <2>1 DEF Good, OnlyPassed
  <2>6. l \in Lists /\ w.message \in DOMAIN MessageType
    BY <2>1, <2>5, OwnList, TheLists
  <2>7. k = l
    BY <2>4, <2>5, <2>6 DEF Inv, Numbered
  <2>8. s.class \in DOMAIN MessageType
    BY <2>2, ClassesAreMessages DEF ClassesAreMessages, Subscriber
  <2>9. k = MessageType[s.class]
    BY <2>4, <2>8, TheLists DEF Inv, Listed
  <2>10. MessageType[s.class] = MessageType[w.message]
    BY <2>5, <2>7, <2>8, <2>9, TypesDiffer DEF Own
  <2>11. QED
    BY <2>6, <2>8, <2>10, TypesDiffer
<1>2. QED
  BY <1>1, Invariance, PTL

\* A sequence without repetition is as long as the set of its elements is large.
LEMMA AsManyAsCalled ==
  ASSUME NEW S, NEW s \in Seq(S), \A i, j \in 1 .. Len(s) : s[i] = s[j] => i = j
  PROVE  Len(s) = Cardinality(ToSet(s))
<1> DEFINE T == ToSet(s)
<1>1. Len(s) \in Nat /\ DOMAIN s = 1 .. Len(s)
  OBVIOUS
<1>2. \A x : x \in T <=> \E i \in 1 .. Len(s) : s[i] = x
  BY Elements
<1> HIDE DEF T
<1>3. s \in [1 .. Len(s) -> T]
  BY <1>1, <1>2
<1>4. s \in Injection(1 .. Len(s), T) /\ s \in Surjection(1 .. Len(s), T)
  BY <1>1, <1>2, <1>3 DEF Injection, IsInjective, Surjection
<1>5. IsFiniteSet(1 .. Len(s)) /\ Cardinality(1 .. Len(s)) = Len(s)
  BY <1>1, FS_Interval
<1>6. Cardinality(T) = Cardinality(1 .. Len(s))
  BY <1>4, <1>5, FS_Surjection
<1>7. QED
  BY <1>5, <1>6 DEF T

\* A message is given once to each subscriber that was there when it was dispatched,
\* whoever subscribes and whatever is dispatched meanwhile, and to nobody twice.
THEOREM EverySubscriberServedOnce ==
  ASSUME ClassesAreMessages
  PROVE  Spec => []ServedOnce
<1>1. Inv => ServedOnce
  <2> SUFFICES ASSUME Inv, NEW w \in ToSet(walks)
               PROVE  /\ Len(w.called) = Cardinality(ToSet(w.called))
                      /\ w.phase = "all" /\ w.next > w.end => w.due \subseteq ToSet(w.called)
    BY DEF ServedOnce
  <2>1. Good(w) /\ w \in Walk
    BY DEF Inv, Good, InList
  <2>2. w.called \in Seq(Ids) /\ w.next \in Nat /\ w.end \in Nat
    BY <2>1 DEF Walk
  <2>3. Len(w.called) = Cardinality(ToSet(w.called))
    BY <2>1, <2>2, AsManyAsCalled DEF Good, NobodyTwice
  <2>4. ASSUME w.phase = "all", w.next > w.end, NEW id \in w.due, id \notin ToSet(w.called)
        PROVE  FALSE
    <3>1. \A i : i \notin w.next .. w.end
      BY <2>2, <2>4
    <3>2. \A list, i : ~Ahead(w, list, i)
      BY <2>4, <3>1 DEF Ahead
    <3>3. QED
      BY <2>1, <2>4, <3>2, ClassesAreMessages DEF Good, NobodyMissed
  <2>5. QED
    BY <2>3, <2>4
<1>2. QED
  BY <1>1, Invariance, PTL
=============================================================================
