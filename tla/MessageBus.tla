----------------------------- MODULE MessageBus -----------------------------
(***************************************************************************)
(* The bus on which the application gets the messages of the gateway.  A   *)
(* subscriber may do anything while it is called: subscribe others, or     *)
(* send a request, whose wait reads more messages and dispatches them,     *)
(* nested in the dispatch under way.                                       *)
(*                                                                         *)
(* A list of subscribers is a std::vector, walked by a range-based for. A  *)
(* push_back() that finds it full moves its elements; what a walk over the *)
(* old ones does then is undefined, and the model ends there ("moved").    *)
(***************************************************************************)
EXTENDS Naturals, Sequences, SequencesExt, ProtoUtils

CONSTANTS
  Classes,          \* classes somebody subscribes
  Received,         \* types of the envelopes that arrive
  MaxSubscribers,   \* bound: subscribers
  MaxDepth          \* bound: dispatches nested in each other

ASSUME BusAssumption ==
  /\ Received \subseteq 0 .. 255
  /\ MaxSubscribers \in Nat /\ MaxDepth \in Nat

Every == "MessageLite"                                 \* class of a subscriber of all messages

Lists == {messageTypeFor(class) : class \in Classes \cup DOMAIN MessageType} \cup {Unknown}
Ids == 1 .. MaxSubscribers
Subscriber == [id : Ids, class : Classes \cup {Every}]

VARIABLES
  mSubscribers,
  capacity,         \* of each list
  walks,            \* calls of dispatch() under way, the innermost first
  moved             \* a list was moved while it was walked

vars == <<mSubscribers, capacity, walks, moved>>

\* One dispatch(): the list it walks, up to the end that was fixed when the walk began.
\* Ghosts: who was to get the message, by the type of its envelope, when dispatch() was
\* called, and who got it.
Walk ==
  [ message : DOMAIN MessageType, phase : {"direct", "all"}, list : Lists,
    next : Nat, end : Nat, running : BOOLEAN,
    due : SUBSET Ids, called : Seq(Ids) ]

AllSubscribers == UNION {ToSet(mSubscribers[list]) : list \in Lists}

TypeOK ==
  /\ mSubscribers \in [Lists -> Seq(Subscriber)]
  /\ \A list \in Lists : Len(mSubscribers[list]) <= capacity[list]
  /\ walks \in Seq(Walk)
  /\ \A w \in ToSet(walks) : w.next <= w.end + 1 /\ w.end <= Len(mSubscribers[w.list])
  /\ moved \in BOOLEAN

Init ==
  /\ mSubscribers = [list \in Lists |-> <<>>]
  /\ capacity = [list \in Lists |-> 0]
  /\ walks = <<>>
  /\ moved = FALSE

-----------------------------------------------------------------------------

\* Code of the application runs: outside of the bus, or as the subscriber called last.
ApplicationRuns == ~moved /\ (walks # <<>> => Head(walks).running)

asIfRoom(list) == capacity[list]                      \* mutant

\* capacity after a push_back(): a full vector doubles
grown(list) ==
  IF Len(mSubscribers[list]) < capacity[list] THEN capacity[list]
  ELSE IF capacity[list] = 0 THEN 1 ELSE 2 * capacity[list]

push(list, class) ==
  /\ Cardinality(AllSubscribers) < MaxSubscribers
  /\ mSubscribers' = [mSubscribers EXCEPT ![list] =
       Append(@, [id |-> Cardinality(AllSubscribers) + 1, class |-> class])]
  /\ capacity' = [capacity EXCEPT ![list] = grown(list)]
  /\ moved' = (grown(list) # capacity[list] /\ \E w \in ToSet(walks) : w.list = list)
  /\ UNCHANGED walks

subscribe(T) == ApplicationRuns /\ push(messageTypeFor(T), T)

subscribeAll == ApplicationRuns /\ push(Unknown, Every)

\* dispatchFor(), up to its loop
walkOver(walk, list, phase) ==
  [walk EXCEPT !.list = list, !.phase = phase, !.next = 1, !.end = Len(mSubscribers[list])]

\* The client makes a message for the envelope and dispatches it.
dispatch(type) ==
  LET message == newMessageFor(type)
      wants(s) == s.class = Every \/ MessageType[s.class] = type
      due == {s.id : s \in {s \in AllSubscribers : wants(s)}}
  IN  /\ ApplicationRuns
      /\ Len(walks) < MaxDepth
      /\ message # nullptr
      /\ walks' = <<walkOver([message |-> message, running |-> FALSE, due |-> due,
                              called |-> <<>>, phase |-> "direct", list |-> Unknown,
                              next |-> 1, end |-> 0],
                             messageTypeFor(message), "direct")>> \o walks
      /\ UNCHANGED <<mSubscribers, capacity, moved>>

Top == Head(walks)
Walking == ~moved /\ walks # <<>> /\ ~Top.running
Continue(walk) == walks' = <<walk>> \o Tail(walks) /\ UNCHANGED <<mSubscribers, capacity, moved>>

CallNext ==
  /\ Walking /\ Top.next <= Top.end
  /\ Continue([Top EXCEPT !.next = @ + 1, !.running = TRUE,
                          !.called = Append(@, mSubscribers[Top.list][Top.next].id)])

SubscriberReturns ==
  /\ ~moved /\ walks # <<>> /\ Top.running
  /\ Continue([Top EXCEPT !.running = FALSE])

DirectEnds ==
  /\ Walking /\ Top.next > Top.end /\ Top.phase = "direct"
  /\ Continue(walkOver(Top, Unknown, "all"))

DispatchEnds ==
  /\ Walking /\ Top.next > Top.end /\ Top.phase = "all"
  /\ walks' = Tail(walks)
  /\ UNCHANGED <<mSubscribers, capacity, moved>>

Next ==
  \/ \E T \in Classes : subscribe(T)
  \/ subscribeAll
  \/ \E type \in Received : dispatch(type)
  \/ CallNext \/ SubscriberReturns \/ DirectEnds \/ DispatchEnds

Spec == Init /\ [][Next]_vars

-----------------------------------------------------------------------------
(* Properties.                                                             *)

\* The static_cast of subscribe<T>() is sound: whoever is called with a message
\* subscribed this class, or all.
CastIsSound ==
  \A w \in ToSet(walks) : \A s \in AllSubscribers :
    s.id \in ToSet(w.called) => s.class \in {w.message, Every}

\* A message is given to each subscriber that was there when it was dispatched, once,
\* and to nobody twice, whoever subscribes or dispatches meanwhile.
ServedOnce ==
  \A w \in ToSet(walks) :
    /\ Len(w.called) = Cardinality(ToSet(w.called))
    /\ w.phase = "all" /\ w.next > w.end /\ ~w.running => w.due \subseteq ToSet(w.called)
=============================================================================
