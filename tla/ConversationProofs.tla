-------------------------- MODULE ConversationProofs --------------------------
(***************************************************************************)
(* Proofs about Conversation, for any users, roles, numbers of messages,   *)
(* of lists asked for at a time and of lost connections.                   *)
(***************************************************************************)
EXTENDS Conversation, SequenceTheorems, WellFoundedInduction, TLAPS

-----------------------------------------------------------------------------
(* Sequences *)

\* What is appended is the one thing more a sequence holds.
LEMMA ToSetAppend ==
  ASSUME NEW S, NEW s \in Seq(S), NEW e \in S
  PROVE  /\ Append(s, e) \in Seq(S)
         /\ ToSet(Append(s, e)) = ToSet(s) \cup {e}
<1>1. /\ Append(s, e) \in Seq(S) /\ Len(Append(s, e)) = Len(s) + 1
      /\ Append(s, e)[Len(s) + 1] = e
      /\ \A i \in 1..Len(s) : Append(s, e)[i] = s[i]
  BY AppendProperties
<1>2. DOMAIN Append(s, e) = 1..Len(s) + 1 /\ DOMAIN s = 1..Len(s) /\ Len(s) \in Nat
  BY <1>1, LenProperties
<1>3. ToSet(Append(s, e)) \subseteq ToSet(s) \cup {e}
  BY <1>1, <1>2 DEF ToSet
<1>4. ToSet(s) \subseteq ToSet(Append(s, e))
  BY <1>1, <1>2 DEF ToSet
<1>5. e \in ToSet(Append(s, e))
  BY <1>1, <1>2 DEF ToSet
<1> QED
  BY <1>1, <1>3, <1>4, <1>5

\* A sequence holds its head and what its tail holds.
LEMMA ToSetTail ==
  ASSUME NEW S, NEW s \in Seq(S), s # <<>>
  PROVE  /\ Head(s) \in S /\ Tail(s) \in Seq(S)
         /\ ToSet(s) = {Head(s)} \cup ToSet(Tail(s))
<1>1. /\ Head(s) \in S /\ Tail(s) \in Seq(S) /\ Len(Tail(s)) = Len(s) - 1
      /\ \A i \in 1..Len(Tail(s)) : Tail(s)[i] = s[i+1]
  BY HeadTailProperties
<1>2. /\ DOMAIN s = 1..Len(s) /\ Len(s) \in Nat \ {0}
      /\ DOMAIN Tail(s) = 1..Len(s) - 1
  BY <1>1, LenProperties, EmptySeq
<1>3. Head(s) = s[1]
  OBVIOUS
<1>4. ASSUME NEW i \in 1..Len(s)
      PROVE  s[i] \in {Head(s)} \cup ToSet(Tail(s))
  <2>1. CASE i = 1
    BY <1>3, <2>1
  <2>2. CASE i # 1
    <3>1. i - 1 \in 1..Len(s) - 1 /\ s[i] = Tail(s)[i - 1]
      BY <1>1, <1>2, <2>2
    <3> QED
      BY <1>2, <3>1 DEF ToSet
  <2> QED
    BY <2>1, <2>2
<1>5. ASSUME NEW i \in 1..Len(s) - 1
      PROVE  Tail(s)[i] \in ToSet(s)
  <2>1. i + 1 \in 1..Len(s) /\ Tail(s)[i] = s[i + 1]
    BY <1>1, <1>2
  <2> QED
    BY <1>2, <2>1 DEF ToSet
<1>6. Head(s) \in ToSet(s)
  BY <1>2, <1>3 DEF ToSet
<1> QED
  BY <1>1, <1>2, <1>4, <1>5, <1>6 DEF ToSet

\* The empty list has no members.
LEMMA ToSetEmpty == ToSet(<<>>) = {}
BY DEF ToSet

\* A sequence that grows in each place repeats nothing.
Increasing(list) == \A i, j \in DOMAIN list : i < j => list[i] < list[j]

\* A list in order shows nothing twice.
LEMMA IncreasingIsInjective ==
  ASSUME NEW S, S \subseteq Nat, NEW list \in Seq(S), Increasing(list)
  PROVE  IsInjective(list)
<1>1. DOMAIN list = 1..Len(list) /\ Len(list) \in Nat /\ \A i \in 1..Len(list) : list[i] \in Nat
  BY LenProperties, ElementOfSeq
<1>2. SUFFICES ASSUME NEW i \in DOMAIN list, NEW j \in DOMAIN list, list[i] = list[j]
               PROVE  i = j
  BY DEF IsInjective
<1>3. ~(i < j) /\ ~(j < i)
  BY <1>1, <1>2 DEF Increasing
<1> QED
  BY <1>1, <1>3

-----------------------------------------------------------------------------
(* The list the server answers with *)

\* Any set of messages can be listed, the oldest first: the bounds below which one
\* could not be would have a minimum.
LEMMA Listable ==
  ASSUME NEW k \in Nat, NEW S, S \subseteq 1..k
  PROVE  \E list \in SeqOf(S, k) : ToSet(list) = S /\ Increasing(list)
<1> DEFINE Listed(T, n) == \E list \in SeqOf(T, n) : ToSet(list) = T /\ Increasing(list)
           Bad == {n \in Nat : \E T \in SUBSET (1..n) : ~Listed(T, n)}
           R == OpToRel(<, Nat)
<1>1. SUFFICES Bad = {}
  BY <1>1
<1>2. SUFFICES ASSUME Bad # {} PROVE FALSE
  OBVIOUS
<1>3. PICK n \in Bad : \A m \in Bad : ~(<<m, n>> \in R)
  BY <1>2, NatLessThanWellFounded, WFMin
<1>4. n \in Nat
  OBVIOUS
<1>5. PICK T \in SUBSET (1..n) : ~Listed(T, n)
  BY <1>3
<1>6. CASE n = 0
  <2>1. T = {}
    BY <1>6
  <2>2. <<>> \in SeqOf(T, 0)
    <3>1. <<>> \in [1..0 -> T]
      OBVIOUS
    <3> QED
      BY <3>1 DEF SeqOf
  <2>3. ToSet(<<>>) = {} /\ Increasing(<<>>)
    BY DEF ToSet, Increasing
  <2> QED
    BY <1>5, <1>6, <2>1, <2>2, <2>3
<1>7. CASE n # 0
  <2>1. n - 1 \in Nat /\ n - 1 \notin Bad
    <3>1. n - 1 \in Nat /\ n - 1 < n
      BY <1>4, <1>7
    <3>2. n - 1 \in Bad => <<n - 1, n>> \in R
      BY <1>4, <3>1 DEF OpToRel
    <3> QED
      BY <1>3, <3>1, <3>2
  <2> DEFINE U == T \ {n}
  <2>2. U \in SUBSET (1..n-1)
    BY <1>4
  <2>3. PICK list \in SeqOf(U, n - 1) : ToSet(list) = U /\ Increasing(list)
    BY <2>1, <2>2
  <2>4. PICK m \in 0..n-1 : list \in [1..m -> U]
    BY <2>3 DEF SeqOf
  <2>5. CASE n \notin T
    <3>1. U = T /\ m \in 0..n
      BY <1>4, <2>5
    <3>2. list \in SeqOf(T, n)
      BY <2>4, <3>1 DEF SeqOf
    <3> QED
      BY <1>5, <2>3, <3>1, <3>2
  <2>6. CASE n \in T
    <3> DEFINE longer == [i \in 1..m+1 |-> IF i = m + 1 THEN n ELSE list[i]]
    <3>1. m + 1 \in 0..n /\ m \in Nat /\ DOMAIN list = 1..m /\ DOMAIN longer = 1..m+1
      BY <1>4, <2>4
    <3>2. longer \in [1..m+1 -> T]
      BY <2>4, <2>6, <3>1
    <3>3. longer \in SeqOf(T, n)
      BY <3>1, <3>2 DEF SeqOf
    <3>4. longer[m+1] = n /\ \A i \in 1..m : longer[i] = list[i]
      BY <3>1
    <3> HIDE DEF longer
    <3>5. T \subseteq ToSet(longer)
      <4>1. ASSUME NEW e \in U PROVE e \in ToSet(longer)
        <5>1. PICK i \in 1..m : e = list[i]
          BY <2>3, <3>1 DEF ToSet
        <5> QED
          BY <3>1, <3>4, <5>1 DEF ToSet
      <4>2. n \in ToSet(longer)
        BY <3>1, <3>4 DEF ToSet
      <4> QED
        BY <4>1, <4>2
    <3>6. ToSet(longer) \subseteq T
      BY <3>1, <3>2 DEF ToSet
    <3>7. Increasing(longer)
      <4>1. SUFFICES ASSUME NEW i \in 1..m+1, NEW j \in 1..m+1, i < j
                     PROVE  longer[i] < longer[j]
        BY <3>1 DEF Increasing
      <4>2. i \in 1..m /\ longer[i] = list[i] /\ list[i] \in 1..n-1
        <5>1. i \in 1..m
          BY <3>1, <4>1
        <5>2. list[i] \in U
          BY <2>4, <5>1
        <5> QED
          BY <2>2, <3>4, <5>1, <5>2
      <4>3. CASE j = m + 1
        BY <1>4, <3>4, <4>2, <4>3
      <4>4. CASE j # m + 1
        <5>1. j \in 1..m /\ longer[j] = list[j]
          BY <3>1, <3>4, <4>4
        <5> QED
          BY <2>3, <3>1, <4>1, <4>2, <5>1 DEF Increasing
      <4> QED
        BY <4>3, <4>4
    <3>8. ToSet(longer) = T
      BY <3>5, <3>6
    <3>9. Listed(T, n)
      BY <3>3, <3>7, <3>8, Zenon
    <3> QED
      BY <1>5, <3>9
  <2> QED
    BY <2>5, <2>6
<1> QED
  BY <1>6, <1>7

\* The list that is answered holds what the reader may see of what was stored, once.
LEMMA ListProperties ==
  ASSUME NEW u \in Tabs, NEW k \in 0..MaxMessages
  PROVE  /\ VisibleList(u, k) \in Seq(Ids)
         /\ ToSet(VisibleList(u, k)) = {i \in 1..k : Visible(u, message[i])}
         /\ IsInjective(VisibleList(u, k))
<1> DEFINE visible == {i \in 1..k : Visible(u, message[i])}
<1>1. k \in Nat /\ visible \subseteq 1..k /\ visible \subseteq Ids /\ Ids \subseteq Nat
  BY ConversationAssumption DEF Ids
<1> HIDE DEF visible
<1>2. \E list \in SeqOf(visible, k) : ToSet(list) = visible /\ Increasing(list)
  BY <1>1, Listable
<1>3. VisibleList(u, k) = CHOOSE list \in SeqOf(visible, k) : ToSet(list) = visible /\ Increasing(list)
  BY DEF VisibleList, visible, Increasing
<1>4. VisibleList(u, k) \in SeqOf(visible, k) /\ ToSet(VisibleList(u, k)) = visible
      /\ Increasing(VisibleList(u, k))
  BY <1>2, <1>3
<1>5. VisibleList(u, k) \in Seq(Ids)
  <2>1. PICK m \in 0..k : VisibleList(u, k) \in [1..m -> visible]
    BY <1>4 DEF SeqOf
  <2>2. m \in Nat
    BY <1>1
  <2>3. VisibleList(u, k) \in [1..m -> Ids]
    BY <1>1, <2>1
  <2> QED
    BY <2>2, <2>3, SeqDef
<1> QED
  BY <1>1, <1>4, <1>5, IncreasingIsInjective DEF visible

-----------------------------------------------------------------------------
(* The inductive invariant *)

Readable(u) == {i \in DOMAIN message : Visible(u, message[i])}

\* What will still reach reader u: pushed to her, or stored and not yet broadcast.
UnderWay(u) == ToSet(push[u]) \cup {post[v] : v \in Users}

\* What is being posted, or was read from the database, has been stored.
OnlyStored ==
  /\ \A v \in Users : post[v] \in {None, 0} \cup DOMAIN message
  /\ \A u \in Tabs, l \in Loads : load[u][l].stored \in 0..Len(message)

\* Nothing is left of a thread that is gone.
GoneIsEmpty == \A u \in Tabs : ~tab[u].mounted => tab[u] = Unmounted /\ load[u] = NoLoads

\* What a thread shows and what is pushed to it, its reader may see.
OnlyReadable == \A u \in Tabs : ToSet(tab[u].messages) \cup ToSet(push[u]) \subseteq Readable(u)

\* A list that nothing has overtaken since it was asked for lacks only what is
\* still under way.
ListsMissNothing ==
  \A u \in Tabs, l \in Loads :
    load[u][l].state = "ANSWERED" /\ ~load[u][l].overtaken =>
      \A i \in Readable(u) : i > load[u][l].stored => i \in UnderWay(u)

\* So does a thread without a lapse.
ThreadsMissNothing ==
  \A u \in Tabs :
    tab[u].mounted /\ ~lapse[u] => Readable(u) \subseteq ToSet(tab[u].messages) \cup UnderWay(u)

IInv ==
  /\ TypeOK /\ NoDuplicates
  /\ OnlyStored /\ GoneIsEmpty /\ OnlyReadable
  /\ ListsMissNothing /\ ThreadsMissNothing

\* It holds before anybody has opened the page,
LEMMA InitHolds ==
  ASSUME Init
  PROVE  IInv
<1>1. <<>> \in Seq(Messages) /\ <<>> \in Seq(Ids) /\ Len(<<>>) = 0
  BY EmptySeq
<1>2. MaxMessages \in Nat /\ MaxDrops \in Nat
  BY ConversationAssumption
<1>3. TypeOK
  <2>1. Unmounted \in Thread /\ NoLoad \in Load
    BY <1>1, <1>2 DEF Unmounted, Thread, NoLoad, Load
  <2>2. [state |-> "OFFLINE", join |-> "NONE", inRoom |-> FALSE, drops |-> 0] \in Socket
    BY <1>2 DEF Socket
  <2> QED
    BY <1>1, <1>2, <2>1, <2>2 DEF Init, TypeOK, NoLoads
<1>4. NoDuplicates
  BY DEF Init, NoDuplicates, IsInjective, Unmounted
<1>5. OnlyStored /\ GoneIsEmpty
  BY <1>1 DEF Init, OnlyStored, GoneIsEmpty, NoLoads, NoLoad
<1>6. OnlyReadable
  BY ToSetEmpty DEF Init, OnlyReadable, Unmounted
<1>7. ListsMissNothing /\ ThreadsMissNothing
  BY DEF Init, ListsMissNothing, ThreadsMissNothing, NoLoads, NoLoad, Unmounted
<1> QED
  BY <1>3, <1>4, <1>5, <1>6, <1>7 DEF IInv

\* The values of a load that are not an answer.
LEMMA LoadValues ==
  /\ NoLoad \in Load /\ NoLoad.state = "NONE" /\ NoLoad.stored = 0
  /\ \A awaited \in BOOLEAN :
       Asked(awaited) \in Load /\ Asked(awaited).state = "ASKED" /\ Asked(awaited).stored = 0
<1>1. 0 \in 0..MaxMessages
  BY ConversationAssumption
<1>2. NoLoad \in Load /\ NoLoad.state = "NONE" /\ NoLoad.stored = 0
  BY <1>1 DEF NoLoad, Load
<1>3. ASSUME NEW awaited \in BOOLEAN
      PROVE  Asked(awaited) \in Load /\ Asked(awaited).state = "ASKED" /\ Asked(awaited).stored = 0
  BY <1>1 DEF Asked, Load
<1> QED
  BY <1>2, <1>3

\* A load without an answer counts no message.
LEMMA NothingIsStored ==
  ASSUME TypeOK
  PROVE  0 \in 0..Len(message)
BY LenProperties DEF TypeOK

\* What a reader may see does not change with anything but the messages.
LEMMA SameReadable ==
  ASSUME UNCHANGED message
  PROVE  \A u : Readable(u)' = Readable(u)
BY DEF Readable, Visible

-----------------------------------------------------------------------------
(* The browser *)

\* A load that is asked for takes a free place.
LEMMA AskedKeeps ==
  ASSUME IInv, NEW u \in Tabs, NEW awaited \in BOOLEAN, HasFreeLoad(u), LoadAsked(u, awaited)
  PROVE  /\ load' \in [Tabs -> [Loads -> Load]]
         /\ \A v \in Tabs, l \in Loads :
              load'[v][l] = load[v][l] \/ (v = u /\ load'[v][l] = Asked(awaited))
<1>1. FreeLoad(u) \in Loads
  BY DEF HasFreeLoad, FreeLoad
<1>2. Asked(awaited) \in Load
  BY LoadValues
<1>3. load' = [load EXCEPT ![u][FreeLoad(u)] = Asked(awaited)]
  BY DEF LoadAsked
<1> HIDE DEF FreeLoad, Asked
<1> QED
  BY <1>1, <1>2, <1>3 DEF IInv, TypeOK

\* The thread is mounted with nothing in it and one list asked for; from now on it may
\* miss something until that list comes.
LEMMA MountKeeps ==
  ASSUME IInv, NEW u \in Tabs, Mount(u)
  PROVE  IInv'
<1> USE SameReadable DEF IInv
<1>0. UNCHANGED <<message, post, push>> /\ ~tab[u].mounted /\ load[u] = NoLoads
  BY DEF Mount, GoneIsEmpty
<1>1. HasFreeLoad(u)
  <2>1. 1 \in Loads
    BY ConversationAssumption DEF Loads
  <2> QED
    BY <1>0, <2>1 DEF HasFreeLoad, NoLoads, NoLoad
<1>2. /\ load' \in [Tabs -> [Loads -> Load]]
      /\ \A v \in Tabs, l \in Loads :
           load'[v][l] = load[v][l] \/ (v = u /\ load'[v][l] = Asked(FALSE))
  BY <1>1, AskedKeeps DEF Mount
<1>3. Asked(FALSE).state = "ASKED" /\ Asked(FALSE).stored = 0
  BY LoadValues
<1>4. \A v \in Tabs : v # u => tab'[v] = tab[v] /\ load'[v] = load[v] /\ lapse'[v] = lapse[v]
  BY DEF Mount, LoadAsked, TypeOK
<1>5. /\ tab'[u].messages = <<>> /\ tab'[u].mounted /\ lapse'[u]
      /\ tab'[u] \in Thread
  <2>1. Unmounted \in Thread /\ Unmounted.messages = <<>>
    BY EmptySeq DEF Unmounted, Thread
  <2>2. tab'[u] = [Unmounted EXCEPT !.mounted = TRUE] /\ lapse'[u]
    BY DEF Mount, TypeOK
  <2> QED
    BY <2>1, <2>2 DEF Thread
<1> HIDE DEF Asked
<1>6. TypeOK'
  <2>1. tab' \in [Tabs -> Thread]
    BY <1>5 DEF Mount, TypeOK
  <2>2. socket' \in [Tabs -> Socket]
    <3>1. PICK join \in {"NONE", "BUFFERED", "SENT"} : socket' = [socket EXCEPT ![u].join = join]
      <4>1. socket[u].join \in {"NONE", "BUFFERED", "SENT"}
        BY DEF TypeOK, Socket
      <4>2. \/ socket' = [socket EXCEPT ![u].join = socket[u].join]
            \/ socket' = [socket EXCEPT ![u].join = "BUFFERED"]
            \/ socket' = [socket EXCEPT ![u].join = "SENT"]
        BY DEF Mount
      <4> QED
        BY <4>1, <4>2
    <3> QED
      BY <3>1 DEF TypeOK, Socket
  <2>3. lapse' \in [Tabs -> BOOLEAN]
    BY DEF Mount, TypeOK
  <2> QED
    BY <1>0, <1>2, <2>1, <2>2, <2>3 DEF TypeOK
<1>7. NoDuplicates'
  BY <1>4, <1>5 DEF NoDuplicates, IsInjective
<1>8. OnlyStored'
  BY <1>0, <1>2, <1>3, NothingIsStored DEF OnlyStored
<1>9. GoneIsEmpty'
  BY <1>4, <1>5 DEF GoneIsEmpty
<1>10. OnlyReadable'
  BY <1>0, <1>4, <1>5, ToSetEmpty DEF OnlyReadable
<1>11. ListsMissNothing'
  <2>1. \A v \in Tabs, l \in Loads :
          load'[v][l].state = "ANSWERED" => load'[v][l] = load[v][l]
    BY <1>2, <1>3
  <2> QED
    BY <1>0, <2>1 DEF ListsMissNothing, UnderWay
<1>12. ThreadsMissNothing'
  BY <1>0, <1>4, <1>5 DEF ThreadsMissNothing, UnderWay
<1> QED
  BY <1>6, <1>7, <1>8, <1>9, <1>10, <1>11, <1>12

\* when a tab leaves the page,
LEMMA UnmountKeeps ==
  ASSUME IInv, NEW u \in Tabs, Unmount(u)
  PROVE  IInv'
<1> USE SameReadable DEF IInv
<1>0. UNCHANGED <<message, post, push, lapse>>
  BY DEF Unmount
<1>1. NoLoad \in Load
      /\ NoLoad.state = "NONE" /\ NoLoad.stored = 0
  BY LoadValues
<1>2. /\ tab'[u] = Unmounted /\ load'[u] = NoLoads
      /\ \A v \in Tabs : v # u => tab'[v] = tab[v] /\ load'[v] = load[v]
  BY DEF Unmount, TypeOK
<1>3. TypeOK'
  <2>1. Unmounted \in Thread
    BY EmptySeq DEF Unmounted, Thread
  <2>2. tab' \in [Tabs -> Thread]
    BY <2>1 DEF Unmount, TypeOK
  <2>3. load' \in [Tabs -> [Loads -> Load]]
    BY <1>1 DEF Unmount, TypeOK, NoLoads
  <2>4. socket' \in [Tabs -> Socket]
    BY DEF Unmount, TypeOK, Socket
  <2> QED
    BY <1>0, <2>2, <2>3, <2>4 DEF TypeOK
<1>4. Unmounted.messages = <<>> /\ ~Unmounted.mounted
  BY DEF Unmounted
<1>5. \A l \in Loads : NoLoads[l] = NoLoad
  BY DEF NoLoads
<1> HIDE DEF NoLoad, NoLoads, Unmounted
<1>6. NoDuplicates'
  BY <1>2, <1>4 DEF NoDuplicates, IsInjective
<1>7. OnlyStored'
  BY <1>0, <1>1, <1>2, <1>5, NothingIsStored DEF OnlyStored
<1>8. GoneIsEmpty'
  BY <1>2 DEF GoneIsEmpty
<1>9. OnlyReadable'
  BY <1>0, <1>2, <1>4, ToSetEmpty DEF OnlyReadable
<1>10. ListsMissNothing'
  BY <1>0, <1>1, <1>2, <1>5 DEF ListsMissNothing, UnderWay
<1>11. ThreadsMissNothing'
  BY <1>0, <1>2, <1>4 DEF ThreadsMissNothing, UnderWay
<1> QED
  BY <1>3, <1>6, <1>7, <1>8, <1>9, <1>10, <1>11

\* Whatever comes to a thread, the lists it has asked for are overtaken by it.
LEMMA OvertakenLoads ==
  ASSUME IInv, NEW u \in Tabs
  PROVE  /\ Overtaken(u) \in [Loads -> Load]
         /\ \A l \in Loads : /\ Overtaken(u)[l].stored = load[u][l].stored
                             /\ Overtaken(u)[l].state = load[u][l].state
                             /\ Overtaken(u)[l].overtaken <=> load[u][l].state # "NONE"
<1>1. ASSUME NEW x \in Load, NEW y, y = [x EXCEPT !.overtaken = x.state # "NONE"]
      PROVE  /\ y \in Load /\ y.stored = x.stored /\ y.state = x.state
             /\ y.overtaken <=> x.state # "NONE"
  <2>1. CASE x.state = "NONE"
    <3>1. y = [x EXCEPT !.overtaken = FALSE]
      BY <1>1, <2>1
    <3> QED
      BY <2>1, <3>1 DEF Load
  <2>2. CASE x.state # "NONE"
    <3>1. y = [x EXCEPT !.overtaken = TRUE]
      BY <1>1, <2>2
    <3> QED
      BY <2>2, <3>1 DEF Load
  <2> QED
    BY <2>1, <2>2
<1>2. \A l \in Loads : load[u][l] \in Load
  BY DEF IInv, TypeOK
<1>3. /\ \A l \in Loads :
           Overtaken(u)[l] = [load[u][l] EXCEPT !.overtaken = load[u][l].state # "NONE"]
      /\ Overtaken(u) = [l \in Loads |-> Overtaken(u)[l]]
  BY Zenon DEF Overtaken
<1>4. \A l \in Loads : /\ Overtaken(u)[l] \in Load
                       /\ Overtaken(u)[l].stored = load[u][l].stored
                       /\ Overtaken(u)[l].state = load[u][l].state
                       /\ Overtaken(u)[l].overtaken <=> load[u][l].state # "NONE"
  BY <1>1, <1>2, <1>3, Zenon
<1> QED
  BY <1>3, <1>4

\* Where no list was asked for, none is overtaken.
LEMMA OvertakesNone ==
  ASSUME NEW u \in Tabs, load[u] = NoLoads
  PROVE  Overtaken(u) = NoLoads
<1>1. \A l \in Loads : load[u][l] = NoLoad
  BY DEF NoLoads
<1>2. [NoLoad EXCEPT !.overtaken = FALSE] = NoLoad
  <2>1. NoLoad.overtaken = FALSE
    BY DEF NoLoad
  <2> QED
    BY <2>1, LoadValues DEF Load
<1>3. (NoLoad.state # "NONE") = FALSE
  BY LoadValues
<1> QED
  BY <1>1, <1>2, <1>3 DEF Overtaken, NoLoads

\* A list that comes replaces what the thread shows: nothing is lost by that unless the
\* list was overtaken, which is then a lapse.
LEMMA ListKeeps ==
  ASSUME IInv, NEW u \in Tabs, NEW l \in Loads, ReceiveList(u, l) \/ ReceiveError(u, l)
  PROVE  IInv'
<1> DEFINE full == ReceiveList(u, l)
           k == load[u][l].stored
           list == tab'[u].messages
<1> USE SameReadable DEF IInv
<1>0. UNCHANGED <<message, post, socket, push>> /\ load[u][l].state # "NONE"
  BY DEF ReceiveList, ReceiveError, Answered
<1>1. k \in 0..MaxMessages /\ k \in 0..Len(message) /\ Len(message) \in Nat
      /\ DOMAIN message = 1..Len(message)
  BY LenProperties DEF TypeOK, Load, OnlyStored
<1>2. /\ list \in Seq(Ids) /\ IsInjective(list)
      /\ full => ToSet(list) = {i \in 1..k : Visible(u, message[i])}
      /\ ~full => ToSet(list) = {}
  <2>1. CASE ReceiveList(u, l)
    <3>1. list = VisibleList(u, k)
      BY <2>1 DEF ReceiveList, Answered, TypeOK
    <3> HIDE DEF list, k
    <3> QED
      BY <1>1, <2>1, <3>1, ListProperties
  <2>2. CASE ReceiveError(u, l) /\ ~ReceiveList(u, l)
    <3>1. list = <<>>
      BY <2>2 DEF ReceiveError, Answered, TypeOK
    <3>2. <<>> \in Seq(Ids) /\ IsInjective(<<>>)
      BY EmptySeq DEF IsInjective
    <3> HIDE DEF list
    <3> QED
      BY <2>2, <3>1, <3>2, ToSetEmpty
  <2> QED
    BY <2>1, <2>2
<1>3. /\ \A v \in Tabs : v # u => tab'[v] = tab[v] /\ load'[v] = load[v] /\ lapse'[v] = lapse[v]
      /\ tab'[u].mounted = tab[u].mounted
  BY DEF ReceiveList, ReceiveError, Answered, TypeOK, Thread
<1>4. \A j \in Loads :
        \/ load'[u][j].state = "NONE" /\ load'[u][j].stored = 0
        \/ load'[u][j] = Overtaken(u)[j]
  BY OvertakenLoads DEF ReceiveList, ReceiveError, Answered, TypeOK, NoLoad
<1>5. tab[u].mounted
  BY <1>0 DEF GoneIsEmpty, NoLoads, NoLoad
<1>6. ~lapse'[u] => full /\ load[u][l].state = "ANSWERED" /\ ~load[u][l].overtaken
  <2>1. CASE ReceiveList(u, l)
    BY <2>1 DEF ReceiveList, TypeOK
  <2>2. CASE ReceiveError(u, l) /\ ~ReceiveList(u, l)
    BY <2>2 DEF ReceiveError, TypeOK
  <2> QED
    BY <2>1, <2>2
<1>7. TypeOK'
  <2>1. tab' \in [Tabs -> Thread]
    <3>1. tab' = [tab EXCEPT ![u].messages = list,
                             ![u].send = IF load[u][l].awaited THEN "IDLE" ELSE @]
      <4>1. PICK m : tab' = [tab EXCEPT ![u].messages = m,
                                        ![u].send = IF load[u][l].awaited THEN "IDLE" ELSE @]
        BY Zenon DEF ReceiveList, ReceiveError, Answered
      <4>2. list = m
        BY <4>1 DEF TypeOK
      <4> QED
        BY <4>1, <4>2, Zenon
    <3> HIDE DEF list
    <3> QED
      BY <1>2, <3>1 DEF TypeOK, Thread
  <2>2. load' \in [Tabs -> [Loads -> Load]]
    <3>1. load' = [load EXCEPT ![u] = [Overtaken(u) EXCEPT ![l] = NoLoad]]
      BY Zenon DEF ReceiveList, ReceiveError, Answered
    <3>2. NoLoad \in Load
      BY LoadValues
    <3> HIDE DEF NoLoad
    <3> QED
      BY <3>1, <3>2, OvertakenLoads DEF TypeOK
  <2>3. lapse' \in [Tabs -> BOOLEAN]
    <3>1. load[u][l].overtaken \in BOOLEAN
      BY DEF TypeOK, Load
    <3>2. lapse' = [lapse EXCEPT ![u] = load[u][l].overtaken] \/ lapse' = [lapse EXCEPT ![u] = TRUE]
      BY DEF ReceiveList, ReceiveError
    <3> QED
      BY <3>1, <3>2 DEF TypeOK
  <2> QED
    BY <1>0, <2>1, <2>2, <2>3 DEF TypeOK
<1> HIDE DEF list, full
<1>8. NoDuplicates'
  BY <1>2, <1>3 DEF NoDuplicates, list
<1>9. OnlyStored'
  BY <1>0, <1>1, <1>3, <1>4, OvertakenLoads DEF OnlyStored
<1>10. GoneIsEmpty'
  BY <1>3, <1>5 DEF GoneIsEmpty
<1>11. OnlyReadable'
  <2>1. ToSet(list) \subseteq Readable(u)
    BY <1>1, <1>2 DEF Readable
  <2> QED
    BY <1>0, <1>3, <2>1 DEF OnlyReadable, list
<1>12. ListsMissNothing'
  <2>1. \A j \in Loads : load'[u][j].state = "ANSWERED" => load'[u][j].overtaken
    BY <1>4, OvertakenLoads
  <2> QED
    BY <1>0, <1>3, <2>1 DEF ListsMissNothing, UnderWay
<1>13. ThreadsMissNothing'
  <2>1. ASSUME ~lapse'[u], NEW i \in Readable(u)
        PROVE  i \in ToSet(list) \cup UnderWay(u)
    <3>1. full /\ load[u][l].state = "ANSWERED" /\ ~load[u][l].overtaken
      BY <1>6, <2>1, Zenon
    <3>2. CASE i > k
      BY <3>1, <3>2 DEF ListsMissNothing
    <3>3. CASE ~(i > k)
      BY <1>1, <1>2, <3>1, <3>3 DEF Readable
    <3> QED
      BY <3>2, <3>3
  <2> QED
    BY <1>0, <1>3, <2>1 DEF ThreadsMissNothing, UnderWay, list
<1> QED
  BY <1>7, <1>8, <1>9, <1>10, <1>11, <1>12, <1>13

\* A list that does not come leaves the thread as it was, but for its send button.
LEMMA LossKeeps ==
  ASSUME IInv, NEW u \in Tabs, NEW l \in Loads, LoseList(u, l)
  PROVE  IInv'
<1> USE SameReadable DEF IInv
<1>0. UNCHANGED <<message, post, socket, push, lapse>> /\ tab[u].mounted
  BY DEF LoseList, GoneIsEmpty, NoLoads, NoLoad
<1>1. PICK send \in {"IDLE", "SENDING", "RELOADING", "STUCK"} : tab' = [tab EXCEPT ![u].send = send]
  <2>1. tab[u].send \in {"IDLE", "SENDING", "RELOADING", "STUCK"}
    BY DEF TypeOK, Thread
  <2>2. \/ tab' = [tab EXCEPT ![u].send = "STUCK"]
        \/ tab' = [tab EXCEPT ![u].send = tab[u].send]
    BY DEF LoseList
  <2> QED
    BY <2>1, <2>2
<1>2. /\ tab' \in [Tabs -> Thread]
      /\ \A v \in Tabs : /\ tab'[v].messages = tab[v].messages
                         /\ tab'[v].mounted = tab[v].mounted
                         /\ v # u => tab'[v] = tab[v]
  BY <1>1 DEF TypeOK, Thread
<1>3. NoLoad \in Load /\ NoLoad.state = "NONE" /\ NoLoad.stored = 0
  BY LoadValues
<1>4. load' = [load EXCEPT ![u][l] = NoLoad]
  BY DEF LoseList
<1> HIDE DEF NoLoad
<1>5. /\ load' \in [Tabs -> [Loads -> Load]]
      /\ \A v \in Tabs, j \in Loads : load'[v][j] = load[v][j] \/ load'[v][j] = NoLoad
      /\ \A v \in Tabs : v # u => load'[v] = load[v]
  BY <1>3, <1>4 DEF TypeOK
<1>6. TypeOK'
  BY <1>0, <1>2, <1>5 DEF TypeOK
<1>7. NoDuplicates'
  BY <1>2 DEF NoDuplicates
<1>8. OnlyStored'
  BY <1>0, <1>3, <1>5, NothingIsStored DEF OnlyStored
<1>9. GoneIsEmpty'
  BY <1>0, <1>2, <1>5 DEF GoneIsEmpty
<1>10. OnlyReadable'
  BY <1>0, <1>2 DEF OnlyReadable
<1>11. ListsMissNothing'
  BY <1>0, <1>3, <1>5 DEF ListsMissNothing, UnderWay
<1>12. ThreadsMissNothing'
  BY <1>0, <1>2 DEF ThreadsMissNothing, UnderWay
<1> QED
  BY <1>6, <1>7, <1>8, <1>9, <1>10, <1>11, <1>12

\* A push moves a message from what is under way to what is shown.
LEMMA PushKeeps ==
  ASSUME IInv, NEW u \in Tabs, ReceivePush(u)
  PROVE  IInv'
<1> DEFINE i == Head(push[u])
           shown == Shown(tab[u].messages, i)
<1> USE SameReadable DEF IInv
<1>0. UNCHANGED <<message, post, socket, lapse>> /\ push[u] # <<>>
  BY DEF ReceivePush
<1>1. /\ i \in Ids /\ push'[u] \in Seq(Ids)
      /\ ToSet(push[u]) = {i} \cup ToSet(push'[u])
      /\ \A v \in Tabs : v # u => push'[v] = push[v]
  <2>1. push[u] \in Seq(Ids) /\ push'[u] = Tail(push[u])
    BY DEF ReceivePush, TypeOK
  <2>2. \A v \in Tabs : v # u => push'[v] = push[v]
    BY DEF ReceivePush, TypeOK
  <2> QED
    BY <1>0, <2>1, <2>2, ToSetTail
<1>2. push' \in [Tabs -> Seq(Ids)]
  BY <1>1 DEF ReceivePush, TypeOK
<1>3. /\ shown \in Seq(Ids) /\ IsInjective(shown)
      /\ ToSet(shown) = ToSet(tab[u].messages) \cup {i}
  <2> DEFINE s == tab[u].messages
  <2>1. s \in Seq(Ids) /\ IsInjective(s) /\ DOMAIN s = 1..Len(s) /\ Len(s) \in Nat
    BY LenProperties DEF TypeOK, Thread, NoDuplicates
  <2> HIDE DEF s, i
  <2>2. CASE Contains(s, i)
    <3>1. Shown(s, i) = s /\ i \in ToSet(s)
      BY <2>1, <2>2 DEF Shown, Contains, ToSet
    <3> QED
      BY <2>1, <3>1 DEF s
  <2>3. CASE ~Contains(s, i)
    <3>1. Shown(s, i) = Append(s, i)
      BY <2>3 DEF Shown
    <3>2. Append(s, i) \in Seq(Ids) /\ ToSet(Append(s, i)) = ToSet(s) \cup {i}
      BY <1>1, <2>1, ToSetAppend
    <3>3. IsInjective(Append(s, i))
      <4>1. /\ Len(Append(s, i)) = Len(s) + 1 /\ Append(s, i)[Len(s) + 1] = i
            /\ \A j \in 1..Len(s) : Append(s, i)[j] = s[j]
            /\ DOMAIN Append(s, i) = 1..Len(s) + 1
        BY <1>1, <2>1, <3>2, AppendProperties, LenProperties
      <4>2. \A j \in 1..Len(s) : s[j] # i
        BY <2>3 DEF Contains
      <4> QED
        BY <2>1, <4>1, <4>2 DEF IsInjective
    <3> QED
      BY <3>1, <3>2, <3>3 DEF s
  <2> QED
    BY <2>2, <2>3
<1>4. \A v \in Tabs : v # u => tab'[v] = tab[v] /\ load'[v] = load[v]
  BY DEF ReceivePush, TypeOK
<1>5. \/ /\ tab[u].mounted
         /\ tab'[u] = [tab[u] EXCEPT !.messages = shown] /\ load'[u] = Overtaken(u)
      \/ ~tab[u].mounted /\ tab' = tab /\ load' = load
  BY DEF ReceivePush, TypeOK
<1> HIDE DEF shown, i
<1>6. TypeOK'
  <2>1. tab' \in [Tabs -> Thread]
    <3>1. tab' = tab \/ tab' = [tab EXCEPT ![u].messages = shown]
      BY DEF ReceivePush, shown, i
    <3> QED
      BY <1>3, <3>1 DEF TypeOK, Thread
  <2>2. load' \in [Tabs -> [Loads -> Load]]
    BY OvertakenLoads DEF ReceivePush, TypeOK
  <2> QED
    BY <1>0, <1>2, <2>1, <2>2 DEF TypeOK
<1>7. \A v \in Tabs : IsInjective(tab'[v].messages) /\ tab'[v].mounted = tab[v].mounted
  BY <1>3, <1>4, <1>5 DEF NoDuplicates, TypeOK, Thread
<1>8. \A v \in Tabs : \/ ~tab[v].mounted /\ tab'[v] = tab[v] /\ ToSet(push'[v]) \subseteq ToSet(push[v])
                      \/ ToSet(tab'[v].messages) \cup ToSet(push'[v])
                           = ToSet(tab[v].messages) \cup ToSet(push[v])
  BY <1>1, <1>3, <1>4, <1>5 DEF TypeOK, Thread
<1>9. \A v \in Tabs, l \in Loads :
        /\ load'[v][l].stored = load[v][l].stored
        /\ load'[v][l] # load[v][l] => v = u /\ load'[v][l] = Overtaken(u)[l]
  BY <1>4, <1>5, OvertakenLoads
<1>10. NoDuplicates'
  BY <1>7 DEF NoDuplicates
<1>11. OnlyStored'
  BY <1>0, <1>9 DEF OnlyStored
<1>12. GoneIsEmpty'
  <2>1. ~tab[u].mounted => tab'[u] = tab[u] /\ load'[u] = load[u]
    BY <1>5
  <2> QED
    BY <1>4, <1>7, <2>1 DEF GoneIsEmpty
<1>13. OnlyReadable'
  BY <1>0, <1>8 DEF OnlyReadable
<1>14. ThreadsMissNothing'
  BY <1>0, <1>7, <1>8 DEF ThreadsMissNothing, UnderWay
<1>15. ListsMissNothing'
  <2>1. ASSUME NEW l \in Loads, load'[u][l].state = "ANSWERED"
        PROVE  load'[u][l].overtaken
    <3>1. CASE load'[u] = Overtaken(u)
      BY <2>1, <3>1, OvertakenLoads
    <3>2. CASE ~tab[u].mounted /\ load' = load
      BY <2>1, <3>2 DEF GoneIsEmpty, NoLoads, NoLoad
    <3> QED
      BY <1>5, <3>1, <3>2
  <2> QED
    BY <1>0, <1>1, <1>4, <2>1 DEF ListsMissNothing, UnderWay
<1> QED
  BY <1>6, <1>10, <1>11, <1>12, <1>13, <1>14, <1>15

\* Sending starts a post that has stored nothing; the button says what becomes of it.
LEMMA SendKeeps ==
  ASSUME IInv,
         \/ \E u \in Tabs : Send(u) \/ AnswerLost(u)
         \/ \E u \in Users : SendElsewhere(u)
  PROVE  IInv'
<1> USE SameReadable DEF IInv
<1>0. UNCHANGED <<message, load, socket, push, lapse>>
  BY DEF Send, AnswerLost, SendElsewhere
<1>1. /\ post' \in [Users -> {None, 0} \cup Ids]
      /\ \A v \in Users : post'[v] = post[v] \/ (post[v] = None /\ post'[v] = 0)
  BY ConversationAssumption DEF Send, AnswerLost, SendElsewhere, TypeOK
<1>2. /\ tab' \in [Tabs -> Thread]
      /\ \A v \in Tabs : /\ tab'[v].messages = tab[v].messages
                         /\ tab'[v].mounted = tab[v].mounted
                         /\ tab'[v] # tab[v] => tab[v].mounted \/ tab[v].send = "SENDING"
  <2>1. ASSUME NEW u \in Tabs, NEW button \in {"SENDING", "STUCK"},
               tab[u].mounted \/ tab[u].send = "SENDING",
               tab' = [tab EXCEPT ![u].send = button]
        PROVE  /\ tab' \in [Tabs -> Thread]
               /\ \A v \in Tabs : /\ tab'[v].messages = tab[v].messages
                                  /\ tab'[v].mounted = tab[v].mounted
                                  /\ tab'[v] # tab[v] => tab[v].mounted \/ tab[v].send = "SENDING"
    BY <2>1 DEF TypeOK, Thread
  <2> QED
    BY <2>1 DEF Send, AnswerLost, SendElsewhere, TypeOK
<1>3. \A i \in DOMAIN message : i # None /\ i # 0
  BY LenProperties, ConversationAssumption DEF TypeOK
<1>4. \A v \in Tabs : UnderWay(v) \cap DOMAIN message \subseteq UnderWay(v)'
  BY <1>0, <1>1, <1>3 DEF UnderWay
<1>5. TypeOK'
  BY <1>0, <1>1, <1>2 DEF TypeOK
<1>6. NoDuplicates'
  BY <1>2 DEF NoDuplicates
<1>7. OnlyStored'
  BY <1>0, <1>1 DEF OnlyStored
<1>8. GoneIsEmpty'
  BY <1>0, <1>2 DEF GoneIsEmpty, Unmounted
<1>9. OnlyReadable'
  BY <1>0, <1>2 DEF OnlyReadable
<1>10. ListsMissNothing'
  BY <1>0, <1>4 DEF ListsMissNothing, Readable
<1>11. ThreadsMissNothing'
  BY <1>0, <1>2, <1>4 DEF ThreadsMissNothing, Readable
<1> QED
  BY <1>5, <1>6, <1>7, <1>8, <1>9, <1>10, <1>11

\* when a tab loads the list again,
LEMMA ReloadKeeps ==
  ASSUME IInv, NEW u \in Tabs, Reload(u)
  PROVE  IInv'
<1> USE SameReadable DEF IInv
<1>0. UNCHANGED <<message, post, socket, push, lapse>> /\ tab[u].mounted
  BY DEF Reload, GoneIsEmpty, Unmounted
<1>1. /\ tab' \in [Tabs -> Thread]
      /\ \A v \in Tabs : /\ tab'[v].messages = tab[v].messages
                         /\ tab'[v].mounted = tab[v].mounted
                         /\ v # u => tab'[v] = tab[v]
  BY DEF Reload, TypeOK, Thread
<1>2. /\ load' \in [Tabs -> [Loads -> Load]]
      /\ \A v \in Tabs, l \in Loads :
           load'[v][l] = load[v][l] \/ (v = u /\ load'[v][l] = Asked(TRUE))
  BY AskedKeeps DEF Reload
<1>3. Asked(TRUE).state = "ASKED" /\ Asked(TRUE).stored = 0
  BY LoadValues
<1>4. \A v \in Tabs : v # u => load'[v] = load[v]
  BY DEF Reload, LoadAsked, TypeOK
<1> HIDE DEF Asked
<1>5. TypeOK'
  BY <1>0, <1>1, <1>2 DEF TypeOK
<1>6. NoDuplicates'
  BY <1>1 DEF NoDuplicates
<1>7. OnlyStored'
  BY <1>0, <1>2, <1>3, NothingIsStored DEF OnlyStored
<1>8. GoneIsEmpty'
  BY <1>0, <1>1, <1>4 DEF GoneIsEmpty
<1>9. OnlyReadable'
  BY <1>0, <1>1 DEF OnlyReadable
<1>10. ListsMissNothing'
  <2>1. \A v \in Tabs, l \in Loads :
          load'[v][l].state = "ANSWERED" => load'[v][l] = load[v][l]
    BY <1>2, <1>3
  <2> QED
    BY <1>0, <2>1 DEF ListsMissNothing, UnderWay
<1>11. ThreadsMissNothing'
  BY <1>0, <1>1 DEF ThreadsMissNothing, UnderWay
<1> QED
  BY <1>5, <1>6, <1>7, <1>8, <1>9, <1>10, <1>11

-----------------------------------------------------------------------------
(* The server *)

\* A list that has just been read lacks nothing.
LEMMA AnswerKeeps ==
  ASSUME IInv, NEW u \in Tabs, NEW l \in Loads, Answer(u, l)
  PROVE  IInv'
<1> USE SameReadable DEF IInv
<1>0. UNCHANGED <<message, post, tab, socket, push, lapse>> /\ load[u][l].state = "ASKED"
  BY DEF Answer
<1>1. Len(message) \in 0..MaxMessages /\ DOMAIN message = 1..Len(message)
  BY ConversationAssumption, LenProperties DEF TypeOK
<1>2. load' \in [Tabs -> [Loads -> Load]]
  <2>1. [load[u][l] EXCEPT !.state = "ANSWERED", !.stored = Len(message)] \in Load
    <3>1. load[u][l] \in Load
      BY DEF TypeOK
    <3> QED
      BY <1>1, <3>1 DEF Load
  <2> QED
    BY <2>1 DEF Answer, TypeOK
<1>3. \A v \in Tabs, j \in Loads :
        \/ load'[v][j] = load[v][j]
        \/ v = u /\ j = l /\ load'[v][j].stored = Len(message)
  BY DEF Answer, TypeOK
<1>4. \A v \in Tabs : v # u => load'[v] = load[v]
  BY DEF Answer, TypeOK
<1>5. tab[u].mounted
  BY <1>0 DEF GoneIsEmpty, NoLoads, NoLoad
<1>6. TypeOK'
  BY <1>0, <1>2 DEF TypeOK
<1>7. OnlyStored'
  BY <1>0, <1>1, <1>3 DEF OnlyStored
<1>8. GoneIsEmpty'
  BY <1>0, <1>4, <1>5 DEF GoneIsEmpty
<1>9. ListsMissNothing'
  <2>1. \A v \in Tabs : \A i \in Readable(v) : ~(i > Len(message))
    BY <1>1 DEF Readable
  <2> QED
    BY <1>0, <1>3, <2>1 DEF ListsMissNothing, UnderWay
<1> QED
  BY <1>0, <1>6, <1>7, <1>8, <1>9 DEF NoDuplicates, OnlyReadable, ThreadsMissNothing, UnderWay

\* A message that is stored is under way.
LEMMA StoreKeeps ==
  ASSUME IInv, NEW u \in Users, Store(u)
  PROVE  IInv'
<1> USE DEF IInv
<1>0. UNCHANGED <<tab, load, socket, push, lapse>> /\ post[u] = 0
  BY DEF Store
<1>1. Len(message) \in Nat /\ DOMAIN message = 1..Len(message) /\ 0 # None
  BY LenProperties, ConversationAssumption DEF TypeOK
<1>2. CASE post' = [post EXCEPT ![u] = None] /\ UNCHANGED message
  <2>1. /\ post' \in [Users -> {None, 0} \cup Ids]
        /\ \A v \in Users : post'[v] = post[v] \/ (post[v] = 0 /\ post'[v] = None)
    BY <1>0, <1>2 DEF TypeOK
  <2>2. \A v \in Tabs : UnderWay(v) \cap DOMAIN message \subseteq UnderWay(v)'
    BY <1>0, <1>1, <2>1 DEF UnderWay
  <2>3. \A v : Readable(v)' = Readable(v) /\ Readable(v) \subseteq DOMAIN message
    BY <1>2, SameReadable DEF Readable
  <2>4. TypeOK' /\ OnlyStored'
    BY <1>0, <1>2, <2>1 DEF TypeOK, OnlyStored
  <2>5. ListsMissNothing' /\ ThreadsMissNothing'
    BY <1>0, <2>2, <2>3 DEF ListsMissNothing, ThreadsMissNothing
  <2> QED
    BY <1>0, <2>3, <2>4, <2>5 DEF NoDuplicates, GoneIsEmpty, OnlyReadable
<1>3. ASSUME NEW m \in Messages, Len(message) < MaxMessages, message' = Append(message, m),
             post' = [post EXCEPT ![u] = Len(message')]
      PROVE  IInv'
  <2> DEFINE n == Len(message) + 1
  <2>1. /\ message' \in Seq(Messages) /\ Len(message') = n
        /\ \A i \in 1..Len(message) : message'[i] = message[i]
        /\ DOMAIN message' = 1..n
    BY <1>1, <1>3, AppendProperties, LenProperties DEF TypeOK
  <2>2. n \in Ids /\ Len(message') <= MaxMessages
    BY <1>1, <1>3, <2>1, ConversationAssumption DEF Ids
  <2>3. /\ post' \in [Users -> {None, 0} \cup Ids]
        /\ post'[u] = n
        /\ \A v \in Users : v # u => post'[v] = post[v]
    BY <1>3, <2>1, <2>2 DEF TypeOK
  <2>4. \A v \in Tabs : UnderWay(v) \cap DOMAIN message \subseteq UnderWay(v)' /\ n \in UnderWay(v)'
    BY <1>0, <1>1, <2>3 DEF UnderWay
  <2>5. \A v : Readable(v) \subseteq Readable(v)' /\ Readable(v)' \subseteq Readable(v) \cup {n}
               /\ Readable(v) \subseteq DOMAIN message
    BY <1>1, <2>1 DEF Readable, Visible
  <2>6. TypeOK'
    BY <1>0, <2>1, <2>2, <2>3 DEF TypeOK
  <2>7. OnlyStored'
    BY <1>0, <1>1, <2>1, <2>3 DEF OnlyStored
  <2>8. OnlyReadable'
    BY <1>0, <2>5 DEF OnlyReadable
  <2>9. ListsMissNothing'
    BY <1>0, <2>4, <2>5 DEF ListsMissNothing
  <2>10. ThreadsMissNothing'
    BY <1>0, <2>4, <2>5 DEF ThreadsMissNothing
  <2> QED
    BY <1>0, <2>6, <2>7, <2>8, <2>9, <2>10 DEF NoDuplicates, GoneIsEmpty
<1> QED
  BY <1>2, <1>3 DEF Store

\* A broadcast reaches the sockets in the room whose readers may see the message; for
\* the others it is a lapse.
LEMMA BroadcastKeeps ==
  ASSUME IInv, NEW u \in Users, Broadcast(u)
  PROVE  IInv'
<1> DEFINE i == post[u]
<1> USE SameReadable DEF IInv
<1>0. UNCHANGED <<message, tab, socket>> /\ i \in Ids
  BY DEF Broadcast
<1>1. i \in DOMAIN message /\ i \notin {None, 0}
  BY <1>0, ConversationAssumption DEF OnlyStored, Ids
<1>2. /\ post' \in [Users -> {None, 0} \cup Ids]
      /\ post'[u] = None /\ \A v \in Users : v # u => post'[v] = post[v]
  BY DEF Broadcast, TypeOK
<1>3. ASSUME NEW v \in Tabs
      PROVE  /\ push'[v] \in Seq(Ids)
             /\ ToSet(push[v]) \subseteq ToSet(push'[v])
             /\ ToSet(push'[v]) \subseteq ToSet(push[v]) \cup ({i} \cap Readable(v))
             /\ socket[v].inRoom /\ i \in Readable(v) => i \in ToSet(push'[v])
  <2>1. push[v] \in Seq(Ids)
    BY DEF TypeOK
  <2>2. Append(push[v], i) \in Seq(Ids) /\ ToSet(Append(push[v], i)) = ToSet(push[v]) \cup {i}
    BY <1>0, <2>1, ToSetAppend
  <2>3. push'[v] = IF socket[v].inRoom /\ PushedTo(v, message[i])
                   THEN Append(push[v], i) ELSE push[v]
    BY DEF Broadcast
  <2>4. PushedTo(v, message[i]) <=> i \in Readable(v)
    BY <1>1 DEF PushedTo, Readable
  <2> QED
    BY <2>1, <2>2, <2>3, <2>4
<1>4. \A v \in Tabs : lapse'[v] = (lapse[v] \/ ~socket[v].inRoom)
  BY DEF Broadcast
<1>5. \A v \in Tabs : load'[v] = IF socket[v].inRoom THEN load[v] ELSE Overtaken(v)
  BY DEF Broadcast
<1> HIDE DEF i
<1>6. TypeOK'
  <2>1. push' \in [Tabs -> Seq(Ids)] /\ lapse' \in [Tabs -> BOOLEAN]
    BY <1>3, <1>4 DEF Broadcast, TypeOK
  <2>2. load' \in [Tabs -> [Loads -> Load]]
    BY OvertakenLoads DEF Broadcast, TypeOK
  <2> QED
    BY <1>0, <1>2, <2>1, <2>2 DEF TypeOK
<1>7. \A v \in Tabs : socket[v].inRoom => UnderWay(v) \cap Readable(v) \subseteq UnderWay(v)'
  BY <1>2, <1>3 DEF UnderWay, i
<1>8. OnlyStored'
  BY <1>0, <1>2, <1>5, OvertakenLoads DEF OnlyStored
<1>9. GoneIsEmpty'
  <2>1. ASSUME NEW v \in Tabs, load[v] = NoLoads
        PROVE  Overtaken(v) = NoLoads
    BY <2>1, OvertakesNone
  <2> QED
    BY <1>0, <1>5, <2>1 DEF GoneIsEmpty
<1>10. OnlyReadable'
  BY <1>0, <1>3 DEF OnlyReadable
<1>11. ListsMissNothing'
  <2>1. ASSUME NEW v \in Tabs, NEW l \in Loads, ~socket[v].inRoom, load'[v][l].state = "ANSWERED"
        PROVE  load'[v][l].overtaken
    BY <1>5, <2>1, OvertakenLoads
  <2> QED
    BY <1>0, <1>5, <1>7, <2>1 DEF ListsMissNothing
<1>12. ThreadsMissNothing'
  BY <1>0, <1>4, <1>7 DEF ThreadsMissNothing
<1> QED
  BY <1>0, <1>6, <1>8, <1>9, <1>10, <1>11, <1>12 DEF NoDuplicates

\* Connecting, knowing the user and joining the room touch the socket only.
LEMMA SocketKeeps ==
  ASSUME IInv, NEW u \in Tabs, Connect(u) \/ Authenticate(u) \/ JoinOrder(u)
  PROVE  IInv'
<1> USE SameReadable DEF IInv
<1>0. UNCHANGED <<message, post, tab, load, push, lapse>>
  BY DEF Connect, Authenticate, JoinOrder
<1>1. socket' \in [Tabs -> Socket]
  <2>1. socket[u] \in Socket
    BY DEF TypeOK
  <2>2. CASE Connect(u)
    <3>1. PICK join \in {"NONE", "BUFFERED", "SENT"} :
            socket' = [socket EXCEPT ![u].state = "CONNECTED", ![u].join = join]
      <4>1. (IF socket[u].join = "BUFFERED" THEN "SENT" ELSE socket[u].join)
              \in {"NONE", "BUFFERED", "SENT"}
        BY <2>1 DEF Socket
      <4> QED
        BY <2>2, <4>1, Zenon DEF Connect
    <3> QED
      BY <3>1 DEF TypeOK, Socket
  <2>3. CASE Authenticate(u)
    BY <2>3 DEF Authenticate, TypeOK, Socket
  <2>4. CASE JoinOrder(u)
    <3>1. PICK inRoom \in BOOLEAN :
            socket' = [socket EXCEPT ![u].join = "NONE", ![u].inRoom = inRoom]
      <4>1. (socket[u].inRoom \/ socket[u].state = "READY") \in BOOLEAN
        OBVIOUS
      <4> QED
        BY <2>4, <4>1, Zenon DEF JoinOrder
    <3> QED
      BY <3>1 DEF TypeOK, Socket
  <2> QED
    BY <2>2, <2>3, <2>4
<1>2. TypeOK'
  BY <1>0, <1>1 DEF TypeOK
<1> QED
  BY <1>0, <1>2 DEF NoDuplicates, OnlyStored, GoneIsEmpty, OnlyReadable, ListsMissNothing,
                    ThreadsMissNothing, UnderWay

\* A lost connection loses what was pushed, which is a lapse.
LEMMA DisconnectKeeps ==
  ASSUME IInv, NEW u \in Tabs, Disconnect(u)
  PROVE  IInv'
<1> USE SameReadable DEF IInv
<1>0. UNCHANGED <<message, post, tab>>
  BY DEF Disconnect
<1>1. /\ push'[u] = <<>> /\ push' \in [Tabs -> Seq(Ids)]
      /\ \A v \in Tabs : v # u => push'[v] = push[v] /\ lapse'[v] = lapse[v] /\ load'[v] = load[v]
  BY EmptySeq DEF Disconnect, TypeOK
<1>2. /\ lapse' \in [Tabs -> BOOLEAN]
      /\ lapse'[u] = (lapse[u] \/ push[u] # <<>>)
      /\ load'[u] = IF push[u] # <<>> THEN Overtaken(u) ELSE load[u]
  BY DEF Disconnect, TypeOK
<1>3. TypeOK'
  <2>1. socket' \in [Tabs -> Socket]
    BY ConversationAssumption DEF Disconnect, TypeOK, Socket
  <2>2. load' \in [Tabs -> [Loads -> Load]]
    BY OvertakenLoads DEF Disconnect, TypeOK
  <2> QED
    BY <1>0, <1>1, <1>2, <2>1, <2>2 DEF TypeOK
<1>4. OnlyStored'
  BY <1>0, <1>1, <1>2, OvertakenLoads DEF OnlyStored
<1>5. GoneIsEmpty'
  <2>1. ASSUME load[u] = NoLoads
        PROVE  Overtaken(u) = NoLoads
    BY <2>1, OvertakesNone
  <2> QED
    BY <1>0, <1>1, <1>2, <2>1 DEF GoneIsEmpty
<1>6. OnlyReadable'
  BY <1>0, <1>1, ToSetEmpty DEF OnlyReadable
<1>7. ListsMissNothing'
  <2>1. ASSUME push[u] # <<>>, NEW l \in Loads, load'[u][l].state = "ANSWERED"
        PROVE  load'[u][l].overtaken
    BY <1>2, <2>1, OvertakenLoads
  <2> QED
    BY <1>0, <1>1, <1>2, <2>1 DEF ListsMissNothing, UnderWay
<1>8. ThreadsMissNothing'
  BY <1>0, <1>1, <1>2 DEF ThreadsMissNothing, UnderWay
<1> QED
  BY <1>0, <1>3, <1>4, <1>5, <1>6, <1>7, <1>8 DEF NoDuplicates

-----------------------------------------------------------------------------
(* The theorems *)

\* Every step keeps it.
LEMMA StepKeeps ==
  ASSUME IInv, [Next]_vars
  PROVE  IInv'
<1>1. CASE UNCHANGED vars
  BY <1>1, SameReadable
  DEF vars, IInv, TypeOK, NoDuplicates, OnlyStored, GoneIsEmpty, OnlyReadable, ListsMissNothing,
      ThreadsMissNothing, UnderWay
<1>2. ASSUME NEW u \in Tabs, Browser(u)
      PROVE  IInv'
  BY <1>2, MountKeeps, UnmountKeeps, SendKeeps, ReloadKeeps, PushKeeps, ListKeeps, LossKeeps DEF Browser
<1>3. ASSUME NEW u \in Tabs, Gateway(u)
      PROVE  IInv'
  BY <1>3, SocketKeeps, DisconnectKeeps DEF Gateway
<1>4. ASSUME NEW u \in Users, Store(u) \/ Broadcast(u)
      PROVE  IInv'
  BY <1>4, StoreKeeps, BroadcastKeeps
<1>5. ASSUME NEW u \in Users \ Tabs, SendElsewhere(u)
      PROVE  IInv'
  BY <1>5, SendKeeps
<1> QED
  BY <1>1, <1>2, <1>3, <1>4, <1>5, AnswerKeeps, Zenon DEF Next

\* The invariant holds in every state.
THEOREM Inductive == Spec => []IInv
<1>1. Init => IInv
  BY InitHolds
<1>2. IInv /\ [Next]_vars => IInv'
  BY StepKeeps
<1> QED
  BY <1>1, <1>2, PTL DEF Spec

\* However lists, pushes and the list after a send overlap, for any number of them, no
\* message is shown twice.
THEOREM OnceSafe == Spec => []NoDuplicates
<1>1. IInv => NoDuplicates
  BY DEF IInv
<1> QED
  BY <1>1, Inductive, PTL

\* Whatever the roles of those who read and write: neither way brings a reader a
\* message she may not see.
THEOREM VisibleSafe == Spec => []OnlyVisibleShown
<1>1. IInv => OnlyVisibleShown
  BY DEF IInv, OnlyReadable, Readable, OnlyVisibleShown
<1> QED
  BY <1>1, Inductive, PTL

\* What a thread shows without a lapse is all its reader may see, as soon as nothing
\* is under way: messages are lost at the known gaps only.
THEOREM CompleteSafe == Spec => []SettledThreadIsComplete
<1>1. IInv => SettledThreadIsComplete
  <2> SUFFICES ASSUME IInv, NEW u \in Tabs, Settled(u), ~lapse[u]
               PROVE  ToSet(tab[u].messages) = Readable(u)
    BY DEF SettledThreadIsComplete, Readable
  <2>1. ToSet(push[u]) = {}
    BY ToSetEmpty DEF Settled
  <2>2. DOMAIN message \subseteq Ids
    BY LenProperties, ConversationAssumption DEF IInv, TypeOK, Ids
  <2>3. UnderWay(u) \cap Readable(u) = {}
    BY <2>1, <2>2 DEF UnderWay, Readable, Settled
  <2>4. Readable(u) \subseteq ToSet(tab[u].messages) \cup UnderWay(u)
    BY DEF IInv, ThreadsMissNothing, Settled
  <2>5. ToSet(tab[u].messages) \subseteq Readable(u)
    BY DEF IInv, OnlyReadable
  <2> QED
    BY <2>3, <2>4, <2>5
<1> QED
  BY <1>1, Inductive, PTL

-----------------------------------------------------------------------------
(* What keeps a thread in its room *)

\* A mounted thread is in its order's room, or will ask to be let in.
InRoomOrJoining(u) == tab[u].mounted => socket[u].inRoom \/ socket[u].join # "NONE"

\* A socket's join reaches the server before its user is known there.
JoinsTooEarly(u) == JoinOrder(u) /\ socket[u].state # "READY"

\* Whatever the browsers and the server do: no other step takes a thread out.
LEMMA StepKeepsRoom ==
  ASSUME TypeOK, Next, NEW u \in Tabs, InRoomOrJoining(u), ~Disconnect(u), ~JoinsTooEarly(u)
  PROVE  InRoomOrJoining(u)'
<1> USE DEF InRoomOrJoining
<1>1. ASSUME UNCHANGED socket, tab'[u].mounted = tab[u].mounted
      PROVE  InRoomOrJoining(u)'
  BY <1>1
<1>2. ASSUME NEW v \in Tabs, Mount(v)
      PROVE  InRoomOrJoining(u)'
  <2>1. CASE v = u
    <3>1. socket'[u].join # "NONE"
      BY <1>2, <2>1 DEF Mount, TypeOK, Socket
    <3> QED
      BY <3>1
  <2>2. CASE v # u
    BY <1>2, <2>2 DEF Mount, TypeOK
  <2> QED
    BY <2>1, <2>2
<1>3. ASSUME NEW v \in Tabs, Unmount(v)
      PROVE  InRoomOrJoining(u)'
  BY <1>3 DEF Unmount, Unmounted, TypeOK
<1>4. ASSUME NEW v \in Tabs, NEW l \in Loads, ReceiveList(v, l) \/ ReceiveError(v, l)
      PROVE  InRoomOrJoining(u)'
  <2>1. PICK list : Answered(v, l, list)
    BY <1>4 DEF ReceiveList, ReceiveError
  <2>2. UNCHANGED socket
    BY <2>1 DEF Answered
  <2>3. PICK send : tab' = [tab EXCEPT ![v].messages = list, ![v].send = send]
    <3> DEFINE send == IF load[v][l].awaited THEN "IDLE" ELSE tab[v].send
    <3>1. tab' = [tab EXCEPT ![v].messages = list, ![v].send = send]
      BY <2>1 DEF Answered, TypeOK, Thread
    <3> QED
      BY <3>1
  <2>4. tab'[u].mounted = tab[u].mounted
    BY <2>3 DEF TypeOK, Thread
  <2> QED
    BY <1>1, <2>2, <2>4
<1>4a. ASSUME NEW v \in Tabs, NEW l \in Loads, LoseList(v, l)
       PROVE  InRoomOrJoining(u)'
  <2>1. PICK send : tab' = [tab EXCEPT ![v].send = send]
    <3>1. \/ tab' = [tab EXCEPT ![v].send = "STUCK"]
          \/ tab' = [tab EXCEPT ![v].send = tab[v].send]
      BY <1>4a DEF LoseList
    <3> QED
      BY <3>1
  <2>2. UNCHANGED socket /\ tab'[u].mounted = tab[u].mounted
    BY <1>4a, <2>1 DEF LoseList, TypeOK, Thread
  <2> QED
    BY <1>1, <2>2
<1>5. ASSUME NEW v \in Tabs, ReceivePush(v)
      PROVE  InRoomOrJoining(u)'
  <2>1. CASE tab[v].mounted
    <3>1. PICK list : tab' = [tab EXCEPT ![v].messages = list]
      BY <1>5, <2>1 DEF ReceivePush
    <3> QED
      BY <1>1, <1>5, <3>1 DEF ReceivePush, TypeOK, Thread
  <2>2. CASE ~tab[v].mounted
    BY <1>1, <1>5, <2>2 DEF ReceivePush
  <2> QED
    BY <2>1, <2>2
<1>6. ASSUME NEW v \in Tabs, Send(v) \/ Reload(v) \/ AnswerLost(v)
      PROVE  InRoomOrJoining(u)'
  <2>1. PICK send : tab' = [tab EXCEPT ![v].send = send]
    <3>1. \/ tab' = [tab EXCEPT ![v].send = "SENDING"]
          \/ tab' = [tab EXCEPT ![v].send = "RELOADING"]
          \/ tab' = [tab EXCEPT ![v].send = "STUCK"]
      BY <1>6, Zenon DEF Send, Reload, AnswerLost
    <3> QED
      BY <3>1
  <2>2. UNCHANGED socket
    BY <1>6, Zenon DEF Send, Reload, AnswerLost
  <2>3. tab'[u].mounted = tab[u].mounted
    BY <2>1 DEF TypeOK, Thread
  <2> QED
    BY <1>1, <2>2, <2>3
<1>7. ASSUME NEW v \in Tabs, Connect(v) \/ Authenticate(v)
      PROVE  InRoomOrJoining(u)'
  <2>1. UNCHANGED tab
    BY <1>7 DEF Connect, Authenticate
  <2>2. /\ socket'[u].inRoom = socket[u].inRoom
        /\ socket[u].join # "NONE" => socket'[u].join # "NONE"
    <3>1. CASE Connect(v)
      <4>1. PICK join : /\ socket' = [socket EXCEPT ![v].state = "CONNECTED", ![v].join = join]
                        /\ socket[v].join # "NONE" => join # "NONE"
        <5>1. socket[v].join # "NONE"
                => (IF socket[v].join = "BUFFERED" THEN "SENT" ELSE socket[v].join) # "NONE"
          OBVIOUS
        <5> QED
          BY <3>1, <5>1, Zenon DEF Connect
      <4> QED
        BY <4>1 DEF TypeOK, Socket
    <3>2. CASE Authenticate(v)
      BY <3>2 DEF Authenticate, TypeOK, Socket
    <3> QED
      BY <1>7, <3>1, <3>2
  <2> QED
    BY <2>1, <2>2
<1>8. ASSUME NEW v \in Tabs, JoinOrder(v)
      PROVE  InRoomOrJoining(u)'
  <2>1. CASE v = u
    BY <1>8, <2>1 DEF JoinOrder, JoinsTooEarly, TypeOK, Socket
  <2>2. CASE v # u
    BY <1>8, <2>2 DEF JoinOrder, TypeOK
  <2> QED
    BY <2>1, <2>2
<1>9. ASSUME NEW v \in Tabs, Disconnect(v)
      PROVE  InRoomOrJoining(u)'
  BY <1>9 DEF Disconnect, TypeOK
<1>10. ASSUME NEW v \in Tabs, NEW l \in Loads, Answer(v, l)
       PROVE  InRoomOrJoining(u)'
  BY <1>1, <1>10 DEF Answer
<1>11. ASSUME NEW v \in Users, SendElsewhere(v) \/ Store(v) \/ Broadcast(v)
       PROVE  InRoomOrJoining(u)'
  BY <1>1, <1>11 DEF SendElsewhere, Store, Broadcast
<1> HIDE DEF InRoomOrJoining
<1> QED
  BY <1>2, <1>3, <1>4, <1>5, <1>6, <1>7, <1>8, <1>9, <1>10, <1>11, <1>4a,
     Zenon DEF Next, Browser, Gateway

\* JoinedWhileMounted fails in two ways and no others: a thread is not in its order's
\* room, and has not asked to be let in, only since its connection was lost, or since
\* its join arrived before the server knew who had connected.  Mounting, sending,
\* reloading, and whatever other readers do, leave it where it is.
THEOREM RoomIsLost ==
  Spec =>
    /\ \A u \in Tabs :
         [][InRoomOrJoining(u) /\ ~InRoomOrJoining(u)' => Disconnect(u) \/ JoinsTooEarly(u)]_vars
    /\ []((\A u \in Tabs : InRoomOrJoining(u)) => JoinedWhileMounted)
<1>1. ASSUME NEW u \in Tabs
      PROVE  Spec => [][InRoomOrJoining(u) /\ ~InRoomOrJoining(u)'
                          => Disconnect(u) \/ JoinsTooEarly(u)]_vars
  <2>1. TypeOK /\ [Next]_vars
          => [InRoomOrJoining(u) /\ ~InRoomOrJoining(u)'
                => Disconnect(u) \/ JoinsTooEarly(u)]_vars
    BY StepKeepsRoom
  <2>2. IInv => TypeOK
    BY DEF IInv
  <2> QED
    BY <2>1, <2>2, Inductive, PTL DEF Spec
<1>2. (\A u \in Tabs : InRoomOrJoining(u)) => JoinedWhileMounted
  BY DEF InRoomOrJoining, JoinedWhileMounted
<1>3. Spec => []((\A u \in Tabs : InRoomOrJoining(u)) => JoinedWhileMounted)
  BY <1>2, PTL
<1> QED
  BY <1>1, <1>3
=============================================================================
