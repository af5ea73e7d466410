--------------------------- MODULE ClipServerProofs ----------------------------
(***************************************************************************)
(* ClipServer keeps Mailbox's promise, for any number of processes and of  *)
(* slots.  That texts come in the order in which they were copied hangs on *)
(* three things: the queue is served from its head, one connection is      *)
(* accepted in a round, and the slots of a round are those that had        *)
(* something to be read at its beginning, before the connection accepted.  *)
(***************************************************************************)
EXTENDS ClipServer, SequenceTheorems, FiniteSetTheorems, WellFoundedInduction, TLAPS

(* A finite set of numbers has a smallest one: a subset without one would   *)
(* have a smaller one without.                                              *)
LEMMA MinExists ==
  ASSUME NEW S, S \subseteq Int, IsFiniteSet(S), S # {}
  PROVE  Min(S) \in S /\ \A y \in S : Min(S) <= y
<1> DEFINE HasMin(A) == \E x \in A : \A y \in A : x <= y
           T == {A \in SUBSET S : A # {} /\ ~HasMin(A)}
           R == StrictSubsetOrdering(S)
<1>1. HasMin(S)
  <2> SUFFICES ASSUME ~HasMin(S) PROVE FALSE
    OBVIOUS
  <2>1. IsWellFoundedOn(R, SUBSET S)
    BY FS_StrictSubsetOrderingWellFounded, FS_FiniteSubsetsOfFinite
  <2>2. S \in T /\ T \subseteq SUBSET S
    OBVIOUS
  <2> HIDE DEF R, T, HasMin
  <2>3. PICK A \in T : \A B \in T : ~(<<B, A>> \in R)
    BY <2>1, <2>2, WFMin
  <2>4. A \in SUBSET S /\ A # {} /\ ~HasMin(A)
    BY <2>3 DEF T
  <2>5. PICK a \in A : TRUE
    BY <2>4
  <2> DEFINE B == A \ {a}
  <2>6. B \notin T
    BY <2>3, <2>4, <2>5 DEF R, StrictSubsetOrdering
  <2>7. CASE B = {}
    <3>1. HasMin(A)
      BY <2>4, <2>5, <2>7 DEF HasMin
    <3> QED
      BY <2>4, <3>1
  <2>8. CASE B # {}
    <3>1. HasMin(B)
      BY <2>4, <2>6, <2>8 DEF T
    <3>2. PICK b \in B : \A y \in B : b <= y
      BY <3>1 DEF HasMin
    <3>3. a \in Int /\ b \in Int /\ b \in A /\ A \subseteq Int
      BY <2>4, <2>5, <3>2
    <3>4. CASE a <= b
      <4>1. \A y \in A : a <= y
        BY <3>2, <3>3, <3>4
      <4> QED
        BY <2>4, <2>5, <4>1 DEF HasMin
    <3>5. CASE ~(a <= b)
      <4>1. \A y \in A : b <= y
        BY <3>2, <3>3, <3>5
      <4> QED
        BY <2>4, <3>3, <4>1 DEF HasMin
    <3> QED
      BY <3>4, <3>5
  <2> QED
    BY <2>7, <2>8
<1> QED
  BY <1>1 DEF Min


(* Where a process is tells what it has done. *)
Course ==
  \A u \in Updaters :
    /\ phase[u] \in {"none", "copied"} => sent[u] = 0 /\ u \notin Connected /\ u \notin adrift
    /\ phase[u] = "done" => sent[u] = Parts
    /\ u \in ToSet(given) => sent[u] = Parts

(* What the round still has to do, or one that lost the session has left.   *)
Round ==
  /\ queue \in Seq(Updaters) /\ given \in Seq(Updaters) /\ adrift \subseteq Updaters
  /\ monDue => pc \in {"poll", "mon"} /\ queue # <<>>
  /\ pc \in {"setup", "main", "exited"} \/ (pc = "poll" /\ connected) => due = {}
  /\ pc = "slots" => due # {}
  /\ \A i \in due : slot[i] # Free

(* u was over when v was copied: u is before v in the queue, in the slots   *)
(* only with v not yet being served, and served before that, and never      *)
(* behind it.                                                               *)
Before(u, v) ==
  /\ phase[u] = "done" /\ phase[v] # "none"
  /\ \A i, j \in DOMAIN queue : queue[i] = u /\ queue[j] = v => i < j
  /\ \A i \in 1..Slots : slot[i] = v =>
       /\ u \notin ToSet(queue)
       /\ \A j \in 1..Slots : slot[j] = u => pc = "slots" /\ j \in due /\ i \notin due
  /\ monDue /\ queue[1] = v => \A j \in 1..Slots : slot[j] = u => j \in due
  /\ v \in ToSet(given) => u \notin Connected
Order == \A v \in Updaters : \A u \in older[v] : Before(u, v)

IInv == TypeOK /\ Course /\ Round /\ Order

USE BigAssumption, SizesAssumption, FaultAssumption, FreeAssumption

-----------------------------------------------------------------------------
LEMMA InitIInv == Init => IInv
<1> SUFFICES ASSUME Init PROVE IInv
  OBVIOUS
<1> USE DEF Init
<1>1. ToSet(queue) = {} /\ ToSet(given) = {} /\ Connected = {} /\ Len(queue) = 0
  BY DEF ToSet, Connected
<1>2. ValuesOK
  <2>1. monitor \in BOOLEAN /\ monDue \in BOOLEAN
    BY Zenon
  <2>2. sent \in [Updaters -> 0..Parts] /\ read \in [Updaters -> 0..Parts] /\ restarts \in 0..MaxRestarts
    BY DEF Parts
  <2> QED
    BY <2>1, <2>2 DEF ValuesOK, Phases, Points
<1>3. OnePlace
  BY <1>1 DEF OnePlace, IsInjective
<1>4. Course /\ Round
  BY <1>1 DEF Course, Round
<1>5. Order
  BY DEF Order
<1> QED
  BY <1>2, <1>3, <1>4, <1>5 DEF IInv, TypeOK

(* The members of a slot, of the queue and of what was given. *)
LEMMA QueueFacts ==
  ASSUME NEW s \in Seq(Updaters)
  PROVE  /\ DOMAIN s = 1..Len(s) /\ Len(s) \in Nat
         /\ \A i \in DOMAIN s : s[i] \in Updaters
         /\ ToSet(s) \subseteq Updaters
         /\ \A x : x \in ToSet(s) <=> \E i \in DOMAIN s : s[i] = x
BY DEF ToSet

LEMMA AppendFacts ==
  ASSUME NEW s \in Seq(Updaters), NEW u \in Updaters
  PROVE  /\ Append(s, u) \in Seq(Updaters)
         /\ Len(Append(s, u)) = Len(s) + 1
         /\ \A i \in DOMAIN s : Append(s, u)[i] = s[i]
         /\ Append(s, u)[Len(s) + 1] = u
         /\ DOMAIN Append(s, u) = DOMAIN s \cup {Len(s) + 1}
         /\ ToSet(Append(s, u)) = ToSet(s) \cup {u}
<1>1. /\ Append(s, u) \in Seq(Updaters)
      /\ Len(Append(s, u)) = Len(s) + 1
      /\ \A i \in DOMAIN s : Append(s, u)[i] = s[i]
      /\ Append(s, u)[Len(s) + 1] = u
      /\ DOMAIN Append(s, u) = DOMAIN s \cup {Len(s) + 1}
  BY AppendProperties
<1> DEFINE t == Append(s, u)
<1> HIDE DEF t
<1>2. ToSet(t) = ToSet(s) \cup {u}
  BY <1>1 DEF ToSet, t
<1> QED
  BY <1>1, <1>2 DEF t

LEMMA TailFacts ==
  ASSUME NEW s \in Seq(Updaters), s # <<>>, IsInjective(s)
  PROVE  /\ Head(s) = s[1] /\ Head(s) \in Updaters /\ 1 \in DOMAIN s
         /\ Tail(s) \in Seq(Updaters) /\ Len(Tail(s)) = Len(s) - 1
         /\ \A i \in DOMAIN Tail(s) : i + 1 \in DOMAIN s /\ Tail(s)[i] = s[i + 1]
         /\ IsInjective(Tail(s))
         /\ ToSet(Tail(s)) = ToSet(s) \ {Head(s)}
<1>1. /\ Head(s) = s[1] /\ Head(s) \in Updaters
      /\ Tail(s) \in Seq(Updaters) /\ Len(Tail(s)) = Len(s) - 1
      /\ Len(s) \in Nat /\ Len(s) > 0
  BY HeadTailProperties
<1>2. DOMAIN s = 1..Len(s) /\ DOMAIN Tail(s) = 1..Len(s) - 1
  BY <1>1
<1>3. \A i \in DOMAIN Tail(s) : Tail(s)[i] = s[i + 1]
  BY <1>1, <1>2, HeadTailProperties
<1> DEFINE t == Tail(s)
           h == Head(s)
<1> HIDE DEF t, h
<1>4. IsInjective(t)
  BY <1>2, <1>3 DEF IsInjective, t
<1>5. ToSet(t) = ToSet(s) \ {h}
  <2>1. ASSUME NEW x \in ToSet(t) PROVE x \in ToSet(s) \ {h}
    <3>1. PICK i \in DOMAIN t : t[i] = x
      BY DEF ToSet
    <3>2. i + 1 \in DOMAIN s /\ s[i + 1] = x /\ 1 \in DOMAIN s /\ i + 1 # 1
      BY <1>1, <1>2, <1>3, <3>1 DEF t
    <3> QED
      BY <1>1, <3>2 DEF ToSet, IsInjective, h
  <2>2. ASSUME NEW x \in ToSet(s) \ {h} PROVE x \in ToSet(t)
    <3>1. PICK i \in DOMAIN s : s[i] = x
      BY DEF ToSet
    <3>2. i # 1
      BY <1>1, <2>2, <3>1 DEF h
    <3>3. i - 1 \in DOMAIN t /\ t[i - 1] = s[(i - 1) + 1] /\ (i - 1) + 1 = i
      BY <1>1, <1>2, <1>3, <3>1, <3>2 DEF t
    <3> QED
      BY <3>1, <3>3 DEF ToSet
  <2> QED
    BY <2>1, <2>2
<1> QED
  BY <1>1, <1>2, <1>3, <1>4, <1>5 DEF t, h

(* A slot the round still has to serve, and one that is free. *)
LEMMA AtIsDue == IInv /\ due # {} => At \in due /\ At \in 1..Slots /\ slot[At] \in Updaters
<1> SUFFICES ASSUME IInv, due # {} PROVE At \in due /\ At \in 1..Slots /\ slot[At] \in Updaters
  OBVIOUS
<1>1. due \subseteq 1..Slots
  BY DEF IInv, TypeOK, ValuesOK
<1>2. IsFiniteSet(due) /\ due \subseteq Int
  <2>1. IsFiniteSet(1..Slots)
    BY FS_Interval
  <2>2. IsFiniteSet(due)
    BY <1>1, <2>1, FS_Subset
  <2> QED
    BY <1>1, <2>2
<1>3. At \in due
  BY <1>2, MinExists DEF At
<1> QED
  BY <1>1, <1>3 DEF IInv, TypeOK, ValuesOK, Round

LEMMA FirstFree == FreeSlots # {} => Min(FreeSlots) \in 1..Slots /\ slot[Min(FreeSlots)] = Free
<1> SUFFICES ASSUME FreeSlots # {} PROVE Min(FreeSlots) \in FreeSlots
  BY DEF FreeSlots
<1>1. FreeSlots \subseteq 1..Slots
  BY DEF FreeSlots
<1>2. IsFiniteSet(FreeSlots) /\ FreeSlots \subseteq Int
  <2>1. IsFiniteSet(1..Slots)
    BY FS_Interval
  <2>2. IsFiniteSet(FreeSlots)
    BY <1>1, <2>1, FS_Subset
  <2> QED
    BY <1>1, <2>2
<1> QED
  BY <1>2, MinExists

-----------------------------------------------------------------------------
(* clip-update *)

LEMMA CopyStep == ASSUME IInv, NEW u \in Updaters, Copy(u) PROVE IInv'
<1> USE DEF Copy, procs, conns, prog, revents
<1>1. ValuesOK'
  BY DEF IInv, TypeOK, ValuesOK, Phases
<1>2. Connected' = Connected
  BY DEF Connected
<1>3. OnePlace'
  BY <1>2 DEF IInv, TypeOK, OnePlace
<1>4. \A v \in Updaters : phase'[v] = IF v = u THEN "copied" ELSE phase[v]
  BY DEF IInv, TypeOK, ValuesOK
<1>5. Course'
  BY <1>2, <1>4 DEF IInv, Course, Parts
<1>6. Round'
  BY DEF IInv, Round
<1>7. ASSUME NEW v \in Updaters, NEW w \in older'[v] PROVE Before(w, v)'
  <2>1. CASE v = u
    <3>1. older'[v] = {x \in Updaters : phase[x] = "done"}
      BY <2>1 DEF IInv, TypeOK, ValuesOK
    <3>2. v \notin Connected /\ v \notin ToSet(given) /\ w # v /\ phase[w] = "done"
      BY <2>1, <3>1, <1>7 DEF IInv, Course, Parts
    <3>3. v \notin ToSet(queue) /\ \A i \in 1..Slots : slot[i] # v
      BY <3>2 DEF Connected
    <3>4. \A i \in DOMAIN queue : queue[i] # v
      BY <3>3 DEF ToSet
    <3>5. monDue => queue[1] # v
      BY <3>4, QueueFacts DEF IInv, Round
    <3> QED
      BY <1>4, <2>1, <3>1, <3>2, <3>3, <3>4, <3>5 DEF Before
  <2>2. CASE v # u
    <3>1. w \in older[v] /\ Before(w, v)
      BY <2>2 DEF IInv, TypeOK, ValuesOK, Order
    <3>2. w \in Updaters /\ w # u
      BY <3>1 DEF IInv, TypeOK, ValuesOK, Before
    <3> QED
      BY <1>2, <1>4, <2>2, <3>1, <3>2 DEF Before
  <2> QED
    BY <2>1, <2>2
<1> QED
  BY <1>1, <1>3, <1>5, <1>6, <1>7 DEF IInv, TypeOK, Order

LEMMA ConnectStep == ASSUME IInv, NEW u \in Updaters, Connect(u) PROVE IInv'
<1> USE DEF prog, revents
<1>0. /\ phase[u] = "copied" /\ sent[u] = 0 /\ u \notin Connected /\ u \notin adrift /\ u \notin ToSet(given)
      /\ u \notin ToSet(queue) /\ \A i \in 1..Slots : slot[i] # u
      /\ read[u] = 0
  <2>1. phase[u] = "copied" /\ sent[u] = 0 /\ u \notin Connected /\ u \notin adrift /\ u \notin ToSet(given)
    BY DEF Connect, IInv, Course, Parts
  <2>2. read[u] = 0
    BY <2>1 DEF IInv, TypeOK, ValuesOK, OnePlace, Parts
  <2> QED
    BY <2>1, <2>2 DEF Connected
<1>1. /\ UNCHANGED <<sent, older, read, slot, pc, connected, monitor, monDue, due, given, restarts>>
      /\ phase' \in [Updaters -> Phases] /\ phase'[u] \in {"writing", "dead"}
      /\ \A v \in Updaters : v # u => phase'[v] = phase[v]
  BY DEF Connect, IInv, TypeOK, ValuesOK, Phases
<1>2. \/ queue' = queue /\ adrift' = adrift
      \/ queue' = queue /\ adrift' = adrift \cup {u}
      \/ /\ pc # "setup" /\ Len(queue) < Backlog
         /\ queue' = Append(queue, u) /\ adrift' = adrift
  BY DEF Connect
<1>3. ValuesOK'
  BY <1>1 DEF IInv, TypeOK, ValuesOK
<1>4. /\ queue' \in Seq(Updaters) /\ IsInjective(queue') /\ Len(queue') <= Backlog
      /\ ToSet(queue') \subseteq ToSet(queue) \cup {u}
      /\ ToSet(queue) \subseteq ToSet(queue')
      /\ ToSet(queue') = ToSet(queue) \cup {u} => u \notin adrift'
      /\ DOMAIN queue \subseteq DOMAIN queue' /\ \A i \in DOMAIN queue : queue'[i] = queue[i] /\ queue[i] # u
      /\ \A i \in DOMAIN queue' : i \notin DOMAIN queue => queue'[i] = u /\ \A j \in DOMAIN queue : j < i
  <2>1. queue \in Seq(Updaters) /\ IsInjective(queue) /\ Len(queue) <= Backlog
    BY DEF IInv, TypeOK, OnePlace, Round
  <2>2. \A i \in DOMAIN queue : queue[i] # u
    BY <1>0, <2>1, QueueFacts
  <2>3. CASE queue' = queue
    BY <1>0, <2>1, <2>2, <2>3
  <2>4. CASE queue' = Append(queue, u) /\ Len(queue) < Backlog /\ adrift' = adrift
    <3>1. /\ queue' \in Seq(Updaters)
          /\ Len(queue') = Len(queue) + 1
          /\ \A i \in DOMAIN queue : queue'[i] = queue[i]
          /\ queue'[Len(queue) + 1] = u
          /\ DOMAIN queue' = DOMAIN queue \cup {Len(queue) + 1}
          /\ ToSet(queue') = ToSet(queue) \cup {u}
      BY <2>1, <2>4, AppendFacts
    <3>2. DOMAIN queue = 1..Len(queue) /\ Len(queue) \in Nat
      BY <2>1
    <3>3. IsInjective(queue')
      BY <2>1, <2>2, <3>1, <3>2 DEF IsInjective
    <3> QED
      BY <1>0, <2>1, <2>2, <2>4, <3>1, <3>2, <3>3
  <2> QED
    BY <1>2, <2>3, <2>4
<1>5. /\ Connected \subseteq Connected' /\ Connected' \subseteq Connected \cup {u}
      /\ u \in Connected' => u \notin adrift'
      /\ adrift \subseteq adrift' /\ adrift' \subseteq adrift \cup {u}
  <2>1. u \in Connected' => u \in ToSet(queue')
    BY <1>0, <1>1 DEF Connected
  <2>2. u \in ToSet(queue') => u \notin adrift'
    BY <1>0, <1>2, <1>4
  <2> QED
    BY <1>1, <1>2, <1>4, <2>1, <2>2 DEF Connected
<1>6. OnePlace'
  <2>1. \A i \in 1..Slots : slot[i] \notin ToSet(queue')
    BY <1>0, <1>4 DEF IInv, TypeOK, OnePlace
  <2>2. adrift' \cap Connected' = {} /\ ToSet(given) \cap Connected' = {}
    BY <1>0, <1>5 DEF IInv, TypeOK, OnePlace
  <2>3. \A v \in Updaters : read[v] <= sent[v] /\ (v \in ToSet(queue') => read[v] = 0)
    BY <1>0, <1>4 DEF IInv, TypeOK, OnePlace
  <2> QED
    BY <1>1, <1>4, <2>1, <2>2, <2>3 DEF IInv, TypeOK, OnePlace
<1>7. Course'
  BY <1>0, <1>1, <1>5 DEF IInv, Course, Parts
<1>8. Round'
  <2>1. queue # <<>> => queue' # <<>>
    BY <1>2, <1>4, AppendProperties DEF IInv, Round
  <2>2. adrift' \subseteq Updaters
    BY <1>5 DEF IInv, Round
  <2> QED
    BY <1>1, <1>4, <2>1, <2>2 DEF IInv, Round
<1>9. ASSUME NEW v \in Updaters, NEW w \in older'[v] PROVE Before(w, v)'
  <2>1. w \in Updaters /\ Before(w, v) /\ w # u
    BY <1>0, <1>1, <1>9 DEF IInv, TypeOK, ValuesOK, Order, Before
  <2>2. phase'[w] = "done" /\ phase'[v] # "none"
    BY <1>1, <2>1 DEF Before
  <2>3. \A i, j \in DOMAIN queue' : queue'[i] = w /\ queue'[j] = v => i < j
    BY <1>4, <2>1 DEF Before
  <2>4. w \in ToSet(queue') => w \in ToSet(queue)
    BY <1>4, <2>1
  <2>5. monDue => queue'[1] = queue[1]
    <3>1. monDue => 1 \in DOMAIN queue
      BY QueueFacts DEF IInv, Round
    <3> QED
      BY <1>4, <3>1
  <2> QED
    BY <1>1, <1>5, <2>1, <2>2, <2>3, <2>4, <2>5 DEF Before
<1> QED
  BY <1>3, <1>6, <1>7, <1>8, <1>9 DEF IInv, TypeOK, Order

(* What does not concern the connections, and ends no process's work.       *)
LEMMA ProgressStep ==
  ASSUME IInv, NEW u \in Updaters, Write(u) \/ Finish(u) \/ Dies(u)
  PROVE  IInv'
<1> USE DEF conns, prog, revents
<1>1. /\ UNCHANGED <<older, read, queue, slot, adrift, pc, connected, monitor, monDue, due, given, restarts>>
      /\ phase' \in [Updaters -> Phases] /\ sent' \in [Updaters -> 0..Parts]
  <2>1. phase \in [Updaters -> Phases] /\ sent \in [Updaters -> 0..Parts] /\ sent[u] \in 0..Parts
    BY DEF IInv, TypeOK, ValuesOK
  <2>2. sent' \in [Updaters -> 0..Parts]
    BY <2>1 DEF Write, Finish, Dies, Parts
  <2>3. phase' \in [Updaters -> Phases]
    BY <2>1 DEF Write, Finish, Dies, Phases
  <2> QED
    BY <2>2, <2>3 DEF Write, Finish, Dies
<1>2. \A v \in Updaters :
        /\ sent'[v] \in Int /\ sent[v] \in Int /\ sent'[v] >= sent[v]
        /\ phase'[v] = "done" => phase[v] = "done" \/ sent[v] = Parts
        /\ phase[v] = "done" => phase'[v] = "done" /\ sent'[v] = sent[v]
        /\ phase[v] # "none" => phase'[v] # "none"
        /\ phase'[v] \in {"none", "copied"} => phase'[v] = phase[v] /\ sent'[v] = sent[v]
        /\ sent[v] = Parts => sent'[v] = Parts
  BY DEF Write, Finish, Dies, IInv, TypeOK, ValuesOK, Phases, Parts
<1>3. Connected' = Connected
  BY <1>1 DEF Connected
<1>4. ValuesOK'
  BY <1>1 DEF IInv, TypeOK, ValuesOK
<1>5. OnePlace'
  <2>1. \A v \in Updaters : read[v] <= sent'[v]
    <3> TAKE v \in Updaters
    <3>1. read[v] \in Int /\ read[v] <= sent[v]
      BY DEF IInv, TypeOK, OnePlace, ValuesOK
    <3> QED
      BY <1>2, <3>1
  <2> QED
    BY <1>1, <1>3, <2>1 DEF IInv, TypeOK, OnePlace
<1>6. Course'
  BY <1>1, <1>2, <1>3 DEF IInv, Course, Parts
<1>7. Round'
  BY <1>1 DEF IInv, Round
<1>8. Order'
  BY <1>1, <1>2, <1>3 DEF IInv, TypeOK, ValuesOK, Order, Before
<1> QED
  BY <1>4, <1>5, <1>6, <1>7, <1>8 DEF IInv, TypeOK

-----------------------------------------------------------------------------
(* The loop. *)

(* A process that is over has something to be read: its text, or its end.   *)
LEMMA PollEventsStep == ASSUME IInv, Poll, connected PROVE IInv'
<1> USE DEF Poll, ClipEvents, procs, conns
<1>1. ValuesOK'
  <2>1. monDue' \in BOOLEAN
    BY Zenon DEF IInv, TypeOK, ValuesOK
  <2>2. due' \subseteq 1..Slots
    OBVIOUS
  <2>3. pc' \in Points
    BY DEF Points
  <2> QED
    BY <2>1, <2>2, <2>3 DEF IInv, TypeOK, ValuesOK
<1>2. Connected' = Connected
  BY DEF Connected
<1>3. OnePlace'
  BY <1>2 DEF IInv, TypeOK, OnePlace
<1>4. Course'
  BY <1>2 DEF IInv, Course
<1>5. Round'
  <2>1. \A i \in due' : slot'[i] # Free
    BY DEF Readable
  <2>2. monDue' => queue' # <<>>
    OBVIOUS
  <2>3. connected' => pc' = "mon"
    OBVIOUS
  <2>4. pc' \in {"poll", "mon"}
    OBVIOUS
  <2> QED
    BY <2>1, <2>2, <2>3, <2>4 DEF IInv, Round
<1>6. Order'
  <2> SUFFICES ASSUME NEW v \in Updaters, NEW w \in older[v] PROVE Before(w, v)'
    BY DEF Order
  <2>1. Before(w, v) /\ w \in Updaters
    BY DEF IInv, TypeOK, ValuesOK, Order
  <2>2. pc = "poll"
    OBVIOUS
  <2>3. \A i \in 1..Slots : slot[i] = w => i \in due'
    BY <2>1, FreeAssumption DEF Before, Readable, Ended
  <2>4. \A i, j \in 1..Slots : ~(slot[i] = v /\ slot[j] = w)
    BY <2>1, <2>2 DEF Before
  <2> QED
    BY <1>2, <2>1, <2>3, <2>4 DEF Before
<1> QED
  BY <1>1, <1>3, <1>4, <1>5, <1>6 DEF IInv, TypeOK

(* A round without a session leaves the old events; what ends one, or       *)
(* begins one, brings none.                                                 *)
LEMMA OtherRoundStep ==
  ASSUME IInv, (Poll /\ ~connected) \/ MainConnects \/ Return \/ Listen
  PROVE  IInv'
<1> USE DEF procs, conns, revents
<1>1. /\ UNCHANGED <<phase, sent, older, read, queue, slot, adrift, monitor, given, restarts>>
      /\ pc' \in {"main", "poll", "mon"} /\ connected' \in BOOLEAN
      /\ \/ UNCHANGED <<monDue, due>> /\ pc = "poll" /\ pc' = (IF connected' THEN "mon" ELSE "poll")
         \/ UNCHANGED <<monDue, due>> /\ pc \in {"setup", "main"} /\ pc' \in {"main", "poll"}
         \/ monDue' = FALSE /\ due' = {} /\ pc \in {"main", "poll"}
  <2>1. CASE Poll /\ ~connected
    BY <2>1 DEF Poll
  <2>2. CASE MainConnects \/ Return
    BY <2>2 DEF MainConnects, Return
  <2>3. CASE Listen
    <3>1. connected' = connected
      BY <2>3 DEF Listen
    <3>2. connected' \in BOOLEAN
      BY <3>1 DEF IInv, TypeOK, ValuesOK
    <3> QED
      BY <2>3, <3>2 DEF Listen
  <2> QED
    BY <2>1, <2>2, <2>3
<1>2. Connected' = Connected
  BY <1>1 DEF Connected
<1>3. ValuesOK'
  <2>1. pc' \in Points
    BY <1>1 DEF Points
  <2>2. monDue' \in BOOLEAN
    BY <1>1, Zenon DEF IInv, TypeOK, ValuesOK
  <2>3. due' \subseteq 1..Slots
    BY <1>1 DEF IInv, TypeOK, ValuesOK
  <2> QED
    BY <1>1, <2>1, <2>2, <2>3 DEF IInv, TypeOK, ValuesOK
<1>4. OnePlace' /\ Course'
  BY <1>1, <1>2 DEF IInv, TypeOK, OnePlace, Course
<1>5. Round'
  <2>1. CASE UNCHANGED <<monDue, due>> /\ pc = "poll"
    BY <1>1, <2>1 DEF IInv, Round
  <2>2. CASE UNCHANGED <<monDue, due>> /\ pc \in {"setup", "main"}
    BY <1>1, <2>2 DEF IInv, Round
  <2>3. CASE monDue' = FALSE /\ due' = {}
    BY <1>1, <2>3 DEF IInv, Round
  <2> QED
    BY <1>1, <2>1, <2>2, <2>3
<1>6. ASSUME NEW v \in Updaters, NEW w \in older[v] PROVE Before(w, v)'
  <2>1. Before(w, v) /\ w \in Updaters
    BY <1>6 DEF IInv, TypeOK, ValuesOK, Order
  <2>2. CASE UNCHANGED <<monDue, due>> /\ pc \in {"setup", "main", "poll"}
    <3>1. \A i, j \in 1..Slots : ~(slot[i] = v /\ slot[j] = w)
      BY <2>1, <2>2 DEF Before
    <3> QED
      BY <1>1, <1>2, <2>1, <2>2, <3>1 DEF Before
  <2>3. CASE monDue' = FALSE /\ due' = {} /\ pc \in {"main", "poll"}
    <3>1. \A i, j \in 1..Slots : ~(slot[i] = v /\ slot[j] = w)
      BY <1>1, <2>1, <2>3 DEF Before
    <3> QED
      BY <1>1, <1>2, <2>1, <2>3, <3>1 DEF Before
  <2> QED
    BY <1>1, <2>2, <2>3
<1> QED
  BY <1>1, <1>3, <1>4, <1>5, <1>6 DEF IInv, TypeOK, Order

(* The monitor's turn: a connection accepted, the socket broken, or neither *)
LEMMA MonitorStep == ASSUME IInv, Monitor PROVE IInv'
<1> USE DEF procs
<1>1. /\ pc = "mon" /\ monDue' = FALSE /\ due' = due /\ pc' = (IF due = {} THEN "poll" ELSE "slots")
      /\ UNCHANGED <<connected, phase, sent, older, read, given, restarts>>
  BY DEF Monitor, Accept, AcceptBreaks, AcceptNothing, NextPoint
<1>2. CASE Accept
  <2> DEFINE h == Head(queue)
             f == Min(FreeSlots)
  <2>1. /\ monDue /\ slot' = [slot EXCEPT ![f] = h] /\ queue' = Tail(queue)
        /\ monitor' = monitor /\ adrift' = adrift
        /\ f \in 1..Slots /\ slot[f] = Free
    BY <1>2, FirstFree DEF Accept
  <2>2. queue \in Seq(Updaters) /\ queue # <<>> /\ IsInjective(queue)
    BY <2>1 DEF IInv, TypeOK, OnePlace, Round
  <2>3. /\ h = queue[1] /\ h \in Updaters /\ 1 \in DOMAIN queue
        /\ queue' \in Seq(Updaters) /\ Len(queue') = Len(queue) - 1
        /\ \A i \in DOMAIN queue' : i + 1 \in DOMAIN queue /\ queue'[i] = queue[i + 1]
        /\ IsInjective(queue')
        /\ ToSet(queue') = ToSet(queue) \ {h}
    BY <2>1, <2>2, TailFacts
  <2>4. h \in ToSet(queue) /\ \A i \in 1..Slots : slot[i] # h
    <3>1. h \in ToSet(queue)
      BY <2>2, <2>3, QueueFacts
    <3> QED
      BY <3>1 DEF IInv, TypeOK, OnePlace
  <2>5. Len(queue) \in Nat /\ Len(queue') \in Nat
    BY <2>2, <2>3
  <2> HIDE DEF h, f
  <2>6. slot' \in [1..Slots -> Updaters \cup {Free}]
        /\ \A i \in 1..Slots : slot'[i] = IF i = f THEN h ELSE slot[i]
    BY <2>1, <2>3 DEF IInv, TypeOK, ValuesOK
  <2>7. ValuesOK'
    BY <1>1, <2>1, <2>6 DEF IInv, TypeOK, ValuesOK, Points
  <2>8. Connected' = Connected
    BY <2>1, <2>3, <2>4, <2>6, FreeAssumption DEF Connected
  <2>9. OnePlace'
    <3>1. Len(queue') <= Backlog
      BY <2>3, <2>5, SizesAssumption DEF IInv, TypeOK, OnePlace
    <3>2. \A i, j \in 1..Slots : slot'[i] = slot'[j] /\ slot'[i] # Free => i = j
      BY <2>4, <2>6 DEF IInv, TypeOK, OnePlace
    <3>3. \A i \in 1..Slots : slot'[i] \notin ToSet(queue')
      BY <2>3, <2>6 DEF IInv, TypeOK, OnePlace
    <3> QED
      BY <1>1, <2>1, <2>3, <2>8, <3>1, <3>2, <3>3 DEF IInv, TypeOK, OnePlace
  <2>10. Course'
    BY <1>1, <2>1, <2>8 DEF IInv, Course
  <2>11. Round'
    <3>1. \A i \in due : slot'[i] # Free
      BY <2>3, <2>6, FreeAssumption DEF IInv, TypeOK, ValuesOK, Round
    <3> QED
      BY <1>1, <2>1, <2>3, <3>1 DEF IInv, Round
  <2>12. ASSUME NEW v \in Updaters, NEW w \in older[v] PROVE Before(w, v)'
    <3>1. Before(w, v) /\ w \in Updaters
      BY <2>12 DEF IInv, TypeOK, ValuesOK, Order
    <3>2. \A i, j \in DOMAIN queue' : queue'[i] = w /\ queue'[j] = v => i < j
      <4> SUFFICES ASSUME NEW i \in DOMAIN queue', NEW j \in DOMAIN queue',
                          queue'[i] = w, queue'[j] = v
                   PROVE  i < j
        OBVIOUS
      <4>1. i + 1 < j + 1
        BY <2>3, <3>1 DEF Before
      <4>2. i \in Int /\ j \in Int
        BY <2>3
      <4> QED
        BY <4>1, <4>2
    <3>3. ASSUME NEW i \in 1..Slots, slot'[i] = v
          PROVE  w \notin ToSet(queue') /\ \A j \in 1..Slots : slot'[j] = w => pc' = "slots" /\ j \in due /\ i \notin due
      <4>1. CASE i # f
        <5>1. slot[i] = v /\ w \notin ToSet(queue) /\ w # h
          BY <2>4, <2>6, <3>1, <3>3, <4>1 DEF Before
        <5> QED
          BY <1>1, <2>3, <2>6, <3>1, <5>1 DEF Before
      <4>2. CASE i = f
        <5>1. v = queue[1] /\ v = h
          BY <2>3, <2>6, <3>3, <4>2
        <5>2. w \notin ToSet(queue')
          <6>1. \A k \in DOMAIN queue : queue[k] = w => k < 1
            BY <2>3, <3>1, <5>1 DEF Before
          <6>2. \A k \in DOMAIN queue : k >= 1
            BY <2>2
          <6>3. w \notin ToSet(queue)
            BY <6>1, <6>2, <2>2, QueueFacts
          <6> QED
            BY <2>3, <6>3
        <5>3. w # v
          <6>1. w = v => 1 < 1
            BY <2>3, <3>1, <5>1 DEF Before
          <6> QED
            BY <6>1
        <5>4. \A j \in 1..Slots : slot'[j] = w => j \in due
          BY <2>1, <2>6, <3>1, <5>1, <5>3 DEF Before
        <5>5. f \notin due
          BY <2>1 DEF IInv, Round
        <5> QED
          BY <1>1, <4>2, <5>2, <5>4, <5>5
      <4> QED
        BY <4>1, <4>2
    <3> QED
      BY <1>1, <2>8, <3>1, <3>2, <3>3 DEF Before
  <2> QED
    BY <1>1, <2>7, <2>9, <2>10, <2>11, <2>12 DEF IInv, TypeOK, Order
<1>3. CASE AcceptBreaks
  <2> USE <1>3 DEF AcceptBreaks
  <2>1. ToSet(queue') = {} /\ queue' \in Seq(Updaters) /\ Len(queue') = 0 /\ DOMAIN queue' = {}
    BY DEF ToSet
  <2>2. Connected' = Connected \ ToSet(queue) /\ Connected' \cap adrift' = {}
        /\ ToSet(queue) \subseteq Connected /\ ToSet(queue) \subseteq Updaters
    <3>1. ToSet(queue) \subseteq Updaters
      BY QueueFacts DEF IInv, Round
    <3> QED
      BY <2>1, <3>1 DEF Connected, IInv, TypeOK, OnePlace
  <2>3. ValuesOK'
    BY <1>1 DEF IInv, TypeOK, ValuesOK, Points
  <2>4. OnePlace'
    <3>1. 0 <= Backlog
      BY SizesAssumption
    <3> QED
      BY <1>1, <2>1, <2>2, <3>1 DEF IInv, TypeOK, OnePlace, IsInjective
  <2>5. Course'
    BY <1>1, <2>2 DEF IInv, Course
  <2>6. Round'
    BY <1>1, <2>1, <2>2 DEF IInv, Round
  <2>7. Order'
    BY <1>1, <2>1, <2>2 DEF IInv, Order, Before
  <2> QED
    BY <2>3, <2>4, <2>5, <2>6, <2>7 DEF IInv, TypeOK
<1>4. CASE AcceptNothing
  <2> USE <1>4 DEF AcceptNothing
  <2>1. Connected' = Connected
    BY DEF Connected
  <2>2. TypeOK'
    BY <1>1, <2>1 DEF IInv, TypeOK, ValuesOK, OnePlace, Points
  <2>3. Course' /\ Round'
    BY <1>1, <2>1 DEF IInv, Course, Round
  <2>4. Order'
    BY <1>1, <2>1 DEF IInv, Order, Before
  <2> QED
    BY <2>2, <2>3, <2>4 DEF IInv
<1> QED
  BY <1>2, <1>3, <1>4 DEF Monitor

(* A slot that is left, whether its text is handed over or not.             *)
LEMMA CloseSlotStep ==
  ASSUME IInv, Serving, CloseSlot,
         UNCHANGED <<procs, connected, monitor, monDue, queue, adrift, restarts>>,
         \/ UNCHANGED <<read, given>>
         \/ /\ read[slot[At]] + 1 = Parts /\ sent[slot[At]] > read[slot[At]]
            /\ read' = [read EXCEPT ![slot[At]] = @ + 1] /\ given' = Append(given, slot[At])
  PROVE  IInv'
<1> DEFINE u == slot[At]
<1>1. At \in due /\ At \in 1..Slots /\ u \in Updaters
  BY AtIsDue DEF Serving, IInv, Round
<1>2. /\ pc = "slots" /\ due' = due \ {At} /\ pc' = (IF due' = {} THEN "poll" ELSE "slots")
      /\ UNCHANGED <<phase, sent, older, connected, monitor, monDue, queue, adrift, restarts>> /\ ~monDue
  BY DEF CloseSlot, NextPoint, Serving, procs, IInv, Round
<1>3. slot' \in [1..Slots -> Updaters \cup {Free}]
      /\ \A i \in 1..Slots : slot'[i] = IF i = At THEN Free ELSE slot[i]
  BY <1>1 DEF CloseSlot, IInv, TypeOK, ValuesOK
<1>4. /\ given' \in Seq(Updaters)
      /\ ToSet(given') \subseteq ToSet(given) \cup {u} /\ ToSet(given) \subseteq ToSet(given')
      /\ u \in ToSet(given') => u \in ToSet(given) \/ sent[u] = Parts
      /\ read' \in [Updaters -> 0..Parts]
      /\ \A v \in Updaters : read'[v] <= sent[v] /\ (v # u => read'[v] = read[v])
  <2>1. given \in Seq(Updaters) /\ read \in [Updaters -> 0..Parts] /\ sent \in [Updaters -> 0..Parts]
        /\ \A v \in Updaters : read[v] <= sent[v]
    BY DEF IInv, TypeOK, ValuesOK, OnePlace, Round
  <2>2. CASE UNCHANGED <<read, given>>
    BY <2>1, <2>2
  <2>3. CASE /\ read[u] + 1 = Parts /\ sent[u] > read[u]
             /\ read' = [read EXCEPT ![u] = @ + 1] /\ given' = Append(given, u)
    <3>1. given' \in Seq(Updaters) /\ ToSet(given') = ToSet(given) \cup {u}
      BY <1>1, <2>1, <2>3, AppendFacts
    <3>2. sent[u] = Parts
      BY <1>1, <2>1, <2>3 DEF Parts
    <3>3. read' \in [Updaters -> 0..Parts]
      BY <1>1, <2>1, <2>3 DEF Parts
    <3>4. \A v \in Updaters : read'[v] <= sent[v] /\ (v # u => read'[v] = read[v])
      BY <1>1, <2>1, <2>3, <3>2
    <3> QED
      BY <3>1, <3>2, <3>3, <3>4
  <2> QED
    BY <2>2, <2>3
<1>5. u # Free /\ u \notin ToSet(queue) /\ \A i \in 1..Slots : slot[i] = u => i = At
  BY <1>1, FreeAssumption DEF IInv, TypeOK, OnePlace
<1> HIDE DEF u
<1>6. Connected' = Connected \ {u} /\ u \in Connected
  BY <1>1, <1>2, <1>3, <1>5, FreeAssumption DEF Connected, u
<1>7. ValuesOK'
  <2>1. pc' \in Points
    BY <1>2 DEF Points
  <2>2. due' \subseteq 1..Slots
    BY <1>2 DEF IInv, TypeOK, ValuesOK
  <2> QED
    BY <1>2, <1>3, <1>4, <2>1, <2>2 DEF IInv, TypeOK, ValuesOK
<1>8. OnePlace'
  <2>1. \A i, j \in 1..Slots : slot'[i] = slot'[j] /\ slot'[i] # Free => i = j
    BY <1>3 DEF IInv, TypeOK, OnePlace
  <2>2. \A i \in 1..Slots : slot'[i] \notin ToSet(queue)
    <3>1. Free \notin ToSet(queue)
      BY QueueFacts, FreeAssumption DEF IInv, Round
    <3> QED
      BY <1>3, <3>1 DEF IInv, TypeOK, OnePlace
  <2>3. adrift \cap Connected' = {} /\ ToSet(given') \cap Connected' = {}
    BY <1>4, <1>6 DEF IInv, TypeOK, OnePlace
  <2>4. \A v \in Updaters : v \in ToSet(queue) => read'[v] = 0
    BY <1>4, <1>5 DEF IInv, TypeOK, OnePlace
  <2> QED
    BY <1>2, <1>4, <2>1, <2>2, <2>3, <2>4 DEF IInv, TypeOK, OnePlace
<1>9. Course'
  BY <1>2, <1>4, <1>6 DEF IInv, Course
<1>10. Round'
  <2>1. \A i \in due' : slot'[i] # Free
    BY <1>2, <1>3 DEF IInv, TypeOK, ValuesOK, Round
  <2> QED
    BY <1>2, <1>4, <2>1 DEF IInv, Round
<1>11. ASSUME NEW v \in Updaters, NEW w \in older[v] PROVE Before(w, v)'
  <2>1. Before(w, v) /\ w \in Updaters
    BY <1>11 DEF IInv, TypeOK, ValuesOK, Order
  <2>2. ASSUME NEW i \in 1..Slots, slot'[i] = v
        PROVE  w \notin ToSet(queue) /\ \A j \in 1..Slots : slot'[j] = w => pc' = "slots" /\ j \in due' /\ i \notin due'
    <3>1. i # At /\ slot[i] = v
      BY <1>3, <2>2, FreeAssumption
    <3>2. \A j \in 1..Slots : slot'[j] = w => j # At /\ slot[j] = w
      BY <1>3, <2>1, FreeAssumption
    <3> QED
      BY <1>2, <2>1, <3>1, <3>2 DEF Before
  <2>3. v \in ToSet(given') => w \notin Connected'
    <3>1. CASE v = u
      <4>1. w \notin ToSet(queue) /\ \A j \in 1..Slots : slot[j] = w => At \notin due
        BY <1>1, <2>1, <3>1 DEF Before, u
      <4>2. w \notin Connected
        BY <1>1, <4>1 DEF Connected
      <4> QED
        BY <1>6, <4>2
    <3>2. CASE v # u
      BY <1>4, <1>6, <2>1, <3>2 DEF Before
    <3> QED
      BY <3>1, <3>2
  <2> QED
    BY <1>2, <2>1, <2>2, <2>3 DEF Before
<1> QED
  BY <1>2, <1>7, <1>8, <1>9, <1>10, <1>11 DEF IInv, TypeOK, Order

LEMMA ReadFailsStep == ASSUME IInv, ReadFails PROVE IInv'
BY CloseSlotStep DEF ReadFails, procs

LEMMA ReadPartStep == ASSUME IInv, ReadPart PROVE IInv'
<1> DEFINE u == slot[At]
<1>1. At \in due /\ At \in 1..Slots /\ u \in Updaters
  BY AtIsDue DEF ReadPart, Serving, IInv, Round
<1>2. /\ sent[u] > read[u] /\ read' = [read EXCEPT ![u] = @ + 1]
      /\ UNCHANGED <<connected, monitor, monDue, queue, adrift, procs, restarts>>
  BY DEF ReadPart
<1>3. read \in [Updaters -> 0..Parts] /\ sent \in [Updaters -> 0..Parts]
  BY DEF IInv, TypeOK, ValuesOK
<1>4. read'[u] = read[u] + 1
  BY <1>1, <1>2, <1>3
<1>5. CASE read'[u] = Parts
  <2>1. CloseSlot /\ given' = Append(given, u) /\ Serving
    BY <1>5 DEF ReadPart
  <2> QED
    BY <1>2, <1>4, <1>5, <2>1, CloseSlotStep
<1>6. CASE read'[u] # Parts
  <2>1. UNCHANGED <<slot, due, pc, given>>
    BY <1>6 DEF ReadPart
  <2>2. Connected' = Connected
    BY <1>2, <2>1 DEF Connected
  <2>3. u \notin ToSet(queue)
    BY <1>1 DEF IInv, TypeOK, OnePlace
  <2> HIDE DEF u
  <2>4. \A v \in Updaters : read'[v] = IF v = u THEN read[v] + 1 ELSE read[v]
    BY <1>2, <1>3
  <2>5. ValuesOK'
    <3>1. read[u] \in 0..Parts /\ sent[u] \in 0..Parts /\ read[u] + 1 \in 0..Parts
      BY <1>1, <1>2, <1>3 DEF Parts
    <3>2. read' \in [Updaters -> 0..Parts]
      BY <1>1, <1>2, <1>3, <3>1
    <3> QED
      BY <1>2, <2>1, <3>2 DEF IInv, TypeOK, ValuesOK, procs
  <2>6. OnePlace'
    <3>1. \A v \in Updaters : read'[v] <= sent[v]
      BY <1>1, <1>2, <1>3, <2>4 DEF IInv, TypeOK, OnePlace, Parts
    <3>2. \A v \in Updaters : v \in ToSet(queue) => read'[v] = 0
      BY <2>3, <2>4 DEF IInv, TypeOK, OnePlace
    <3> QED
      BY <1>2, <2>1, <2>2, <3>1, <3>2 DEF IInv, TypeOK, OnePlace, procs
  <2>7. Course' /\ Round'
    BY <1>2, <2>1, <2>2 DEF IInv, Course, Round, procs
  <2>8. Order'
    BY <1>2, <2>1, <2>2 DEF IInv, Order, Before, procs
  <2> QED
    BY <2>5, <2>6, <2>7, <2>8 DEF IInv, TypeOK
<1> QED
  BY <1>5, <1>6

LEMMA LetGoStep ==
  ASSUME IInv, LetGo, pc' \in {"setup", "exited"}, monitor' \in BOOLEAN, restarts' \in 0..MaxRestarts
  PROVE  IInv'
<1> USE DEF LetGo, procs
<1>1. ToSet(queue') = {} /\ queue' \in Seq(Updaters) /\ Len(queue') = 0 /\ DOMAIN queue' = {}
  BY DEF ToSet
<1>2. \A i \in 1..Slots : slot'[i] = Free
  OBVIOUS
<1>3. Connected' = {}
  <2>1. Connected' = {v \in Updaters : v \in ToSet(queue') \/ \E i \in 1..Slots : slot'[i] = v}
    BY DEF Connected
  <2> QED
    BY <1>1, <1>2, <2>1, FreeAssumption
<1>4. Connected \subseteq Updaters
  BY DEF Connected
<1>5. ValuesOK'
  <2>1. pc' \in Points
    BY DEF Points
  <2>2. connected' \in BOOLEAN /\ monDue' \in BOOLEAN
    BY Zenon
  <2>3. slot' \in [1..Slots -> Updaters \cup {Free}] /\ due' \subseteq 1..Slots
    OBVIOUS
  <2> QED
    BY <2>1, <2>2, <2>3 DEF IInv, TypeOK, ValuesOK
<1>6. OnePlace'
  <2>1. 0 <= Backlog
    BY SizesAssumption
  <2> QED
    BY <1>1, <1>2, <1>3, <2>1 DEF IInv, TypeOK, OnePlace, IsInjective
<1>7. Course'
  BY <1>3 DEF IInv, Course, Connected
<1>8. Round'
  BY <1>1, <1>4 DEF IInv, Round
<1>9. Order'
  <2> SUFFICES ASSUME NEW v \in Updaters, NEW w \in older[v] PROVE Before(w, v)'
    BY DEF Order
  <2>1. phase[w] = "done" /\ phase[v] # "none"
    BY DEF IInv, Order, Before
  <2>2. \A i \in 1..Slots : slot'[i] # v
    BY <1>2, FreeAssumption
  <2> QED
    BY <1>1, <1>3, <2>1, <2>2 DEF Before
<1> QED
  BY <1>5, <1>6, <1>7, <1>8, <1>9 DEF IInv, TypeOK

LEMMA EndStep == ASSUME IInv, Restart \/ Exit PROVE IInv'
<1>1. restarts \in 0..MaxRestarts
  BY DEF IInv, TypeOK, ValuesOK
<1>2. CASE Restart
  <2>1. restarts' \in 0..MaxRestarts
    BY <1>1, <1>2 DEF Restart
  <2>2. LetGo /\ pc' = "setup"
    BY <1>2 DEF Restart
  <2>3. monitor' \in BOOLEAN
    BY <1>2, Zenon DEF Restart
  <2> QED
    BY <2>1, <2>2, <2>3, LetGoStep
<1>3. CASE Exit
  <2>1. restarts' \in 0..MaxRestarts
    BY <1>1, <1>3 DEF Exit
  <2>2. LetGo /\ pc' = "exited"
    BY <1>3 DEF Exit
  <2>3. monitor' \in BOOLEAN
    BY <1>3, Zenon DEF Exit
  <2> QED
    BY <2>1, <2>2, <2>3, LetGoStep
<1> QED
  BY <1>2, <1>3

LEMMA SameStep == ASSUME IInv, UNCHANGED vars PROVE IInv'
<1>1. UNCHANGED <<phase, sent, older, read, queue, slot, adrift, pc, connected, monitor, monDue, due, given, restarts>>
  BY DEF vars, procs, conns, prog, revents
<1> USE <1>1
<1>2. Connected' = Connected
  BY DEF Connected
<1>3. TypeOK'
  BY <1>2 DEF IInv, TypeOK, ValuesOK, OnePlace
<1>4. Course' /\ Round'
  BY <1>2 DEF IInv, Course, Round
<1>5. Order'
  BY <1>2 DEF IInv, Order, Before
<1> QED
  BY <1>3, <1>4, <1>5 DEF IInv

LEMMA NextIInv == IInv /\ [Next]_vars => IInv'
BY CopyStep, ConnectStep, ProgressStep, PollEventsStep, OtherRoundStep, MonitorStep, ReadPartStep,
   ReadFailsStep, EndStep, SameStep
DEF Next, Progress, Program, Over

LEMMA Inductive == Spec => []IInv
BY InitIInv, NextIInv, PTL DEF Spec

-----------------------------------------------------------------------------
(* Slots and queue never hold a connection twice, nothing is read before it *)
(* is sent, and no text stays in a slot that has been handed over.          *)
THEOREM TypeCorrect == Spec => []TypeOK
<1>1. IInv => TypeOK
  BY DEF IInv
<1> QED
  BY <1>1, Inductive, PTL

-----------------------------------------------------------------------------
(* The promise. *)

LEMMA MailInit == Init => M!Init
<1> SUFFICES ASSUME Init PROVE M!Init
  OBVIOUS
<1>1. \A u \in Updaters : phase[u] = "none" /\ sent[u] # Parts
  BY DEF Init, Parts
<1> QED
  BY <1>1 DEF Init, M!Init

(* What Mailbox sees stays as it is. *)
LEMMA Unseen ==
  ASSUME UNCHANGED <<given, older>>,
         \A u \in Updaters : /\ phase'[u] # "none" <=> phase[u] # "none"
                             /\ phase'[u] = "done" <=> phase[u] = "done"
                             /\ sent'[u] = Parts <=> sent[u] = Parts
  PROVE  UNCHANGED M!mailVars
BY DEF M!mailVars

LEMMA MailStep == IInv /\ [Next]_vars => [M!Next]_M!mailVars
<1> SUFFICES ASSUME IInv, [Next]_vars PROVE [M!Next]_M!mailVars
  OBVIOUS
<1> DEFINE copied == {v \in Updaters : phase[v] # "none"}
           whole == {v \in Updaters : sent[v] = Parts}
           over == {v \in Updaters : phase[v] = "done"}
<1>0. phase \in [Updaters -> Phases] /\ sent \in [Updaters -> 0..Parts]
      /\ older \in [Updaters -> SUBSET Updaters]
  BY DEF IInv, TypeOK, ValuesOK
<1>1. ASSUME NEW u \in Updaters, Copy(u) PROVE M!Next
  <2> USE <1>1 DEF Copy
  <2>1. u \notin copied /\ copied' = copied \cup {u} /\ over' = over /\ whole' = whole
    BY <1>0
  <2>2. older' = [older EXCEPT ![u] = over] /\ given' = given
    OBVIOUS
  <2> QED
    BY <2>1, <2>2 DEF M!Next, M!Copy
<1>2. ASSUME NEW u \in Updaters, Connect(u) \/ Dies(u) PROVE UNCHANGED M!mailVars
  <2>1. UNCHANGED <<given, older, sent>>
    BY <1>2 DEF Connect, Dies
  <2>2. \A v \in Updaters : /\ phase'[v] # "none" <=> phase[v] # "none"
                            /\ phase'[v] = "done" <=> phase[v] = "done"
    BY <1>0, <1>2 DEF Connect, Dies
  <2> QED
    BY <2>1, <2>2, Unseen
<1>3. ASSUME NEW u \in Updaters, Write(u) PROVE [M!Next]_M!mailVars
  <2> USE <1>3 DEF Write, conns
  <2>1. sent' = [sent EXCEPT ![u] = @ + 1] /\ UNCHANGED <<phase, older, given>> /\ phase[u] = "writing"
    OBVIOUS
  <2>2. CASE sent[u] + 1 = Parts
    <3>1. u \in copied \ whole /\ whole' = whole \cup {u} /\ copied' = copied /\ over' = over
      BY <1>0, <2>1, <2>2 DEF Parts
    <3> QED
      BY <2>1, <3>1 DEF M!Next, M!Complete
  <2>3. CASE sent[u] + 1 # Parts
    <3>1. \A v \in Updaters : sent'[v] = Parts <=> sent[v] = Parts
      BY <1>0, <2>1, <2>3 DEF Parts
    <3> QED
      BY <2>1, <3>1, Unseen
  <2> QED
    BY <2>2, <2>3
<1>4. ASSUME NEW u \in Updaters, Finish(u) PROVE M!Next
  <2> USE <1>4 DEF Finish, conns
  <2>1. u \in whole \ over /\ over' = over \cup {u} /\ copied' = copied /\ whole' = whole
    BY <1>0
  <2> QED
    BY <2>1 DEF M!Next, M!End
<1>5. CASE \/ MainConnects \/ Poll \/ Return \/ Monitor \/ ReadFails
           \/ Restart \/ Exit \/ Listen \/ UNCHANGED vars
  <2>1. UNCHANGED <<phase, sent, older, given>>
    BY <1>5 DEF MainConnects, Poll, Return, Monitor, ReadFails, Restart, Exit, LetGo, Listen, procs, vars
  <2> QED
    BY <2>1, Unseen
<1>6. CASE ReadPart
  <2> DEFINE u == slot[At]
  <2>1. At \in due /\ At \in 1..Slots /\ u \in Updaters
    BY <1>6, AtIsDue DEF ReadPart, Serving, IInv, Round
  <2>2. UNCHANGED <<phase, sent, older>> /\ sent[u] > read[u] /\ read' = [read EXCEPT ![u] = @ + 1]
    BY <1>6 DEF ReadPart, procs
  <2>3. CASE read'[u] = Parts
    <3>1. given' = Append(given, u)
      BY <1>6, <2>3 DEF ReadPart
    <3>2. read[u] + 1 = Parts /\ read[u] \in 0..Parts
      BY <2>1, <2>2, <2>3 DEF IInv, TypeOK, ValuesOK
    <3>3. u \in whole
      BY <1>0, <2>1, <2>2, <3>2 DEF Parts
    <3>4. u \in Connected
      BY <2>1 DEF Connected
    <3>5. u \notin ToSet(given) /\ ToSet(given) \subseteq Updaters
      BY <3>4, QueueFacts DEF IInv, TypeOK, OnePlace, Round
    <3>6. \A v \in ToSet(given) : u \notin older[v]
      BY <3>4, <3>5 DEF IInv, Order, Before
    <3>7. copied' = copied /\ whole' = whole /\ over' = over /\ older' = older
      BY <2>2
    <3>8. M!Give(u)
      BY <3>1, <3>3, <3>5, <3>6, <3>7 DEF M!Give, ToSet, M!ToSet
    <3> HIDE DEF u
    <3> QED
      BY <2>1, <3>8 DEF M!Next
  <2>4. CASE read'[u] # Parts
    <3>1. given' = given
      BY <1>6, <2>4 DEF ReadPart
    <3> QED
      BY <2>2, <3>1, Unseen
  <2> QED
    BY <2>3, <2>4
<1> QED
  BY <1>1, <1>2, <1>3, <1>4, <1>5, <1>6 DEF Next, Progress, Program, Over

(* The socket implements Mailbox: texts come whole, once, and in the order  *)
(* in which they were copied, with any number of processes and slots.       *)
THEOREM PromiseKept == Spec => KeepsPromise
BY MailInit, MailStep, Inductive, PTL DEF Spec, KeepsPromise, M!Spec
===============================================================================
