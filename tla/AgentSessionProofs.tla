------------------------- MODULE AgentSessionProofs -------------------------
(***************************************************************************)
(* Theorems about AgentSession, for every value of its constants.          *)
(***************************************************************************)
EXTENDS AgentSession, WellFoundedInduction, TLAPS

\* The elements of a sequence, and that x occurs in it at most once.
Elements(s) == {s[i] : i \in 1..Len(s)}
AtMostOnce(s, x) == \A i, j \in 1..Len(s) : s[i] = x /\ s[j] = x => i = j

(***************************************************************************)
(* The invariant: where a message is, and what its call of prompt() is up  *)
(* to.                                                                     *)
(***************************************************************************)
Stages == {"own", "check", "pre"}
Waiting == {"new", "input", "held", "called", "hooks"}
Over == {"done", "rejected", "editor"}
InPrompt == {"auth", "summarise", "compacted", "continue", "running", "ran", "sleeping", "cancelled", "finish"}

\* The fields that a message's way depends on have their types.
AgentType ==
  /\ DOMAIN agent = {"messages", "at", "todo", "then", "polled", "since", "heard", "owner", "run", "aborted"}
  /\ agent.at \in {"idle", "deliver", "save", "request", "poll", "tools", "end"}
  /\ agent.then \in {"request", "end"}
  /\ agent.at = "deliver" => \E x \in Users : agent.todo = <<User(x)>>
  /\ agent.at # "idle" => agent.owner \in Users
SessType ==
  /\ DOMAIN sess = {"connected", "bash", "last", "attempt", "overflow", "sleeper"}
  /\ sess.sleeper \in Users \cup {None}
CallType ==
  /\ DOMAIN call = Users
  /\ \A m \in Users :
       /\ DOMAIN call[m] = {"pc", "stage", "reply", "willRetry", "keep", "aborted", "batch"}
       /\ call[m].pc \in Waiting \cup Over \cup InPrompt
       /\ call[m].stage \in Stages
       /\ call[m].batch \in Seq(Users)
PlaceType ==
  /\ DOMAIN ui = {"held", "inputs", "main"}
  /\ DOMAIN manual = {"pc", "run", "keep", "aborted"}
  /\ {queue, shown, ui.held, ui.inputs, hist.delivered} \subseteq Seq(Users)
HistType == DOMAIN hist = {"delivered", "replies", "errors", "recovered", "bash", "events", "clean"}

Types == AgentType /\ SessType /\ CallType /\ PlaceType

\* The agent is about to be given x.
InHand(x) == agent.at = "deliver" /\ agent.todo = <<User(x)>>

\* The call for x has not come to the run of its own message.
Ahead(x) == call[x].pc \in Waiting \/ (call[x].pc \in InPrompt /\ call[x].stage # "own")

\* The call for x is under way: it may start another run.
Engaged(x) == call[x].pc \in InPrompt \cup {"hooks"} /\ ~(call[x].pc = "finish" /\ call[x].stage = "own")

\* In each place x is once, and only while its call is where that place belongs.
Once(x) ==
  /\ AtMostOnce(queue, x) /\ AtMostOnce(ui.held, x) /\ AtMostOnce(ui.inputs, x) /\ AtMostOnce(hist.delivered, x)
Placed(x) ==
  /\ x \in Elements(queue)     => call[x].pc = "done"
  /\ x \in Elements(shown)     => call[x].pc = "done"
  /\ x \in Elements(ui.held)   => call[x].pc = "held"
  /\ x \in Elements(ui.inputs) => call[x].pc = "input"
  /\ InHand(x) => call[x].pc \in {"done", "editor"} \/ (call[x].pc = "running" /\ call[x].stage = "own")

\* What waits, in a queue, in the agent's hand or with its call, was not delivered.
Undelivered(x) ==
  /\ InHand(x) \/ x \in Elements(queue) \/ Ahead(x) => x \notin Elements(hist.delivered)
  /\ InHand(x) => x \notin Elements(queue)

\* A run belongs to a call that runs, the delay of a retry to one that sleeps.
Owned(x) ==
  /\ agent.at # "idle" /\ agent.owner = x => call[x].pc = "running"
  /\ sess.sleeper = x => call[x].pc \in {"sleeping", "cancelled"}

\* A call that flushes what was held back has queued the rest of it.
Flushing(x) ==
  /\ call[x].pc \in {"new", "input"} => call[x].batch = <<>>
  /\ (call[x].pc = "called" /\ call[x].batch # <<>>) =>
       /\ x \in Elements(call[x].batch)
       /\ \A y \in Elements(call[x].batch) : AtMostOnce(call[x].batch, y) /\ (y # x => y \in Elements(queue))

\* One call at a time is under way, and one enters.
Alone(x) == \A y \in Users :
  /\ Engaged(x) /\ Engaged(y) => x = y
  /\ call[x].pc = "called" /\ call[y].pc = "called" => x = y

Followed(x) == Once(x) /\ Placed(x) /\ Undelivered(x) /\ Owned(x) /\ Flushing(x) /\ Alone(x)

Good == Types /\ \A x \in Users : Followed(x)
Inv == HistType /\ (hist.clean => Good)

-----------------------------------------------------------------------------
(***************************************************************************)
(* Sequences.                                                              *)
(***************************************************************************)
LEMMA ElementsOfEmpty == Elements(<<>>) = {} /\ \A x : AtMostOnce(<<>>, x)
  BY DEF Elements, AtMostOnce

\* The head of a sequence is in it; its tail has the rest.
LEMMA ElementsOfTail ==
  ASSUME NEW S, NEW s \in Seq(S), s # <<>>
  PROVE  /\ Tail(s) \in Seq(S) /\ Head(s) \in S /\ Elements(s) = {Head(s)} \cup Elements(Tail(s))
         /\ AtMostOnce(s, Head(s)) => Head(s) \notin Elements(Tail(s))
         /\ \A x : AtMostOnce(s, x) => AtMostOnce(Tail(s), x)
<1>1. Len(s) \in Nat /\ Len(s) >= 1 /\ Head(s) = s[1]
  OBVIOUS
<1>2. Tail(s) \in Seq(S) /\ Len(Tail(s)) = Len(s) - 1 /\ \A i \in 1..Len(Tail(s)) : Tail(s)[i] = s[i + 1]
  OBVIOUS
<1>3. /\ \A i \in 1..Len(Tail(s)) : i + 1 \in 1..Len(s) /\ i + 1 # 1
      /\ \A i, j \in 1..Len(Tail(s)) : i + 1 = j + 1 => i = j
  BY <1>1, <1>2
<1>4. ASSUME NEW i \in 1..Len(s), i # 1 PROVE s[i] \in Elements(Tail(s))
  <2>1. i - 1 \in 1..Len(Tail(s)) /\ i - 1 + 1 = i
    BY <1>1, <1>2, <1>4
  <2>2. Tail(s)[i - 1] = s[i]
    BY <1>2, <2>1
  <2> QED BY <2>1, <2>2 DEF Elements
<1>5. 1 \in 1..Len(s)
  BY <1>1
<1>6. Elements(s) = {Head(s)} \cup Elements(Tail(s))
  <2>1. Elements(Tail(s)) \subseteq Elements(s)
    BY <1>2, <1>3 DEF Elements
  <2>2. Elements(s) \subseteq {Head(s)} \cup Elements(Tail(s))
    BY <1>1, <1>4 DEF Elements
  <2>3. Head(s) \in Elements(s)
    BY <1>1, <1>5 DEF Elements
  <2> QED BY <2>1, <2>2, <2>3
<1>7. AtMostOnce(s, Head(s)) => Head(s) \notin Elements(Tail(s))
  BY <1>1, <1>2, <1>3, <1>5 DEF AtMostOnce, Elements
<1>8. \A x : AtMostOnce(s, x) => AtMostOnce(Tail(s), x)
  BY <1>2, <1>3 DEF AtMostOnce
<1> QED BY <1>1, <1>2, <1>5, <1>6, <1>7, <1>8

\* Append adds one element.
LEMMA ElementsOfAppend ==
  ASSUME NEW S, NEW s \in Seq(S), NEW x \in S
  PROVE  /\ Append(s, x) \in Seq(S) /\ Elements(Append(s, x)) = Elements(s) \cup {x}
         /\ x \notin Elements(s) => AtMostOnce(Append(s, x), x)
         /\ \A y : y # x /\ AtMostOnce(s, y) => AtMostOnce(Append(s, x), y)
<1> DEFINE t == Append(s, x)
<1>1. t \in Seq(S) /\ Len(t) = Len(s) + 1 /\ Len(s) \in Nat
  OBVIOUS
<1>2. /\ \A i \in 1..Len(s) : t[i] = s[i]
      /\ t[Len(t)] = x
  OBVIOUS
<1>3. \A i \in 1..Len(t) : i # Len(t) => i \in 1..Len(s)
  BY <1>1
<1>4. Len(t) \in 1..Len(t) /\ 1..Len(s) \subseteq 1..Len(t)
  BY <1>1
<1> HIDE DEF t
<1>5. Elements(t) = Elements(s) \cup {x}
  <2>1. Elements(t) \subseteq Elements(s) \cup {x}
    BY <1>2, <1>3 DEF Elements
  <2>2. x \in Elements(t)
    BY <1>2, <1>4 DEF Elements
  <2>3. Elements(s) \subseteq Elements(t)
    BY <1>2, <1>4 DEF Elements
  <2> QED BY <2>1, <2>2, <2>3
<1>6. x \notin Elements(s) => AtMostOnce(t, x)
  BY <1>2, <1>3 DEF AtMostOnce, Elements
<1>7. \A y : y # x /\ AtMostOnce(s, y) => AtMostOnce(t, y)
  BY <1>2, <1>3 DEF AtMostOnce
<1> QED BY <1>1, <1>5, <1>6, <1>7 DEF t

\* What s \o t has is in s or in t.
LEMMA ElementsOfConcat ==
  ASSUME NEW S, NEW s \in Seq(S), NEW t \in Seq(S)
  PROVE  /\ s \o t \in Seq(S) /\ Elements(s \o t) = Elements(s) \cup Elements(t)
         /\ \A x : (AtMostOnce(s, x) /\ AtMostOnce(t, x) /\ ~(x \in Elements(s) /\ x \in Elements(t)))
                  => AtMostOnce(s \o t, x)
<1> DEFINE c == s \o t
<1>1. c \in Seq(S) /\ Len(c) = Len(s) + Len(t) /\ Len(s) \in Nat /\ Len(t) \in Nat
  OBVIOUS
<1>2. \A i \in 1..Len(c) : c[i] = IF i <= Len(s) THEN s[i] ELSE t[i - Len(s)]
  BY <1>1
<1>3. \A i \in 1..Len(c) : IF i <= Len(s) THEN i \in 1..Len(s) ELSE i - Len(s) \in 1..Len(t)
  BY <1>1
<1>4. \A i \in 1..Len(s) : i \in 1..Len(c) /\ c[i] = s[i]
  BY <1>1, <1>2
<1>5. \A i \in 1..Len(t) : i + Len(s) \in 1..Len(c) /\ c[i + Len(s)] = t[i]
  BY <1>1, <1>2
<1>6. \A i, j \in 1..Len(c) : i - Len(s) = j - Len(s) => i = j
  BY <1>1
<1> HIDE DEF c
<1>7. Elements(c) = Elements(s) \cup Elements(t)
  <2>1. Elements(c) \subseteq Elements(s) \cup Elements(t)
    BY <1>2, <1>3 DEF Elements
  <2>2. Elements(s) \subseteq Elements(c)
    BY <1>4 DEF Elements
  <2>3. Elements(t) \subseteq Elements(c)
    BY <1>5 DEF Elements
  <2> QED BY <2>1, <2>2, <2>3
<1>8. ASSUME NEW x, AtMostOnce(s, x), AtMostOnce(t, x), ~(x \in Elements(s) /\ x \in Elements(t))
      PROVE  AtMostOnce(c, x)
  <2> SUFFICES ASSUME NEW i \in 1..Len(c), NEW j \in 1..Len(c), c[i] = x, c[j] = x PROVE i = j
    BY DEF AtMostOnce
  <2>1. CASE i <= Len(s) /\ j <= Len(s)
    BY <1>2, <1>3, <1>8, <2>1 DEF AtMostOnce
  <2>2. CASE ~(i <= Len(s)) /\ ~(j <= Len(s))
    <3>1. i - Len(s) = j - Len(s)
      BY <1>2, <1>3, <1>8, <2>2 DEF AtMostOnce
    <3> QED BY <1>6, <3>1
  <2>3. CASE i <= Len(s) /\ ~(j <= Len(s))
    BY <1>2, <1>3, <1>8, <2>3 DEF Elements
  <2>4. CASE ~(i <= Len(s)) /\ j <= Len(s)
    BY <1>2, <1>3, <1>8, <2>4 DEF Elements
  <2> QED BY <2>1, <2>2, <2>3, <2>4
<1> QED BY <1>1, <1>7, <1>8 DEF c

\* A part of a sequence has elements of it.
LEMMA ElementsOfSubSeq ==
  ASSUME NEW S, NEW s \in Seq(S), NEW a \in 1..(Len(s) + 1), NEW b \in 0..Len(s)
  PROVE  SubSeq(s, a, b) \in Seq(S) /\ Elements(SubSeq(s, a, b)) \subseteq Elements(s)
<1> DEFINE p == SubSeq(s, a, b)
<1>1. p \in Seq(S) /\ Len(s) \in Nat /\ Len(p) = IF a <= b THEN b - a + 1 ELSE 0
  OBVIOUS
<1>2. \A i \in 1..Len(p) : p[i] = s[a + i - 1] /\ a + i - 1 \in 1..Len(s)
  BY <1>1
<1> HIDE DEF p
<1>3. Elements(p) \subseteq Elements(s)
  BY <1>2 DEF Elements
<1> QED BY <1>1, <1>3 DEF p

\* RemoveFirst leaves out one position, that of x, if x occurs.
LEMMA RemoveFirstIs ==
  ASSUME NEW S, NEW s \in Seq(S), NEW x, \E i \in 1..Len(s) : s[i] = x
  PROVE  \E k \in 1..Len(s) : /\ s[k] = x
                              /\ RemoveFirst(s, x) = SubSeq(s, 1, k - 1) \o SubSeq(s, k + 1, Len(s))
<1> DEFINE I == {i \in 1..Len(s) : s[i] = x}
           R == OpToRel(<, Nat)
           k == SelectInSeq(s, LAMBDA v : v = x)
<1>1. I \subseteq Nat /\ I # {}
  OBVIOUS
<1>2. PICK m \in I : \A y \in I : ~(<<y, m>> \in R)
  <2> HIDE DEF I, R
  <2>1. IsWellFoundedOn(R, Nat)
    BY NatLessThanWellFounded DEF R
  <2> QED BY <1>1, <2>1, WFMin
<1>3. ASSUME NEW y \in I PROVE m =< y
  <2>1. y \in Nat /\ m \in Nat
    BY <1>1, <1>2
  <2>2. ~(<<y, m>>[1] < <<y, m>>[2])
    BY <1>2, <2>1 DEF OpToRel
  <2> QED BY <2>1, <2>2
<1>4. Min(I) \in I
  BY <1>2, <1>3 DEF Min
<1>5. k = Min(I)
  BY <1>1 DEF SelectInSeq
<1>6. k \in 1..Len(s) /\ s[k] = x
  BY <1>4, <1>5
<1> HIDE DEF k
<1>7. RemoveFirst(s, x) = RemoveAt(s, k)
  BY DEF RemoveFirst, k
<1> QED BY <1>6, <1>7 DEF RemoveAt

\* Taking an element out leaves others only, none more often than before.
LEMMA ElementsOfRemoveFirst ==
  ASSUME NEW S, NEW s \in Seq(S), NEW x
  PROVE  /\ RemoveFirst(s, x) \in Seq(S) /\ Elements(RemoveFirst(s, x)) \subseteq Elements(s)
         /\ AtMostOnce(s, x) => x \notin Elements(RemoveFirst(s, x))
         /\ \A y : AtMostOnce(s, y) => AtMostOnce(RemoveFirst(s, x), y)
<1>1. CASE ~\E i \in 1..Len(s) : s[i] = x
  BY <1>1 DEF RemoveFirst, Elements
<1>2. CASE \E i \in 1..Len(s) : s[i] = x
  <2> DEFINE r == RemoveFirst(s, x)
  <2>1. PICK k \in 1..Len(s) : s[k] = x /\ r = SubSeq(s, 1, k - 1) \o SubSeq(s, k + 1, Len(s))
    BY <1>2, RemoveFirstIs
  <2> HIDE DEF r
  <2> DEFINE a == SubSeq(s, 1, k - 1)
             b == SubSeq(s, k + 1, Len(s))
             at(i) == IF i < k THEN i ELSE i + 1
  <2>2. Len(s) \in Nat /\ k \in Nat /\ k >= 1 /\ k =< Len(s)
    OBVIOUS
  <2>3. /\ a \in Seq(S) /\ Len(a) = k - 1 /\ \A i \in 1..Len(a) : a[i] = s[i]
        /\ b \in Seq(S) /\ Len(b) = Len(s) - k /\ \A i \in 1..Len(b) : b[i] = s[k + i]
    BY <2>2
  <2>4. r = a \o b
    BY <2>1
  <2> HIDE DEF a, b
  <2>5. /\ r \in Seq(S) /\ Len(r) = Len(s) - 1
        /\ \A i \in 1..Len(r) : r[i] = IF i <= Len(a) THEN a[i] ELSE b[i - Len(a)]
    <3>1. a \in Seq(S) /\ b \in Seq(S) /\ Len(a) + Len(b) = Len(s) - 1
      BY <2>2, <2>3
    <3>2. /\ a \o b \in Seq(S) /\ Len(a \o b) = Len(a) + Len(b)
          /\ \A i \in 1..Len(a \o b) : (a \o b)[i] = IF i <= Len(a) THEN a[i] ELSE b[i - Len(a)]
      BY <3>1
    <3> QED BY <2>4, <3>1, <3>2
  <2>6. \A i \in 1..Len(r) : at(i) \in 1..Len(s) /\ at(i) # k
    BY <2>2, <2>5
  <2>7. \A i, j \in 1..Len(r) : at(i) = at(j) => i = j
    BY <2>2, <2>5
  <2>8. ASSUME NEW i \in 1..Len(r) PROVE r[i] = s[at(i)]
    <3>1. CASE i < k
      <4>1. i \in 1..Len(a)
        BY <2>2, <2>3, <2>5, <3>1
      <4> QED BY <2>3, <2>5, <3>1, <4>1
    <3>2. CASE ~(i < k)
      <4>1. i - Len(a) \in 1..Len(b) /\ ~(i <= Len(a)) /\ k + (i - Len(a)) = i + 1
        BY <2>2, <2>3, <2>5, <3>2
      <4> QED BY <2>3, <2>5, <3>2, <4>1
    <3> QED BY <3>1, <3>2
  <2> HIDE DEF at
  <2>9. Elements(r) \subseteq Elements(s)
    BY <2>6, <2>8 DEF Elements
  <2>10. AtMostOnce(s, x) => x \notin Elements(r)
    BY <2>1, <2>6, <2>8 DEF AtMostOnce, Elements
  <2>11. \A y : AtMostOnce(s, y) => AtMostOnce(r, y)
    BY <2>6, <2>7, <2>8 DEF AtMostOnce
  <2> QED BY <2>5, <2>9, <2>10, <2>11 DEF r
<1> QED BY <1>1, <1>2

(***************************************************************************)
(* What a step may leave alone, and what follows.                          *)
(***************************************************************************)
SameMail == /\ queue' = queue /\ ui'.held = ui.held /\ ui'.inputs = ui.inputs
            /\ hist'.delivered = hist.delivered
SameHand == agent'.at = agent.at /\ agent'.todo = agent.todo /\ agent'.owner = agent.owner
SameCall(y) == call'[y].pc = call[y].pc /\ call'[y].stage = call[y].stage /\ call'[y].batch = call[y].batch

\* A message in hand is that message.
LEMMA UserIsOne == ASSUME NEW x, NEW y, <<User(x)>> = <<User(y)>> PROVE x = y
<1>1. User(x).id = User(y).id
  BY <<User(x)>>[1] = <<User(y)>>[1]
<1> QED BY <1>1 DEF User

\* A step of the agent that takes and delivers nothing.
LEMMA AgentGoesOn ==
  ASSUME NEW x \in Users, Followed(x), SameMail, Elements(shown') \subseteq Elements(shown),
         agent'.at # "deliver", agent'.at # "idle" => agent.at # "idle" /\ agent'.owner = agent.owner,
         sess'.sleeper = sess.sleeper, \A y \in Users : SameCall(y)
  PROVE  Followed(x)'
<1> USE DEF SameMail, SameCall
<1>1. Once(x)'        BY DEF Followed, Once
<1>2. Placed(x)'      BY DEF Followed, Placed, InHand
<1>3. Undelivered(x)' BY DEF Followed, Undelivered, InHand, Ahead
<1>4. Owned(x)'       BY DEF Followed, Owned
<1>5. Flushing(x)'    BY DEF Followed, Flushing
<1>6. Alone(x)'       BY DEF Followed, Alone, Engaged
<1> QED BY <1>1, <1>2, <1>3, <1>4, <1>5, <1>6 DEF Followed

\* A step of the call for m, which is not running: what it waits for, or that it is over.
LEMMA CallGoesOn ==
  ASSUME NEW x \in Users, NEW m \in Users, Followed(x), Followed(m), SameMail, shown' = shown, SameHand,
         \A y \in Users \ {m} : SameCall(y),
         call'[m].stage = call[m].stage, call'[m].batch = call[m].batch,
         call[m].pc \in (InPrompt \cup {"hooks"}) \ {"running"},
         call'[m].pc \in (InPrompt \cup {"hooks", "done"}) \ {"running"},
         Ahead(m)' => Ahead(m), Engaged(m)' => Engaged(m),
         sess'.sleeper = x => call'[x].pc \in {"sleeping", "cancelled"}
  PROVE  Followed(x)'
<1> USE DEF SameMail, SameHand, SameCall, InPrompt
<1>1. Once(x)'        BY DEF Followed, Once
<1>2. Placed(x)'      BY DEF Followed, Placed, InHand
<1>3. Undelivered(x)'
  <2>1. Ahead(x)' => Ahead(x)
    BY DEF Ahead
  <2> HIDE DEF Ahead
  <2> QED BY <2>1 DEF Followed, Undelivered, InHand
<1>4. Owned(x)'       BY DEF Followed, Owned
<1>5. Flushing(x)'    BY DEF Followed, Flushing
<1>6. Alone(x)'
  <2>1. \A y \in Users : Engaged(y)' => Engaged(y)
    BY DEF Engaged
  <2>2. \A y \in Users : call'[y].pc = "called" => call[y].pc = "called"
    OBVIOUS
  <2> QED BY <2>1, <2>2 DEF Followed, Alone
<1> QED BY <1>1, <1>2, <1>3, <1>4, <1>5, <1>6 DEF Followed

(***************************************************************************)
(* Initial states, and the steps of the agent.                             *)
(***************************************************************************)
LEMMA InitialStates == Init => Inv
<1> HAVE Init
<1> USE DEF Init, NewCall
<1>1. HistType
  BY DEF HistType
<1>2. Types
  <2>1. AgentType  BY DEF AgentType
  <2>2. SessType   BY DEF SessType
  <2>3. CallType
    <3>1. <<>> \in Seq(Users)
      OBVIOUS
    <3>2. DOMAIN call = Users /\ \A m \in Users : call[m] = NewCall
      OBVIOUS
    <3> QED BY <3>1, <3>2 DEF CallType, Waiting, Stages
  <2>4. PlaceType  BY DEF PlaceType
  <2> QED BY <2>1, <2>2, <2>3, <2>4 DEF Types
<1>3. ASSUME NEW x \in Users PROVE Followed(x)
  <2>1. \A y \in Users : call[y].pc = "new" /\ call[y].stage = "own" /\ call[y].batch = <<>>
    OBVIOUS
  <2>2. agent.at = "idle" /\ x \notin Elements(<<>>) /\ AtMostOnce(<<>>, x) /\ sess.sleeper # x
    BY ElementsOfEmpty, SessionBounds
  <2>3. Once(x)         BY <2>2 DEF Once
  <2>4. Placed(x)       BY <2>2 DEF Placed, InHand
  <2>5. Undelivered(x)  BY <2>2 DEF Undelivered, InHand
  <2>6. Owned(x)        BY <2>2 DEF Owned
  <2>7. Flushing(x)     BY <2>1 DEF Flushing
  <2>8. Alone(x)        BY <2>1 DEF Alone, Engaged, InPrompt
  <2> QED BY <2>3, <2>4, <2>5, <2>6, <2>7, <2>8 DEF Followed
<1> QED BY <1>1, <1>2, <1>3 DEF Inv, Good

AgentFields == {"messages", "at", "todo", "then", "polled", "since", "heard", "owner", "run", "aborted"}

\* A message is pushed: it is saved next.
LEMMA PushedFields ==
  ASSUME AgentType, NEW x
  PROVE  /\ DOMAIN Pushed(x) = DOMAIN agent /\ Pushed(x).at = "save" /\ Pushed(x).owner = agent.owner
         /\ Pushed(x).then = agent.then
  BY DEF AgentType, Pushed

\* The shapes of what a step leaves alone.
LEMMA UnchangedTypes ==
  /\ SessType /\ sess' = sess => SessType'
  /\ CallType /\ call' = call => CallType'
  /\ AgentType /\ agent' = agent => AgentType'
  /\ PlaceType /\ UNCHANGED <<queue, shown, manual, ui>> /\ hist'.delivered = hist.delivered => PlaceType'
<1>1. SessType /\ sess' = sess => SessType'
  BY DEF SessType
<1>2. CallType /\ call' = call => CallType'
  BY DEF CallType
<1>3. AgentType /\ agent' = agent => AgentType'
  BY DEF AgentType
<1>4. PlaceType /\ UNCHANGED <<queue, shown, manual, ui>> /\ hist'.delivered = hist.delivered => PlaceType'
  BY DEF PlaceType
<1> QED BY <1>1, <1>2, <1>3, <1>4

\* The agent is given the message in hand.
LEMMA DeliverKeeps == ASSUME Good, HistType, Deliver PROVE Good'
<1> Types /\ AgentType /\ SessType /\ CallType /\ PlaceType
  BY DEF Good, Types
<1>1. PICK u \in Users : agent.todo = <<User(u)>>
  BY DEF Deliver, AgentType
<1>2. Head(agent.todo) = User(u) /\ User(u).id = u
  BY <1>1 DEF User
<1>3. /\ agent' = Pushed(User(u)) /\ hist'.delivered = Append(hist.delivered, u)
      /\ queue' = queue /\ ui' = ui /\ call' = call /\ manual' = manual
      /\ shown' = IF sess.connected THEN RemoveFirst(shown, u) ELSE shown
      /\ sess' = [sess EXCEPT !.overflow = @ /\ ~sess.connected]
  BY <1>2 DEF Deliver, HistType
<1>4. shown' \in Seq(Users) /\ Elements(shown') \subseteq Elements(shown)
  BY <1>3, ElementsOfRemoveFirst DEF PlaceType
<1>5. /\ Append(hist.delivered, u) \in Seq(Users)
      /\ Elements(hist'.delivered) = Elements(hist.delivered) \cup {u}
      /\ u \notin Elements(hist.delivered) => AtMostOnce(hist'.delivered, u)
      /\ \A y : y # u /\ AtMostOnce(hist.delivered, y) => AtMostOnce(hist'.delivered, y)
  BY <1>3, ElementsOfAppend DEF PlaceType
<1>6. agent'.at = "save" /\ agent'.owner = agent.owner /\ agent.at = "deliver"
  BY <1>3, PushedFields DEF Deliver
<1>7. Types'
  <2>1. AgentType'  BY <1>3, <1>6, PushedFields DEF AgentType
  <2>2. SessType'   BY <1>3 DEF SessType
  <2>3. CallType'   BY <1>3, UnchangedTypes
  <2>4. PlaceType'  BY <1>3, <1>4, <1>5 DEF PlaceType
  <2> QED BY <2>1, <2>2, <2>3, <2>4 DEF Types
<1>8. sess'.sleeper = sess.sleeper
  BY <1>3 DEF SessType
<1>9. InHand(u) /\ u \notin Elements(hist.delivered) /\ u \notin Elements(queue)
  BY <1>1, <1>6 DEF InHand, Good, Followed, Undelivered
<1>10. ASSUME NEW x \in Users PROVE Followed(x)'
  <2> Followed(x) /\ Followed(u)
    BY DEF Good
  <2>1. Once(x)'
    BY <1>3, <1>5, <1>9 DEF Followed, Once
  <2>2. Placed(x)'
    BY <1>3, <1>4, <1>6 DEF Followed, Placed, InHand
  <2>3. Undelivered(x)'
    <3>1. ~InHand(x)' /\ ~Ahead(u)
      BY <1>6, <1>9 DEF InHand, Followed, Placed, Ahead, Waiting, InPrompt
    <3>2. Ahead(x)' <=> Ahead(x)
      BY <1>3 DEF Ahead
    <3> QED BY <1>3, <1>5, <1>9, <3>1, <3>2 DEF Followed, Undelivered
  <2>4. Owned(x)'
    BY <1>3, <1>6, <1>8 DEF Followed, Owned
  <2>5. Flushing(x)'
    BY <1>3 DEF Followed, Flushing
  <2>6. Alone(x)'
    BY <1>3 DEF Followed, Alone, Engaged
  <2> QED BY <2>1, <2>2, <2>3, <2>4, <2>5, <2>6 DEF Followed
<1> QED BY <1>7, <1>10 DEF Good

\* A step of the agent after which it holds no message, and nothing else is changed.
LEMMA AgentKeeps ==
  ASSUME Good, AgentType', SessType', sess'.sleeper = sess.sleeper, agent'.at # "deliver",
         agent'.at # "idle" => agent.at # "idle" /\ agent'.owner = agent.owner,
         UNCHANGED <<queue, shown, call, manual, ui>>, hist'.delivered = hist.delivered
  PROVE  Good'
<1>1. Types'
  BY UnchangedTypes DEF Good, Types
<1>2. ASSUME NEW x \in Users PROVE Followed(x)'
  BY AgentGoesOn DEF Good, SameMail, SameCall
<1> QED BY <1>1, <1>2 DEF Good

LEMMA ReplyArrivesKeeps == ASSUME Good, HistType, ReplyArrives PROVE Good'
<1> AgentType /\ SessType
  BY DEF Good, Types
<1>1. PICK r \in Replies :
        agent' = [Pushed(r) EXCEPT !.polled = FALSE, !.then = IF Final(r) THEN "end" ELSE "request"]
  BY DEF ReplyArrives
<1>2. /\ DOMAIN agent' = DOMAIN agent /\ agent'.at = "save" /\ agent'.owner = agent.owner
      /\ agent'.then \in {"request", "end"}
  BY <1>1, PushedFields DEF AgentType
<1>3. agent.at = "request" /\ hist'.delivered = hist.delivered
  BY DEF ReplyArrives, HistType
<1>4. AgentType'
  BY <1>2, <1>3 DEF AgentType
<1> QED BY <1>2, <1>3, <1>4, AgentKeeps, UnchangedTypes DEF ReplyArrives

LEMMA ToolAnswersKeeps == ASSUME Good, HistType, ToolAnswers PROVE Good'
<1> AgentType /\ SessType
  BY DEF Good, Types
<1>1. /\ DOMAIN agent' = DOMAIN agent /\ agent'.at = "save" /\ agent'.owner = agent.owner
      /\ agent'.then = agent.then
  BY PushedFields DEF ToolAnswers
<1>2. AgentType'
  BY <1>1 DEF AgentType, ToolAnswers
<1> QED BY <1>1, <1>2, AgentKeeps, UnchangedTypes DEF ToolAnswers

\* After a message the loop goes to a request, a poll, the tools or the end.
LEMMA MessageEndKeeps == ASSUME Good, HistType, MessageEnd PROVE Good'
<1> AgentType /\ SessType
  BY DEF Good, Types
<1> DEFINE h == Head(agent.todo)
<1>1. /\ agent.at = "save"
      /\ agent' = [agent EXCEPT !.todo = Tail(@), !.heard = FALSE, !.at = AfterMessage(h), !.since = Compactions]
      /\ sess' = IF agent.heard /\ h.role = "assistant" THEN Counted(h) ELSE sess
      /\ UNCHANGED <<queue, shown, call, manual, ui, hist>>
  BY DEF MessageEnd
<1> HIDE DEF h
<1>2. AfterMessage(h) \in {"request", "poll", "tools", "end"}
  BY DEF AfterMessage
<1>3. /\ DOMAIN agent' = DOMAIN agent /\ agent'.at = AfterMessage(h) /\ agent'.owner = agent.owner
      /\ agent'.then = agent.then
  BY <1>1 DEF AgentType
<1>4. AgentType'
  BY <1>1, <1>2, <1>3 DEF AgentType
<1>5. SessType' /\ sess'.sleeper = sess.sleeper
  BY <1>1 DEF SessType, Counted
<1> QED BY <1>1, <1>2, <1>3, <1>4, <1>5, AgentKeeps

\* The agent takes the next message out of the queue, or goes on.
LEMMA PollKeeps == ASSUME Good, Calls({"called"}) = {}, Poll PROVE Good'
<1> Types /\ AgentType /\ SessType /\ CallType /\ PlaceType
  BY DEF Good, Types
<1>1. agent.at = "poll" /\ UNCHANGED <<shown, sess, call, manual, ui, hist>>
  BY DEF Poll
<1>2. CASE queue = <<>>
  <2>1. agent' = [agent EXCEPT !.at = agent.then, !.since = Compactions] /\ queue' = queue
    BY <1>2 DEF Poll
  <2>2. /\ DOMAIN agent' = DOMAIN agent /\ agent'.at = agent.then /\ agent'.owner = agent.owner
        /\ agent'.then = agent.then
    BY <2>1 DEF AgentType
  <2>3. AgentType' /\ agent'.at # "deliver"
    BY <1>1, <2>2 DEF AgentType
  <2> QED BY <1>1, <2>1, <2>2, <2>3, AgentKeeps, UnchangedTypes
<1>3. CASE queue # <<>>
  <2> DEFINE u == Head(queue)
  <2>1. /\ agent' = [agent EXCEPT !.at = "deliver", !.todo = <<User(u)>>, !.polled = TRUE, !.then = "request"]
        /\ queue' = Tail(queue)
    BY <1>3 DEF Poll
  <2>2. /\ Tail(queue) \in Seq(Users) /\ u \in Users /\ Elements(queue) = {u} \cup Elements(queue')
        /\ AtMostOnce(queue, u) => u \notin Elements(queue')
        /\ \A x : AtMostOnce(queue, x) => AtMostOnce(queue', x)
    BY <1>3, <2>1, ElementsOfTail DEF PlaceType
  <2> HIDE DEF u
  <2>3. /\ DOMAIN agent' = DOMAIN agent /\ agent'.at = "deliver" /\ agent'.owner = agent.owner
        /\ agent'.then = "request" /\ agent'.todo = <<User(u)>>
    BY <2>1 DEF AgentType
  <2>4. Types'
    <3>1. AgentType'  BY <1>1, <2>2, <2>3 DEF AgentType
    <3>2. PlaceType'  BY <1>1, <2>1, <2>2 DEF PlaceType
    <3> QED BY <1>1, <3>1, <3>2, UnchangedTypes DEF Types
  <2>5. u \in Elements(queue) /\ u \notin Elements(queue') /\ u \notin Elements(hist.delivered) /\ call[u].pc = "done"
    BY <2>2 DEF Good, Followed, Once, Placed, Undelivered
  <2>6. ASSUME NEW x \in Users PROVE Followed(x)'
    <3> Followed(x)
      BY DEF Good
    <3>1. InHand(x)' <=> x = u
      BY <2>3, UserIsOne DEF InHand
    <3>2. Once(x)'         BY <1>1, <2>2 DEF Followed, Once
    <3>3. Placed(x)'       BY <1>1, <2>2, <2>5, <3>1 DEF Followed, Placed
    <3>4. Undelivered(x)'
      <4>1. Ahead(x)' <=> Ahead(x)
        BY <1>1 DEF Ahead
      <4> QED BY <1>1, <2>2, <2>5, <3>1, <4>1 DEF Followed, Undelivered
    <3>5. Owned(x)'        BY <1>1, <2>3 DEF Followed, Owned
    <3>6. Flushing(x)'     BY <1>1 DEF Followed, Flushing, Calls
    <3>7. Alone(x)'        BY <1>1 DEF Followed, Alone, Engaged
    <3> QED BY <3>2, <3>3, <3>4, <3>5, <3>6, <3>7 DEF Followed
  <2> QED BY <2>4, <2>6 DEF Good
<1> QED BY <1>2, <1>3

(***************************************************************************)
(* The steps of a call.                                                    *)
(***************************************************************************)
\* Of all calls m's is at p and in stage s now, the others are where they were.
Moves(m, p, s) ==
  /\ DOMAIN call' = Users
  /\ \A y \in Users :
       /\ DOMAIN call'[y] = DOMAIN call[y] /\ call'[y].batch = call[y].batch
       /\ call'[y].pc = IF y = m THEN p ELSE call[y].pc
       /\ call'[y].stage = IF y = m THEN s ELSE call[y].stage

LEMMA MovesType ==
  ASSUME CallType, NEW m \in Users, NEW p \in Waiting \cup Over \cup InPrompt, NEW s \in Stages, Moves(m, p, s)
  PROVE  CallType'
  BY DEF CallType, Moves

LEMMA AtMoves ==
  ASSUME CallType, NEW m \in Users, NEW p, call' = At(m, p)
  PROVE  Moves(m, p, call[m].stage)
  BY DEF CallType, Moves, At

\* What the agent holds, for whom, and where it goes after a poll.
SameAgent == SameHand /\ agent'.then = agent.then /\ DOMAIN agent' = DOMAIN agent

LEMMA SameAgentType == ASSUME AgentType, SameAgent PROVE AgentType'
  BY DEF AgentType, SameAgent, SameHand

SamePlaces == UNCHANGED <<queue, shown>> /\ ui'.held = ui.held /\ ui'.inputs = ui.inputs
              /\ DOMAIN ui' = DOMAIN ui /\ DOMAIN manual' = DOMAIN manual /\ hist'.delivered = hist.delivered

LEMMA SamePlacesType == ASSUME PlaceType, SamePlaces PROVE PlaceType'
  BY DEF PlaceType, SamePlaces

\* No message and no call moves.
LEMMA NothingMoves ==
  ASSUME Good, SamePlaces, SameAgent, SessType', sess'.sleeper = sess.sleeper, DOMAIN call' = Users,
         \A y \in Users : SameCall(y) /\ DOMAIN call'[y] = DOMAIN call[y]
  PROVE  Good'
<1> Types /\ AgentType /\ SessType /\ CallType /\ PlaceType
  BY DEF Good, Types
<1>1. Types'
  <2>1. CallType'
    BY DEF CallType, SameCall
  <2> QED BY <2>1, SameAgentType, SamePlacesType DEF Types
<1>2. ASSUME NEW x \in Users PROVE Followed(x)'
  <2> Followed(x)
    BY DEF Good
  <2> USE DEF SamePlaces, SameAgent, SameHand, SameCall
  <2>1. Once(x)'         BY DEF Followed, Once
  <2>2. Placed(x)'       BY DEF Followed, Placed, InHand
  <2>3. Undelivered(x)'  BY DEF Followed, Undelivered, InHand, Ahead
  <2>4. Owned(x)'        BY DEF Followed, Owned
  <2>5. Flushing(x)'     BY DEF Followed, Flushing
  <2>6. Alone(x)'        BY DEF Followed, Alone, Engaged
  <2> QED BY <2>1, <2>2, <2>3, <2>4, <2>5, <2>6 DEF Followed
<1> QED BY <1>1, <1>2 DEF Good

\* One call moves within prompt(): no message moves.
LEMMA CallKeeps ==
  ASSUME Good, SamePlaces, SameAgent, SessType', NEW m \in Users,
         NEW p \in (InPrompt \cup {"hooks", "done"}) \ {"running"}, Moves(m, p, call[m].stage),
         call[m].pc \in (InPrompt \cup {"hooks"}) \ {"running"},
         p = "hooks" => call[m].stage # "own",
         (call[m].pc = "finish" /\ call[m].stage = "own") => p = "done",
         \A x \in Users : sess'.sleeper = x => call'[x].pc \in {"sleeping", "cancelled"}
  PROVE  Good'
<1> Types /\ AgentType /\ SessType /\ CallType /\ PlaceType
  BY DEF Good, Types
<1>1. call[m].stage \in Stages /\ p \in Waiting \cup Over \cup InPrompt
  BY DEF CallType, Waiting, Over
<1>2. Types'
  BY <1>1, MovesType, SameAgentType, SamePlacesType DEF Types
<1>3. call'[m].pc = p /\ call'[m].stage = call[m].stage /\ call'[m].batch = call[m].batch
  BY DEF Moves
<1>4. \A y \in Users \ {m} : SameCall(y)
  BY DEF Moves, SameCall
<1>5. Ahead(m)' => Ahead(m)
  BY <1>3 DEF Ahead, Waiting, InPrompt
<1>6. Engaged(m)' => Engaged(m)
  BY <1>3 DEF Engaged, InPrompt
<1>7. SameMail /\ shown' = shown /\ SameHand
  BY DEF SamePlaces, SameMail, SameAgent
<1>8. ASSUME NEW x \in Users PROVE Followed(x)'
  <2>1. Followed(x) /\ Followed(m)
    BY DEF Good
  <2> HIDE DEF InPrompt
  <2> QED BY <1>3, <1>4, <1>5, <1>6, <1>7, <2>1, CallGoesOn
<1> QED BY <1>2, <1>8 DEF Good

\* Bash messages are added to the agent's and the branch: nothing else changes.
LEMMA FlushBashFields ==
  ASSUME AgentType, SessType, FlushBash
  PROVE  SameAgent /\ SessType' /\ sess'.sleeper = sess.sleeper
  BY DEF AgentType, SessType, FlushBash, SameAgent, SameHand

\* A sleeper is a call whose delay is not over: what a step of another one leaves.
LEMMA SleeperStays ==
  ASSUME Good, NEW m \in Users, NEW p, NEW s, Moves(m, p, s), call[m].pc \notin {"sleeping", "cancelled"},
         sess'.sleeper = sess.sleeper
  PROVE  \A x \in Users : sess'.sleeper = x => call'[x].pc \in {"sleeping", "cancelled"}
  BY DEF Good, Followed, Owned, Moves

LEMMA FinishKeeps == ASSUME Good, HistType, NEW m \in Users, Finish(m) PROVE Good'
<1> AgentType /\ SessType /\ CallType /\ PlaceType
  BY DEF Good, Types
<1> DEFINE p == IF call[m].stage = "pre" THEN "hooks" ELSE "done"
<1>1. /\ call[m].pc = "finish" /\ FlushBash /\ call' = At(m, p)
      /\ UNCHANGED <<queue, shown, manual, hist>>
      /\ ui' = [ui EXCEPT !.main = IF @ = m /\ call[m].stage # "pre" THEN None ELSE @]
  BY DEF Finish
<1>2. p \in {"hooks", "done"} /\ (p = "hooks" => call[m].stage = "pre") /\ (call[m].stage # "pre" => p = "done")
  OBVIOUS
<1> HIDE DEF p
<1>3. Moves(m, p, call[m].stage)
  BY <1>1, AtMoves
<1>4. SamePlaces
  BY <1>1 DEF PlaceType, SamePlaces
<1>5. SameAgent /\ SessType' /\ sess'.sleeper = sess.sleeper
  BY <1>1, FlushBashFields
<1>6. \A x \in Users : sess'.sleeper = x => call'[x].pc \in {"sleeping", "cancelled"}
  BY <1>1, <1>3, <1>5, SleeperStays
<1>7. call[m].pc \in (InPrompt \cup {"hooks"}) \ {"running"} /\ p \in (InPrompt \cup {"hooks", "done"}) \ {"running"}
  BY <1>1, <1>2 DEF InPrompt
<1> QED BY <1>1, <1>2, <1>3, <1>4, <1>5, <1>6, <1>7, CallKeeps

LEMMA WakeKeeps == ASSUME Good, HistType, NEW m \in Users, Wake(m) PROVE Good'
<1> AgentType /\ SessType /\ CallType /\ PlaceType
  BY DEF Good, Types
<1>1. /\ call[m].pc = "sleeping" /\ call' = At(m, "continue")
      /\ sess' = [sess EXCEPT !.sleeper = IF @ = m THEN None ELSE @]
      /\ UNCHANGED <<agent, queue, shown, manual, ui, hist>>
  BY DEF Wake
<1>2. Moves(m, "continue", call[m].stage)
  BY <1>1, AtMoves
<1>3. SamePlaces /\ SameAgent
  BY <1>1 DEF SamePlaces, SameAgent, SameHand
<1>4. SessType' /\ sess'.sleeper = IF sess.sleeper = m THEN None ELSE sess.sleeper
  BY <1>1 DEF SessType
<1>5. \A x \in Users : sess'.sleeper = x => call'[x].pc \in {"sleeping", "cancelled"}
  BY <1>2, <1>4, SessionBounds DEF Good, Followed, Owned, Moves
<1>6. call[m].pc \in (InPrompt \cup {"hooks"}) \ {"running"} /\ "continue" \in (InPrompt \cup {"hooks", "done"}) \ {"running"}
  BY <1>1 DEF InPrompt
<1> QED BY <1>1, <1>2, <1>3, <1>4, <1>5, <1>6, CallKeeps

\* Where the call goes when nothing is compacted.
LEMMA NotCompactedFields ==
  ASSUME NEW m, NEW q
  PROVE  /\ NotCompacted(m, q) \in {"hooks", "continue", "finish"}
         /\ NotCompacted(m, q) = "hooks" => call[m].stage = "check"
  BY DEF NotCompacted

\* _checkCompaction after a run, with session fields s.
LEMMA CheckAfterRunKeeps ==
  ASSUME Good, HistType, NEW m \in Users, call[m].pc \in {"ran", "cancelled"}, NEW msg, NEW s,
         DOMAIN s = DOMAIN sess, s.sleeper \in {sess.sleeper, None},
         call[m].pc = "cancelled" => s.sleeper = None,
         CheckAfterRun(m, msg, s), UNCHANGED <<queue, shown, manual, ui>>
  PROVE  Good'
<1> AgentType /\ SessType /\ CallType /\ PlaceType
  BY DEF Good, Types
<1> DEFINE job == Check(msg, TRUE)
           p == IF job = "no" THEN NotCompacted(m, queue) ELSE "auth"
<1>1. /\ agent' = [agent EXCEPT !.messages = IF job = "retry" THEN DropReply(agent.messages) ELSE agent.messages]
      /\ sess' = [s EXCEPT !.overflow = @ \/ job = "retry"]
      /\ hist' = [hist EXCEPT !.recovered = @ \/ job = "retry", !.errors = 0]
      /\ call' = [call EXCEPT ![m].pc = p, ![m].reply = NoReply, ![m].willRetry = job = "retry"]
  BY DEF CheckAfterRun, Start
<1> HIDE DEF job
<1>2. p \in {"hooks", "continue", "finish", "auth"} /\ (p = "hooks" => call[m].stage = "check")
  BY NotCompactedFields
<1> HIDE DEF p
<1>3. Moves(m, p, call[m].stage)
  BY <1>1 DEF Moves, CallType
<1>4. SamePlaces
  BY <1>1 DEF SamePlaces, HistType
<1>5. SameAgent
  BY <1>1 DEF SameAgent, SameHand, AgentType
<1>6. SessType' /\ sess'.sleeper = s.sleeper
  BY <1>1 DEF SessType
<1>7. \A x \in Users : sess'.sleeper = x => call'[x].pc \in {"sleeping", "cancelled"}
  BY <1>3, <1>6, SessionBounds DEF Good, Followed, Owned, Moves
<1>8. call[m].pc \in (InPrompt \cup {"hooks"}) \ {"running"} /\ p \in (InPrompt \cup {"hooks", "done"}) \ {"running"}
  BY <1>2 DEF InPrompt
<1> QED BY <1>2, <1>3, <1>4, <1>5, <1>6, <1>7, <1>8, CallKeeps

LEMMA PostRunKeeps == ASSUME Good, HistType, NEW m \in Users, PostRun(m) PROVE Good'
<1> AgentType /\ SessType /\ CallType /\ PlaceType
  BY DEF Good, Types
<1> DEFINE rest == [sess EXCEPT !.last = NoReply]
<1>1. call[m].pc = "ran" /\ UNCHANGED <<queue, shown, manual, ui>>
  BY DEF PostRun
<1>2. DOMAIN rest = DOMAIN sess /\ rest.sleeper = sess.sleeper
  BY DEF SessType
<1>3. call[m].pc \in (InPrompt \cup {"hooks"}) \ {"running"} /\ {"finish", "sleeping"} \subseteq (InPrompt \cup {"hooks", "done"}) \ {"running"}
  BY <1>1 DEF InPrompt
<1>4. CASE sess.last = NoReply
  <2>1. sess' = rest /\ call' = At(m, "finish") /\ hist' = [hist EXCEPT !.errors = 0] /\ UNCHANGED agent
    BY <1>4 DEF PostRun
  <2>2. Moves(m, "finish", call[m].stage)
    BY <2>1, AtMoves
  <2>3. SamePlaces /\ SameAgent
    BY <1>1, <2>1 DEF SamePlaces, SameAgent, SameHand, HistType
  <2>4. SessType' /\ sess'.sleeper = sess.sleeper
    BY <2>1, <1>2 DEF SessType
  <2>5. \A x \in Users : sess'.sleeper = x => call'[x].pc \in {"sleeping", "cancelled"}
    BY <1>1, <2>2, <2>4, SleeperStays
  <2> QED BY <1>1, <1>3, <2>2, <2>3, <2>4, <2>5, CallKeeps
<1>5. CASE sess.last # NoReply /\ Retries(sess.last)
  <2>1. /\ sess' = [rest EXCEPT !.attempt = @ + 1, !.sleeper = m]
        /\ agent' = [agent EXCEPT !.messages = DropReply(@)]
        /\ call' = [call EXCEPT ![m].pc = "sleeping", ![m].reply = sess.last]
        /\ UNCHANGED hist
    BY <1>5 DEF PostRun
  <2>2. Moves(m, "sleeping", call[m].stage)
    BY <2>1 DEF Moves, CallType
  <2>3. SamePlaces /\ SameAgent
    BY <1>1, <2>1 DEF SamePlaces, SameAgent, SameHand, AgentType
  <2>4. SessType' /\ sess'.sleeper = m
    BY <2>1, <1>2 DEF SessType
  <2>5. \A x \in Users : sess'.sleeper = x => call'[x].pc \in {"sleeping", "cancelled"}
    BY <2>2, <2>4 DEF Moves
  <2> QED BY <1>1, <1>3, <2>2, <2>3, <2>4, <2>5, CallKeeps
<1>6. CASE sess.last # NoReply /\ ~Retries(sess.last)
  <2> DEFINE s == [rest EXCEPT !.attempt = IF Failed(sess.last) THEN 0 ELSE @]
  <2>1. CheckAfterRun(m, sess.last, s)
    BY <1>6 DEF PostRun
  <2>2. DOMAIN s = DOMAIN sess /\ s.sleeper = sess.sleeper
    BY <1>2 DEF SessType
  <2> HIDE DEF s
  <2> QED BY <1>1, <2>1, <2>2, CheckAfterRunKeeps
<1> QED BY <1>4, <1>5, <1>6

LEMMA RetryCancelledKeeps == ASSUME Good, HistType, NEW m \in Users, RetryCancelled(m) PROVE Good'
<1> SessType
  BY DEF Good, Types
<1> DEFINE s == [sess EXCEPT !.attempt = 0, !.sleeper = None]
<1>1. /\ call[m].pc = "cancelled" /\ CheckAfterRun(m, call[m].reply, s)
      /\ UNCHANGED <<queue, shown, manual, ui>>
  BY DEF RetryCancelled
<1>2. DOMAIN s = DOMAIN sess /\ s.sleeper = None
  BY DEF SessType
<1> HIDE DEF s
<1> QED BY <1>1, <1>2, CheckAfterRunKeeps

LEMMA AutoAuthKeeps == ASSUME Good, HistType, NEW m \in Users, AutoAuth(m) PROVE Good'
<1> AgentType /\ SessType /\ CallType /\ PlaceType
  BY DEF Good, Types
<1>1. call[m].pc = "auth" /\ UNCHANGED <<agent, queue, shown, sess, manual, ui, hist>>
  BY DEF AutoAuth
<1>2. PICK p \in {"hooks", "continue", "finish", "summarise"} :
        Moves(m, p, call[m].stage) /\ (p = "hooks" => call[m].stage = "check")
  <2>1. CASE call' = At(m, NotCompacted(m, queue))
    <3>1. Moves(m, NotCompacted(m, queue), call[m].stage)
      BY <2>1, AtMoves
    <3> QED BY <3>1, NotCompactedFields
  <2>2. CASE \E k \in CutPoints(branch) :
               call' = [call EXCEPT ![m].pc = "summarise", ![m].keep = k, ![m].aborted = FALSE]
    <3>1. Moves(m, "summarise", call[m].stage)
      BY <2>2 DEF Moves, CallType
    <3> QED BY <3>1
  <2> QED BY <2>1, <2>2 DEF AutoAuth
<1>3. SamePlaces /\ SameAgent /\ SessType'
  BY <1>1, UnchangedTypes DEF SamePlaces, SameAgent, SameHand
<1>4. \A x \in Users : sess'.sleeper = x => call'[x].pc \in {"sleeping", "cancelled"}
  BY <1>1, <1>2, SleeperStays
<1>5. call[m].pc \in (InPrompt \cup {"hooks"}) \ {"running"} /\ p \in (InPrompt \cup {"hooks", "done"}) \ {"running"}
  BY <1>1, <1>2 DEF InPrompt
<1> QED BY <1>1, <1>2, <1>3, <1>4, <1>5, CallKeeps

LEMMA AutoSummarisedKeeps == ASSUME Good, HistType, NEW m \in Users, AutoSummarised(m) PROVE Good'
<1> AgentType /\ SessType /\ CallType /\ PlaceType
  BY DEF Good, Types
<1>1. /\ call[m].pc = "summarise" /\ call' = At(m, "compacted") /\ UNCHANGED <<queue, shown, sess, manual, ui, hist>>
      /\ agent' = [agent EXCEPT !.messages = buildSessionContext(branch')]
  BY DEF AutoSummarised, Compacted
<1>2. Moves(m, "compacted", call[m].stage)
  BY <1>1, AtMoves
<1>3. SamePlaces /\ SameAgent /\ SessType'
  BY <1>1, UnchangedTypes DEF SamePlaces, SameAgent, SameHand, AgentType
<1>4. \A x \in Users : sess'.sleeper = x => call'[x].pc \in {"sleeping", "cancelled"}
  BY <1>1, <1>2, SleeperStays
<1>5. call[m].pc \in (InPrompt \cup {"hooks"}) \ {"running"} /\ "compacted" \in (InPrompt \cup {"hooks", "done"}) \ {"running"}
  BY <1>1 DEF InPrompt
<1> QED BY <1>1, <1>2, <1>3, <1>4, <1>5, CallKeeps

(***************************************************************************)
(* Steps that move no message.                                             *)
(***************************************************************************)
\* The run is over, and the call it belongs to goes on.
LEMMA RunEndsKeeps == ASSUME Good, HistType, RunEnds PROVE Good'
<1> AgentType /\ SessType /\ CallType /\ PlaceType
  BY DEF Good, Types
<1> DEFINE m == agent.owner
<1>1. /\ agent.at = "end" /\ call' = At(m, "ran") /\ UNCHANGED <<queue, shown, sess, manual, ui, hist>>
      /\ agent' = [agent EXCEPT !.at = "idle", !.aborted = FALSE, !.owner = None, !.then = "request", !.polled = FALSE]
  BY DEF RunEnds
<1>2. m \in Users /\ DOMAIN agent' = DOMAIN agent /\ agent'.at = "idle" /\ agent'.then = "request"
  BY <1>1 DEF AgentType
<1> HIDE DEF m
<1>3. Moves(m, "ran", call[m].stage)
  BY <1>1, <1>2, AtMoves
<1>4. call[m].pc = "running"
  BY <1>1, <1>2 DEF Good, Followed, Owned, m
<1>5. Types'
  <2>1. AgentType'  BY <1>2 DEF AgentType
  <2>2. CallType'   BY <1>2, <1>3, MovesType DEF CallType, InPrompt
  <2> QED BY <1>1, <2>1, <2>2, UnchangedTypes DEF Types
<1>6. ASSUME NEW x \in Users PROVE Followed(x)'
  <2> Followed(x) /\ Followed(m)
    BY <1>2 DEF Good
  <2>1. ~InHand(x)'
    BY <1>2 DEF InHand
  <2>2. /\ \A y \in Users : Engaged(y)' <=> Engaged(y)
        /\ \A y \in Users : Ahead(y)' <=> Ahead(y)
    BY <1>3, <1>4 DEF Engaged, Ahead, Moves, InPrompt, Waiting
  <2>3. Once(x)'         BY <1>1 DEF Followed, Once
  <2>4. Placed(x)'       BY <1>1, <1>3, <1>4, <2>1 DEF Followed, Placed, Moves
  <2>5. Undelivered(x)'  BY <1>1, <2>1, <2>2 DEF Followed, Undelivered
  <2>6. Owned(x)'        BY <1>1, <1>2, <1>3, <1>4 DEF Followed, Owned, Moves
  <2>7. Flushing(x)'     BY <1>1, <1>3, <1>4 DEF Followed, Flushing, Moves
  <2>8. Alone(x)'        BY <1>3, <1>4, <2>2 DEF Followed, Alone, Moves
  <2> QED BY <2>3, <2>4, <2>5, <2>6, <2>7, <2>8 DEF Followed
<1> QED BY <1>5, <1>6 DEF Good

\* abortRetry: only the call that sleeps is told.
LEMMA abortRetryKeeps ==
  ASSUME Good, SamePlaces, SameAgent, SessType', sess'.sleeper = sess.sleeper, call' = abortRetry
  PROVE  Good'
<1> CallType /\ SessType
  BY DEF Good, Types
<1>1. CASE sess.sleeper = None
  BY <1>1, NothingMoves DEF abortRetry, CallType, SameCall
<1>2. CASE sess.sleeper # None
  <2> DEFINE m == sess.sleeper
  <2>1. m \in Users /\ call' = At(m, "cancelled")
    BY <1>2 DEF SessType, abortRetry
  <2>2. call[m].pc \in {"sleeping", "cancelled"}
    BY <2>1 DEF Good, Followed, Owned
  <2>3. Moves(m, "cancelled", call[m].stage)
    BY <2>1, AtMoves
  <2>4. \A x \in Users : sess'.sleeper = x => call'[x].pc \in {"sleeping", "cancelled"}
    BY <2>1, <2>3 DEF Moves
  <2>5. call[m].pc \in (InPrompt \cup {"hooks"}) \ {"running"} /\ "cancelled" \in (InPrompt \cup {"hooks", "done"}) \ {"running"}
    BY <2>2 DEF InPrompt
  <2> HIDE DEF m
  <2> QED BY <2>1, <2>2, <2>3, <2>4, <2>5, CallKeeps
<1> QED BY <1>1, <1>2

LEMMA CompactKeeps == ASSUME Good, HistType, Compact PROVE Good'
<1> AgentType /\ SessType /\ PlaceType
  BY DEF Good, Types
<1>1. /\ sess' = [sess EXCEPT !.connected = FALSE] /\ call' = abortRetry
      /\ agent' = [agent EXCEPT !.aborted = isStreaming] /\ UNCHANGED <<queue, shown, ui>>
      /\ DOMAIN manual' = DOMAIN manual /\ hist'.delivered = hist.delivered
  BY DEF Compact, PlaceType, HistType
<1>2. SameAgent
  BY <1>1 DEF SameAgent, SameHand, AgentType
<1>3. SessType' /\ sess'.sleeper = sess.sleeper
  BY <1>1 DEF SessType
<1>4. SamePlaces
  BY <1>1 DEF SamePlaces
<1> QED BY <1>1, <1>2, <1>3, <1>4, abortRetryKeeps

LEMMA CancelRetryKeeps ==
  ASSUME Good, CancelRetry, hist'.delivered = hist.delivered PROVE Good'
<1> AgentType /\ SessType /\ PlaceType
  BY DEF Good, Types
<1>1. call' = abortRetry /\ UNCHANGED <<queue, shown, sess, manual, ui>>
  BY DEF CancelRetry
<1>2. SameAgent
  BY DEF CancelRetry, SameAgent, SameHand, AgentType
<1>3. SamePlaces
  BY <1>1 DEF SamePlaces
<1> QED BY <1>1, <1>2, <1>3, abortRetryKeeps, UnchangedTypes

\* Aborting a summary leaves a call where it is.
LEMMA abortCompactionKeeps ==
  ASSUME Good, abortCompaction, hist'.delivered = hist.delivered PROVE Good'
<1> AgentType /\ SessType /\ PlaceType /\ CallType
  BY DEF Good, Types
<1>1. /\ call' = [m \in Users |-> [call[m] EXCEPT !.aborted = @ \/ call[m].pc = "summarise"]]
      /\ manual' = [manual EXCEPT !.aborted = @ \/ manual.pc \in {"prepare", "summarise"}]
      /\ UNCHANGED <<agent, queue, shown, sess, ui>>
  BY DEF abortCompaction
<1>2. DOMAIN call' = Users /\ \A y \in Users : SameCall(y) /\ DOMAIN call'[y] = DOMAIN call[y]
  BY <1>1 DEF CallType, SameCall
<1>3. SamePlaces /\ SameAgent
  BY <1>1 DEF SamePlaces, PlaceType, SameAgent, SameHand
<1> QED BY <1>1, <1>2, <1>3, NothingMoves, UnchangedTypes

LEMMA CompactStepsKeep ==
  ASSUME Good, HistType, CompactReady \/ CompactPrepared \/ CompactSummarised PROVE Good'
<1> AgentType /\ SessType /\ PlaceType /\ CallType
  BY DEF Good, Types
<1>1. UNCHANGED <<queue, shown, sess, call, ui, hist>>
  BY DEF CompactReady, CompactPrepared, CompactSummarised
<1>2. DOMAIN manual' = DOMAIN manual
  BY DEF CompactReady, CompactPrepared, CompactSummarised
<1>3. SameAgent
  <2>1. CASE agent' = agent
    BY <2>1 DEF SameAgent, SameHand
  <2>2. CASE agent' = [agent EXCEPT !.messages = buildSessionContext(branch')]
    BY <2>2 DEF SameAgent, SameHand, AgentType
  <2> QED BY <2>1, <2>2 DEF CompactReady, CompactPrepared, CompactSummarised, Compacted
<1>4. SamePlaces
  BY <1>1, <1>2 DEF SamePlaces
<1>5. DOMAIN call' = Users /\ \A y \in Users : SameCall(y) /\ DOMAIN call'[y] = DOMAIN call[y]
  BY <1>1 DEF CallType, SameCall
<1> QED BY <1>1, <1>3, <1>4, <1>5, NothingMoves, UnchangedTypes

LEMMA recordBashResultKeeps == ASSUME Good, HistType, NEW b, recordBashResult(b) PROVE Good'
<1> AgentType /\ SessType /\ PlaceType /\ CallType
  BY DEF Good, Types
<1>1. UNCHANGED <<queue, shown, call, manual, ui>> /\ hist'.delivered = hist.delivered
  BY DEF recordBashResult, HistType
<1>2. SameAgent /\ SessType' /\ sess'.sleeper = sess.sleeper
  <2>1. CASE isStreaming
    BY <2>1 DEF recordBashResult, SameAgent, SameHand, SessType
  <2>2. CASE ~isStreaming
    BY <2>2 DEF recordBashResult, SameAgent, SameHand, AgentType, SessType
  <2> QED BY <2>1, <2>2
<1>3. SamePlaces
  BY <1>1 DEF SamePlaces
<1>4. DOMAIN call' = Users /\ \A y \in Users : SameCall(y) /\ DOMAIN call'[y] = DOMAIN call[y]
  BY <1>1 DEF CallType, SameCall
<1> QED BY <1>1, <1>2, <1>3, <1>4, NothingMoves

(***************************************************************************)
(* Messages that enter: submitted, queued, held back, typed ahead.         *)
(***************************************************************************)
\* What is known of a message whose call has not begun.
LEMMA NotYet ==
  ASSUME NEW m \in Users, Followed(m), call[m].pc \in {"new", "input", "held"}
  PROVE  /\ ~InHand(m) /\ m \notin Elements(queue) /\ m \notin Elements(shown) /\ m \notin Elements(hist.delivered)
         /\ call[m].pc # "held" => m \notin Elements(ui.held)
         /\ call[m].pc # "input" => m \notin Elements(ui.inputs)
  BY DEF Followed, Placed, Undelivered, Ahead, Waiting

\* s, with m after it if m goes to q, where s is kept.
Queued(s, m, p, q) == IF p = q THEN Append(s, m) ELSE s

LEMMA ElementsOfQueued ==
  ASSUME NEW s \in Seq(Users), NEW m \in Users, NEW p, NEW q
  PROVE  /\ Queued(s, m, p, q) \in Seq(Users)
         /\ \A x : x \in Elements(Queued(s, m, p, q)) <=> x \in Elements(s) \/ (p = q /\ x = m)
         /\ m \notin Elements(s) => \A x : AtMostOnce(s, x) => AtMostOnce(Queued(s, m, p, q), x)
<1>1. CASE p = q
  BY <1>1, ElementsOfAppend DEF Queued
<1>2. CASE p # q
  BY <1>2 DEF Queued
<1> QED BY <1>1, <1>2

\* A message goes where its call says.
LEMMA Entered ==
  ASSUME Good, NEW m \in Users, call[m].pc = "new", NEW p \in {"held", "done", "input", "called"},
         Moves(m, p, call[m].stage), p = "called" => Calls({"called"}) = {}, SameAgent, sess' = sess,
         queue' = Queued(queue, m, p, "done"), shown' = Queued(shown, m, p, "done"),
         ui'.held = Queued(ui.held, m, p, "held"), ui'.inputs = Queued(ui.inputs, m, p, "input"),
         DOMAIN ui' = DOMAIN ui, manual' = manual, hist'.delivered = hist.delivered
  PROVE  Good'
<1> Types /\ AgentType /\ SessType /\ CallType /\ PlaceType
  BY DEF Good, Types
<1>0. {queue, shown, ui.held, ui.inputs} \subseteq Seq(Users)
  BY DEF PlaceType
<1>1. /\ {queue', shown', ui'.held, ui'.inputs} \subseteq Seq(Users)
      /\ \A x : x \in Elements(queue') <=> x \in Elements(queue) \/ (p = "done" /\ x = m)
      /\ \A x : x \in Elements(shown') <=> x \in Elements(shown) \/ (p = "done" /\ x = m)
      /\ \A x : x \in Elements(ui'.held) <=> x \in Elements(ui.held) \/ (p = "held" /\ x = m)
      /\ \A x : x \in Elements(ui'.inputs) <=> x \in Elements(ui.inputs) \/ (p = "input" /\ x = m)
  <2> DEFINE w == ui'.held
             v == ui'.inputs
  <2>1. queue' \in Seq(Users) /\ \A x : x \in Elements(queue') <=> x \in Elements(queue) \/ (p = "done" /\ x = m)
    BY <1>0, ElementsOfQueued
  <2>2. shown' \in Seq(Users) /\ \A x : x \in Elements(shown') <=> x \in Elements(shown) \/ (p = "done" /\ x = m)
    BY <1>0, ElementsOfQueued
  <2>3. w \in Seq(Users) /\ \A x : x \in Elements(w) <=> x \in Elements(ui.held) \/ (p = "held" /\ x = m)
    BY <1>0, ElementsOfQueued
  <2>4. v \in Seq(Users) /\ \A x : x \in Elements(v) <=> x \in Elements(ui.inputs) \/ (p = "input" /\ x = m)
    BY <1>0, ElementsOfQueued
  <2> QED BY <2>1, <2>2, <2>3, <2>4
<1>2. Types'
  <2>1. CallType'
    BY MovesType DEF CallType, Waiting, Over
  <2>2. PlaceType'
    BY <1>1 DEF PlaceType
  <2> QED BY <2>1, <2>2, SameAgentType, UnchangedTypes DEF Types
<1>3. /\ ~InHand(m) /\ m \notin Elements(queue) /\ m \notin Elements(shown) /\ m \notin Elements(hist.delivered)
      /\ m \notin Elements(ui.held) /\ m \notin Elements(ui.inputs)
  BY NotYet DEF Good
<1>4. \A x \in Users : AtMostOnce(queue, x) => AtMostOnce(queue', x)
  BY <1>3, ElementsOfQueued DEF PlaceType
<1>5. \A x \in Users : AtMostOnce(ui.held, x) => AtMostOnce(ui'.held, x)
  BY <1>0, <1>3, ElementsOfQueued
<1>6. \A x \in Users : AtMostOnce(ui.inputs, x) => AtMostOnce(ui'.inputs, x)
  BY <1>0, <1>3, ElementsOfQueued
<1>7. ASSUME NEW x \in Users PROVE Followed(x)'
  <2> Followed(x) /\ Followed(m)
    BY DEF Good
  <2>1. /\ x # m => SameCall(x)
        /\ call'[m].pc = p /\ call'[m].batch = call[m].batch
        /\ \A y \in Users : Engaged(y)' => Engaged(y)
        /\ \A y \in Users : call'[y].pc = IF y = m THEN p ELSE call[y].pc
    BY DEF Moves, SameCall, Engaged, InPrompt
  <2>2. InHand(x)' <=> InHand(x)
    BY DEF SameAgent, SameHand, InHand
  <2>3. Once(x)'         BY <1>4, <1>5, <1>6 DEF Followed, Once
  <2>4. Placed(x)'       BY <1>1, <1>3, <2>1, <2>2 DEF Followed, Placed, SameCall
  <2>5. Undelivered(x)'
    <3>1. x # m => (Ahead(x)' <=> Ahead(x))
      BY <2>1 DEF Ahead, SameCall
    <3> QED BY <1>1, <1>3, <2>2, <3>1 DEF Followed, Undelivered
  <2>6. Owned(x)'        BY <2>1 DEF Followed, Owned, SameAgent, SameHand, SameCall
  <2>7. Flushing(x)'
    <3>1. CASE x = m
      <4>1. call'[x].batch = <<>>
        BY <2>1, <3>1 DEF Followed, Flushing
      <4> QED BY <4>1 DEF Flushing
    <3>2. CASE x # m
      BY <1>1, <2>1, <3>2 DEF Followed, Flushing, SameCall
    <3> QED BY <3>1, <3>2
  <2>8. Alone(x)'
    <3>1. ASSUME NEW y \in Users, call'[x].pc = "called", call'[y].pc = "called" PROVE x = y
      BY <2>1, <3>1 DEF Followed, Alone, Calls
    <3> QED BY <2>1, <3>1 DEF Followed, Alone
  <2> QED BY <2>3, <2>4, <2>5, <2>6, <2>7, <2>8 DEF Followed
<1> QED BY <1>2, <1>7 DEF Good

LEMMA SubmitKeeps ==
  ASSUME Good, HistType, NEW m \in Users, Submit(m), Calls({"called"}) = {}
  PROVE  Good'
<1> Types /\ AgentType /\ SessType /\ CallType /\ PlaceType
  BY DEF Good, Types
<1>1. call[m].pc = "new" /\ UNCHANGED <<agent, sess, manual>> /\ hist'.delivered = hist.delivered
  BY DEF Submit, HistType
<1>2. SameAgent
  BY <1>1 DEF SameAgent, SameHand
<1> DEFINE held == front = "interactive" /\ isCompacting
<1>3. CASE held
  <2>1. /\ ui' = [ui EXCEPT !.held = Append(@, m)] /\ call' = At(m, "held") /\ UNCHANGED <<queue, shown>>
    BY <1>3 DEF Submit
  <2>2. /\ DOMAIN ui' = DOMAIN ui /\ ui'.held = Append(ui.held, m) /\ ui'.inputs = ui.inputs
    BY <2>1 DEF PlaceType
  <2>3. Moves(m, "held", call[m].stage)
    BY <2>1, AtMoves
  <2> QED BY <1>1, <1>2, <2>1, <2>2, <2>3, Entered DEF Queued
<1>4. CASE ~held /\ isStreaming
  <2>1. Steer(m)
    BY <1>4 DEF Submit
  <2>2. call' = At(m, "done") /\ queue' = Append(queue, m) /\ shown' = Append(shown, m) /\ ui' = ui
    BY <2>1 DEF Steer
  <2>3. Moves(m, "done", call[m].stage)
    BY <2>2, AtMoves
  <2> QED BY <1>1, <1>2, <2>2, <2>3, Entered DEF Queued
<1>5. CASE ~held /\ ~isStreaming /\ front = "interactive"
  <2>1. /\ ui' = [ui EXCEPT !.inputs = Append(@, m)] /\ call' = At(m, "input") /\ UNCHANGED <<queue, shown>>
    BY <1>5 DEF Submit
  <2>2. /\ DOMAIN ui' = DOMAIN ui /\ ui'.inputs = Append(ui.inputs, m) /\ ui'.held = ui.held
    BY <2>1 DEF PlaceType
  <2>3. Moves(m, "input", call[m].stage)
    BY <2>1, AtMoves
  <2> QED BY <1>1, <1>2, <2>1, <2>2, <2>3, Entered DEF Queued
<1>6. CASE ~held /\ ~isStreaming /\ front # "interactive"
  <2>1. /\ ui' = ui /\ call' = At(m, "called") /\ UNCHANGED <<queue, shown>>
    BY <1>6 DEF Submit
  <2>2. Moves(m, "called", call[m].stage)
    BY <2>1, AtMoves
  <2> QED BY <1>1, <1>2, <2>1, <2>2, Entered DEF Queued
<1> QED BY <1>3, <1>4, <1>5, <1>6

\* The main loop of interactive mode prompts what was typed first.
LEMMA NextInputKeeps ==
  ASSUME Good, HistType, NextInput, Calls({"called"}) = {}
  PROVE  Good'
<1> Types /\ AgentType /\ SessType /\ CallType /\ PlaceType
  BY DEF Good, Types
<1> DEFINE m == Head(ui.inputs)
<1>1. /\ ui.inputs # <<>> /\ ui' = [ui EXCEPT !.main = m, !.inputs = Tail(@)] /\ call' = At(m, "called")
      /\ UNCHANGED <<agent, queue, shown, sess, manual, hist>>
  BY DEF NextInput
<1>2. /\ Tail(ui.inputs) \in Seq(Users) /\ m \in Users /\ Elements(ui.inputs) = {m} \cup Elements(Tail(ui.inputs))
      /\ AtMostOnce(ui.inputs, m) => m \notin Elements(Tail(ui.inputs))
      /\ \A x : AtMostOnce(ui.inputs, x) => AtMostOnce(Tail(ui.inputs), x)
  BY <1>1, ElementsOfTail DEF PlaceType
<1> HIDE DEF m
<1>3. DOMAIN ui' = DOMAIN ui /\ ui'.inputs = Tail(ui.inputs) /\ ui'.held = ui.held
  BY <1>1 DEF PlaceType
<1>4. Moves(m, "called", call[m].stage)
  BY <1>1, <1>2, AtMoves
<1>5. Types'
  <2>1. CallType'
    BY <1>2, <1>4, MovesType DEF CallType, Waiting
  <2>2. PlaceType'
    BY <1>1, <1>2, <1>3 DEF PlaceType
  <2> QED BY <1>1, <2>1, <2>2, UnchangedTypes DEF Types
<1>6. call[m].pc = "input" /\ m \notin Elements(ui'.inputs) /\ m \in Elements(ui.inputs)
  BY <1>2, <1>3 DEF Good, Followed, Once, Placed
<1>7. /\ ~InHand(m) /\ m \notin Elements(queue) /\ m \notin Elements(shown) /\ m \notin Elements(hist.delivered)
      /\ m \notin Elements(ui.held)
  BY <1>2, <1>6, NotYet DEF Good
<1>8. ASSUME NEW x \in Users PROVE Followed(x)'
  <2> Followed(x) /\ Followed(m)
    BY <1>2 DEF Good
  <2>1. /\ x # m => SameCall(x)
        /\ call'[m].pc = "called" /\ call'[m].batch = <<>>
        /\ \A y \in Users : Engaged(y)' => Engaged(y)
        /\ \A y \in Users : call'[y].pc = IF y = m THEN "called" ELSE call[y].pc
    BY <1>2, <1>4, <1>6 DEF Moves, SameCall, Engaged, InPrompt, Followed, Flushing
  <2>2. InHand(x)' <=> InHand(x)
    BY <1>1 DEF InHand
  <2>3. Once(x)'         BY <1>1, <1>2, <1>3 DEF Followed, Once
  <2>4. Placed(x)'       BY <1>1, <1>2, <1>3, <1>6, <1>7, <2>1, <2>2 DEF Followed, Placed, SameCall
  <2>5. Undelivered(x)'
    <3>1. x # m => (Ahead(x)' <=> Ahead(x))
      BY <2>1 DEF Ahead, SameCall
    <3> QED BY <1>1, <1>7, <2>2, <3>1 DEF Followed, Undelivered
  <2>6. Owned(x)'        BY <1>1, <1>6, <2>1 DEF Followed, Owned, SameCall
  <2>7. Flushing(x)'
    <3>1. CASE x = m
      BY <2>1, <3>1 DEF Flushing
    <3>2. CASE x # m
      BY <1>1, <2>1, <3>2 DEF Followed, Flushing, SameCall
    <3> QED BY <3>1, <3>2
  <2>8. Alone(x)'
    <3>1. ASSUME NEW y \in Users, call'[x].pc = "called", call'[y].pc = "called" PROVE x = y
      BY <2>1, <3>1 DEF Calls
    <3> QED BY <2>1, <3>1 DEF Followed, Alone
  <2> QED BY <2>3, <2>4, <2>5, <2>6, <2>7, <2>8 DEF Followed
<1> QED BY <1>5, <1>8 DEF Good

(***************************************************************************)
(* Messages that leave: refused, taken back to the editor, flushed.        *)
(***************************************************************************)
LEMMA ToSetIsElements == ASSUME NEW S, NEW s \in Seq(S) PROVE ToSet(s) = Elements(s)
  BY DEF ToSet, Elements

NewCallFields == /\ DOMAIN NewCall = {"pc", "stage", "reply", "willRetry", "keep", "aborted", "batch"}
                 /\ NewCall.stage = "own" /\ NewCall.batch = <<>>

LEMMA NewCallHas == NewCallFields
  BY DEF NewCall, NewCallFields

\* Waiting messages go back to the editor.
LEMMA RestoreKeeps ==
  ASSUME Good, NEW abort \in BOOLEAN, restoreQueuedMessagesToEditor(abort), hist'.delivered = hist.delivered,
         Calls({"called"}) = {}
  PROVE  Good'
<1> Types /\ AgentType /\ SessType /\ CallType /\ PlaceType
  BY DEF Good, Types
<1> DEFINE back == Elements(shown) \cup Elements(ui.held)
<1>1. /\ queue' = <<>> /\ shown' = <<>> /\ ui' = [ui EXCEPT !.held = <<>>] /\ UNCHANGED <<sess, manual>>
      /\ agent' = [agent EXCEPT !.aborted = @ \/ abort]
  BY DEF restoreQueuedMessagesToEditor
<1>2. ToSet(shown \o ui.held) = back
  <2>1. shown \o ui.held \in Seq(Users) /\ Elements(shown \o ui.held) = back
    BY ElementsOfConcat DEF PlaceType
  <2> QED BY <2>1, ToSetIsElements
<1>3. call' = [m \in Users |-> IF m \in back THEN [NewCall EXCEPT !.pc = "editor"] ELSE call[m]]
  BY <1>2 DEF restoreQueuedMessagesToEditor
<1> HIDE DEF back
<1>4. \A y \in Users : y \in back =>
        /\ call'[y].pc = "editor" /\ call'[y].stage = "own" /\ call'[y].batch = <<>>
        /\ DOMAIN call'[y] = DOMAIN call[y]
  BY <1>3, NewCallHas DEF NewCallFields, CallType
<1>5. DOMAIN call' = Users /\ \A y \in Users : y \notin back => call'[y] = call[y]
  BY <1>3
<1>6. DOMAIN ui' = DOMAIN ui /\ ui'.held = <<>> /\ ui'.inputs = ui.inputs
  BY <1>1 DEF PlaceType
<1>7. SameAgent
  BY <1>1 DEF SameAgent, SameHand, AgentType
<1>8. \A y \in Users : call'[y].batch \in Seq(Users)
  <2>1. <<>> \in Seq(Users)
    OBVIOUS
  <2> QED BY <1>4, <1>5, <2>1 DEF CallType
<1>9. Types'
  <2>1. CallType'
    BY <1>4, <1>5, <1>8 DEF CallType, Stages, Over
  <2>2. <<>> \in Seq(Users)
    OBVIOUS
  <2>3. PlaceType'
    BY <1>1, <1>6, <2>2 DEF PlaceType
  <2> QED BY <1>1, <1>7, <2>1, <2>3, SameAgentType, UnchangedTypes DEF Types
<1>10. \A y \in Users : y \in back => call[y].pc \in {"done", "held"}
  BY DEF Good, Followed, Placed, back
<1>11. ASSUME NEW x \in Users PROVE Followed(x)'
  <2> Followed(x)
    BY DEF Good
  <2>1. x \notin Elements(<<>>) /\ AtMostOnce(<<>>, x)
    BY ElementsOfEmpty
  <2>2. InHand(x)' <=> InHand(x)
    BY <1>7 DEF InHand, SameAgent, SameHand
  <2>3. \A y \in Users : (Ahead(y)' => Ahead(y)) /\ (Engaged(y)' => Engaged(y))
    BY <1>4, <1>5 DEF Ahead, Engaged, Waiting, InPrompt
  <2>4. Once(x)'         BY <1>1, <1>6, <2>1 DEF Followed, Once
  <2>5. Placed(x)'       BY <1>1, <1>4, <1>5, <1>6, <1>10, <2>1, <2>2 DEF Followed, Placed
  <2>6. Undelivered(x)'  BY <1>1, <2>1, <2>2, <2>3 DEF Followed, Undelivered
  <2>7. Owned(x)'        BY <1>1, <1>4, <1>5, <1>7, <1>10 DEF Followed, Owned, SameAgent, SameHand
  <2>8. Flushing(x)'
    <3>1. CASE x \in back
      BY <1>4, <3>1 DEF Flushing
    <3>2. CASE x \notin back
      BY <1>5, <3>2 DEF Flushing, Followed, Calls
    <3> QED BY <3>1, <3>2
  <2>9. Alone(x)'
    <3>1. \A y \in Users : call'[y].pc = "called" => call[y].pc = "called"
      BY <1>4, <1>5
    <3> QED BY <2>3, <3>1 DEF Followed, Alone
  <2> QED BY <2>4, <2>5, <2>6, <2>7, <2>8, <2>9 DEF Followed
<1> QED BY <1>9, <1>11 DEF Good

\* prompt() refuses its message: a flush puts all of its messages back.
LEMMA RejectedKeeps ==
  ASSUME Good, NEW m \in Users, call[m].pc = "called", Rejected(m), SameAgent, SessType',
         sess'.sleeper = sess.sleeper, manual' = manual, hist'.delivered = hist.delivered
  PROVE  Good'
<1> Types /\ AgentType /\ SessType /\ CallType /\ PlaceType /\ Followed(m)
  BY DEF Good, Types
<1> DEFINE batch == call[m].batch
<1>1. /\ ~InHand(m) /\ m \notin Elements(queue) /\ m \notin Elements(shown) /\ m \notin Elements(hist.delivered)
      /\ m \notin Elements(ui.held) /\ m \notin Elements(ui.inputs)
  BY DEF Followed, Placed, Undelivered, Ahead, Waiting
<1>2. CASE batch = <<>>
  <2>1. /\ call' = At(m, "rejected") /\ ui' = [ui EXCEPT !.main = IF @ = m THEN None ELSE @]
        /\ UNCHANGED <<queue, shown>>
    BY <1>2 DEF Rejected
  <2>2. Moves(m, "rejected", call[m].stage)
    BY <2>1, AtMoves
  <2>3. SamePlaces
    BY <2>1 DEF SamePlaces, PlaceType
  <2>4. Types'
    <3>1. CallType'
      BY <2>2, MovesType DEF CallType, Over
    <3> QED BY <2>3, <3>1, SameAgentType, SamePlacesType DEF Types
  <2>5. ASSUME NEW x \in Users PROVE Followed(x)'
    <3> Followed(x)
      BY DEF Good
    <3> USE DEF SamePlaces
    <3>1. InHand(x)' <=> InHand(x)
      BY DEF InHand, SameAgent, SameHand
    <3>2. x # m => SameCall(x)
      BY <2>2 DEF Moves, SameCall
    <3>3. call'[m].pc = "rejected"
      BY <2>2 DEF Moves
    <3>4. \A y \in Users : /\ (Ahead(y)' => Ahead(y)) /\ (Engaged(y)' => Engaged(y))
                           /\ (call'[y].pc = "called" => call[y].pc = "called")
      BY <2>2 DEF Ahead, Engaged, Waiting, InPrompt, Moves
    <3>5. Once(x)'         BY <2>3 DEF Followed, Once
    <3>6. Placed(x)'       BY <1>1, <2>3, <3>1, <3>2 DEF Followed, Placed, SameCall
    <3>7. Undelivered(x)'  BY <2>3, <3>1, <3>4 DEF Followed, Undelivered
    <3>8. Owned(x)'        BY <3>2, <3>3 DEF Followed, Owned, SameCall, SameAgent, SameHand
    <3>9. Flushing(x)'     BY <2>3, <3>2, <3>3 DEF Followed, Flushing, SameCall
    <3>10. Alone(x)'       BY <3>4 DEF Followed, Alone
    <3> QED BY <3>5, <3>6, <3>7, <3>8, <3>9, <3>10 DEF Followed
  <2> QED BY <2>4, <2>5 DEF Good
<1>3. CASE batch # <<>>
  <2>1. batch \in Seq(Users) /\ ToSet(batch) = Elements(batch)
    BY ToSetIsElements DEF CallType
  <2>2. /\ call' = [x \in Users |-> IF x \in Elements(batch) THEN [NewCall EXCEPT !.pc = "held"] ELSE call[x]]
        /\ ui' = [ui EXCEPT !.held = batch] /\ queue' = <<>> /\ shown' = <<>>
    BY <1>3, <2>1 DEF Rejected
  <2>3. /\ m \in Elements(batch)
        /\ \A y \in Elements(batch) : AtMostOnce(batch, y) /\ (y # m => y \in Elements(queue))
    BY <1>3 DEF Followed, Flushing
  <2> HIDE DEF batch
  <2>4. \A y \in Users : y \in Elements(batch) =>
          /\ call'[y].pc = "held" /\ call'[y].stage = "own" /\ call'[y].batch = <<>>
          /\ DOMAIN call'[y] = DOMAIN call[y]
    BY <2>2, NewCallHas DEF NewCallFields, CallType
  <2>5. DOMAIN call' = Users /\ \A y \in Users : y \notin Elements(batch) => call'[y] = call[y]
    BY <2>2
  <2>6. DOMAIN ui' = DOMAIN ui /\ ui'.held = batch /\ ui'.inputs = ui.inputs
    BY <2>2 DEF PlaceType
  <2>7. <<>> \in Seq(Users)
    OBVIOUS
  <2>8. Types'
    <3>1. \A y \in Users : call'[y].batch \in Seq(Users)
      BY <2>4, <2>5, <2>7 DEF CallType
    <3>2. CallType'
      BY <2>4, <2>5, <3>1 DEF CallType, Stages, Waiting
    <3>3. PlaceType'
      BY <2>1, <2>2, <2>6, <2>7 DEF PlaceType
    <3> QED BY <3>2, <3>3, SameAgentType DEF Types
  <2>9. \A y \in Users : y \in Elements(batch) => call[y].pc \in {"done", "called"} /\ y \notin Elements(hist.delivered) /\ ~InHand(y)
    BY <1>1, <2>3 DEF Good, Followed, Placed, Undelivered
  <2>10. ASSUME NEW x \in Users PROVE Followed(x)'
    <3> Followed(x)
      BY DEF Good
    <3>1. x \notin Elements(<<>>) /\ AtMostOnce(<<>>, x)
      BY ElementsOfEmpty
    <3>2. InHand(x)' <=> InHand(x)
      BY DEF InHand, SameAgent, SameHand
    <3>3. x \notin Elements(batch) => (Ahead(x)' => Ahead(x))
      BY <2>5 DEF Ahead
    <3>4. \A y \in Users : (Engaged(y)' => Engaged(y)) /\ call'[y].pc # "called"
      <4>1. \A y \in Users : call[y].pc = "called" => y = m
        BY DEF Followed, Alone
      <4>2. \A y \in Users : call'[y].pc # "called"
        BY <2>3, <2>4, <2>5, <4>1
      <4> QED BY <2>4, <2>5, <4>2 DEF Engaged, InPrompt
    <3>5. AtMostOnce(batch, x)
      BY <2>3 DEF AtMostOnce, Elements
    <3>6. Once(x)'         BY <2>2, <2>6, <3>1, <3>5 DEF Followed, Once
    <3>7. Placed(x)'       BY <2>2, <2>4, <2>5, <2>6, <2>9, <3>1, <3>2 DEF Followed, Placed
    <3>8. Undelivered(x)'  BY <2>2, <2>9, <3>1, <3>2, <3>3 DEF Followed, Undelivered
    <3>9. Owned(x)'        BY <2>4, <2>5, <2>9 DEF Followed, Owned, SameAgent, SameHand
    <3>10. Flushing(x)'
      <4>1. CASE x \in Elements(batch)
        BY <2>4, <4>1 DEF Flushing
      <4>2. CASE x \notin Elements(batch)
        BY <2>5, <3>4, <4>2 DEF Flushing, Followed
      <4> QED BY <4>1, <4>2
    <3>11. Alone(x)'       BY <3>4 DEF Followed, Alone
    <3> QED BY <3>6, <3>7, <3>8, <3>9, <3>10, <3>11 DEF Followed
  <2> QED BY <2>8, <2>10 DEF Good
<1> QED BY <1>2, <1>3

(***************************************************************************)
(* prompt() up to its first await, and the runs it starts.                 *)
(***************************************************************************)
\* The call enters alone, and its message is still ahead.
LEMMA EntersKeeps ==
  ASSUME Good, SamePlaces, SameAgent, SessType', sess'.sleeper = sess.sleeper, NEW m \in Users,
         NEW p \in {"hooks", "auth"}, Moves(m, p, "check"), call[m].pc = "called", Others(m) = {}
  PROVE  Good'
<1> Types /\ AgentType /\ SessType /\ CallType /\ PlaceType /\ Followed(m)
  BY DEF Good, Types
<1>1. Types'
  <2>1. CallType'
    BY MovesType DEF CallType, Waiting, InPrompt, Stages
  <2> QED BY <2>1, SameAgentType, SamePlacesType DEF Types
<1>2. /\ ~InHand(m) /\ m \notin Elements(queue) /\ m \notin Elements(shown) /\ m \notin Elements(hist.delivered)
      /\ m \notin Elements(ui.held) /\ m \notin Elements(ui.inputs)
  BY DEF Followed, Placed, Undelivered, Ahead, Waiting
<1>3. \A y \in Users : y # m => ~Engaged(y) /\ call[y].pc # "called"
  BY DEF Others, Engaged, CallType, Waiting, Over, InPrompt
<1>4. ASSUME NEW x \in Users PROVE Followed(x)'
  <2> Followed(x)
    BY DEF Good
  <2> USE DEF SamePlaces
  <2>1. InHand(x)' <=> InHand(x)
    BY DEF InHand, SameAgent, SameHand
  <2>2. x # m => SameCall(x)
    BY DEF Moves, SameCall
  <2>3. call'[m].pc = p
    BY DEF Moves
  <2>4. \A y \in Users : y # m => ~Engaged(y)' /\ call'[y].pc # "called"
    BY <1>3 DEF Moves, Engaged
  <2>5. Once(x)'         BY DEF Followed, Once
  <2>6. Placed(x)'       BY <1>2, <2>1, <2>2 DEF Followed, Placed, SameCall
  <2>7. Undelivered(x)'
    <3>1. x # m => (Ahead(x)' <=> Ahead(x))
      BY <2>2 DEF Ahead, SameCall
    <3> QED BY <1>2, <2>1, <3>1 DEF Followed, Undelivered
  <2>8. Owned(x)'
    <3>1. ~(agent.at # "idle" /\ agent.owner = m) /\ sess.sleeper # m
      BY DEF Followed, Owned
    <3> QED BY <2>2, <3>1 DEF Followed, Owned, SameCall, SameAgent, SameHand
  <2>9. Flushing(x)'     BY <2>2, <2>3, <2>4 DEF Followed, Flushing, SameCall
  <2>10. Alone(x)'       BY <2>3, <2>4 DEF Followed, Alone
  <2> QED BY <2>5, <2>6, <2>7, <2>8, <2>9, <2>10 DEF Followed
<1> QED BY <1>1, <1>4 DEF Good

LEMMA CallStepKeeps ==
  ASSUME Good, HistType, NEW m \in Users, Call(m), hist'.clean
  PROVE  Good'
<1> Types /\ AgentType /\ SessType /\ CallType /\ PlaceType
  BY DEF Good, Types
<1>1. call[m].pc = "called" /\ manual' = manual
  BY DEF Call
<1>2. CASE isStreaming
  <2>1. Rejected(m) /\ UNCHANGED <<agent, sess, hist>>
    BY <1>2 DEF Call
  <2>2. SameAgent
    BY <2>1 DEF SameAgent, SameHand
  <2> QED BY <1>1, <2>1, <2>2, RejectedKeeps, UnchangedTypes
<1>3. CASE ~isStreaming /\ FlushBash /\ Rejected(m) /\ hist' = [hist EXCEPT !.events = @ + 1]
  <2>1. SameAgent /\ SessType' /\ sess'.sleeper = sess.sleeper
    BY <1>3, FlushBashFields
  <2>2. hist'.delivered = hist.delivered
    BY <1>3 DEF HistType
  <2> QED BY <1>1, <1>3, <2>1, <2>2, RejectedKeeps
<1>4. CASE ~isStreaming /\ ~(FlushBash /\ Rejected(m) /\ hist' = [hist EXCEPT !.events = @ + 1])
  <2> DEFINE ms == agent.messages \o sess.bash
             i == SelectLastInSeq(ms, LAMBDA x : x.role = "assistant")
             job == IF i = 0 THEN "no" ELSE Check(ms[i], FALSE)
             p == IF job = "no" THEN "hooks" ELSE "auth"
  <2>1. /\ Start(job, ms, [sess EXCEPT !.bash = <<>>])
        /\ hist' = [hist EXCEPT !.recovered = @ \/ job = "retry", !.clean = @ /\ Others(m) = {} /\ manual.pc = "none"]
        /\ call' = [call EXCEPT ![m].pc = p, ![m].stage = "check", ![m].willRetry = job = "retry"]
        /\ UNCHANGED <<queue, shown, ui>>
    BY <1>4 DEF Call
  <2> HIDE DEF i, job
  <2>2. p \in {"hooks", "auth"}
    OBVIOUS
  <2> HIDE DEF p
  <2>3. Others(m) = {} /\ hist'.delivered = hist.delivered
    BY <2>1 DEF HistType
  <2>4. Moves(m, p, "check")
    BY <2>1 DEF Moves, CallType
  <2>5. SameAgent
    BY <2>1 DEF Start, SameAgent, SameHand, AgentType
  <2>6. SessType' /\ sess'.sleeper = sess.sleeper
    BY <2>1 DEF Start, SessType
  <2>7. SamePlaces
    BY <1>1, <2>1, <2>3 DEF SamePlaces
  <2> QED BY <1>1, <2>2, <2>3, <2>4, <2>5, <2>6, <2>7, EntersKeeps
<1> QED BY <1>2, <1>3, <1>4

\* A run of m starts; it is handed a message that was m's or the head of the queue, or none.
LEMMA RunStarts ==
  ASSUME Good, Calls({"called"}) = {}, ~isStreaming,
         NEW m \in Users, call[m].pc \in {"hooks", "continue"}, NEW s \in Stages,
         s = "own" <=> (call[m].pc = "hooks" \/ call[m].stage = "own"), Moves(m, "running", s),
         UNCHANGED <<shown, sess, manual, ui>>, hist'.delivered = hist.delivered,
         agent'.owner = m, agent'.then = "request", DOMAIN agent' = DOMAIN agent,
         \/ agent'.at = "poll" /\ queue' = queue /\ call[m].pc = "continue"
         \/ agent'.at = "deliver" /\ agent'.todo = <<User(m)>> /\ queue' = queue /\ call[m].pc = "hooks"
         \/ /\ agent'.at = "deliver" /\ queue # <<>> /\ agent'.todo = <<User(Head(queue))>> /\ queue' = Tail(queue)
            /\ call[m].pc = "continue"
  PROVE  Good'
<1> Types /\ AgentType /\ SessType /\ CallType /\ PlaceType /\ Followed(m)
  BY DEF Good, Types
<1>1. queue' \in Seq(Users) /\ Elements(queue') \subseteq Elements(queue) /\ \A x : AtMostOnce(queue, x) => AtMostOnce(queue', x)
  <2>1. CASE queue' = queue
    BY <2>1 DEF PlaceType
  <2>2. CASE queue # <<>> /\ queue' = Tail(queue)
    BY <2>2, ElementsOfTail DEF PlaceType
  <2> QED BY <2>1, <2>2
<1>2. agent'.at \in {"poll", "deliver"} /\ (agent'.at = "deliver" => \E x \in Users : agent'.todo = <<User(x)>>)
  BY ElementsOfTail DEF PlaceType
<1>3. Types'
  <2>1. AgentType'
    BY <1>2 DEF AgentType
  <2>2. CallType'
    BY MovesType DEF CallType, InPrompt
  <2>3. PlaceType'
    BY <1>1 DEF PlaceType
  <2> QED BY <2>1, <2>2, <2>3, UnchangedTypes DEF Types
<1>4. \A x \in Users : InHand(x)' =>
        /\ x \notin Elements(queue') /\ x \notin Elements(hist.delivered)
        /\ (x = m /\ call[m].pc = "hooks") \/ (x # m /\ call[x].pc = "done")
  <2> SUFFICES ASSUME NEW x \in Users, InHand(x)'
               PROVE  /\ x \notin Elements(queue') /\ x \notin Elements(hist.delivered)
                      /\ (x = m /\ call[m].pc = "hooks") \/ (x # m /\ call[x].pc = "done")
    OBVIOUS
  <2>1. agent'.at = "deliver" /\ agent'.todo = <<User(x)>>
    BY DEF InHand
  <2>2. CASE agent'.todo = <<User(m)>> /\ queue' = queue /\ call[m].pc = "hooks"
    <3>1. x = m
      BY <2>1, <2>2, UserIsOne
    <3> QED BY <2>2, <3>1 DEF Followed, Placed, Undelivered, Ahead, Waiting
  <2>3. CASE /\ queue # <<>> /\ agent'.todo = <<User(Head(queue))>> /\ queue' = Tail(queue)
             /\ call[m].pc = "continue"
    <3>1. x = Head(queue)
      BY <2>1, <2>3, UserIsOne
    <3>2. x \in Elements(queue) /\ (AtMostOnce(queue, x) => x \notin Elements(queue'))
      BY <2>3, <3>1, ElementsOfTail DEF PlaceType
    <3> QED BY <2>3, <3>2 DEF Good, Followed, Once, Placed, Undelivered
  <2> QED BY <2>1, <2>2, <2>3
<1>5. ASSUME NEW x \in Users PROVE Followed(x)'
  <2> Followed(x)
    BY DEF Good
  <2>1. x # m => SameCall(x)
    BY DEF Moves, SameCall
  <2>2. call'[m].pc = "running" /\ call'[m].stage = s
    BY DEF Moves
  <2>3. \A y \in Users : /\ (Ahead(y)' => Ahead(y)) /\ (Engaged(y)' => Engaged(y))
                         /\ (call'[y].pc = "called" => call[y].pc = "called")
    BY DEF Ahead, Engaged, Waiting, InPrompt, Moves
  <2>4. agent.at = "idle"
    BY DEF isStreaming
  <2>5. m \notin Elements(queue) /\ m \notin Elements(shown) /\ m \notin Elements(ui.held) /\ m \notin Elements(ui.inputs)
    BY DEF Followed, Placed
  <2>6. Once(x)'         BY <1>1 DEF Followed, Once
  <2>7. Placed(x)'       BY <1>1, <1>4, <2>1, <2>2, <2>5 DEF Followed, Placed, SameCall
  <2>8. Undelivered(x)'  BY <1>1, <1>4, <2>3 DEF Followed, Undelivered
  <2>9. Owned(x)'
    <3>1. sess.sleeper # m
      BY DEF Followed, Owned
    <3> QED BY <2>1, <2>2, <3>1 DEF Followed, Owned, SameCall
  <2>10. Flushing(x)'
    <3>1. call'[x].pc # "called"
      BY <2>3 DEF Calls
    <3> QED BY <2>1, <2>2, <3>1 DEF Followed, Flushing, SameCall
  <2>11. Alone(x)'       BY <2>3 DEF Followed, Alone
  <2> QED BY <2>6, <2>7, <2>8, <2>9, <2>10, <2>11 DEF Followed
<1> QED BY <1>3, <1>5 DEF Good

LEMMA StartRunFields ==
  ASSUME AgentType, NEW m, NEW msgs, NEW polled, agent' = StartRun(m, msgs, polled, agent.messages)
  PROVE  /\ DOMAIN agent' = DOMAIN agent /\ agent'.at = IF msgs = <<>> THEN "poll" ELSE "deliver"
         /\ agent'.todo = msgs /\ agent'.then = "request" /\ agent'.owner = m
  BY DEF AgentType, StartRun

\* The message itself is given to the agent: no other call can have started a run meanwhile.
LEMMA BeforeStartKeeps ==
  ASSUME Good, HistType, NEW m \in Users, BeforeStart(m), Calls({"called"}) = {}
  PROVE  Good'
<1> Types /\ AgentType /\ SessType /\ CallType /\ PlaceType
  BY DEF Good, Types
<1>1. call[m].pc = "hooks"
  BY DEF BeforeStart
<1>2. ~isStreaming
  <2> SUFFICES ASSUME isStreaming PROVE FALSE
    OBVIOUS
  <2> DEFINE o == agent.owner
  <2>1. o \in Users /\ agent.at # "idle"
    BY DEF isStreaming, AgentType
  <2>2. call[o].pc = "running"
    BY <2>1 DEF Good, Followed, Owned
  <2> HIDE DEF o
  <2>3. Engaged(o) /\ Engaged(m)
    BY <1>1, <2>2 DEF Engaged, InPrompt
  <2>4. o = m
    BY <2>1, <2>3 DEF Good, Followed, Alone
  <2> QED BY <1>1, <2>2, <2>4
<1>3. /\ agent' = StartRun(m, <<User(m)>>, FALSE, agent.messages)
      /\ call' = [call EXCEPT ![m].pc = "running", ![m].stage = "own"]
      /\ UNCHANGED <<queue, shown, sess, manual, ui, hist>>
  BY <1>2 DEF BeforeStart
<1>4. /\ agent'.at = "deliver" /\ agent'.todo = <<User(m)>> /\ agent'.owner = m /\ agent'.then = "request"
      /\ DOMAIN agent' = DOMAIN agent
  <2> DEFINE msgs == <<User(m)>>
  <2>1. msgs # <<>>
    OBVIOUS
  <2>2. agent' = StartRun(m, msgs, FALSE, agent.messages)
    BY <1>3
  <2>3. msgs = <<User(m)>>
    OBVIOUS
  <2> HIDE DEF msgs
  <2>4. /\ DOMAIN agent' = DOMAIN agent /\ agent'.at = IF msgs = <<>> THEN "poll" ELSE "deliver"
        /\ agent'.todo = msgs /\ agent'.then = "request" /\ agent'.owner = m
    BY <2>2, StartRunFields
  <2> QED BY <2>1, <2>3, <2>4
<1>5. Moves(m, "running", "own")
  BY <1>3 DEF Moves, CallType
<1>6. "own" \in Stages
  BY DEF Stages
<1> QED BY <1>1, <1>2, <1>3, <1>4, <1>5, <1>6, RunStarts

LEMMA ContinueKeeps ==
  ASSUME Good, HistType, NEW m \in Users, Continue(m), hist'.clean, Calls({"called"}) = {}
  PROVE  Good'
<1> Types /\ AgentType /\ SessType /\ CallType /\ PlaceType
  BY DEF Good, Types
<1> DEFINE steered == EndsWithReply(agent.messages)
           msgs == IF steered THEN <<User(Head(queue))>> ELSE <<>>
           s == IF call[m].stage = "check" THEN "pre" ELSE call[m].stage
<1>1. call[m].pc = "continue"
  BY DEF Continue
<1>2. ~(isStreaming \/ agent.messages = <<>> \/ (steered /\ queue = <<>>))
  <2>1. hist' # [hist EXCEPT !.clean = FALSE]
    BY DEF HistType
  <2> QED BY <2>1 DEF Continue
<1>3. /\ agent' = StartRun(m, msgs, steered, agent.messages)
      /\ queue' = IF steered THEN Tail(queue) ELSE queue
      /\ call' = [call EXCEPT ![m].pc = "running", ![m].stage = s]
      /\ UNCHANGED <<shown, sess, manual, ui, hist>>
  BY <1>2 DEF Continue
<1> HIDE DEF steered
<1>4. /\ agent'.at = IF msgs = <<>> THEN "poll" ELSE "deliver"
      /\ agent'.todo = msgs /\ agent'.owner = m /\ agent'.then = "request" /\ DOMAIN agent' = DOMAIN agent
  BY <1>3, StartRunFields
<1>5. \/ agent'.at = "poll" /\ queue' = queue
      \/ agent'.at = "deliver" /\ queue # <<>> /\ agent'.todo = <<User(Head(queue))>> /\ queue' = Tail(queue)
  BY <1>2, <1>3, <1>4
<1> HIDE DEF msgs
<1>6. s \in Stages /\ (s = "own" <=> call[m].stage = "own")
  BY DEF CallType, Stages
<1> HIDE DEF s
<1>7. Moves(m, "running", s)
  BY <1>3 DEF Moves, CallType
<1> QED BY <1>1, <1>2, <1>3, <1>4, <1>5, <1>6, <1>7, RunStarts

(***************************************************************************)
(* The end of a compaction: what was held back is prompted and queued.     *)
(***************************************************************************)
\* A call whose compaction is over goes on, the others stay where they are.
Within(calls) == \A y \in Users :
  /\ DOMAIN calls[y] = DOMAIN call[y] /\ calls[y].stage = call[y].stage /\ calls[y].batch = call[y].batch
  /\ \/ calls[y].pc = call[y].pc
     \/ /\ call[y].pc \in {"summarise", "compacted"} /\ calls[y].pc \in {"hooks", "continue", "finish"}
        /\ calls[y].pc = "hooks" => calls[y].stage # "own"

LEMMA FlushedHas ==
  ASSUME PlaceType, NEW retry, NEW x, AtMostOnce(ui.held, x)
  PROVE  AtMostOnce(Flushed(retry), x)
  BY ElementsOfTail DEF Flushed, PlaceType

LEMMA FlushedFields ==
  ASSUME PlaceType, NEW retry
  PROVE  /\ Flushed(retry) \in Seq(Users) /\ Elements(Flushed(retry)) \subseteq Elements(ui.held)
         /\ \A x, y : {x, y} \subseteq Elements(ui.held) \ Elements(Flushed(retry)) => x = y
<1> ui.held \in Seq(Users)
  BY DEF PlaceType
<1>1. CASE retry \/ ui.held = <<>>
  BY <1>1 DEF Flushed
<1>2. CASE ~(retry \/ ui.held = <<>>)
  BY <1>2, ElementsOfTail DEF Flushed
<1> QED BY <1>1, <1>2

LEMMA FlushKeeps ==
  ASSUME Good, Calls({"called"}) = {}, NEW retry, NEW calls, Within(calls), compaction_end(retry, calls),
         SameAgent, SessType', sess'.sleeper = sess.sleeper, DOMAIN manual' = DOMAIN manual,
         hist'.delivered = hist.delivered
  PROVE  Good'
<1> Types /\ AgentType /\ SessType /\ CallType /\ PlaceType
  BY DEF Good, Types
<1> DEFINE rest == Flushed(retry)
<1>1. /\ rest \in Seq(Users) /\ Elements(rest) \subseteq Elements(ui.held)
      /\ \A x : AtMostOnce(ui.held, x) => AtMostOnce(rest, x)
      /\ \A x, y : {x, y} \subseteq Elements(ui.held) \ Elements(rest) => x = y
  BY FlushedFields, FlushedHas
<1>2. ToSet(rest) = Elements(rest) /\ ToSet(ui.held) = Elements(ui.held)
  BY <1>1, ToSetIsElements DEF PlaceType
<1>3. /\ queue' = queue \o rest /\ shown' = shown \o rest /\ ui' = [ui EXCEPT !.held = <<>>]
      /\ call' = [x \in Users |->
                    IF x \in Elements(rest) THEN [NewCall EXCEPT !.pc = "done"]
                    ELSE IF x \in Elements(ui.held) THEN [NewCall EXCEPT !.pc = "called", !.batch = ui.held]
                    ELSE calls[x]]
  BY <1>2 DEF compaction_end
<1> HIDE DEF rest
<1>4. /\ queue' \in Seq(Users) /\ Elements(queue') = Elements(queue) \cup Elements(rest)
      /\ shown' \in Seq(Users) /\ Elements(shown') = Elements(shown) \cup Elements(rest)
      /\ \A x : (AtMostOnce(queue, x) /\ AtMostOnce(rest, x) /\ ~(x \in Elements(queue) /\ x \in Elements(rest)))
               => AtMostOnce(queue', x)
  BY <1>1, <1>3, ElementsOfConcat DEF PlaceType
<1>5. DOMAIN ui' = DOMAIN ui /\ ui'.held = <<>> /\ ui'.inputs = ui.inputs
  BY <1>3 DEF PlaceType
<1>6. DOMAIN call' = Users /\ \A y \in Users :
        /\ y \in Elements(rest) =>
             /\ DOMAIN call'[y] = DOMAIN call[y]
             /\ call'[y].pc = "done" /\ call'[y].stage = "own" /\ call'[y].batch = <<>>
        /\ y \notin Elements(rest) /\ y \in Elements(ui.held) =>
             /\ DOMAIN call'[y] = DOMAIN call[y]
             /\ call'[y].pc = "called" /\ call'[y].stage = "own" /\ call'[y].batch = ui.held
        /\ y \notin Elements(ui.held) => call'[y] = calls[y]
  BY <1>1, <1>3, NewCallHas DEF NewCallFields, CallType
<1> HIDE DEF Flushed
<1>7. <<>> \in Seq(Users) /\ ui.held \in Seq(Users)
  BY DEF PlaceType
<1>8. \A y \in Users : /\ y \in Elements(ui.held) => call[y].pc = "held"
                       /\ call[y].pc # "called"
  BY DEF Good, Followed, Placed, Calls
<1>9. Types'
  <2>1. CallType'
    <3> SUFFICES ASSUME NEW y \in Users
                 PROVE  /\ DOMAIN call'[y] = DOMAIN call[y]
                        /\ call'[y].pc \in Waiting \cup Over \cup InPrompt
                        /\ call'[y].stage \in Stages
                        /\ call'[y].batch \in Seq(Users)
      BY <1>6 DEF CallType
    <3>1. CASE y \in Elements(rest)
      BY <1>6, <1>7, <3>1 DEF Stages, Over
    <3>2. CASE y \notin Elements(rest) /\ y \in Elements(ui.held)
      BY <1>6, <1>7, <3>2 DEF Stages, Waiting
    <3>3. CASE y \notin Elements(ui.held)
      BY <1>6, <3>3 DEF Within, CallType, Waiting, InPrompt
    <3> QED BY <1>1, <3>1, <3>2, <3>3
  <2>2. PlaceType'
    BY <1>4, <1>5, <1>7 DEF PlaceType
  <2> QED BY <2>1, <2>2, SameAgentType DEF Types
<1>10. \A y \in Users : /\ call'[y].pc = "called" <=> y \in Elements(ui.held) \ Elements(rest)
                        /\ Engaged(y)' => Engaged(y)
                        /\ Ahead(y)' => Ahead(y)
                        /\ y \in Elements(ui.held) => Ahead(y)
  <2> SUFFICES ASSUME NEW y \in Users
               PROVE  /\ call'[y].pc = "called" <=> y \in Elements(ui.held) \ Elements(rest)
                      /\ Engaged(y)' => Engaged(y)
                      /\ Ahead(y)' => Ahead(y)
                      /\ y \in Elements(ui.held) => Ahead(y)
    OBVIOUS
  <2>1. CASE y \in Elements(ui.held)
    BY <1>6, <1>8, <2>1 DEF Engaged, Ahead, Waiting, InPrompt
  <2>2. CASE y \notin Elements(ui.held)
    <3>1. call'[y].pc # "called"
      BY <1>6, <1>8, <2>2 DEF Within
    <3>2. Engaged(y)' => Engaged(y)
      BY <1>6, <2>2 DEF Within, Engaged, InPrompt
    <3>3. Ahead(y)' => Ahead(y)
      BY <1>6, <2>2 DEF Within, Ahead, Waiting, InPrompt
    <3> QED BY <2>2, <3>1, <3>2, <3>3
  <2> QED BY <2>1, <2>2
<1>11. ASSUME NEW x \in Users PROVE Followed(x)'
  <2> Followed(x)
    BY DEF Good
  <2>1. InHand(x)' <=> InHand(x)
    BY DEF InHand, SameAgent, SameHand
  <2>2. x \in Elements(ui.held) => /\ ~InHand(x) /\ x \notin Elements(queue) /\ x \notin Elements(shown)
                                   /\ x \notin Elements(ui.inputs) /\ x \notin Elements(hist.delivered)
    BY <1>8, <1>10 DEF Followed, Placed, Undelivered
  <2>3. x \notin Elements(<<>>) /\ AtMostOnce(<<>>, x)
    BY ElementsOfEmpty
  <2>4. (x \notin Elements(ui.held) /\ call[x].pc \notin {"summarise", "compacted"}) =>
          SameCall(x)
    BY <1>6 DEF Within, SameCall
  <2>5. Once(x)'
    BY <1>1, <1>4, <1>5, <2>2, <2>3 DEF Followed, Once
  <2>6. Placed(x)'
    <3>1. CASE x \in Elements(ui.held)
      BY <1>4, <1>5, <1>6, <2>1, <2>2, <2>3, <3>1 DEF Followed, Placed
    <3>2. CASE x \notin Elements(ui.held)
      BY <1>1, <1>4, <1>5, <2>1, <2>3, <2>4, <3>2 DEF Followed, Placed, SameCall
    <3> QED BY <3>1, <3>2
  <2>7. Undelivered(x)'
    BY <1>1, <1>4, <1>10, <2>1, <2>2 DEF Followed, Undelivered
  <2>8. Owned(x)'
    <3>1. CASE x \in Elements(ui.held)
      BY <1>8, <3>1 DEF Followed, Owned, SameAgent, SameHand
    <3>2. CASE x \notin Elements(ui.held)
      BY <2>4, <3>2 DEF Followed, Owned, SameAgent, SameHand, SameCall
    <3> QED BY <3>1, <3>2
  <2>9. Flushing(x)'
    <3>1. CASE x \in Elements(rest)
      BY <1>6, <3>1 DEF Flushing
    <3>2. CASE x \notin Elements(rest) /\ x \in Elements(ui.held)
      <4>1. call'[x].pc = "called" /\ call'[x].batch = ui.held
        BY <1>6, <3>2
      <4>2. ASSUME NEW y \in Elements(ui.held) PROVE AtMostOnce(ui.held, y) /\ (y # x => y \in Elements(queue'))
        <5>1. y \in Users
          BY <1>7 DEF Elements
        <5>2. AtMostOnce(ui.held, y)
          BY <5>1 DEF Good, Followed, Once
        <5> QED BY <1>1, <1>4, <3>2, <5>2
      <4> QED BY <3>2, <4>1, <4>2 DEF Flushing
    <3>3. CASE x \notin Elements(ui.held)
      <4>1. call'[x].pc # "called" /\ (call'[x].pc \in {"new", "input"} => call[x].pc = call'[x].pc) /\ call'[x].batch = call[x].batch
        BY <1>6, <1>10, <3>3 DEF Within
      <4> QED BY <4>1 DEF Followed, Flushing
    <3> QED BY <1>1, <3>1, <3>2, <3>3
  <2>10. Alone(x)'
    BY <1>1, <1>10 DEF Followed, Alone
  <2> QED BY <2>5, <2>6, <2>7, <2>8, <2>9, <2>10 DEF Followed
<1> QED BY <1>9, <1>11 DEF Good

LEMMA AtWithin ==
  ASSUME CallType, NEW m \in Users, call[m].pc \in {"summarise", "compacted"},
         NEW p \in {"hooks", "continue", "finish"}, p = "hooks" => call[m].stage # "own"
  PROVE  Within(At(m, p))
  BY DEF CallType, Within, At

\* The automatic compaction failed or was cancelled.
LEMMA AutoFailsKeeps ==
  ASSUME Good, HistType, NEW m \in Users, AutoFails(m), Calls({"called"}) = {}
  PROVE  Good'
<1> Types /\ CallType
  BY DEF Good, Types
<1> DEFINE p == NotCompacted(m, queue \o Flushed(FALSE))
           calls == At(m, p)
<1>1. /\ call[m].pc = "summarise" /\ UNCHANGED <<agent, sess, manual>>
      /\ hist'.delivered = hist.delivered /\ compaction_end(FALSE, calls)
  BY DEF AutoFails, HistType
<1>2. p \in {"hooks", "continue", "finish"} /\ (p = "hooks" => call[m].stage # "own")
  BY NotCompactedFields
<1> HIDE DEF p
<1>3. Within(calls)
  BY <1>1, <1>2, AtWithin
<1> HIDE DEF calls
<1>4. SameAgent /\ SessType' /\ sess'.sleeper = sess.sleeper /\ DOMAIN manual' = DOMAIN manual
  BY <1>1, UnchangedTypes DEF SameAgent, SameHand, Types
<1> QED BY <1>1, <1>3, <1>4, FlushKeeps

\* It succeeded.
LEMMA AutoDoneKeeps ==
  ASSUME Good, HistType, NEW m \in Users, AutoDone(m), Calls({"called"}) = {}
  PROVE  Good'
<1> Types /\ CallType /\ AgentType
  BY DEF Good, Types
<1> DEFINE retry == call[m].willRetry
           p == IF retry \/ queue \o Flushed(retry) # <<>> THEN "continue" ELSE NotCompacted(m, <<>>)
           calls == At(m, p)
<1>1. /\ call[m].pc = "compacted" /\ UNCHANGED <<sess, manual>>
      /\ hist'.delivered = hist.delivered /\ compaction_end(retry, calls)
      /\ agent' = [agent EXCEPT !.messages = IF retry /\ EndsWithReply(@) /\ Failed(Last(@)) THEN Front(@) ELSE @]
  BY DEF AutoDone
<1>2. p \in {"hooks", "continue", "finish"} /\ (p = "hooks" => call[m].stage # "own")
  BY NotCompactedFields
<1> HIDE DEF p
<1>3. Within(calls)
  BY <1>1, <1>2, AtWithin
<1> HIDE DEF calls
<1>4. SameAgent
  BY <1>1 DEF AgentType, SameAgent, SameHand
<1>5. SessType' /\ sess'.sleeper = sess.sleeper /\ DOMAIN manual' = DOMAIN manual
  BY <1>1, UnchangedTypes DEF Types
<1> HIDE DEF retry
<1> QED BY <1>1, <1>3, <1>4, <1>5, FlushKeeps

\* compact() is over.
LEMMA CompactEndsKeeps ==
  ASSUME Good, HistType, CompactEnds, Calls({"called"}) = {}
  PROVE  Good'
<1> Types /\ CallType /\ AgentType /\ SessType /\ PlaceType
  BY DEF Good, Types
<1>1. /\ UNCHANGED <<agent, hist>> /\ compaction_end(FALSE, call) /\ sess' = [sess EXCEPT !.connected = TRUE]
      /\ DOMAIN manual' = DOMAIN manual
  BY DEF CompactEnds, PlaceType
<1>2. SessType' /\ sess'.sleeper = sess.sleeper
  BY <1>1 DEF SessType
<1>3. SameAgent
  BY <1>1 DEF SameAgent, SameHand
<1>4. Within(call)
  BY DEF Within
<1> QED BY <1>1, <1>2, <1>3, <1>4, FlushKeeps

(***************************************************************************)
(* Every step.                                                             *)
(***************************************************************************)
\* The bookkeeping keeps its fields, and what was not clean stays so.
LEMMA HistStep ==
  ASSUME HistType, [Next]_vars
  PROVE  HistType' /\ (hist'.clean => hist.clean)
<1> USE DEF HistType
<1>1. CASE UNCHANGED vars
  BY <1>1 DEF vars
<1>2. ASSUME NEW m \in Users, Call(m) PROVE HistType' /\ (hist'.clean => hist.clean)
  BY <1>2 DEF Call
<1>3. CASE Poll \/ CompactReady
  BY <1>3 DEF Poll, CompactReady
<1>4. ASSUME NEW m \in Users, BeforeStart(m) \/ Finish(m) PROVE HistType' /\ (hist'.clean => hist.clean)
  BY <1>4 DEF BeforeStart, Finish
<1>5. ASSUME NEW m \in Users, PostRun(m) PROVE HistType' /\ (hist'.clean => hist.clean)
  <2>1. hist' = hist \/ hist' = [hist EXCEPT !.errors = 0] \/ \E b : hist' = [hist EXCEPT !.recovered = b, !.errors = 0]
    BY <1>5 DEF PostRun, CheckAfterRun
  <2> QED BY <2>1
<1>6. ASSUME NEW m \in Users, Continue(m) PROVE HistType' /\ (hist'.clean => hist.clean)
  BY <1>6 DEF Continue
<1>7. ASSUME NEW m \in Users, Wake(m) \/ AutoAuth(m) \/ AutoSummarised(m) \/ AutoDone(m)
      PROVE  HistType' /\ (hist'.clean => hist.clean)
  BY <1>7 DEF Wake, AutoAuth, AutoSummarised, AutoDone
<1>8. ASSUME NEW m \in Users, RetryCancelled(m) PROVE HistType' /\ (hist'.clean => hist.clean)
  BY <1>8 DEF RetryCancelled, CheckAfterRun
<1>9. ASSUME NEW m \in Users, AutoFails(m) PROVE HistType' /\ (hist'.clean => hist.clean)
  BY <1>9 DEF AutoFails
<1>10. CASE AgentStep
  BY <1>10 DEF AgentStep, Deliver, ReplyArrives, ToolAnswers, MessageEnd, RunEnds
<1>11. CASE NextInput \/ CompactStep
  BY <1>11 DEF NextInput, CompactStep, CompactPrepared, CompactSummarised, CompactEnds
<1>12. CASE UserStep
  BY <1>12 DEF UserStep, Compact, Cancel, Submit, recordBashResult
<1> QED BY <1>1, <1>2, <1>3, <1>4, <1>5, <1>6, <1>7, <1>8, <1>9, <1>10, <1>11, <1>12
        DEF Next, Settle, PromptStep

\* What the user does, when no call is between two awaits.
LEMMA UserStepKeeps ==
  ASSUME Good, HistType, UserStep, Calls({"called"}) = {}
  PROVE  Good'
<1>1. CASE Compact
  BY <1>1, CompactKeeps
<1>2. CASE Cancel
  <2>1. hist'.delivered = hist.delivered
    BY <1>2 DEF Cancel, HistType
  <2>2. CASE CancelRetry
    BY <2>1, <2>2, CancelRetryKeeps
  <2>3. CASE abortCompaction
    BY <2>1, <2>3, abortCompactionKeeps
  <2>4. ASSUME NEW abort \in BOOLEAN, restoreQueuedMessagesToEditor(abort) PROVE Good'
    BY <2>1, <2>4, RestoreKeeps
  <2> QED BY <1>2, <2>2, <2>3, <2>4 DEF Cancel
<1>3. ASSUME NEW m \in Users, Submit(m) PROVE Good'
  BY <1>3, SubmitKeeps
<1>4. ASSUME NEW b \in Bashes, recordBashResult(b) PROVE Good'
  BY <1>4, recordBashResultKeeps
<1> QED BY <1>1, <1>2, <1>3, <1>4 DEF UserStep

LEMMA NextKeeps ==
  ASSUME Good, HistType, Next, hist'.clean
  PROVE  Good'
<1> DEFINE entered == Calls({"called"})
<1>1. ASSUME NEW m \in Users, Call(m) PROVE Good'
  BY <1>1, CallStepKeeps
<1>2. CASE entered = {} /\ Poll
  BY <1>2, PollKeeps
<1>3. CASE CompactReady
  BY <1>3, CompactStepsKeep
<1>4. ASSUME NEW m \in Users, entered = {}, Settle(m) PROVE Good'
  BY <1>4, PostRunKeeps, ContinueKeeps, FinishKeeps DEF Settle
<1>5. ASSUME NEW m \in Users, entered = {}, BeforeStart(m) PROVE Good'
  BY <1>5, BeforeStartKeeps
<1>6. Calm => entered = {}
  BY DEF Calm, Calls
<1>7. CASE Calm /\ AgentStep
  BY <1>7, DeliverKeeps, ReplyArrivesKeeps, ToolAnswersKeeps, MessageEndKeeps, RunEndsKeeps DEF AgentStep
<1>8. CASE Calm /\ (NextInput \/ CompactStep)
  BY <1>6, <1>8, NextInputKeeps, CompactStepsKeep, CompactEndsKeeps DEF CompactStep
<1>9. CASE Calm /\ UserStep
  BY <1>6, <1>9, UserStepKeeps
<1>10. ASSUME NEW m \in Users, Calm, PromptStep(m) PROVE Good'
  BY <1>5, <1>6, <1>10, WakeKeeps, RetryCancelledKeeps, AutoAuthKeeps, AutoSummarisedKeeps, AutoDoneKeeps DEF PromptStep
<1>11. ASSUME NEW m \in Users, Calm, AutoFails(m) PROVE Good'
  BY <1>6, <1>11, AutoFailsKeeps
<1> HIDE DEF entered
<1>12. \/ \E m \in Users : Call(m)
       \/ entered = {} /\ Poll
       \/ CompactReady
       \/ entered = {} /\ \E m \in Users : Settle(m) \/ BeforeStart(m)
       \/ Calm /\ (AgentStep \/ NextInput \/ CompactStep \/ UserStep \/ \E m \in Users : PromptStep(m) \/ AutoFails(m))
  BY DEF Next, entered
<1> QED BY <1>1, <1>2, <1>3, <1>4, <1>5, <1>7, <1>8, <1>9, <1>10, <1>11, <1>12

LEMMA StutterKeeps == ASSUME Good, UNCHANGED vars PROVE Good'
<1> UNCHANGED <<agent, queue, shown, sess, call, manual, ui, hist>>
  BY DEF vars
<1> Types /\ CallType
  BY DEF Good, Types
<1>1. SameAgent /\ SamePlaces
  BY DEF SameAgent, SameHand, SamePlaces
<1>2. DOMAIN call' = Users /\ \A y \in Users : SameCall(y) /\ DOMAIN call'[y] = DOMAIN call[y]
  BY DEF CallType, SameCall
<1>3. SessType' /\ sess'.sleeper = sess.sleeper
  BY UnchangedTypes DEF Types
<1> QED BY <1>1, <1>2, <1>3, NothingMoves

LEMMA StepKeeps == Inv /\ [Next]_vars => Inv'
<1> SUFFICES ASSUME Inv, [Next]_vars PROVE Inv'
  OBVIOUS
<1>1. HistType /\ HistType' /\ (hist'.clean => hist.clean)
  BY HistStep DEF Inv
<1>2. ASSUME hist'.clean PROVE Good'
  <2>1. Good
    BY <1>1, <1>2 DEF Inv
  <2> QED BY <1>1, <1>2, <2>1, NextKeeps, StutterKeeps
<1> QED BY <1>1, <1>2 DEF Inv

\* A sequence in which everything is at most once is injective.
LEMMA OnceIsInjective ==
  ASSUME NEW S, NEW s \in Seq(S), \A x \in S : AtMostOnce(s, x)
  PROVE  IsInjective(s)
<1>1. DOMAIN s = 1..Len(s) /\ \A i \in 1..Len(s) : s[i] \in S
  OBVIOUS
<1> QED BY <1>1 DEF AtMostOnce, IsInjective

LEMMA InvImpliesEachOnce == Inv => EachOnce
<1> SUFFICES ASSUME Good PROVE /\ IsInjective(hist.delivered)
                               /\ ToSet(hist.delivered) \cap (ToSet(queue) \cup ToSet(ui.held) \cup ToSet(ui.inputs)) = {}
  BY DEF Inv, EachOnce
<1>1. {queue, ui.held, ui.inputs, hist.delivered} \subseteq Seq(Users)
  BY DEF Good, Types, PlaceType
<1>2. IsInjective(hist.delivered)
  BY <1>1, OnceIsInjective DEF Good, Followed, Once
<1>3. /\ ToSet(queue) = Elements(queue) /\ ToSet(ui.held) = Elements(ui.held)
      /\ ToSet(ui.inputs) = Elements(ui.inputs) /\ ToSet(hist.delivered) = Elements(hist.delivered)
  BY <1>1, ToSetIsElements
<1>4. Elements(hist.delivered) \subseteq Users
  BY <1>1 DEF Elements
<1>5. ASSUME NEW x \in Users, x \in Elements(queue) \/ x \in Elements(ui.held) \/ x \in Elements(ui.inputs)
      PROVE  x \notin Elements(hist.delivered)
  BY <1>5 DEF Good, Followed, Placed, Undelivered, Ahead, Waiting
<1> QED BY <1>2, <1>3, <1>4, <1>5

-----------------------------------------------------------------------------
\* As long as calls of prompt() and compact() do not overlap and no continue() is refused, a
\* message the user typed reaches the agent at most once, whatever retries, compactions, flushes
\* of what was held back, cancelling and restoring to the editor come between, and it then waits
\* in no queue (prompt(), _handlePostAgentRun and interactive mode's compaction queue).
THEOREM MessagesReachTheAgentOnce == Spec => []EachOnce
<1>1. Init => Inv
  BY InitialStates
<1>2. Inv /\ [Next]_vars => Inv'
  BY StepKeeps
<1>3. Inv => EachOnce
  BY InvImpliesEachOnce
<1> QED BY <1>1, <1>2, <1>3, PTL DEF Spec

-----------------------------------------------------------------------------
(***************************************************************************)
(* Nothing is left in the queue: somebody minds it.                        *)
(***************************************************************************)
\* A call that is under way or flushes what was held back comes to the queue again.
Minder(m) == Engaged(m) \/ (call[m].pc = "called" /\ call[m].batch # <<>>)
Minded == queue # <<>> => \E m \in Users : Minder(m)

\* What is shown as waiting is queued, or about to be given to the agent.
Shown(x) == AtMostOnce(shown, x) /\ (x \in Elements(shown) => x \in Elements(queue) \/ InHand(x))

\* The session listens unless compact() runs, and then nothing else does.
Listens ==
  /\ manual.pc = "none" => sess.connected
  /\ manual.pc # "none" => \A m \in Users : ~Engaged(m)

\* A run that comes to its end had a reply, and the session knows it.
Told ==
  /\ agent.at \in {"deliver", "tools"} => agent.then = "request"
  /\ agent.at = "save" =>
       /\ agent.heard /\ Head(agent.todo).role \in {"user", "toolResult", "assistant"}
       /\ agent.then = "end" => Head(agent.todo).role = "assistant" /\ Head(agent.todo).kind # "tool"
  /\ agent.at = "end" \/ (agent.at = "poll" /\ agent.then = "end") => sess.last # NoReply
  /\ \A m \in Users : call[m].pc = "ran" => sess.last # NoReply

\* The check before the prompt is followed by the hooks, not by the end.
Halted(m) == call[m].pc = "finish" /\ call[m].stage = "check"
NoneHalted == \A m \in Users : ~Halted(m)

Tended == Minded /\ (\A x \in Users : Shown(x)) /\ Listens /\ Told /\ NoneHalted
FullInv == Inv /\ (hist.clean => Tended)

\* What the loop is at, and what the session heard.
SameLoop == /\ agent'.at = agent.at /\ agent'.todo = agent.todo /\ agent'.then = agent.then /\ agent'.heard = agent.heard
SameEars == sess'.last = sess.last /\ sess'.connected = sess.connected
SameManual == manual'.pc = "none" <=> manual.pc = "none"
CallsGoOn == \A y \in Users :
  /\ (Minder(y) => Minder(y)') /\ (Engaged(y)' => Engaged(y)) /\ (Halted(y)' => Halted(y))
  /\ call'[y].pc = "ran" => call[y].pc = "ran"

\* The agent is idle while the call under way is elsewhere than at its run.
LEMMA IdleMeanwhile ==
  ASSUME Good, NEW m \in Users, Engaged(m), call[m].pc # "running"
  PROVE  agent.at = "idle"
<1> SUFFICES ASSUME agent.at # "idle" PROVE FALSE
  OBVIOUS
<1> DEFINE o == agent.owner
<1>1. o \in Users
  BY DEF Good, Types, AgentType
<1>2. call[o].pc = "running"
  BY <1>1 DEF Good, Followed, Owned
<1> HIDE DEF o
<1>3. Engaged(o)
  BY <1>2 DEF Engaged, InPrompt
<1> QED BY <1>1, <1>2, <1>3 DEF Good, Followed, Alone

\* A busy agent has an owner, who is under way and to whom the session listens.
LEMMA BusyIsMinded ==
  ASSUME Good, agent.at # "idle"
  PROVE  \E m \in Users : Engaged(m) /\ agent.owner = m /\ call[m].pc = "running"
<1> DEFINE o == agent.owner
<1>1. o \in Users
  BY DEF Good, Types, AgentType
<1>2. call[o].pc = "running"
  BY <1>1 DEF Good, Followed, Owned
<1> HIDE DEF o
<1>3. Engaged(o)
  BY <1>2 DEF Engaged, InPrompt
<1> QED BY <1>1, <1>2, <1>3 DEF o

LEMMA BusyIsHeard ==
  ASSUME Good, Listens, agent.at # "idle" PROVE sess.connected
  BY BusyIsMinded DEF Listens

(***************************************************************************)
(* Each part, where a step leaves it alone.                                *)
(***************************************************************************)
LEMMA MindedStays ==
  ASSUME Minded, queue' # <<>> => queue # <<>>, CallsGoOn PROVE Minded'
  BY DEF Minded, CallsGoOn

LEMMA ShownStays ==
  ASSUME \A x \in Users : Shown(x), UNCHANGED <<queue, shown>>, \A x \in Users : InHand(x) => InHand(x)'
  PROVE  \A x \in Users : Shown(x)'
<1> SUFFICES ASSUME NEW x \in Users PROVE Shown(x)'
  OBVIOUS
<1>1. Shown(x) /\ (InHand(x) => InHand(x)')
  OBVIOUS
<1> QED BY <1>1 DEF Shown

LEMMA ListensStays ==
  ASSUME Listens, SameManual, sess'.connected = sess.connected, CallsGoOn PROVE Listens'
  BY DEF Listens, SameManual, CallsGoOn

LEMMA ToldStays ==
  ASSUME Told, SameLoop, sess'.last = sess.last, CallsGoOn PROVE Told'
  BY DEF Told, SameLoop, CallsGoOn

LEMMA NoneHaltedStays == ASSUME NoneHalted, CallsGoOn PROVE NoneHalted'
  BY DEF NoneHalted, CallsGoOn

LEMMA TendedStays ==
  ASSUME Tended, UNCHANGED <<queue, shown>>, SameLoop, SameEars, SameManual, CallsGoOn PROVE Tended'
<1>1. \A x \in Users : InHand(x) => InHand(x)'
  BY DEF SameLoop, InHand
<1> QED BY <1>1, MindedStays, ShownStays, ListensStays, ToldStays, NoneHaltedStays DEF Tended, SameEars

\* The calls are left alone.
LEMMA SameCallsGoOn == ASSUME call' = call PROVE CallsGoOn
  BY DEF CallsGoOn, Minder, Engaged, Halted

\* A step of the agent in which no message is handed over.
LEMMA LoopTends ==
  ASSUME Tended, agent.at # "deliver", UNCHANGED <<queue, shown, call, manual>>,
         sess'.connected = sess.connected, Told'
  PROVE  Tended'
<1>1. CallsGoOn /\ SameManual
  BY SameCallsGoOn DEF SameManual
<1>2. \A x \in Users : InHand(x) => InHand(x)'
  BY DEF InHand
<1> QED BY <1>1, <1>2, MindedStays, ShownStays, ListensStays, NoneHaltedStays DEF Tended

(***************************************************************************)
(* The steps of the agent.                                                 *)
(***************************************************************************)
LEMMA PushedIs ==
  ASSUME AgentType, NEW x
  PROVE  /\ Pushed(x).heard = sess.connected /\ Head(Pushed(x).todo) = x /\ Pushed(x).at = "save"
         /\ Pushed(x).then = agent.then
  BY DEF AgentType, Pushed

LEMMA DeliverTends == ASSUME Good, HistType, Tended, Deliver PROVE Tended'
<1> AgentType /\ SessType /\ PlaceType
  BY DEF Good, Types
<1>1. PICK u \in Users : agent.todo = <<User(u)>>
  BY DEF Deliver, AgentType
<1>2. Head(agent.todo) = User(u) /\ User(u).id = u /\ User(u).role = "user"
  BY <1>1 DEF User
<1>3. sess.connected
  BY BusyIsHeard DEF Deliver, Tended
<1>4. /\ agent.at = "deliver" /\ agent' = Pushed(User(u)) /\ shown' = RemoveFirst(shown, u)
      /\ sess' = [sess EXCEPT !.overflow = @ /\ ~sess.connected]
      /\ UNCHANGED <<queue, call, manual>>
  BY <1>2, <1>3 DEF Deliver
<1>5. /\ agent'.heard = sess.connected /\ Head(agent'.todo) = User(u) /\ agent'.at = "save" /\ agent'.then = agent.then
  BY <1>4, PushedIs
<1>6. sess'.last = sess.last /\ sess'.connected = sess.connected
  BY <1>4 DEF SessType
<1>7. CallsGoOn /\ SameManual
  BY <1>4, SameCallsGoOn DEF SameManual
<1>8. ASSUME NEW x \in Users PROVE Shown(x)'
  <2>1. Shown(x)
    BY DEF Tended
  <2>2. x # u => ~InHand(x)
    BY <1>1, UserIsOne DEF InHand
  <2>3. /\ AtMostOnce(shown', x) /\ (x \in Elements(shown') => x \in Elements(shown))
        /\ u \notin Elements(shown')
    <3>1. AtMostOnce(shown, u)
      BY DEF Tended, Shown
    <3> QED BY <1>4, <2>1, <3>1, ElementsOfRemoveFirst DEF Shown, PlaceType
  <2> QED BY <1>4, <2>1, <2>2, <2>3 DEF Shown
<1>9. Told'
  BY <1>2, <1>3, <1>4, <1>5, <1>6 DEF Told, Tended
<1> QED BY <1>4, <1>6, <1>7, <1>8, <1>9, MindedStays, ListensStays, NoneHaltedStays DEF Tended

LEMMA ReplyArrivesTends == ASSUME Good, HistType, Tended, ReplyArrives PROVE Tended'
<1> AgentType /\ SessType /\ PlaceType
  BY DEF Good, Types
<1>1. PICK r \in Replies :
        agent' = [Pushed(r) EXCEPT !.polled = FALSE, !.then = IF Final(r) THEN "end" ELSE "request"]
  BY DEF ReplyArrives
<1>2. r.role = "assistant"
  BY DEF Replies, Reply
<1>3. sess.connected
  BY BusyIsHeard DEF ReplyArrives, Tended
<1>4. DOMAIN Pushed(r) = DOMAIN agent
  BY PushedFields
<1>5. /\ agent'.heard = sess.connected /\ Head(agent'.todo) = r /\ agent'.at = "save"
      /\ agent'.then = IF Final(r) THEN "end" ELSE "request"
  BY <1>1, <1>4, PushedIs DEF AgentType
<1>6. UNCHANGED <<queue, shown, sess, call, manual>> /\ agent.at = "request"
  BY DEF ReplyArrives
<1>7. Told'
  BY <1>2, <1>3, <1>5, <1>6 DEF Told, Tended, Final
<1> QED BY <1>6, <1>7, LoopTends

LEMMA ToolAnswersTends == ASSUME Good, HistType, Tended, ToolAnswers PROVE Tended'
<1> AgentType /\ SessType /\ PlaceType
  BY DEF Good, Types
<1> DEFINE r == Result(hist.replies)
<1>1. r.role = "toolResult"
  BY DEF Result
<1>2. agent' = Pushed(r) /\ UNCHANGED <<queue, shown, sess, call, manual>> /\ agent.at = "tools"
  BY DEF ToolAnswers
<1> HIDE DEF r
<1>3. sess.connected
  BY <1>2, BusyIsHeard DEF Tended
<1>4. /\ agent'.heard = sess.connected /\ Head(agent'.todo) = r /\ agent'.at = "save" /\ agent'.then = agent.then
  BY <1>2, PushedIs
<1>5. Told'
  BY <1>1, <1>2, <1>3, <1>4 DEF Told, Tended
<1> QED BY <1>2, <1>5, LoopTends

LEMMA MessageEndTends == ASSUME Good, HistType, Tended, MessageEnd PROVE Tended'
<1> AgentType /\ SessType /\ PlaceType
  BY DEF Good, Types
<1> DEFINE h == Head(agent.todo)
<1>1. /\ agent.at = "save"
      /\ agent' = [agent EXCEPT !.todo = Tail(@), !.heard = FALSE, !.at = AfterMessage(h), !.since = Compactions]
      /\ sess' = IF agent.heard /\ h.role = "assistant" THEN Counted(h) ELSE sess
      /\ UNCHANGED <<queue, shown, call, manual, ui, hist>>
  BY DEF MessageEnd
<1>2. /\ agent.heard /\ h.role \in {"user", "toolResult", "assistant"}
      /\ agent.then = "end" => h.role = "assistant" /\ h.kind # "tool"
  BY <1>1 DEF Tended, Told
<1> HIDE DEF h
<1>3. /\ agent'.at = AfterMessage(h) /\ agent'.then = agent.then
  BY <1>1 DEF AgentType
<1>4. /\ AfterMessage(h) \in {"request", "poll", "tools", "end"}
      /\ AfterMessage(h) = "end" => h.role = "assistant"
      /\ AfterMessage(h) = "tools" => h.role = "assistant" /\ h.kind = "tool"
  BY <1>2 DEF AfterMessage
<1>5. /\ sess'.connected = sess.connected
      /\ h.role = "assistant" => sess'.last = h
      /\ h.role # "assistant" => sess'.last = sess.last
  BY <1>1, <1>2 DEF SessType, Counted
<1>6. h.role = "assistant" => h # NoReply
  BY DEF NoReply
<1>7. agent.then \in {"request", "end"}
  BY DEF AgentType
<1>8. Told'
  BY <1>1, <1>2, <1>3, <1>4, <1>5, <1>6, <1>7 DEF Told, Tended
<1> QED BY <1>1, <1>5, <1>8, LoopTends

LEMMA PollTends == ASSUME Good, Tended, Poll PROVE Tended'
<1> AgentType /\ SessType /\ PlaceType
  BY DEF Good, Types
<1>1. agent.at = "poll" /\ UNCHANGED <<shown, sess, call, manual, ui, hist>>
  BY DEF Poll
<1>2. CASE queue = <<>>
  <2>1. /\ queue' = queue /\ agent'.at = agent.then /\ agent'.then = agent.then
    BY <1>2 DEF Poll, AgentType
  <2>2. agent.then \in {"request", "end"}
    BY DEF AgentType
  <2>3. Told'
    BY <1>1, <2>1, <2>2 DEF Told, Tended
  <2> QED BY <1>1, <2>1, <2>3, LoopTends
<1>3. CASE queue # <<>>
  <2> DEFINE u == Head(queue)
  <2>1. /\ agent'.at = "deliver" /\ agent'.todo = <<User(u)>> /\ agent'.then = "request"
        /\ queue' = Tail(queue)
    BY <1>3 DEF Poll, AgentType
  <2>2. Elements(queue) = {u} \cup Elements(queue')
    BY <1>3, <2>1, ElementsOfTail DEF PlaceType
  <2> HIDE DEF u
  <2>3. \A x \in Users : x = u => InHand(x)'
    BY <2>1 DEF InHand
  <2>4. ASSUME NEW x \in Users PROVE Shown(x)'
    <3>1. Shown(x) /\ ~InHand(x)
      BY <1>1 DEF Tended, InHand
    <3>2. x \in Elements(queue) => x = u \/ x \in Elements(queue')
      BY <2>2
    <3> QED BY <1>1, <2>3, <3>1, <3>2 DEF Shown
  <2>5. CallsGoOn /\ SameManual
    BY <1>1, SameCallsGoOn DEF SameManual
  <2>6. Told'
    BY <1>1, <2>1 DEF Told, Tended
  <2> QED BY <1>1, <1>3, <2>4, <2>5, <2>6, MindedStays, ListensStays, NoneHaltedStays DEF Tended
<1> QED BY <1>2, <1>3

LEMMA RunEndsTends == ASSUME Good, Tended, RunEnds PROVE Tended'
<1> AgentType /\ SessType /\ CallType /\ PlaceType
  BY DEF Good, Types
<1> DEFINE m == agent.owner
<1>1. /\ agent.at = "end" /\ call' = At(m, "ran") /\ UNCHANGED <<queue, shown, sess, manual>>
      /\ agent' = [agent EXCEPT !.at = "idle", !.aborted = FALSE, !.owner = None, !.then = "request", !.polled = FALSE]
  BY DEF RunEnds
<1>2. m \in Users /\ agent'.at = "idle"
  BY <1>1 DEF AgentType
<1>3. call[m].pc = "running"
  BY <1>1, <1>2 DEF Good, Followed, Owned
<1> HIDE DEF m
<1>4. Moves(m, "ran", call[m].stage)
  BY <1>1, <1>2, AtMoves
<1>5. \A y \in Users : (Minder(y) => Minder(y)') /\ (Engaged(y)' => Engaged(y))
  BY <1>3, <1>4 DEF Moves, Minder, Engaged, InPrompt
<1>6. Minded'
  BY <1>1, <1>5 DEF Minded, Tended
<1>7. Listens'
  BY <1>1, <1>5 DEF Listens, Tended
<1>8. \A x \in Users : InHand(x) => InHand(x)'
  BY <1>1 DEF InHand
<1>9. Told'
  BY <1>1, <1>2 DEF Told, Tended
<1>10. NoneHalted'
  BY <1>4 DEF NoneHalted, Halted, Moves, Tended
<1> QED BY <1>1, <1>6, <1>7, <1>8, <1>9, <1>10, ShownStays DEF Tended

(***************************************************************************)
(* A call of prompt() goes on.                                             *)
(***************************************************************************)
\* The call for m is under way, and stays so unless the queue is empty.
LEMMA CallTends ==
  ASSUME Good, Tended, NEW m \in Users, NEW p \in (InPrompt \cup {"hooks"}) \ {"running", "ran"},
         Moves(m, p, call[m].stage), Engaged(m), call[m].pc # "running",
         p = "finish" => queue = <<>> /\ call[m].stage # "check",
         UNCHANGED <<queue, shown, manual>>, SameLoop, sess'.connected = sess.connected,
         call[m].pc = "ran" \/ sess'.last = sess.last
  PROVE  Tended'
<1>1. agent.at = "idle" /\ agent'.at = "idle"
  BY IdleMeanwhile DEF SameLoop
<1>2. \A y \in Users : y # m => (Minder(y) => Minder(y)') /\ (Engaged(y)' => Engaged(y)) /\ call'[y].pc = call[y].pc
  BY DEF Moves, Minder, Engaged
<1>3. queue # <<>> => Engaged(m)'
  BY DEF Moves, Engaged
<1>4. Minded'
  <2> SUFFICES ASSUME queue # <<>> PROVE \E y \in Users : Minder(y)'
    BY DEF Minded
  <2> QED BY <1>3 DEF Minder
<1>5. Listens'
  <2>1. \A y \in Users : Engaged(y)' => Engaged(y)
    BY <1>2
  <2> QED BY <2>1 DEF Listens, Tended
<1>6. \A x \in Users : InHand(x) => InHand(x)'
  BY <1>1 DEF InHand
<1>7. Told'
  <2>1. ASSUME NEW y \in Users, call'[y].pc = "ran" PROVE call[y].pc = "ran" /\ call[m].pc # "ran"
    <3>1. y # m
      BY <2>1 DEF Moves
    <3>2. call[y].pc = "ran" /\ Engaged(y)
      BY <1>2, <2>1, <3>1 DEF Engaged, InPrompt
    <3> QED BY <3>1, <3>2 DEF Good, Followed, Alone
  <2> QED BY <1>1, <2>1 DEF Told, Tended
<1>8. NoneHalted'
  BY DEF NoneHalted, Halted, Moves, Tended
<1> QED BY <1>4, <1>5, <1>6, <1>7, <1>8, ShownStays DEF Tended

LEMMA UnderWay ==
  ASSUME NEW m \in Users, call[m].pc \in InPrompt \cup {"hooks"}, ~(call[m].pc = "finish" /\ call[m].stage = "own")
  PROVE  Engaged(m)
  BY DEF Engaged

LEMMA FlushBashKeepsLoop ==
  ASSUME AgentType, SessType, FlushBash PROVE SameLoop /\ SameEars
  BY DEF AgentType, SessType, FlushBash, SameLoop, SameEars

LEMMA FinishTends == ASSUME Good, Tended, NEW m \in Users, Finish(m) PROVE Tended'
<1> AgentType /\ SessType /\ CallType
  BY DEF Good, Types
<1> DEFINE p == IF call[m].stage = "pre" THEN "hooks" ELSE "done"
<1>1. call[m].pc = "finish" /\ call' = At(m, p) /\ FlushBash /\ UNCHANGED <<queue, shown, manual>>
  BY DEF Finish
<1> HIDE DEF p
<1>2. SameLoop /\ SameEars
  BY <1>1, FlushBashKeepsLoop
<1>3. Moves(m, p, call[m].stage)
  BY <1>1, AtMoves
<1>4. (Minder(m) => Minder(m)') /\ (Engaged(m)' => Engaged(m)) /\ call'[m].pc \notin {"ran", "finish"}
  <2>1. call[m].stage \in {"own", "pre"}
    BY <1>1 DEF CallType, Stages, Tended, NoneHalted, Halted
  <2> QED BY <1>1, <1>3, <2>1 DEF p, Moves, Minder, Engaged, InPrompt
<1>5. CallsGoOn
  BY <1>3, <1>4 DEF CallsGoOn, Moves, Minder, Engaged, Halted
<1> QED BY <1>1, <1>2, <1>5, TendedStays DEF SameManual

LEMMA WakeTends == ASSUME Good, Tended, NEW m \in Users, Wake(m) PROVE Tended'
<1> SessType /\ CallType
  BY DEF Good, Types
<1>1. /\ call[m].pc = "sleeping" /\ call' = At(m, "continue") /\ UNCHANGED <<agent, queue, shown, manual>>
      /\ sess'.connected = sess.connected /\ sess'.last = sess.last
  BY DEF Wake, SessType
<1>2. Moves(m, "continue", call[m].stage)
  BY <1>1, AtMoves
<1>3. Engaged(m) /\ "continue" \in (InPrompt \cup {"hooks"}) \ {"running", "ran"}
  BY <1>1 DEF Engaged, InPrompt
<1>4. SameLoop
  BY <1>1 DEF SameLoop
<1> QED BY <1>1, <1>2, <1>3, <1>4, CallTends

\* With messages queued, prompt() does not end for want of a compaction.
LEMMA NotCompactedWhenQueued ==
  ASSUME NEW m, NEW q
  PROVE  NotCompacted(m, q) = "finish" => q = <<>> /\ call[m].stage # "check"
  BY DEF NotCompacted

LEMMA CheckAfterRunTends ==
  ASSUME Good, Tended, NEW m \in Users, call[m].pc \in {"ran", "cancelled"}, NEW msg, NEW s,
         DOMAIN s = DOMAIN sess, s.connected = sess.connected, call[m].pc = "ran" \/ s.last = sess.last,
         CheckAfterRun(m, msg, s), UNCHANGED <<queue, shown, manual>>
  PROVE  Tended'
<1> AgentType /\ SessType /\ CallType
  BY DEF Good, Types
<1> DEFINE job == Check(msg, TRUE)
           p == IF job = "no" THEN NotCompacted(m, queue) ELSE "auth"
<1>1. /\ agent' = [agent EXCEPT !.messages = IF job = "retry" THEN DropReply(agent.messages) ELSE agent.messages]
      /\ sess' = [s EXCEPT !.overflow = @ \/ job = "retry"]
      /\ call' = [call EXCEPT ![m].pc = p, ![m].reply = NoReply, ![m].willRetry = job = "retry"]
  BY DEF CheckAfterRun, Start
<1>2. p \in {"hooks", "continue", "finish", "auth"} /\ (p = "finish" => queue = <<>> /\ call[m].stage # "check")
  BY NotCompactedFields, NotCompactedWhenQueued
<1> HIDE DEF job, p
<1>3. SameLoop
  BY <1>1 DEF AgentType, SameLoop
<1>4. sess'.connected = sess.connected /\ (call[m].pc = "ran" \/ sess'.last = sess.last)
  BY <1>1 DEF SessType
<1>5. Moves(m, p, call[m].stage)
  BY <1>1 DEF CallType, Moves
<1>6. Engaged(m) /\ call[m].pc # "running"
  BY DEF Engaged, InPrompt
<1>7. p \in (InPrompt \cup {"hooks"}) \ {"running", "ran"}
  BY <1>2 DEF InPrompt
<1> QED BY <1>2, <1>3, <1>4, <1>5, <1>6, <1>7, CallTends

LEMMA PostRunTends == ASSUME Good, Tended, NEW m \in Users, PostRun(m) PROVE Tended'
<1> AgentType /\ SessType /\ CallType
  BY DEF Good, Types
<1> DEFINE msg == sess.last
           rest == [sess EXCEPT !.last = NoReply]
<1>1. call[m].pc = "ran" /\ UNCHANGED <<queue, shown, manual>>
  BY DEF PostRun
<1>2. msg # NoReply
  BY <1>1 DEF Tended, Told
<1>3. CASE Retries(msg)
  <2>1. /\ sess' = [rest EXCEPT !.attempt = @ + 1, !.sleeper = m]
        /\ agent' = [agent EXCEPT !.messages = DropReply(@)]
        /\ call' = [call EXCEPT ![m].pc = "sleeping", ![m].reply = msg]
    BY <1>2, <1>3 DEF PostRun
  <2>2. SameLoop
    BY <2>1 DEF AgentType, SameLoop
  <2>3. sess'.connected = sess.connected
    BY <2>1 DEF SessType
  <2>4. Moves(m, "sleeping", call[m].stage)
    BY <2>1 DEF CallType, Moves
  <2>5. Engaged(m) /\ "sleeping" \in (InPrompt \cup {"hooks"}) \ {"running", "ran"}
    BY <1>1 DEF Engaged, InPrompt
  <2> QED BY <1>1, <2>2, <2>3, <2>4, <2>5, CallTends
<1>4. CASE ~Retries(msg)
  <2> DEFINE s == [rest EXCEPT !.attempt = IF Failed(msg) THEN 0 ELSE @]
  <2>1. CheckAfterRun(m, msg, s)
    BY <1>2, <1>4 DEF PostRun
  <2>2. DOMAIN s = DOMAIN sess /\ s.connected = sess.connected
    BY DEF SessType
  <2> HIDE DEF s
  <2> QED BY <1>1, <2>1, <2>2, CheckAfterRunTends
<1> QED BY <1>3, <1>4

LEMMA RetryCancelledTends == ASSUME Good, Tended, NEW m \in Users, RetryCancelled(m) PROVE Tended'
<1> SessType
  BY DEF Good, Types
<1> DEFINE s == [sess EXCEPT !.attempt = 0, !.sleeper = None]
           msg == call[m].reply
<1>1. call[m].pc = "cancelled" /\ CheckAfterRun(m, msg, s) /\ UNCHANGED <<queue, shown, manual>>
  BY DEF RetryCancelled
<1>2. DOMAIN s = DOMAIN sess /\ s.connected = sess.connected /\ s.last = sess.last
  BY DEF SessType
<1> HIDE DEF s, msg
<1> QED BY <1>1, <1>2, CheckAfterRunTends

LEMMA AutoAuthTends == ASSUME Good, Tended, NEW m \in Users, AutoAuth(m) PROVE Tended'
<1> CallType
  BY DEF Good, Types
<1>1. call[m].pc = "auth" /\ UNCHANGED <<agent, queue, shown, sess, manual>>
  BY DEF AutoAuth
<1>2. \E p \in {"hooks", "continue", "finish", "summarise"} :
        Moves(m, p, call[m].stage) /\ (p = "finish" => queue = <<>> /\ call[m].stage # "check")
  <2>1. CASE call' = At(m, NotCompacted(m, queue))
    <3> DEFINE p == NotCompacted(m, queue)
    <3>1. p \in {"hooks", "continue", "finish"} /\ (p = "finish" => queue = <<>> /\ call[m].stage # "check")
      BY NotCompactedFields, NotCompactedWhenQueued
    <3>2. Moves(m, p, call[m].stage)
      BY <2>1, AtMoves
    <3> HIDE DEF p
    <3> QED BY <3>1, <3>2
  <2>2. CASE \E k \in CutPoints(branch) :
               call' = [call EXCEPT ![m].pc = "summarise", ![m].keep = k, ![m].aborted = FALSE]
    <3>1. Moves(m, "summarise", call[m].stage)
      BY <2>2 DEF CallType, Moves
    <3> QED BY <3>1
  <2> QED BY <2>1, <2>2 DEF AutoAuth
<1>3. SameLoop /\ sess'.connected = sess.connected /\ sess'.last = sess.last
  BY <1>1 DEF SameLoop
<1>4. Engaged(m) /\ call[m].pc # "running" /\ {"hooks", "continue", "finish", "summarise"} \subseteq (InPrompt \cup {"hooks"}) \ {"running", "ran"}
  BY <1>1 DEF Engaged, InPrompt
<1> QED BY <1>1, <1>2, <1>3, <1>4, CallTends

LEMMA AutoSummarisedTends == ASSUME Good, Tended, NEW m \in Users, AutoSummarised(m) PROVE Tended'
<1> AgentType /\ CallType
  BY DEF Good, Types
<1>1. /\ call[m].pc = "summarise" /\ call' = At(m, "compacted") /\ UNCHANGED <<queue, shown, sess, manual>>
      /\ agent' = [agent EXCEPT !.messages = buildSessionContext(branch')]
  BY DEF AutoSummarised, Compacted
<1>2. SameLoop /\ sess'.connected = sess.connected /\ sess'.last = sess.last
  BY <1>1 DEF SameLoop, AgentType
<1>3. Moves(m, "compacted", call[m].stage)
  BY <1>1, AtMoves
<1>4. Engaged(m) /\ "compacted" \in (InPrompt \cup {"hooks"}) \ {"running", "ran"}
  BY <1>1 DEF Engaged, InPrompt
<1> QED BY <1>1, <1>2, <1>3, <1>4, CallTends

(***************************************************************************)
(* prompt() is entered, refused or starts a run.                           *)
(***************************************************************************)
LEMMA RejectedTends ==
  ASSUME Good, Tended, NEW m \in Users, call[m].pc = "called", Rejected(m), SameLoop, SameEars, manual' = manual
  PROVE  Tended'
<1> CallType
  BY DEF Good, Types
<1> DEFINE batch == call[m].batch
<1>1. CASE batch = <<>>
  <2>1. call' = At(m, "rejected") /\ UNCHANGED <<queue, shown>>
    BY <1>1 DEF Rejected
  <2>2. Moves(m, "rejected", call[m].stage)
    BY <2>1, AtMoves
  <2>3. ~Minder(m) /\ call'[m].pc = "rejected"
    BY <1>1, <2>2 DEF Moves, Minder, Engaged, InPrompt
  <2>4. CallsGoOn
    BY <2>2, <2>3 DEF CallsGoOn, Moves, Minder, Engaged, Halted, InPrompt
  <2> QED BY <2>1, <2>4, TendedStays DEF SameManual
<1>2. CASE batch # <<>>
  <2> DEFINE back == ToSet(batch)
  <2>1. /\ call' = [x \in Users |-> IF x \in back THEN [NewCall EXCEPT !.pc = "held"] ELSE call[x]]
        /\ queue' = <<>> /\ shown' = <<>>
    BY <1>2 DEF Rejected
  <2> HIDE DEF back
  <2>2. \A y \in Users : /\ y \in back => call'[y].pc = "held"
                         /\ y \notin back => call'[y] = call[y]
    BY <2>1, NewCallHas DEF NewCallFields
  <2>3. \A y \in Users : /\ Engaged(y)' => Engaged(y)
                         /\ Halted(y)' => Halted(y)
                         /\ call'[y].pc = "ran" => call[y].pc = "ran"
    BY <2>2 DEF Engaged, InPrompt, Halted
  <2>4. Minded'
    BY <2>1 DEF Minded
  <2>5. \A x \in Users : Shown(x)'
    BY <2>1, ElementsOfEmpty DEF Shown
  <2>6. Listens'
    BY <2>3 DEF Listens, Tended, SameEars
  <2>7. Told'
    BY <2>3 DEF Told, Tended, SameLoop, SameEars
  <2>8. NoneHalted'
    BY <2>3 DEF NoneHalted, Tended
  <2> QED BY <2>4, <2>5, <2>6, <2>7, <2>8 DEF Tended
<1> QED BY <1>1, <1>2

LEMMA CallStepTends ==
  ASSUME Good, HistType, Tended, NEW m \in Users, Call(m), hist'.clean
  PROVE  Tended'
<1> AgentType /\ SessType /\ CallType
  BY DEF Good, Types
<1>1. call[m].pc = "called" /\ manual' = manual
  BY DEF Call
<1>2. CASE isStreaming
  <2>1. Rejected(m) /\ UNCHANGED <<agent, sess>>
    BY <1>2 DEF Call
  <2>2. SameLoop /\ SameEars
    BY <2>1 DEF SameLoop, SameEars
  <2> QED BY <1>1, <2>1, <2>2, RejectedTends
<1>3. CASE ~isStreaming /\ FlushBash /\ Rejected(m)
  BY <1>1, <1>3, FlushBashKeepsLoop, RejectedTends
<1>4. CASE ~isStreaming /\ ~(FlushBash /\ Rejected(m))
  <2> DEFINE ms == agent.messages \o sess.bash
             i == SelectLastInSeq(ms, LAMBDA x : x.role = "assistant")
             job == IF i = 0 THEN "no" ELSE Check(ms[i], FALSE)
             p == IF job = "no" THEN "hooks" ELSE "auth"
  <2>1. /\ Start(job, ms, [sess EXCEPT !.bash = <<>>])
        /\ hist' = [hist EXCEPT !.recovered = @ \/ job = "retry", !.clean = @ /\ Others(m) = {} /\ manual.pc = "none"]
        /\ call' = [call EXCEPT ![m].pc = p, ![m].stage = "check", ![m].willRetry = job = "retry"]
        /\ UNCHANGED <<queue, shown>>
    BY <1>4 DEF Call
  <2> HIDE DEF i, job
  <2>2. p \in {"hooks", "auth"}
    OBVIOUS
  <2> HIDE DEF p
  <2>3. manual.pc = "none"
    BY <2>1 DEF HistType
  <2>4. Moves(m, p, "check")
    BY <2>1 DEF Moves, CallType
  <2>5. SameLoop
    BY <2>1 DEF Start, SameLoop, AgentType
  <2>6. SameEars
    BY <2>1 DEF Start, SessType, SameEars
  <2>7. Minder(m)'
    BY <2>2, <2>4 DEF Moves, Minder, Engaged, InPrompt
  <2>8. \A y \in Users : y # m => (Minder(y) => Minder(y)') /\ call'[y].pc = call[y].pc /\ call'[y].stage = call[y].stage
    BY <2>4 DEF Moves, Minder, Engaged
  <2>9. Minded'
    BY <2>7 DEF Minded
  <2>10. Listens'
    BY <1>1, <2>3, <2>6 DEF Listens, Tended, SameEars
  <2>11. call'[m].pc \notin {"ran", "finish"}
    BY <2>2, <2>4 DEF Moves
  <2>12. Told'
    BY <2>5, <2>6, <2>8, <2>11 DEF Told, Tended, SameLoop, SameEars
  <2>13. NoneHalted'
    BY <2>8, <2>11 DEF NoneHalted, Halted, Tended
  <2>14. \A x \in Users : InHand(x) => InHand(x)'
    BY <2>5 DEF InHand, SameLoop
  <2> QED BY <2>1, <2>9, <2>10, <2>12, <2>13, <2>14, ShownStays DEF Tended
<1> QED BY <1>2, <1>3, <1>4

\* A run of m starts.
LEMMA RunTends ==
  ASSUME Good, Tended, NEW m \in Users, call[m].pc \in {"hooks", "continue"}, agent.at = "idle",
         NEW s, Moves(m, "running", s),
         UNCHANGED <<shown, sess, manual>>, agent'.at \in {"poll", "deliver"}, agent'.then = "request",
         queue' = queue \/ (queue # <<>> /\ agent'.at = "deliver" /\ agent'.todo = <<User(Head(queue))>> /\ queue' = Tail(queue))
  PROVE  Tended'
<1> PlaceType
  BY DEF Good, Types
<1>1. Engaged(m) /\ Engaged(m)'
  BY DEF Moves, Engaged, InPrompt
<1>2. Minded'
  BY <1>1 DEF Minded, Minder
<1>3. \A y \in Users : (Engaged(y)' => Engaged(y)) /\ call'[y].pc = IF y = m THEN "running" ELSE call[y].pc
  BY <1>1 DEF Moves, Engaged
<1>4. Listens'
  BY <1>3 DEF Listens, Tended
<1>5. Told'
  BY <1>3 DEF Told, Tended
<1>6. NoneHalted'
  BY DEF NoneHalted, Halted, Tended, Moves
<1>7. ASSUME NEW x \in Users PROVE Shown(x)'
  <2>1. AtMostOnce(shown, x) /\ (x \in Elements(shown) => x \in Elements(queue))
    BY DEF Tended, Shown, InHand
  <2>2. x \in Elements(queue) => x \in Elements(queue') \/ InHand(x)'
    <3>1. CASE queue' = queue
      BY <3>1
    <3>2. CASE queue # <<>> /\ agent'.at = "deliver" /\ agent'.todo = <<User(Head(queue))>> /\ queue' = Tail(queue)
      <4>1. x \in Elements(queue) => x = Head(queue) \/ x \in Elements(queue')
        BY <3>2, ElementsOfTail DEF PlaceType
      <4> QED BY <3>2, <4>1 DEF InHand
    <3> QED BY <3>1, <3>2
  <2> QED BY <2>1, <2>2 DEF Shown
<1> QED BY <1>2, <1>4, <1>5, <1>6, <1>7 DEF Tended

LEMMA BeforeStartTends == ASSUME Good, Tended, NEW m \in Users, BeforeStart(m) PROVE Tended'
<1> AgentType /\ CallType
  BY DEF Good, Types
<1>1. call[m].pc = "hooks"
  BY DEF BeforeStart
<1>2. agent.at = "idle"
  BY <1>1, IdleMeanwhile, UnderWay DEF InPrompt
<1> DEFINE msgs == <<User(m)>>
<1>3. /\ agent' = StartRun(m, msgs, FALSE, agent.messages)
      /\ call' = [call EXCEPT ![m].pc = "running", ![m].stage = "own"]
      /\ UNCHANGED <<queue, shown, sess, manual>>
  BY <1>2 DEF BeforeStart, isStreaming
<1> HIDE DEF msgs
<1>4. agent'.at \in {"poll", "deliver"} /\ agent'.then = "request"
  <2>1. agent'.at = (IF msgs = <<>> THEN "poll" ELSE "deliver") /\ agent'.then = "request"
    BY <1>3, StartRunFields
  <2> QED BY <2>1
<1>5. Moves(m, "running", "own")
  BY <1>3 DEF Moves, CallType
<1> QED BY <1>1, <1>2, <1>3, <1>4, <1>5, RunTends

LEMMA ContinueTends ==
  ASSUME Good, HistType, Tended, NEW m \in Users, Continue(m), hist'.clean PROVE Tended'
<1> AgentType /\ CallType
  BY DEF Good, Types
<1> DEFINE steered == EndsWithReply(agent.messages)
           msgs == IF steered THEN <<User(Head(queue))>> ELSE <<>>
           s == IF call[m].stage = "check" THEN "pre" ELSE call[m].stage
<1>1. call[m].pc = "continue"
  BY DEF Continue
<1>2. ~(isStreaming \/ agent.messages = <<>> \/ (steered /\ queue = <<>>))
  <2>1. hist' # [hist EXCEPT !.clean = FALSE]
    BY DEF HistType
  <2> QED BY <2>1 DEF Continue
<1>3. /\ agent' = StartRun(m, msgs, steered, agent.messages)
      /\ queue' = IF steered THEN Tail(queue) ELSE queue
      /\ call' = [call EXCEPT ![m].pc = "running", ![m].stage = s]
      /\ UNCHANGED <<shown, sess, manual>>
  BY <1>2 DEF Continue
<1>4. agent.at = "idle"
  BY <1>2 DEF isStreaming
<1> HIDE DEF steered
<1>5. /\ agent'.at = IF msgs = <<>> THEN "poll" ELSE "deliver"
      /\ agent'.todo = msgs /\ agent'.then = "request"
  BY <1>3, StartRunFields
<1>6. queue' = queue \/ (queue # <<>> /\ agent'.at = "deliver" /\ agent'.todo = <<User(Head(queue))>> /\ queue' = Tail(queue))
  BY <1>2, <1>3, <1>5
<1> HIDE DEF msgs, s
<1>7. Moves(m, "running", s)
  BY <1>3 DEF Moves, CallType
<1>8. agent'.at \in {"poll", "deliver"}
  BY <1>5
<1> QED BY <1>1, <1>3, <1>4, <1>5, <1>6, <1>7, <1>8, RunTends

(***************************************************************************)
(* Messages come in.                                                       *)
(***************************************************************************)
LEMMA EnteredTends ==
  ASSUME Good, Tended, NEW m \in Users, call[m].pc = "new", NEW p \in {"held", "done", "input", "called"},
         Moves(m, p, call[m].stage), p = "done" => isStreaming, UNCHANGED <<agent, sess, manual>>,
         queue' = Queued(queue, m, p, "done"), shown' = Queued(shown, m, p, "done")
  PROVE  Tended'
<1> PlaceType
  BY DEF Good, Types
<1>1. SameLoop /\ SameEars /\ SameManual
  BY DEF SameLoop, SameEars, SameManual
<1>2. CallsGoOn
  BY DEF CallsGoOn, Moves, Minder, Engaged, Halted, InPrompt
<1>3. Minded'
  <2>1. CASE p = "done"
    <3>1. PICK y \in Users : Engaged(y)
      BY <2>1, BusyIsMinded DEF isStreaming
    <3>2. Minder(y)'
      BY <1>2, <3>1 DEF CallsGoOn, Minder
    <3> QED BY <3>2 DEF Minded
  <2>2. CASE p # "done"
    BY <1>2, <2>2, MindedStays DEF Queued, Tended
  <2> QED BY <2>1, <2>2
<1>4. m \notin Elements(shown)
  BY NotYet DEF Good
<1>5. ASSUME NEW x \in Users PROVE Shown(x)'
  <2>1. Shown(x) /\ (InHand(x)' <=> InHand(x))
    BY DEF Tended, InHand
  <2>2. /\ x \in Elements(queue') <=> x \in Elements(queue) \/ (p = "done" /\ x = m)
        /\ x \in Elements(shown') <=> x \in Elements(shown) \/ (p = "done" /\ x = m)
        /\ AtMostOnce(shown, x) => AtMostOnce(shown', x)
    BY <1>4, ElementsOfQueued DEF PlaceType
  <2> QED BY <2>1, <2>2 DEF Shown
<1> QED BY <1>1, <1>2, <1>3, <1>5, ListensStays, ToldStays, NoneHaltedStays DEF Tended, SameEars

LEMMA SubmitTends ==
  ASSUME Good, HistType, Tended, NEW m \in Users, Submit(m)
  PROVE  Tended'
<1> CallType
  BY DEF Good, Types
<1>1. call[m].pc = "new" /\ UNCHANGED <<agent, sess, manual>>
  BY DEF Submit
<1> DEFINE held == front = "interactive" /\ isCompacting
<1>2. \E p \in {"held", "done", "input", "called"} :
        /\ call' = At(m, p) /\ (p = "done" => isStreaming)
        /\ queue' = Queued(queue, m, p, "done") /\ shown' = Queued(shown, m, p, "done")
  <2>1. CASE held
    <3>1. call' = At(m, "held") /\ UNCHANGED <<queue, shown>>
      BY <2>1 DEF Submit
    <3> QED BY <3>1 DEF Queued
  <2>2. CASE ~held /\ isStreaming
    <3>1. call' = At(m, "done") /\ queue' = Append(queue, m) /\ shown' = Append(shown, m)
      BY <2>2 DEF Submit, Steer
    <3> QED BY <2>2, <3>1 DEF Queued
  <2>3. CASE ~held /\ ~isStreaming
    <3>1. call' = At(m, IF front = "interactive" THEN "input" ELSE "called") /\ UNCHANGED <<queue, shown>>
      BY <2>3 DEF Submit
    <3> QED BY <3>1 DEF Queued
  <2> QED BY <2>1, <2>2, <2>3
<1>3. ASSUME NEW p, call' = At(m, p) PROVE Moves(m, p, call[m].stage)
  BY <1>3, AtMoves
<1> QED BY <1>1, <1>2, <1>3, EnteredTends

LEMMA NextInputTends == ASSUME Good, Tended, NextInput PROVE Tended'
<1> CallType /\ PlaceType
  BY DEF Good, Types
<1> DEFINE m == Head(ui.inputs)
<1>1. ui.inputs # <<>> /\ call' = At(m, "called") /\ UNCHANGED <<agent, queue, shown, sess, manual>>
  BY DEF NextInput
<1>2. m \in Users /\ m \in Elements(ui.inputs)
  BY <1>1, ElementsOfTail DEF PlaceType
<1> HIDE DEF m
<1>3. Moves(m, "called", call[m].stage) /\ call[m].pc = "input"
  BY <1>1, <1>2, AtMoves DEF Good, Followed, Placed
<1>4. CallsGoOn
  BY <1>3 DEF CallsGoOn, Moves, Minder, Engaged, Halted, InPrompt
<1> QED BY <1>1, <1>4, TendedStays DEF SameLoop, SameEars, SameManual

(***************************************************************************)
(* The end of a compaction, and what the user does.                        *)
(***************************************************************************)
LEMMA FlushTends ==
  ASSUME Good, Tended, Calls({"called"}) = {}, NEW retry, NEW calls, Within(calls), compaction_end(retry, calls),
         SameLoop, sess'.last = sess.last, Minded', Listens',
         \A y \in Users : calls[y].pc = "finish" => calls[y].stage # "check"
  PROVE  Tended'
<1> PlaceType /\ CallType
  BY DEF Good, Types
<1> DEFINE rest == Flushed(retry)
<1>1. /\ rest \in Seq(Users) /\ Elements(rest) \subseteq Elements(ui.held)
      /\ \A x : AtMostOnce(ui.held, x) => AtMostOnce(rest, x)
  BY FlushedFields, FlushedHas
<1>2. ToSet(rest) = Elements(rest) /\ ToSet(ui.held) = Elements(ui.held)
  BY <1>1, ToSetIsElements DEF PlaceType
<1>3. /\ queue' = queue \o rest /\ shown' = shown \o rest
      /\ call' = [x \in Users |->
                    IF x \in Elements(rest) THEN [NewCall EXCEPT !.pc = "done"]
                    ELSE IF x \in Elements(ui.held) THEN [NewCall EXCEPT !.pc = "called", !.batch = ui.held]
                    ELSE calls[x]]
  BY <1>2 DEF compaction_end
<1> HIDE DEF rest
<1>4. /\ Elements(queue') = Elements(queue) \cup Elements(rest)
      /\ Elements(shown') = Elements(shown) \cup Elements(rest)
      /\ \A x : (AtMostOnce(shown, x) /\ AtMostOnce(rest, x) /\ ~(x \in Elements(shown) /\ x \in Elements(rest)))
               => AtMostOnce(shown', x)
  BY <1>1, <1>3, ElementsOfConcat DEF PlaceType
<1>5. \A y \in Users : call'[y].pc \in {"done", "called"} \/ call'[y] = calls[y]
  BY <1>3, NewCallHas DEF NewCallFields
<1>6. \A y \in Users : y \in Elements(ui.held) => call[y].pc = "held"
  BY DEF Good, Followed, Placed
<1>7. ASSUME NEW x \in Users PROVE Shown(x)'
  <2>1. Shown(x) /\ AtMostOnce(ui.held, x) /\ (x \in Elements(shown) => call[x].pc = "done")
    BY DEF Good, Tended, Followed, Once, Placed
  <2>2. ~(x \in Elements(shown) /\ x \in Elements(rest))
    BY <1>1, <1>6, <2>1
  <2>3. InHand(x) => InHand(x)'
    BY DEF InHand, SameLoop
  <2> QED BY <1>1, <1>4, <2>1, <2>2, <2>3 DEF Shown
<1>8. Told'
  <2>1. \A y \in Users : call'[y].pc = "ran" => call[y].pc = "ran"
    BY <1>5 DEF Within
  <2> QED BY <2>1 DEF Told, Tended, SameLoop
<1>9. NoneHalted'
  BY <1>5 DEF NoneHalted, Halted
<1> QED BY <1>7, <1>8, <1>9 DEF Tended

\* After an automatic compaction prompt() goes on, or nothing is queued.
LEMMA AutoEndTends ==
  ASSUME Good, Tended, Calls({"called"}) = {}, NEW retry, NEW m \in Users, call[m].pc \in {"summarise", "compacted"},
         NEW p \in {"hooks", "continue", "finish"}, p = "hooks" => call[m].stage # "own",
         p = "finish" => (queue \o Flushed(retry) = <<>> /\ call[m].stage # "check"),
         compaction_end(retry, At(m, p)), SameLoop, sess' = sess, manual' = manual
  PROVE  Tended'
<1> CallType /\ PlaceType
  BY DEF Good, Types
<1> DEFINE calls == At(m, p)
<1>1. Within(calls)
  BY AtWithin
<1>2. /\ calls[m].pc = p /\ calls[m].stage = call[m].stage
      /\ \A y \in Users \ {m} : calls[y] = call[y]
  BY DEF At, CallType
<1> HIDE DEF calls
<1>3. ToSet(ui.held) = Elements(ui.held) /\ m \notin Elements(ui.held)
  BY ToSetIsElements DEF PlaceType, Good, Followed, Placed
<1>4. Elements(Flushed(retry)) \subseteq Elements(ui.held) /\ ToSet(Flushed(retry)) = Elements(Flushed(retry))
  BY FlushedFields, ToSetIsElements
<1>5. queue' = queue \o Flushed(retry) /\ call'[m] = calls[m]
  BY <1>3, <1>4 DEF compaction_end, calls
<1>6. queue' # <<>> => Engaged(m)'
  BY <1>2, <1>5 DEF Engaged, InPrompt
<1>7. Minded'
  BY <1>6 DEF Minded, Minder
<1>8. \A y \in Users : y \in ToSet(Flushed(retry)) \/ y \in ToSet(ui.held) \/ call'[y] = calls[y]
  BY DEF compaction_end, calls
<1>9. \A y \in Users : call'[y].pc \in {"done", "called"} \/ call'[y] = calls[y]
  BY NewCallHas DEF compaction_end, calls, NewCallFields
<1>10. \A y \in Users : Engaged(y)' => Engaged(y)
  BY <1>2, <1>9 DEF Engaged, InPrompt
<1>11. Listens'
  BY <1>10 DEF Listens, Tended
<1>12. \A y \in Users : calls[y].pc = "finish" => calls[y].stage # "check"
  BY <1>2 DEF Tended, NoneHalted, Halted
<1> QED BY <1>1, <1>7, <1>11, <1>12, FlushTends DEF calls

LEMMA AutoFailsTends ==
  ASSUME Good, Tended, NEW m \in Users, AutoFails(m), Calls({"called"}) = {}
  PROVE  Tended'
<1> DEFINE p == NotCompacted(m, queue \o Flushed(FALSE))
<1>1. /\ call[m].pc = "summarise" /\ UNCHANGED <<agent, sess, manual>>
      /\ compaction_end(FALSE, At(m, p))
  BY DEF AutoFails
<1>2. p \in {"hooks", "continue", "finish"} /\ (p = "hooks" => call[m].stage # "own")
  BY NotCompactedFields
<1>3. p = "finish" => (queue \o Flushed(FALSE) = <<>> /\ call[m].stage # "check")
  BY NotCompactedWhenQueued
<1> HIDE DEF p
<1>4. SameLoop
  BY <1>1 DEF SameLoop
<1> QED BY <1>1, <1>2, <1>3, <1>4, AutoEndTends

LEMMA AutoDoneTends ==
  ASSUME Good, Tended, NEW m \in Users, AutoDone(m), Calls({"called"}) = {}
  PROVE  Tended'
<1> AgentType
  BY DEF Good, Types
<1> DEFINE retry == call[m].willRetry
           p == IF retry \/ queue \o Flushed(retry) # <<>> THEN "continue" ELSE NotCompacted(m, <<>>)
<1>1. /\ call[m].pc = "compacted" /\ UNCHANGED <<sess, manual>> /\ compaction_end(retry, At(m, p))
      /\ agent' = [agent EXCEPT !.messages = IF retry /\ EndsWithReply(@) /\ Failed(Last(@)) THEN Front(@) ELSE @]
  BY DEF AutoDone
<1>2. p \in {"hooks", "continue", "finish"} /\ (p = "hooks" => call[m].stage # "own")
  BY NotCompactedFields
<1>3. p = "finish" => (queue \o Flushed(retry) = <<>> /\ call[m].stage # "check")
  BY NotCompactedWhenQueued
<1> HIDE DEF p
<1>4. SameLoop
  BY <1>1 DEF SameLoop, AgentType
<1> HIDE DEF retry
<1> QED BY <1>1, <1>2, <1>3, <1>4, AutoEndTends

\* When compact() is over, the first message held back is prompted, and minds the others.
LEMMA CompactEndsTends ==
  ASSUME Good, Tended, CompactEnds, Calls({"called"}) = {}
  PROVE  Tended'
<1> CallType /\ PlaceType /\ SessType
  BY DEF Good, Types
<1>1. /\ manual.pc # "none" /\ manual'.pc = "none" /\ agent' = agent /\ compaction_end(FALSE, call)
      /\ sess'.connected /\ sess'.last = sess.last
  BY DEF CompactEnds, PlaceType, SessType
<1>2. \A y \in Users : ~Engaged(y) /\ call[y].pc # "called"
  BY <1>1 DEF Listens, Tended, Calls
<1>3. queue = <<>>
  BY <1>2 DEF Minded, Minder, Tended
<1>4. Listens'
  BY <1>1 DEF Listens
<1>5. Minded'
  <2> SUFFICES ASSUME queue' # <<>> PROVE \E y \in Users : Minder(y)'
    BY DEF Minded
  <2> DEFINE rest == Flushed(FALSE)
             h == Head(ui.held)
  <2>1. queue' = rest
    <3>1. queue' = queue \o rest
      BY <1>1 DEF compaction_end
    <3>2. rest \in Seq(Users)
      BY FlushedFields
    <3> QED BY <1>3, <3>1, <3>2
  <2>2. ui.held # <<>> /\ rest = Tail(ui.held)
    BY <2>1 DEF Flushed
  <2> HIDE DEF rest
  <2>3. /\ h \in Users /\ Elements(ui.held) = {h} \cup Elements(rest) /\ rest \in Seq(Users)
        /\ AtMostOnce(ui.held, h) => h \notin Elements(rest)
    BY <2>2, ElementsOfTail DEF PlaceType
  <2>4. AtMostOnce(ui.held, h)
    BY <2>3 DEF Good, Followed, Once
  <2>5. h \in ToSet(ui.held) /\ h \notin ToSet(rest)
    BY <2>3, <2>4, ToSetIsElements DEF PlaceType
  <2>6. call'[h].pc = "called" /\ call'[h].batch = ui.held
    BY <1>1, <2>3, <2>5, NewCallHas DEF compaction_end, NewCallFields, rest
  <2> HIDE DEF h
  <2> QED BY <2>2, <2>3, <2>6 DEF Minder
<1>6. Within(call) /\ SameLoop
  BY <1>1 DEF Within, SameLoop
<1>7. \A y \in Users : call[y].pc = "finish" => call[y].stage # "check"
  BY DEF Tended, NoneHalted, Halted
<1> QED BY <1>1, <1>4, <1>5, <1>6, <1>7, FlushTends

LEMMA CompactTends == ASSUME Good, HistType, Tended, Compact, hist'.clean PROVE Tended'
<1> AgentType /\ SessType /\ CallType
  BY DEF Good, Types
<1>1. /\ manual.pc = "none" /\ manual'.pc # "none" /\ UNCHANGED <<queue, shown>> /\ call' = abortRetry
      /\ Others(None) = {}
  BY DEF Compact, HistType
<1>2. \A y \in Users : ~Engaged(y)
  BY <1>1, SessionBounds DEF Others, Engaged, InPrompt
<1>3. call' = call
  <2>1. sess.sleeper = None
    <3> SUFFICES ASSUME sess.sleeper # None PROVE FALSE
      OBVIOUS
    <3>1. PICK y \in Users : sess.sleeper = y
      BY DEF SessType
    <3>2. call[y].pc \in {"sleeping", "cancelled"}
      BY <3>1 DEF Good, Followed, Owned
    <3>3. Engaged(y)
      BY <3>2 DEF Engaged, InPrompt
    <3> QED BY <1>2, <3>3
  <2> QED BY <1>1, <2>1 DEF abortRetry
<1>4. CallsGoOn
  BY <1>3, SameCallsGoOn
<1>5. SameLoop /\ sess'.last = sess.last
  BY DEF Compact, SameLoop, AgentType, SessType
<1>6. Listens'
  BY <1>1, <1>2, <1>4 DEF Listens, CallsGoOn
<1>7. \A x \in Users : InHand(x) => InHand(x)'
  BY <1>5 DEF InHand, SameLoop
<1> QED BY <1>1, <1>4, <1>5, <1>6, <1>7, MindedStays, ShownStays, ToldStays, NoneHaltedStays DEF Tended

LEMMA CompactStepsTend ==
  ASSUME Good, Tended, CompactReady \/ CompactPrepared \/ CompactSummarised PROVE Tended'
<1> AgentType /\ PlaceType
  BY DEF Good, Types
<1>1. UNCHANGED <<queue, shown, sess, call>>
  BY DEF CompactReady, CompactPrepared, CompactSummarised
<1>2. manual.pc # "none" /\ manual'.pc # "none"
  BY DEF CompactReady, CompactPrepared, CompactSummarised, Waited, PlaceType
<1>3. SameLoop
  BY DEF CompactReady, CompactPrepared, CompactSummarised, Compacted, SameLoop, AgentType
<1>4. SameEars /\ SameManual /\ CallsGoOn
  BY <1>1, <1>2, SameCallsGoOn DEF SameEars, SameManual
<1> QED BY <1>1, <1>3, <1>4, TendedStays

LEMMA recordBashResultTends == ASSUME Good, Tended, NEW b, recordBashResult(b) PROVE Tended'
<1> AgentType /\ SessType
  BY DEF Good, Types
<1>1. UNCHANGED <<queue, shown, call, manual>>
  BY DEF recordBashResult
<1>2. SameLoop /\ SameEars
  BY DEF recordBashResult, SameLoop, SameEars, AgentType, SessType
<1> QED BY <1>1, <1>2, SameCallsGoOn, TendedStays DEF SameManual

LEMMA CancelTends == ASSUME Good, Tended, Cancel PROVE Tended'
<1> AgentType /\ SessType /\ CallType /\ PlaceType
  BY DEF Good, Types
<1>1. CASE CancelRetry
  <2>1. call' = abortRetry /\ UNCHANGED <<queue, shown, sess, manual>>
    BY <1>1 DEF CancelRetry
  <2>2. SameLoop /\ SameEars /\ SameManual
    BY <1>1, <2>1 DEF CancelRetry, SameLoop, SameEars, SameManual, AgentType
  <2>3. CASE sess.sleeper = None
    BY <2>1, <2>2, <2>3, SameCallsGoOn, TendedStays DEF abortRetry
  <2>4. CASE sess.sleeper # None
    <3>1. PICK m \in Users : sess.sleeper = m
      BY <2>4 DEF SessType
    <3>2. call[m].pc \in {"sleeping", "cancelled"}
      BY <3>1 DEF Good, Followed, Owned
    <3>3. call' = At(m, "cancelled")
      BY <2>1, <2>4, <3>1 DEF abortRetry
    <3>4. Moves(m, "cancelled", call[m].stage)
      BY <3>3, AtMoves
    <3>5. CallsGoOn
      BY <3>2, <3>4 DEF CallsGoOn, Moves, Minder, Engaged, Halted, InPrompt
    <3> QED BY <2>1, <2>2, <3>5, TendedStays
  <2> QED BY <2>3, <2>4
<1>2. CASE abortCompaction
  <2>1. /\ call' = [m \in Users |-> [call[m] EXCEPT !.aborted = @ \/ call[m].pc = "summarise"]]
        /\ manual' = [manual EXCEPT !.aborted = @ \/ manual.pc \in {"prepare", "summarise"}]
        /\ UNCHANGED <<agent, queue, shown, sess>>
    BY <1>2 DEF abortCompaction
  <2>2. \A y \in Users : SameCall(y)
    BY <2>1 DEF CallType, SameCall
  <2>3. CallsGoOn
    BY <2>2 DEF CallsGoOn, SameCall, Minder, Engaged, Halted
  <2>4. SameManual
    BY <2>1 DEF SameManual, PlaceType
  <2> QED BY <2>1, <2>3, <2>4, TendedStays DEF SameLoop, SameEars
<1>3. ASSUME NEW abort \in BOOLEAN, restoreQueuedMessagesToEditor(abort) PROVE Tended'
  <2>1. /\ queue' = <<>> /\ shown' = <<>> /\ UNCHANGED <<sess, manual>>
        /\ agent' = [agent EXCEPT !.aborted = @ \/ abort]
        /\ call' = [m \in Users |-> IF m \in ToSet(shown \o ui.held) THEN [NewCall EXCEPT !.pc = "editor"] ELSE call[m]]
    BY <1>3 DEF restoreQueuedMessagesToEditor
  <2>2. SameLoop
    BY <2>1 DEF SameLoop, AgentType
  <2>3. \A y \in Users : call'[y].pc = "editor" \/ call'[y] = call[y]
    BY <2>1, NewCallHas DEF NewCallFields
  <2>4. \A y \in Users : /\ Engaged(y)' => Engaged(y)
                         /\ Halted(y)' => Halted(y)
                         /\ call'[y].pc = "ran" => call[y].pc = "ran"
    BY <2>3 DEF Engaged, InPrompt, Halted
  <2>5. Minded'
    BY <2>1 DEF Minded
  <2>6. \A x \in Users : Shown(x)'
    BY <2>1, ElementsOfEmpty DEF Shown
  <2>7. Listens'
    BY <2>1, <2>4 DEF Listens, Tended
  <2>8. Told'
    BY <2>1, <2>2, <2>4 DEF Told, Tended, SameLoop
  <2>9. NoneHalted'
    BY <2>4 DEF NoneHalted, Tended
  <2> QED BY <2>5, <2>6, <2>7, <2>8, <2>9 DEF Tended
<1> QED BY <1>1, <1>2, <1>3 DEF Cancel

(***************************************************************************)
(* Every step.                                                             *)
(***************************************************************************)
LEMMA InitiallyTended == Init => Tended
<1> HAVE Init
<1> USE DEF Init, NewCall
<1>1. \A x \in Users : Shown(x)
  BY ElementsOfEmpty DEF Shown
<1>2. Minded /\ Listens
  BY DEF Minded, Listens
<1>3. Told
  BY DEF Told
<1>4. NoneHalted
  BY DEF NoneHalted, Halted
<1> QED BY <1>1, <1>2, <1>3, <1>4 DEF Tended

LEMMA NextTends ==
  ASSUME Good, HistType, Tended, Next, hist'.clean
  PROVE  Tended'
<1> DEFINE entered == Calls({"called"})
<1>1. ASSUME NEW m \in Users, Call(m) PROVE Tended'
  BY <1>1, CallStepTends
<1>2. CASE Poll
  BY <1>2, PollTends
<1>3. CASE CompactReady
  BY <1>3, CompactStepsTend
<1>4. ASSUME NEW m \in Users, Settle(m) PROVE Tended'
  BY <1>4, PostRunTends, ContinueTends, FinishTends DEF Settle
<1>5. ASSUME NEW m \in Users, BeforeStart(m) PROVE Tended'
  BY <1>5, BeforeStartTends
<1>6. Calm => entered = {}
  BY DEF Calm, Calls
<1>7. CASE AgentStep
  BY <1>7, DeliverTends, ReplyArrivesTends, ToolAnswersTends, MessageEndTends, RunEndsTends DEF AgentStep
<1>8. CASE Calm /\ (NextInput \/ CompactStep)
  BY <1>6, <1>8, NextInputTends, CompactStepsTend, CompactEndsTends DEF CompactStep
<1>9. CASE UserStep
  BY <1>9, CompactTends, CancelTends, SubmitTends, recordBashResultTends DEF UserStep
<1>10. ASSUME NEW m \in Users, Calm, PromptStep(m) PROVE Tended'
  BY <1>5, <1>6, <1>10, WakeTends, RetryCancelledTends, AutoAuthTends, AutoSummarisedTends, AutoDoneTends DEF PromptStep
<1>11. ASSUME NEW m \in Users, Calm, AutoFails(m) PROVE Tended'
  BY <1>6, <1>11, AutoFailsTends
<1> HIDE DEF entered
<1>12. \/ \E m \in Users : Call(m)
       \/ Poll \/ CompactReady
       \/ \E m \in Users : Settle(m) \/ BeforeStart(m)
       \/ Calm /\ (AgentStep \/ NextInput \/ CompactStep \/ UserStep \/ \E m \in Users : PromptStep(m) \/ AutoFails(m))
  BY DEF Next
<1> QED BY <1>1, <1>2, <1>3, <1>4, <1>5, <1>7, <1>8, <1>9, <1>10, <1>11, <1>12

LEMMA StutterTends == ASSUME Tended, UNCHANGED vars PROVE Tended'
<1> UNCHANGED <<agent, queue, shown, sess, call, manual>>
  BY DEF vars
<1> QED BY SameCallsGoOn, TendedStays DEF SameLoop, SameEars, SameManual

LEMMA FullStep == FullInv /\ [Next]_vars => FullInv'
<1> SUFFICES ASSUME FullInv, [Next]_vars PROVE FullInv'
  OBVIOUS
<1>1. HistType /\ (hist'.clean => hist.clean) /\ Inv'
  BY HistStep, StepKeeps DEF FullInv, Inv
<1>2. ASSUME hist'.clean PROVE Tended'
  BY <1>1, <1>2, NextTends, StutterTends DEF FullInv, Inv
<1> QED BY <1>1, <1>2 DEF FullInv

LEMMA FullInvImpliesNothingLeft == FullInv => NothingLeft
<1> SUFFICES ASSUME FullInv, AtRest, hist.clean PROVE queue = <<>> /\ shown = <<>>
  BY DEF NothingLeft
<1>1. Good /\ Tended
  BY DEF FullInv, Inv
<1>2. \A m \in Users : ~Minder(m)
  BY DEF AtRest, Minder, Engaged, InPrompt
<1>3. queue = <<>>
  BY <1>1, <1>2 DEF Tended, Minded
<1>4. \A x \in Users : x \notin Elements(shown)
  BY <1>1, <1>3, ElementsOfEmpty DEF AtRest, isStreaming, InHand, Tended, Shown
<1>5. shown = <<>>
  BY <1>1, <1>4, ElementsOfTail DEF Good, Types, PlaceType
<1> QED BY <1>3, <1>5

\* When every call of prompt() has returned and no compaction runs, no message is left in the
\* agent's queue and none is shown as waiting, as long as calls did not overlap: whoever keeps
\* the agent busy looks at the queue once more (_handlePostAgentRun, compaction_end).
THEOREM QueuesAreEmptied == Spec => []NothingLeft
<1>1. Init => FullInv
  BY InitialStates, InitiallyTended DEF FullInv
<1>2. FullInv /\ [Next]_vars => FullInv'
  BY FullStep
<1>3. FullInv => NothingLeft
  BY FullInvImpliesNothingLeft
<1> QED BY <1>1, <1>2, <1>3, PTL DEF Spec

-----------------------------------------------------------------------------
(***************************************************************************)
(* How often the provider is tried again, whether calls overlap or not.    *)
(***************************************************************************)
\* What waits anywhere is no call under way: a message set aside with others is not in a run
\* of its own until it is put back, and is set aside with one call at a time.
Aside(x) ==
  /\ x \in Elements(shown)     => call[x].pc = "done"
  /\ x \in Elements(ui.held)   => call[x].pc = "held"
  /\ x \in Elements(ui.inputs) => call[x].pc = "input"
  /\ AtMostOnce(ui.inputs, x)
  /\ call[x].pc \in {"new", "input", "held"} => call[x].batch = <<>>
  /\ call[x].batch # <<>> => x \in Elements(call[x].batch)
  /\ \A y \in Users : x \in Elements(call[y].batch) =>
       /\ y # x => call[x].pc \in {"done", "editor"}
       /\ \A z \in Users : x \in Elements(call[z].batch) => z = y
Steady == Types /\ \A x \in Users : Aside(x) /\ Owned(x)

\* The reply that came in, not yet handled.
Replied(kinds) == agent.at = "save" /\ Head(agent.todo).role = "assistant" /\ Head(agent.todo).kind \in kinds
Ran == \E m \in Users : call[m].pc = "ran"

\* An error that no retry was counted for yet.
Failing == Replied({"error", "limit"}) \/ agent.at = "end" \/ Ran

\* Every error in a row but the last was followed by a retry, and a reply that is no failure,
\* which sets the retries back, came after the last error and the last recovery.
Retried ==
  /\ hist.errors \in Nat /\ sess.attempt \in Nat /\ sess.attempt <= MaxRetries
  /\ hist.errors <= sess.attempt + 1
  /\ ~Failing => hist.errors <= sess.attempt
  /\ (agent.at = "save" /\ Head(agent.todo).role = "assistant" /\ ~Failed(Head(agent.todo))) =>
       hist.errors = 0 /\ ~hist.recovered
  /\ Ran => agent.at # "save"
Recovered ==
  /\ hist.recovered => sess.overflow
  /\ \A m \in Users : call[m].reply = NoReply \/ call[m].reply.kind = "error"

RetryInv == HistType /\ Steady /\ Retried /\ Recovered

SameTries ==
  /\ hist'.errors = hist.errors /\ hist'.recovered = hist.recovered
  /\ sess'.attempt = sess.attempt /\ sess'.overflow = sess.overflow
Unretried == \A y \in Users :
  /\ call'[y].pc = "ran" <=> call[y].pc = "ran"
  /\ call'[y].reply \in {call[y].reply, NoReply}
  /\ call'[y].willRetry => call[y].willRetry

\* A call sets out to recover from an overflow only when there was none before.
OnceRecovered == \A m \in Users : call'[m].willRetry /\ ~call[m].willRetry => ~hist.recovered
Onward == Steady' /\ Retried' /\ Recovered' /\ OnceRecovered

\* A step that retries, recovers and answers nothing.
LEMMA NothingTried ==
  ASSUME RetryInv, SameTries, agent'.at = agent.at, agent'.todo = agent.todo, Unretried
  PROVE  Retried' /\ Recovered' /\ OnceRecovered
<1> Retried /\ Recovered
  BY DEF RetryInv
<1>1. Ran' <=> Ran
  BY DEF Unretried, Ran
<1>2. Replied({"error", "limit"})' <=> Replied({"error", "limit"})
  BY DEF Replied
<1>3. Failing' <=> Failing
  BY <1>1, <1>2 DEF Failing
<1>4. Retried'
  BY <1>1, <1>3 DEF SameTries, Retried, Failed
<1>5. Recovered'
  BY DEF SameTries, Unretried, Recovered
<1>6. OnceRecovered
  BY DEF Unretried, OnceRecovered
<1> QED BY <1>4, <1>5, <1>6

\* What waits goes on waiting when only calls under way move.
Idlers == {"new", "input", "held", "done", "editor"}
Stays(y) == call'[y].pc = call[y].pc /\ call'[y].batch = call[y].batch
Goes(y) == /\ call[y].pc \notin Idlers /\ call'[y].pc \notin {"new", "input", "held"}
           /\ call'[y].batch = call[y].batch

LEMMA AsideStays ==
  ASSUME NEW x \in Users, Aside(x), \A y \in Users : Stays(y) \/ Goes(y),
         Elements(shown') \subseteq Elements(shown), ui'.held = ui.held, ui'.inputs = ui.inputs
  PROVE  Aside(x)'
<1> USE DEF Aside
<1>1. Stays(x) \/ (Goes(x) /\ call[x].pc \notin Idlers)
  BY DEF Goes
<1>2. \A y \in Users : call'[y].batch = call[y].batch
  BY DEF Stays, Goes
<1>3. x \in Elements(shown')     => call'[x].pc = "done"
  BY <1>1 DEF Stays, Idlers
<1>4. x \in Elements(ui'.held)   => call'[x].pc = "held"
  BY <1>1 DEF Stays, Idlers
<1>5. x \in Elements(ui'.inputs) => call'[x].pc = "input"
  BY <1>1 DEF Stays, Idlers
<1>6. /\ call'[x].pc \in {"new", "input", "held"} => call'[x].batch = <<>>
      /\ call'[x].batch # <<>> => x \in Elements(call'[x].batch)
  BY <1>1, <1>2 DEF Stays, Goes
<1>7. ASSUME NEW y \in Users, x \in Elements(call'[y].batch)
      PROVE  /\ y # x => call'[x].pc \in {"done", "editor"}
             /\ \A z \in Users : x \in Elements(call'[z].batch) => z = y
  BY <1>1, <1>2, <1>7 DEF Stays, Idlers
<1> QED BY <1>3, <1>4, <1>5, <1>6, <1>7

\* One call goes on.
LEMMA OneGoes ==
  ASSUME Steady, SamePlaces, SameAgent, SessType', NEW m \in Users,
         NEW p \in (InPrompt \cup {"hooks", "done", "rejected"}), NEW s \in Stages, Moves(m, p, s),
         call[m].pc \notin Idlers \cup {"running"},
         \A x \in Users : sess'.sleeper = x => call'[x].pc \in {"sleeping", "cancelled"}
  PROVE  Steady'
<1> Types /\ AgentType /\ SessType /\ CallType /\ PlaceType
  BY DEF Steady, Types
<1>1. p \in Waiting \cup Over \cup InPrompt
  BY DEF Waiting, Over
<1>2. Types'
  BY <1>1, MovesType, SameAgentType, SamePlacesType DEF Types
<1>3. \A y \in Users : Stays(y) \/ Goes(y)
  BY DEF Moves, Stays, Goes, InPrompt
<1>4. ASSUME NEW x \in Users PROVE Aside(x)' /\ Owned(x)'
  <2>1. Aside(x)'
    BY <1>3, AsideStays DEF Steady, SamePlaces
  <2>2. agent.at # "idle" /\ agent.owner = x => x # m
    BY DEF Steady, Owned
  <2>3. Owned(x)'
    BY <2>2 DEF Steady, Owned, Moves, SameAgent, SameHand
  <2> QED BY <2>1, <2>3
<1> QED BY <1>2, <1>4 DEF Steady

\* No call moves.
LEMMA NoneGoes ==
  ASSUME Steady, SamePlaces, SameAgent, SessType', sess'.sleeper = sess.sleeper, DOMAIN call' = Users,
         \A y \in Users : SameCall(y) /\ DOMAIN call'[y] = DOMAIN call[y]
  PROVE  Steady'
<1> Types /\ AgentType /\ SessType /\ CallType /\ PlaceType
  BY DEF Steady, Types
<1>1. Types'
  <2>1. CallType'
    BY DEF CallType, SameCall
  <2> QED BY <2>1, SameAgentType, SamePlacesType DEF Types
<1>2. \A y \in Users : Stays(y) \/ Goes(y)
  BY DEF SameCall, Stays
<1>3. ASSUME NEW x \in Users PROVE Aside(x)' /\ Owned(x)'
  <2>1. Aside(x)'
    BY <1>2, AsideStays DEF Steady, SamePlaces
  <2>2. Owned(x)'
    BY DEF Steady, Owned, SameCall, SameAgent, SameHand
  <2> QED BY <2>1, <2>2
<1> QED BY <1>1, <1>3 DEF Steady

\* The delay of a retry belongs to the same call, when another one goes on.
LEMMA DelayStays ==
  ASSUME Steady, NEW m \in Users, NEW p, NEW s, Moves(m, p, s), call[m].pc \notin {"sleeping", "cancelled"},
         sess'.sleeper = sess.sleeper
  PROVE  \A x \in Users : sess'.sleeper = x => call'[x].pc \in {"sleeping", "cancelled"}
  BY DEF Steady, Owned, Moves

\* A step of one call that retries nothing.
LEMMA OneGoesOn ==
  ASSUME RetryInv, SamePlaces, SameAgent, SessType', SameTries, Unretried, NEW m \in Users,
         NEW p \in (InPrompt \cup {"hooks", "done", "rejected"}), NEW s \in Stages, Moves(m, p, s),
         call[m].pc \notin Idlers \cup {"running"},
         \A x \in Users : sess'.sleeper = x => call'[x].pc \in {"sleeping", "cancelled"}
  PROVE  Onward
<1>1. Steady'
  BY OneGoes DEF RetryInv
<1> QED BY <1>1, NothingTried DEF Onward, SameAgent, SameHand

LEMMA AtUnretried ==
  ASSUME CallType, NEW m \in Users, NEW p, call' = At(m, p), p # "ran", call[m].pc # "ran"
  PROVE  Unretried
  BY DEF CallType, At, Unretried

LEMMA FlushBashTries ==
  ASSUME SessType, FlushBash, hist'.errors = hist.errors, hist'.recovered = hist.recovered PROVE SameTries
  BY DEF SessType, FlushBash, SameTries

LEMMA FinishOnward == ASSUME RetryInv, NEW m \in Users, Finish(m) PROVE Onward
<1> Steady /\ AgentType /\ SessType /\ CallType /\ PlaceType
  BY DEF RetryInv, Steady, Types
<1> DEFINE p == IF call[m].stage = "pre" THEN "hooks" ELSE "done"
<1>1. /\ call[m].pc = "finish" /\ FlushBash /\ call' = At(m, p)
      /\ UNCHANGED <<queue, shown, manual, hist>>
      /\ ui' = [ui EXCEPT !.main = IF @ = m /\ call[m].stage # "pre" THEN None ELSE @]
  BY DEF Finish
<1>2. p \in InPrompt \cup {"hooks", "done", "rejected"} /\ p # "ran"
  OBVIOUS
<1> HIDE DEF p
<1>3. Moves(m, p, call[m].stage) /\ Unretried
  BY <1>1, <1>2, AtMoves, AtUnretried
<1>4. SamePlaces
  BY <1>1 DEF PlaceType, SamePlaces
<1>5. SameAgent /\ SessType' /\ sess'.sleeper = sess.sleeper /\ SameTries
  BY <1>1, FlushBashFields, FlushBashTries
<1>6. call[m].stage \in Stages /\ call[m].pc \notin Idlers \cup {"running", "sleeping", "cancelled"}
  BY <1>1 DEF CallType, Idlers
<1>7. \A x \in Users : sess'.sleeper = x => call'[x].pc \in {"sleeping", "cancelled"}
  BY <1>3, <1>5, <1>6, DelayStays
<1> QED BY <1>2, <1>3, <1>4, <1>5, <1>6, <1>7, OneGoesOn

LEMMA WakeOnward == ASSUME RetryInv, NEW m \in Users, Wake(m) PROVE Onward
<1> Steady /\ AgentType /\ SessType /\ CallType /\ PlaceType
  BY DEF RetryInv, Steady, Types
<1>1. /\ call[m].pc = "sleeping" /\ call' = At(m, "continue")
      /\ sess' = [sess EXCEPT !.sleeper = IF @ = m THEN None ELSE @]
      /\ UNCHANGED <<agent, queue, shown, manual, ui, hist>>
  BY DEF Wake
<1>2. Moves(m, "continue", call[m].stage) /\ Unretried
  BY <1>1, AtMoves, AtUnretried
<1>3. SamePlaces /\ SameAgent
  BY <1>1 DEF SamePlaces, SameAgent, SameHand
<1>4. SessType' /\ (sess'.sleeper = IF sess.sleeper = m THEN None ELSE sess.sleeper) /\ SameTries
  BY <1>1 DEF SessType, SameTries
<1>5. \A x \in Users : sess'.sleeper = x => call'[x].pc \in {"sleeping", "cancelled"}
  BY <1>2, <1>4, SessionBounds DEF Steady, Owned, Moves
<1>6. /\ call[m].stage \in Stages /\ call[m].pc \notin Idlers \cup {"running"}
      /\ "continue" \in InPrompt \cup {"hooks", "done", "rejected"}
  BY <1>1 DEF CallType, Idlers, InPrompt
<1> QED BY <1>2, <1>3, <1>4, <1>5, <1>6, OneGoesOn

LEMMA AutoAuthOnward == ASSUME RetryInv, NEW m \in Users, AutoAuth(m) PROVE Onward
<1> Steady /\ AgentType /\ SessType /\ CallType /\ PlaceType
  BY DEF RetryInv, Steady, Types
<1>1. call[m].pc = "auth" /\ UNCHANGED <<agent, queue, shown, sess, manual, ui, hist>>
  BY DEF AutoAuth
<1>2. PICK p \in {"hooks", "continue", "finish", "summarise"} : Moves(m, p, call[m].stage) /\ Unretried
  <2>1. CASE call' = At(m, NotCompacted(m, queue))
    <3>1. NotCompacted(m, queue) \in {"hooks", "continue", "finish"}
      BY NotCompactedFields
    <3>2. Moves(m, NotCompacted(m, queue), call[m].stage) /\ Unretried
      BY <1>1, <2>1, <3>1, AtMoves, AtUnretried
    <3> QED BY <3>1, <3>2
  <2>2. CASE \E k \in CutPoints(branch) :
               call' = [call EXCEPT ![m].pc = "summarise", ![m].keep = k, ![m].aborted = FALSE]
    <3>1. Moves(m, "summarise", call[m].stage) /\ Unretried
      BY <1>1, <2>2 DEF Moves, CallType, Unretried
    <3> QED BY <3>1
  <2> QED BY <2>1, <2>2 DEF AutoAuth
<1>3. SamePlaces /\ SameAgent /\ SessType' /\ SameTries
  BY <1>1, UnchangedTypes DEF SamePlaces, SameAgent, SameHand, SameTries
<1>4. call[m].stage \in Stages /\ call[m].pc \notin Idlers \cup {"running", "sleeping", "cancelled"}
  BY <1>1 DEF CallType, Idlers
<1>5. \A x \in Users : sess'.sleeper = x => call'[x].pc \in {"sleeping", "cancelled"}
  BY <1>1, <1>2, <1>4, DelayStays
<1>6. p \in InPrompt \cup {"hooks", "done", "rejected"}
  BY <1>2 DEF InPrompt
<1> QED BY <1>2, <1>3, <1>4, <1>5, <1>6, OneGoesOn

LEMMA AutoSummarisedOnward == ASSUME RetryInv, NEW m \in Users, AutoSummarised(m) PROVE Onward
<1> Steady /\ AgentType /\ SessType /\ CallType /\ PlaceType
  BY DEF RetryInv, Steady, Types
<1>1. /\ call[m].pc = "summarise" /\ call' = At(m, "compacted") /\ UNCHANGED <<queue, shown, sess, manual, ui, hist>>
      /\ agent' = [agent EXCEPT !.messages = buildSessionContext(branch')]
  BY DEF AutoSummarised, Compacted
<1>2. Moves(m, "compacted", call[m].stage) /\ Unretried
  BY <1>1, AtMoves, AtUnretried
<1>3. SamePlaces /\ SameAgent /\ SessType' /\ SameTries
  BY <1>1, UnchangedTypes DEF SamePlaces, SameAgent, SameHand, AgentType, SameTries
<1>4. call[m].stage \in Stages /\ call[m].pc \notin Idlers \cup {"running", "sleeping", "cancelled"}
  BY <1>1 DEF CallType, Idlers
<1>5. \A x \in Users : sess'.sleeper = x => call'[x].pc \in {"sleeping", "cancelled"}
  BY <1>1, <1>2, <1>4, DelayStays
<1>6. "compacted" \in InPrompt \cup {"hooks", "done", "rejected"}
  BY DEF InPrompt
<1> QED BY <1>2, <1>3, <1>4, <1>5, <1>6, OneGoesOn

\* Only an overflow that was not recovered from is.
LEMMA CheckRetry ==
  ASSUME NEW r, NEW skip, Check(r, skip) = "retry"
  PROVE  r # NoReply /\ Overflowed(r) /\ ~sess.overflow
<1> DEFINE from == IF Failed(r) THEN IF LastUsage(agent.messages) = 0 THEN NoReply
                                     ELSE agent.messages[LastUsage(agent.messages)] ELSE r
           last == IF from = NoReply THEN "no" ELSE IF ~Stale(from) /\ from.usage = "high" THEN "compact" ELSE "no"
<1>1. last # "retry"
  OBVIOUS
<1>2. Check(r, skip) = CASE r = NoReply -> "no"
        [] r # NoReply /\ (Stale(r) \/ (skip /\ r.kind = "aborted")) -> "no"
        [] r # NoReply /\ ~Stale(r) /\ Overflowed(r) -> IF sess.overflow THEN "no" ELSE "retry"
        [] OTHER -> last
  BY DEF Check
<1> HIDE DEF last
<1> QED BY <1>1, <1>2

\* _checkCompaction after a run: the count starts again.
LEMMA CheckAfterRunOnward ==
  ASSUME RetryInv, NEW m \in Users, call[m].pc \in {"ran", "cancelled"}, NEW msg, NEW s,
         DOMAIN s = DOMAIN sess, s.sleeper \in {sess.sleeper, None},
         call[m].pc = "cancelled" => s.sleeper = None,
         s.attempt \in Nat, s.attempt <= MaxRetries, s.overflow = sess.overflow,
         msg # NoReply /\ Overflowed(msg) => agent.at # "save",
         CheckAfterRun(m, msg, s), UNCHANGED <<queue, shown, manual, ui>>
  PROVE  Onward
<1> Steady /\ Retried /\ Recovered /\ HistType /\ AgentType /\ SessType /\ CallType /\ PlaceType
  BY DEF RetryInv, Steady, Types
<1> DEFINE job == Check(msg, TRUE)
           p == IF job = "no" THEN NotCompacted(m, queue) ELSE "auth"
<1>1. /\ agent' = [agent EXCEPT !.messages = IF job = "retry" THEN DropReply(agent.messages) ELSE agent.messages]
      /\ sess' = [s EXCEPT !.overflow = @ \/ job = "retry"]
      /\ hist' = [hist EXCEPT !.recovered = @ \/ job = "retry", !.errors = 0]
      /\ call' = [call EXCEPT ![m].pc = p, ![m].reply = NoReply, ![m].willRetry = job = "retry"]
  BY DEF CheckAfterRun, Start
<1>2. job = "retry" => ~sess.overflow /\ agent.at # "save"
  BY CheckRetry
<1> HIDE DEF job
<1>3. p \in {"hooks", "continue", "finish", "auth"}
  BY NotCompactedFields
<1> HIDE DEF p
<1>4. Moves(m, p, call[m].stage)
  BY <1>1 DEF Moves, CallType
<1>5. /\ hist'.errors = 0 /\ (hist'.recovered <=> hist.recovered \/ job = "retry")
      /\ sess'.attempt = s.attempt /\ (sess'.overflow <=> sess.overflow \/ job = "retry")
      /\ sess'.sleeper = s.sleeper /\ SessType'
  BY <1>1 DEF HistType, SessType
<1>6. /\ \A y \in Users \ {m} : call'[y] = call[y]
      /\ call'[m].pc = p /\ call'[m].reply = NoReply /\ (call'[m].willRetry <=> job = "retry")
  BY <1>1 DEF CallType
<1>7. SameAgent /\ SamePlaces
  BY <1>1 DEF SameAgent, SameHand, AgentType, SamePlaces, HistType
<1>8. Steady'
  <2>1. \A x \in Users : sess'.sleeper = x => call'[x].pc \in {"sleeping", "cancelled"}
    BY <1>4, <1>5, SessionBounds DEF Steady, Owned, Moves
  <2>2. call[m].stage \in Stages /\ call[m].pc \notin Idlers \cup {"running"} /\ p \in InPrompt \cup {"hooks", "done", "rejected"}
    BY <1>3 DEF CallType, Idlers, InPrompt
  <2> QED BY <1>4, <1>5, <1>7, <2>1, <2>2, OneGoes
<1>9. Retried'
  <2>1. Ran' => Ran
    BY <1>3, <1>6 DEF Ran
  <2>2. agent'.at = "save" => agent.at = "save" /\ (hist'.recovered <=> hist.recovered)
    BY <1>2, <1>5, <1>7 DEF SameAgent, SameHand
  <2> QED BY <1>5, <1>7, <2>1, <2>2 DEF Retried, SameAgent, SameHand, Failed
<1>10. Recovered'
  BY <1>5, <1>6 DEF Recovered
<1>11. OnceRecovered
  BY <1>2, <1>6 DEF OnceRecovered, Recovered
<1> QED BY <1>8, <1>9, <1>10, <1>11 DEF Onward

LEMMA PostRunOnward == ASSUME RetryInv, NEW m \in Users, PostRun(m) PROVE Onward
<1> Steady /\ Retried /\ Recovered /\ HistType /\ AgentType /\ SessType /\ CallType /\ PlaceType
  BY DEF RetryInv, Steady, Types
<1> DEFINE rest == [sess EXCEPT !.last = NoReply]
<1>1. call[m].pc = "ran" /\ UNCHANGED <<queue, shown, manual, ui>>
  BY DEF PostRun
<1>2. /\ DOMAIN rest = DOMAIN sess /\ rest.sleeper = sess.sleeper /\ rest.attempt = sess.attempt
      /\ rest.overflow = sess.overflow
  BY DEF SessType
<1>3. agent.at # "save" /\ MaxRetries \in Nat
  BY <1>1, SessionBounds DEF Retried, Ran
<1>4. /\ call[m].stage \in Stages /\ call[m].pc \notin Idlers \cup {"running", "sleeping", "cancelled"}
      /\ {"finish", "sleeping"} \subseteq InPrompt \cup {"hooks", "done", "rejected"}
  BY <1>1 DEF CallType, Idlers, InPrompt
<1>5. CASE sess.last = NoReply
  <2>1. sess' = rest /\ call' = At(m, "finish") /\ hist' = [hist EXCEPT !.errors = 0] /\ UNCHANGED agent
    BY <1>5 DEF PostRun
  <2>2. Moves(m, "finish", call[m].stage)
    BY <2>1, AtMoves
  <2>3. SamePlaces /\ SameAgent
    BY <1>1, <2>1 DEF SamePlaces, SameAgent, SameHand, HistType
  <2>4. /\ SessType' /\ sess'.sleeper = sess.sleeper
        /\ sess'.attempt = sess.attempt /\ sess'.overflow = sess.overflow
        /\ hist'.errors = 0 /\ hist'.recovered = hist.recovered
    BY <2>1, <1>2 DEF SessType, HistType
  <2>5. \A x \in Users : sess'.sleeper = x => call'[x].pc \in {"sleeping", "cancelled"}
    BY <1>4, <2>2, <2>4, DelayStays
  <2>6. \A y \in Users : call'[y].reply = call[y].reply /\ call'[y].willRetry = call[y].willRetry
    BY <2>1 DEF At, CallType
  <2>7. Steady'
    BY <1>4, <2>2, <2>3, <2>4, <2>5, OneGoes
  <2> QED BY <1>3, <2>1, <2>4, <2>6, <2>7 DEF Onward, Retried, Recovered, OnceRecovered
<1>6. CASE sess.last # NoReply /\ Retries(sess.last)
  <2>1. /\ sess' = [rest EXCEPT !.attempt = @ + 1, !.sleeper = m]
        /\ agent' = [agent EXCEPT !.messages = DropReply(@)]
        /\ call' = [call EXCEPT ![m].pc = "sleeping", ![m].reply = sess.last]
        /\ UNCHANGED hist
    BY <1>6 DEF PostRun
  <2>2. Moves(m, "sleeping", call[m].stage)
    BY <2>1 DEF Moves, CallType
  <2>3. SamePlaces /\ SameAgent
    BY <1>1, <2>1 DEF SamePlaces, SameAgent, SameHand, AgentType
  <2>4. /\ SessType' /\ sess'.sleeper = m /\ sess'.attempt = sess.attempt + 1 /\ sess'.overflow = sess.overflow
    BY <2>1, <1>2 DEF SessType
  <2>5. \A x \in Users : sess'.sleeper = x => call'[x].pc \in {"sleeping", "cancelled"}
    BY <2>2, <2>4 DEF Moves
  <2>6. sess.attempt < MaxRetries /\ sess.last.kind = "error"
    BY <1>6 DEF Retries
  <2>7. \A y \in Users : /\ call'[y].reply = IF y = m THEN sess.last ELSE call[y].reply
                         /\ call'[y].willRetry = call[y].willRetry
    BY <2>1 DEF CallType
  <2>8. Steady'
    BY <1>4, <2>2, <2>3, <2>4, <2>5, OneGoes
  <2>9. Retried'
    BY <1>3, <2>1, <2>3, <2>4, <2>6 DEF Retried, SameAgent, SameHand
  <2>10. \A y \in Users : call'[y].reply = NoReply \/ call'[y].reply.kind = "error"
    BY <2>6, <2>7 DEF Recovered
  <2>11. Recovered'
    BY <2>1, <2>4, <2>10 DEF Recovered
  <2>12. OnceRecovered
    BY <2>7 DEF OnceRecovered
  <2> QED BY <2>8, <2>9, <2>11, <2>12 DEF Onward
<1>7. CASE sess.last # NoReply /\ ~Retries(sess.last)
  <2> DEFINE s == [rest EXCEPT !.attempt = IF Failed(sess.last) THEN 0 ELSE @]
  <2>1. CheckAfterRun(m, sess.last, s)
    BY <1>7 DEF PostRun
  <2>2. /\ DOMAIN s = DOMAIN sess /\ s.sleeper = sess.sleeper /\ s.overflow = sess.overflow
        /\ s.attempt \in {0, sess.attempt}
    BY <1>2 DEF SessType
  <2>3. s.attempt \in Nat /\ s.attempt <= MaxRetries
    BY <1>3, <2>2 DEF Retried
  <2> HIDE DEF s
  <2> QED BY <1>1, <1>3, <2>1, <2>2, <2>3, CheckAfterRunOnward
<1> QED BY <1>5, <1>6, <1>7

LEMMA RetryCancelledOnward == ASSUME RetryInv, NEW m \in Users, RetryCancelled(m) PROVE Onward
<1> Recovered /\ SessType
  BY DEF RetryInv, Steady, Types
<1> DEFINE s == [sess EXCEPT !.attempt = 0, !.sleeper = None]
<1>1. /\ call[m].pc = "cancelled" /\ CheckAfterRun(m, call[m].reply, s)
      /\ UNCHANGED <<queue, shown, manual, ui>>
  BY DEF RetryCancelled
<1>2. DOMAIN s = DOMAIN sess /\ s.sleeper = None /\ s.attempt = 0 /\ s.overflow = sess.overflow
  BY DEF SessType
<1>3. MaxRetries \in Nat /\ 0 <= MaxRetries
  BY SessionBounds
<1>4. ~(call[m].reply # NoReply /\ Overflowed(call[m].reply))
  BY DEF Recovered, Overflowed
<1> HIDE DEF s
<1> QED BY <1>1, <1>2, <1>3, <1>4, CheckAfterRunOnward

(***************************************************************************)
(* The agent's steps, and how often the provider was tried.                *)
(***************************************************************************)
\* The agent goes on, and no call moves.
LEMMA AgentGoes ==
  ASSUME Steady, AgentType', SessType', PlaceType', sess'.sleeper = sess.sleeper,
         agent'.at # "idle" => agent.at # "idle" /\ agent'.owner = agent.owner,
         Elements(shown') \subseteq Elements(shown), call' = call, ui' = ui
  PROVE  Steady'
<1>1. Types'
  BY UnchangedTypes DEF Steady, Types
<1>2. \A y \in Users : Stays(y) \/ Goes(y)
  BY DEF Stays
<1>3. ASSUME NEW x \in Users PROVE Aside(x)' /\ Owned(x)'
  <2>1. Aside(x)'
    BY <1>2, AsideStays DEF Steady
  <2>2. Owned(x)'
    BY DEF Steady, Owned
  <2> QED BY <2>1, <2>2
<1> QED BY <1>1, <1>3 DEF Steady

\* Calls that stay set out to nothing.
LEMMA SameCallsRecovered == ASSUME call' = call PROVE OnceRecovered
  BY DEF OnceRecovered

LEMMA CalmNotRan == ASSUME Calm PROVE ~Ran
  BY DEF Calm, Calls, Ran

LEMMA HeadOfOne == \A x : Head(<<x>>) = x
  OBVIOUS

LEMMA DeliverOnward == ASSUME RetryInv, Calm, Deliver PROVE Onward
<1> Steady /\ Retried /\ Recovered /\ HistType /\ AgentType /\ SessType /\ CallType /\ PlaceType
  BY DEF RetryInv, Steady, Types
<1>1. PICK u \in Users : agent.todo = <<User(u)>>
  BY DEF Deliver, AgentType
<1>2. Head(agent.todo) = User(u) /\ User(u).id = u /\ User(u).role = "user"
  BY <1>1 DEF User
<1>3. /\ agent' = Pushed(User(u)) /\ hist' = [hist EXCEPT !.delivered = Append(@, u), !.errors = 0, !.recovered = FALSE]
      /\ queue' = queue /\ ui' = ui /\ call' = call /\ manual' = manual
      /\ shown' = IF sess.connected THEN RemoveFirst(shown, u) ELSE shown
      /\ sess' = [sess EXCEPT !.overflow = @ /\ ~sess.connected] /\ agent.at = "deliver"
  BY <1>2 DEF Deliver
<1>4. shown' \in Seq(Users) /\ Elements(shown') \subseteq Elements(shown)
  BY <1>3, ElementsOfRemoveFirst DEF PlaceType
<1>5. /\ agent'.at = "save" /\ agent'.owner = agent.owner /\ agent'.then = agent.then
      /\ DOMAIN agent' = DOMAIN agent /\ agent'.todo = <<User(u)>>
  BY <1>3, PushedFields DEF AgentType, Pushed
<1>6. hist'.errors = 0 /\ ~hist'.recovered /\ hist'.delivered = Append(hist.delivered, u)
  BY <1>3 DEF HistType
<1>7. SessType' /\ sess'.sleeper = sess.sleeper /\ sess'.attempt = sess.attempt
  BY <1>3 DEF SessType
<1>8. Steady'
  <2>1. AgentType'
    BY <1>3, <1>5 DEF AgentType
  <2>2. Append(hist.delivered, u) \in Seq(Users)
    BY DEF PlaceType
  <2>3. PlaceType'
    BY <1>3, <1>4, <1>6, <2>2 DEF PlaceType
  <2> QED BY <1>3, <1>4, <1>5, <1>7, <2>1, <2>3, AgentGoes
<1>9. Retried'
  <2>1. ~Ran'
    BY <1>3, CalmNotRan DEF Ran
  <2> QED BY <1>6, <1>7, <2>1 DEF Retried
<1>10. Recovered'
  BY <1>3, <1>6 DEF Recovered
<1> QED BY <1>3, <1>8, <1>9, <1>10, SameCallsRecovered DEF Onward

\* What a reply is.
LEMMA RepliesAre ==
  ASSUME NEW r \in Replies PROVE r.role = "assistant" /\ r.kind \in {"aborted", "stop", "length", "tool", "error", "limit", "overflow"}
  BY DEF Replies, Reply

LEMMA ReplyArrivesOnward == ASSUME RetryInv, Calm, ReplyArrives PROVE Onward
<1> Steady /\ Retried /\ Recovered /\ HistType /\ AgentType /\ SessType /\ CallType /\ PlaceType
  BY DEF RetryInv, Steady, Types
<1>1. PICK r \in Replies :
        /\ agent' = [Pushed(r) EXCEPT !.polled = FALSE, !.then = IF Final(r) THEN "end" ELSE "request"]
        /\ hist' = [hist EXCEPT !.replies = @ + 1, !.errors = IF r.kind \in {"error", "limit"} THEN @ + 1 ELSE 0,
                                !.recovered = @ /\ Failed(r)]
  BY DEF ReplyArrives
<1>2. agent.at = "request" /\ UNCHANGED <<queue, shown, sess, call, manual, ui>>
  BY DEF ReplyArrives
<1>3. /\ DOMAIN agent' = DOMAIN agent /\ agent'.at = "save" /\ agent'.owner = agent.owner
      /\ agent'.then \in {"request", "end"} /\ agent'.todo = <<r>>
  BY <1>1, PushedFields DEF AgentType, Pushed, Final
<1>4. /\ hist'.delivered = hist.delivered /\ hist'.errors = IF r.kind \in {"error", "limit"} THEN hist.errors + 1 ELSE 0
      /\ hist'.recovered <=> hist.recovered /\ Failed(r)
  BY <1>1 DEF HistType
<1>5. r.role = "assistant" /\ Head(agent'.todo) = r
  BY <1>3, RepliesAre, HeadOfOne
<1>6. Steady'
  <2>1. AgentType'
    BY <1>2, <1>3 DEF AgentType
  <2>2. PlaceType' /\ SessType'
    BY <1>2, <1>4, UnchangedTypes
  <2> QED BY <1>2, <1>3, <2>1, <2>2, AgentGoes
<1>7. Retried'
  <2>1. ~Ran /\ ~Ran'
    BY <1>2, CalmNotRan DEF Ran
  <2>2. hist.errors <= sess.attempt
    BY <1>2, <2>1 DEF Retried, Failing, Replied
  <2>3. ~Failing' => r.kind \notin {"error", "limit"}
    BY <1>3, <1>5 DEF Failing, Replied
  <2>4. ~Failed(r) => r.kind \notin {"error", "limit"}
    BY DEF Failed
  <2>5. /\ hist'.errors \in Nat /\ hist'.errors <= sess.attempt + 1
        /\ r.kind \notin {"error", "limit"} => hist'.errors = 0
    BY <1>4, <2>2 DEF Retried
  <2>6. ~Failing' => hist'.errors <= sess.attempt
    BY <2>3, <2>5 DEF Retried
  <2>7. ~Failed(Head(agent'.todo)) => hist'.errors = 0 /\ ~hist'.recovered
    BY <1>4, <1>5, <2>4, <2>5
  <2> QED BY <1>2, <2>1, <2>5, <2>6, <2>7 DEF Retried, Failed
<1>8. Recovered'
  BY <1>2, <1>4 DEF Recovered
<1> QED BY <1>2, <1>6, <1>7, <1>8, SameCallsRecovered DEF Onward

LEMMA ToolAnswersOnward == ASSUME RetryInv, Calm, ToolAnswers PROVE Onward
<1> Steady /\ Retried /\ Recovered /\ HistType /\ AgentType /\ SessType /\ CallType /\ PlaceType
  BY DEF RetryInv, Steady, Types
<1> DEFINE x == Result(hist.replies)
<1>1. agent.at = "tools" /\ agent' = Pushed(x) /\ UNCHANGED <<queue, shown, sess, call, manual, ui, hist>>
  BY DEF ToolAnswers
<1>2. x.role = "toolResult"
  BY DEF Result
<1> HIDE DEF x
<1>3. /\ DOMAIN agent' = DOMAIN agent /\ agent'.at = "save" /\ agent'.owner = agent.owner
      /\ agent'.then = agent.then /\ agent'.todo = <<x>>
  BY <1>1, PushedFields DEF AgentType, Pushed
<1>4. Steady'
  <2>1. AgentType'
    BY <1>1, <1>3 DEF AgentType
  <2>2. PlaceType' /\ SessType'
    BY <1>1, UnchangedTypes
  <2> QED BY <1>1, <1>3, <2>1, <2>2, AgentGoes
<1>5. Retried'
  <2>1. ~Ran /\ ~Ran'
    BY <1>1, CalmNotRan DEF Ran
  <2>2. hist.errors <= sess.attempt
    BY <1>1, <2>1 DEF Retried, Failing, Replied
  <2>3. Head(agent'.todo).role # "assistant"
    BY <1>2, <1>3, HeadOfOne
  <2> QED BY <1>1, <2>1, <2>2, <2>3 DEF Retried
<1>6. Recovered'
  BY <1>1 DEF Recovered
<1> QED BY <1>1, <1>4, <1>5, <1>6, SameCallsRecovered DEF Onward

\* A reply that is no failure sets the retries back: no error came after it.
LEMMA MessageEndOnward == ASSUME RetryInv, Calm, MessageEnd PROVE Onward
<1> Steady /\ Retried /\ Recovered /\ HistType /\ AgentType /\ SessType /\ CallType /\ PlaceType
  BY DEF RetryInv, Steady, Types
<1> DEFINE h == Head(agent.todo)
<1>1. /\ agent.at = "save"
      /\ agent' = [agent EXCEPT !.todo = Tail(@), !.heard = FALSE, !.at = AfterMessage(h), !.since = Compactions]
      /\ sess' = IF agent.heard /\ h.role = "assistant" THEN Counted(h) ELSE sess
      /\ UNCHANGED <<queue, shown, call, manual, ui, hist>>
  BY DEF MessageEnd
<1>2. (h.role = "assistant" /\ ~Failed(h)) => hist.errors = 0 /\ ~hist.recovered
  BY <1>1 DEF Retried
<1>3. ~(h.role = "assistant" /\ h.kind \in {"error", "limit"}) => hist.errors <= sess.attempt
  <2>1. ~Ran
    BY CalmNotRan
  <2> QED BY <1>1, <2>1 DEF Retried, Failing, Replied
<1> HIDE DEF h
<1>4. /\ AfterMessage(h) \in {"request", "poll", "tools", "end"}
      /\ h.role = "assistant" /\ h.kind \in {"error", "limit"} => AfterMessage(h) = "end"
  BY DEF AfterMessage, Final
<1>5. /\ DOMAIN agent' = DOMAIN agent /\ agent'.at = AfterMessage(h) /\ agent'.owner = agent.owner
      /\ agent'.then = agent.then
  BY <1>1 DEF AgentType
<1>6. SessType' /\ sess'.sleeper = sess.sleeper
  BY <1>1 DEF SessType, Counted
<1>7. /\ sess'.attempt \in {0, sess.attempt}
      /\ sess'.attempt # sess.attempt => h.role = "assistant" /\ ~Failed(h)
      /\ sess.overflow /\ ~sess'.overflow => h.role = "assistant" /\ ~Failed(h)
  <2>1. CASE agent.heard /\ h.role = "assistant"
    BY <1>1, <2>1 DEF SessType, Counted
  <2>2. CASE ~(agent.heard /\ h.role = "assistant")
    BY <1>1, <2>2
  <2> QED BY <2>1, <2>2
<1>8. Steady'
  <2>1. AgentType'
    BY <1>1, <1>4, <1>5 DEF AgentType
  <2>2. PlaceType'
    BY <1>1, UnchangedTypes
  <2> QED BY <1>1, <1>5, <1>6, <2>1, <2>2, AgentGoes
<1>9. Retried'
  <2>1. ~Ran'
    BY <1>1, CalmNotRan DEF Ran
  <2>2. ~Failing' => ~(h.role = "assistant" /\ h.kind \in {"error", "limit"})
    BY <1>4, <1>5 DEF Failing
  <2>3. agent'.at # "save"
    BY <1>4, <1>5
  <2>4. /\ sess'.attempt \in Nat /\ sess'.attempt <= MaxRetries /\ hist.errors <= sess'.attempt + 1
        /\ hist.errors <= sess.attempt => hist.errors <= sess'.attempt
    <3>1. CASE sess'.attempt = sess.attempt
      BY <3>1 DEF Retried
    <3>2. CASE sess'.attempt = 0 /\ hist.errors = 0
      <4>1. MaxRetries \in Nat
        BY SessionBounds
      <4> QED BY <3>2, <4>1
    <3> QED BY <1>2, <1>7, <3>1, <3>2
  <2> QED BY <1>1, <1>3, <2>1, <2>2, <2>3, <2>4 DEF Retried
<1>10. Recovered'
  BY <1>1, <1>2, <1>7 DEF Recovered
<1> QED BY <1>1, <1>8, <1>9, <1>10, SameCallsRecovered DEF Onward

LEMMA PollOnward == ASSUME RetryInv, Poll PROVE Onward
<1> Steady /\ Retried /\ Recovered /\ HistType /\ AgentType /\ SessType /\ CallType /\ PlaceType
  BY DEF RetryInv, Steady, Types
<1>1. agent.at = "poll" /\ UNCHANGED <<shown, sess, call, manual, ui, hist>>
  BY DEF Poll
<1>2. /\ queue' \in Seq(Users) /\ agent'.at \in {"deliver", "request", "end"}
      /\ agent'.at = "deliver" => \E x \in Users : agent'.todo = <<User(x)>>
      /\ agent'.then \in {"request", "end"} /\ DOMAIN agent' = DOMAIN agent /\ agent'.owner = agent.owner
  <2>1. CASE queue = <<>>
    <3>1. agent' = [agent EXCEPT !.at = agent.then, !.since = Compactions] /\ queue' = queue
      BY <2>1 DEF Poll
    <3> QED BY <3>1 DEF AgentType, PlaceType
  <2>2. CASE queue # <<>>
    <3> DEFINE u == Head(queue)
    <3>1. /\ agent' = [agent EXCEPT !.at = "deliver", !.todo = <<User(u)>>, !.polled = TRUE, !.then = "request"]
          /\ queue' = Tail(queue)
      BY <2>2 DEF Poll
    <3>2. Tail(queue) \in Seq(Users) /\ u \in Users
      BY <2>2, ElementsOfTail DEF PlaceType
    <3> HIDE DEF u
    <3> QED BY <3>1, <3>2 DEF AgentType
  <2> QED BY <2>1, <2>2
<1>3. Steady'
  <2>1. AgentType'
    BY <1>1, <1>2 DEF AgentType
  <2>2. PlaceType'
    BY <1>1, <1>2 DEF PlaceType
  <2>3. SessType'
    BY <1>1, UnchangedTypes
  <2> QED BY <1>1, <1>2, <2>1, <2>2, <2>3, AgentGoes
<1>4. Retried'
  <2>1. (Ran' <=> Ran) /\ agent'.at # "save"
    BY <1>1, <1>2 DEF Ran
  <2>2. ~Ran => hist.errors <= sess.attempt
    BY <1>1 DEF Retried, Failing, Replied
  <2>3. ~Failing' => ~Ran
    BY <2>1 DEF Failing
  <2> QED BY <1>1, <2>1, <2>2, <2>3 DEF Retried
<1>5. Recovered'
  BY <1>1 DEF Recovered
<1> QED BY <1>1, <1>3, <1>4, <1>5, SameCallsRecovered DEF Onward

LEMMA RunEndsOnward == ASSUME RetryInv, RunEnds PROVE Onward
<1> Steady /\ Retried /\ Recovered /\ HistType /\ AgentType /\ SessType /\ CallType /\ PlaceType
  BY DEF RetryInv, Steady, Types
<1> DEFINE m == agent.owner
<1>1. /\ agent.at = "end" /\ call' = At(m, "ran") /\ UNCHANGED <<queue, shown, sess, manual, ui, hist>>
      /\ agent' = [agent EXCEPT !.at = "idle", !.aborted = FALSE, !.owner = None, !.then = "request", !.polled = FALSE]
  BY DEF RunEnds
<1>2. m \in Users /\ DOMAIN agent' = DOMAIN agent /\ agent'.at = "idle" /\ agent'.then = "request"
  BY <1>1 DEF AgentType
<1>3. call[m].pc = "running"
  BY <1>1, <1>2 DEF Steady, Owned
<1> HIDE DEF m
<1>4. Moves(m, "ran", call[m].stage)
  BY <1>1, <1>2, AtMoves
<1>5. \A y \in Users : call'[y].reply = call[y].reply /\ call'[y].willRetry = call[y].willRetry
  BY <1>1, <1>2 DEF At, CallType
<1>6. Steady'
  <2>1. AgentType'
    BY <1>2 DEF AgentType
  <2>2. CallType'
    BY <1>2, <1>4, MovesType DEF CallType, InPrompt
  <2>3. Types'
    BY <1>1, <2>1, <2>2, UnchangedTypes DEF Types
  <2>4. \A y \in Users : Stays(y) \/ Goes(y)
    BY <1>3, <1>4 DEF Moves, Stays, Goes, Idlers
  <2>5. ASSUME NEW x \in Users PROVE Aside(x)' /\ Owned(x)'
    <3>1. Aside(x)'
      BY <1>1, <2>4, AsideStays DEF Steady
    <3>2. Owned(x)'
      BY <1>1, <1>2, <1>3, <1>4 DEF Steady, Owned, Moves
    <3> QED BY <3>1, <3>2
  <2> QED BY <2>3, <2>5 DEF Steady
<1>7. Retried'
  <2>1. Ran'
    BY <1>2, <1>4 DEF Moves, Ran
  <2> QED BY <1>1, <1>2, <2>1 DEF Retried, Failing
<1>8. Recovered'
  BY <1>1, <1>5 DEF Recovered
<1>9. OnceRecovered
  BY <1>5 DEF OnceRecovered
<1> QED BY <1>6, <1>7, <1>8, <1>9 DEF Onward

(***************************************************************************)
(* Messages that wait, and how often the provider was tried.               *)
(***************************************************************************)
LEMMA NewCallAsks == NewCall.reply = NoReply /\ NewCall.willRetry = FALSE
  BY DEF NewCall

\* A flush puts back the messages it set aside, and no others.
LEMMA RejectedOnward ==
  ASSUME RetryInv, NEW m \in Users, call[m].pc \in {"called", "hooks", "continue"}, Rejected(m), SameAgent,
         SessType', sess'.sleeper = sess.sleeper, SameTries, manual' = manual, hist'.delivered = hist.delivered
  PROVE  Onward
<1> Steady /\ Types /\ AgentType /\ SessType /\ CallType /\ PlaceType /\ Aside(m)
  BY DEF RetryInv, Steady, Types
<1> DEFINE batch == call[m].batch
<1>1. CASE batch = <<>>
  <2>1. /\ call' = At(m, "rejected") /\ ui' = [ui EXCEPT !.main = IF @ = m THEN None ELSE @]
        /\ UNCHANGED <<queue, shown>>
    BY <1>1 DEF Rejected
  <2>2. Moves(m, "rejected", call[m].stage) /\ Unretried
    BY <2>1, AtMoves, AtUnretried
  <2>3. SamePlaces
    BY <2>1 DEF SamePlaces, PlaceType
  <2>4. /\ call[m].stage \in Stages /\ call[m].pc \notin Idlers \cup {"running", "sleeping", "cancelled"}
        /\ "rejected" \in InPrompt \cup {"hooks", "done", "rejected"}
    BY DEF CallType, Idlers
  <2>5. \A x \in Users : sess'.sleeper = x => call'[x].pc \in {"sleeping", "cancelled"}
    BY <2>2, <2>4, DelayStays
  <2> QED BY <2>2, <2>3, <2>4, <2>5, OneGoesOn
<1>2. CASE batch # <<>>
  <2>1. batch \in Seq(Users) /\ ToSet(batch) = Elements(batch) /\ m \in Elements(batch)
    BY <1>2, ToSetIsElements DEF CallType, Aside
  <2>2. /\ call' = [x \in Users |-> IF x \in Elements(batch) THEN [NewCall EXCEPT !.pc = "held"] ELSE call[x]]
        /\ ui' = [ui EXCEPT !.held = batch] /\ queue' = <<>> /\ shown' = <<>>
    BY <1>2, <2>1 DEF Rejected
  <2>3. \A y \in Users : y \in Elements(batch) =>
          /\ call[y].pc \in {"done", "editor", "called", "hooks", "continue"}
          /\ \A z \in Users : y \in Elements(call[z].batch) => z = m
    BY DEF Steady, Aside
  <2> HIDE DEF batch
  <2>4. \A y \in Users : y \in Elements(batch) =>
          /\ call'[y].pc = "held" /\ call'[y].stage = "own" /\ call'[y].batch = <<>>
          /\ DOMAIN call'[y] = DOMAIN call[y] /\ call'[y].reply = NoReply /\ call'[y].willRetry = FALSE
    BY <2>2, NewCallHas, NewCallAsks DEF NewCallFields, CallType
  <2>5. DOMAIN call' = Users /\ \A y \in Users : y \notin Elements(batch) => call'[y] = call[y]
    BY <2>2
  <2>6. DOMAIN ui' = DOMAIN ui /\ ui'.held = batch /\ ui'.inputs = ui.inputs
    BY <2>2 DEF PlaceType
  <2>7. <<>> \in Seq(Users)
    OBVIOUS
  <2>8. Types'
    <3>1. \A y \in Users : call'[y].batch \in Seq(Users)
      BY <2>4, <2>5, <2>7 DEF CallType
    <3>2. CallType'
      BY <2>4, <2>5, <3>1 DEF CallType, Stages, Waiting
    <3>3. PlaceType'
      BY <2>1, <2>2, <2>6, <2>7 DEF PlaceType
    <3> QED BY <3>2, <3>3, SameAgentType DEF Types
  <2>9. ASSUME NEW x \in Users PROVE Aside(x)' /\ Owned(x)'
    <3> Aside(x) /\ Owned(x)
      BY DEF Steady
    <3>1. x \notin Elements(<<>>)
      BY ElementsOfEmpty
    <3>2. ASSUME NEW y \in Users, x \in Elements(call'[y].batch)
          PROVE  y \notin Elements(batch) /\ x \in Elements(call[y].batch) /\ x \notin Elements(batch)
      <4>1. y \notin Elements(batch)
        BY <2>4, <3>1, <3>2
      <4> QED BY <2>1, <2>3, <2>5, <3>2, <4>1
    <3>3. ASSUME NEW y \in Users, x \in Elements(call'[y].batch)
          PROVE  /\ y # x => call'[x].pc \in {"done", "editor"}
                 /\ \A z \in Users : x \in Elements(call'[z].batch) => z = y
      BY <2>5, <3>2, <3>3 DEF Aside
    <3>4. x \in Elements(ui'.inputs) => call'[x].pc = "input"
      BY <2>3, <2>5, <2>6 DEF Aside
    <3>5. /\ call'[x].pc \in {"new", "input", "held"} => call'[x].batch = <<>>
          /\ call'[x].batch # <<>> => x \in Elements(call'[x].batch)
      BY <2>4, <2>5 DEF Aside
    <3>6. Aside(x)'
      BY <2>2, <2>4, <2>6, <3>1, <3>3, <3>4, <3>5 DEF Aside
    <3>7. Owned(x)'
      BY <2>3, <2>5 DEF Owned, SameAgent, SameHand
    <3> QED BY <3>6, <3>7
  <2>10. Steady'
    BY <2>8, <2>9 DEF Steady
  <2>11. Unretried
    BY <2>3, <2>4, <2>5 DEF Unretried
  <2> QED BY <2>10, <2>11, NothingTried DEF Onward, SameAgent, SameHand
<1> QED BY <1>1, <1>2

LEMMA CallOnward == ASSUME RetryInv, NEW m \in Users, Call(m) PROVE Onward
<1> Steady /\ Retried /\ Recovered /\ HistType /\ AgentType /\ SessType /\ CallType /\ PlaceType
  BY DEF RetryInv, Steady, Types
<1>1. call[m].pc = "called" /\ manual' = manual
  BY DEF Call
<1>2. CASE isStreaming
  <2>1. Rejected(m) /\ UNCHANGED <<agent, sess, hist>>
    BY <1>2 DEF Call
  <2>2. SameAgent /\ SameTries
    BY <2>1 DEF SameAgent, SameHand, SameTries
  <2> QED BY <1>1, <2>1, <2>2, RejectedOnward, UnchangedTypes
<1>3. CASE ~isStreaming /\ FlushBash /\ Rejected(m) /\ hist' = [hist EXCEPT !.events = @ + 1]
  <2>1. hist'.delivered = hist.delivered /\ hist'.errors = hist.errors /\ hist'.recovered = hist.recovered
    BY <1>3 DEF HistType
  <2>2. SameAgent /\ SessType' /\ sess'.sleeper = sess.sleeper /\ SameTries
    BY <1>3, <2>1, FlushBashFields, FlushBashTries
  <2> QED BY <1>1, <1>3, <2>1, <2>2, RejectedOnward
<1>4. CASE ~isStreaming /\ ~(FlushBash /\ Rejected(m) /\ hist' = [hist EXCEPT !.events = @ + 1])
  <2> DEFINE ms == agent.messages \o sess.bash
             i == SelectLastInSeq(ms, LAMBDA x : x.role = "assistant")
             job == IF i = 0 THEN "no" ELSE Check(ms[i], FALSE)
             p == IF job = "no" THEN "hooks" ELSE "auth"
             s == [sess EXCEPT !.bash = <<>>]
  <2>1. /\ Start(job, ms, s)
        /\ hist' = [hist EXCEPT !.recovered = @ \/ job = "retry", !.clean = @ /\ Others(m) = {} /\ manual.pc = "none"]
        /\ call' = [call EXCEPT ![m].pc = p, ![m].stage = "check", ![m].willRetry = job = "retry"]
        /\ UNCHANGED <<queue, shown, ui>> /\ agent.at = "idle"
    BY <1>4 DEF Call, isStreaming
  <2>2. job = "retry" => ~sess.overflow
    BY CheckRetry
  <2> HIDE DEF i, job
  <2>3. p \in {"hooks", "auth"}
    OBVIOUS
  <2> HIDE DEF p
  <2>4. Moves(m, p, "check")
    BY <2>1 DEF Moves, CallType
  <2>5. SameAgent
    BY <2>1 DEF Start, SameAgent, SameHand, AgentType
  <2>6. /\ SessType' /\ sess'.sleeper = sess.sleeper /\ sess'.attempt = sess.attempt
        /\ sess'.overflow <=> sess.overflow \/ job = "retry"
    BY <2>1 DEF Start, SessType
  <2>7. /\ hist'.delivered = hist.delivered /\ hist'.errors = hist.errors
        /\ hist'.recovered <=> hist.recovered \/ job = "retry"
    BY <2>1 DEF HistType
  <2>8. SamePlaces
    BY <1>1, <2>1, <2>7 DEF SamePlaces
  <2>9. /\ \A y \in Users \ {m} : call'[y] = call[y]
        /\ call'[m].pc = p /\ call'[m].reply = call[m].reply /\ (call'[m].willRetry <=> job = "retry")
    BY <2>1 DEF CallType
  <2>10. Steady'
    <3>1. /\ "check" \in Stages /\ call[m].pc \notin Idlers \cup {"running", "sleeping", "cancelled"}
          /\ p \in InPrompt \cup {"hooks", "done", "rejected"}
      BY <1>1, <2>3 DEF Stages, Idlers, InPrompt
    <3>2. \A x \in Users : sess'.sleeper = x => call'[x].pc \in {"sleeping", "cancelled"}
      BY <2>4, <2>6, <3>1, DelayStays
    <3> QED BY <2>4, <2>5, <2>6, <2>8, <3>1, <3>2, OneGoes
  <2>11. Retried'
    <3>1. Ran' <=> Ran
      BY <1>1, <2>3, <2>9 DEF Ran
    <3>2. agent'.at = "idle"
      BY <2>1, <2>5 DEF SameAgent, SameHand
    <3>3. Failing' <=> Failing
      BY <2>1, <3>1, <3>2 DEF Failing, Replied
    <3> QED BY <2>6, <2>7, <3>2, <3>3 DEF Retried
  <2>12. Recovered'
    BY <2>6, <2>7, <2>9 DEF Recovered
  <2>13. OnceRecovered
    BY <2>2, <2>9 DEF OnceRecovered, Recovered
  <2> QED BY <2>10, <2>11, <2>12, <2>13 DEF Onward
<1> QED BY <1>2, <1>3, <1>4

\* A run starts: what was tried before it counts no more and no less.
LEMMA RunOnward ==
  ASSUME RetryInv, ~isStreaming, NEW m \in Users, call[m].pc \in {"hooks", "continue"}, NEW s \in Stages,
         Moves(m, "running", s), Unretried, UNCHANGED <<shown, sess, manual, ui, hist>>, queue' \in Seq(Users),
         agent'.owner = m, agent'.then = "request", DOMAIN agent' = DOMAIN agent, agent'.at \in {"poll", "deliver"},
         agent'.at = "deliver" => \E x \in Users : agent'.todo = <<User(x)>>
  PROVE  Onward
<1> Steady /\ Retried /\ Recovered /\ AgentType /\ SessType /\ CallType /\ PlaceType
  BY DEF RetryInv, Steady, Types
<1>1. Types'
  <2>1. AgentType'
    BY DEF AgentType
  <2>2. CallType'
    BY MovesType DEF CallType, InPrompt
  <2>3. PlaceType'
    BY DEF PlaceType
  <2> QED BY <2>1, <2>2, <2>3, UnchangedTypes DEF Types
<1>2. \A y \in Users : Stays(y) \/ Goes(y)
  BY DEF Moves, Stays, Goes, Idlers
<1>3. ASSUME NEW x \in Users PROVE Aside(x)' /\ Owned(x)'
  <2>1. Aside(x)'
    BY <1>2, AsideStays DEF Steady
  <2>2. Owned(x)'
    BY DEF Steady, Owned, Moves, isStreaming
  <2> QED BY <2>1, <2>2
<1>4. Steady'
  BY <1>1, <1>3 DEF Steady
<1>5. Retried'
  <2>1. Ran' <=> Ran
    BY DEF Unretried, Ran
  <2>2. ~Failing' => ~Failing
    BY <2>1 DEF Failing, Replied, isStreaming
  <2> QED BY <2>2 DEF Retried
<1>6. Recovered' /\ OnceRecovered
  BY DEF Unretried, Recovered, OnceRecovered
<1> QED BY <1>4, <1>5, <1>6 DEF Onward

LEMMA BeforeStartOnward == ASSUME RetryInv, NEW m \in Users, BeforeStart(m) PROVE Onward
<1> Steady /\ HistType /\ AgentType /\ SessType /\ CallType /\ PlaceType
  BY DEF RetryInv, Steady, Types
<1>1. call[m].pc = "hooks" /\ UNCHANGED <<manual, hist>>
  BY DEF BeforeStart
<1>2. CASE isStreaming
  <2>1. FlushBash /\ Rejected(m)
    BY <1>2 DEF BeforeStart
  <2>2. SameAgent /\ SessType' /\ sess'.sleeper = sess.sleeper /\ SameTries
    BY <1>1, <2>1, FlushBashFields, FlushBashTries
  <2> QED BY <1>1, <2>1, <2>2, RejectedOnward
<1>3. CASE ~isStreaming
  <2> DEFINE msgs == <<User(m)>>
  <2>1. /\ agent' = StartRun(m, msgs, FALSE, agent.messages)
        /\ call' = [call EXCEPT ![m].pc = "running", ![m].stage = "own"]
        /\ UNCHANGED <<queue, shown, sess, ui>>
    BY <1>3 DEF BeforeStart
  <2>2. msgs # <<>> /\ msgs = <<User(m)>>
    OBVIOUS
  <2> HIDE DEF msgs
  <2>3. /\ DOMAIN agent' = DOMAIN agent /\ agent'.at = IF msgs = <<>> THEN "poll" ELSE "deliver"
        /\ agent'.todo = msgs /\ agent'.then = "request" /\ agent'.owner = m
    BY <2>1, StartRunFields
  <2>4. agent'.at = "deliver" /\ \E x \in Users : agent'.todo = <<User(x)>>
    BY <2>2, <2>3
  <2>5. Moves(m, "running", "own") /\ Unretried
    BY <1>1, <2>1 DEF Moves, CallType, Unretried
  <2>6. "own" \in Stages /\ queue' \in Seq(Users)
    BY <2>1 DEF Stages, PlaceType
  <2> QED BY <1>1, <1>3, <2>1, <2>3, <2>4, <2>5, <2>6, RunOnward
<1> QED BY <1>2, <1>3

LEMMA ContinueOnward == ASSUME RetryInv, NEW m \in Users, Continue(m) PROVE Onward
<1> Steady /\ HistType /\ AgentType /\ SessType /\ CallType /\ PlaceType
  BY DEF RetryInv, Steady, Types
<1> DEFINE steered == EndsWithReply(agent.messages)
           refused == isStreaming \/ agent.messages = <<>> \/ (steered /\ queue = <<>>)
           msgs == IF steered THEN <<User(Head(queue))>> ELSE <<>>
           s == IF call[m].stage = "check" THEN "pre" ELSE call[m].stage
<1>1. call[m].pc = "continue" /\ manual' = manual
  BY DEF Continue
<1>2. CASE refused
  <2>1. FlushBash /\ Rejected(m) /\ hist' = [hist EXCEPT !.clean = FALSE]
    BY <1>2 DEF Continue
  <2>2. hist'.delivered = hist.delivered /\ hist'.errors = hist.errors /\ hist'.recovered = hist.recovered
    BY <2>1 DEF HistType
  <2>3. SameAgent /\ SessType' /\ sess'.sleeper = sess.sleeper /\ SameTries
    BY <2>1, <2>2, FlushBashFields, FlushBashTries
  <2> QED BY <1>1, <2>1, <2>2, <2>3, RejectedOnward
<1>3. CASE ~refused
  <2>1. /\ agent' = StartRun(m, msgs, steered, agent.messages)
        /\ queue' = IF steered THEN Tail(queue) ELSE queue
        /\ call' = [call EXCEPT ![m].pc = "running", ![m].stage = s]
        /\ UNCHANGED <<shown, sess, ui, hist>>
    BY <1>3 DEF Continue
  <2>2. ~isStreaming /\ (steered => queue # <<>>)
    BY <1>3
  <2> HIDE DEF steered
  <2>3. /\ agent'.at = IF msgs = <<>> THEN "poll" ELSE "deliver"
        /\ agent'.todo = msgs /\ agent'.owner = m /\ agent'.then = "request" /\ DOMAIN agent' = DOMAIN agent
    BY <2>1, StartRunFields
  <2>4. /\ queue' \in Seq(Users) /\ agent'.at \in {"poll", "deliver"}
        /\ agent'.at = "deliver" => \E x \in Users : agent'.todo = <<User(x)>>
    <3>1. CASE steered
      <4>1. Tail(queue) \in Seq(Users) /\ Head(queue) \in Users
        BY <2>2, <3>1, ElementsOfTail DEF PlaceType
      <4> QED BY <2>1, <2>3, <3>1, <4>1
    <3>2. CASE ~steered
      BY <2>1, <2>3, <3>2 DEF PlaceType
    <3> QED BY <3>1, <3>2
  <2> HIDE DEF msgs
  <2>5. s \in Stages
    BY DEF CallType, Stages
  <2> HIDE DEF s
  <2>6. Moves(m, "running", s) /\ Unretried
    BY <1>1, <2>1 DEF Moves, CallType, Unretried
  <2> QED BY <1>1, <2>1, <2>2, <2>3, <2>4, <2>5, <2>6, RunOnward
<1> QED BY <1>2, <1>3

\* A message goes where its call says.
LEMMA EnteredOnward ==
  ASSUME RetryInv, NEW m \in Users, call[m].pc = "new", NEW p \in {"held", "done", "input", "called"},
         Moves(m, p, call[m].stage), Unretried, SameTries, SameAgent, sess' = sess,
         queue' = Queued(queue, m, p, "done"), shown' = Queued(shown, m, p, "done"),
         ui'.held = Queued(ui.held, m, p, "held"), ui'.inputs = Queued(ui.inputs, m, p, "input"),
         DOMAIN ui' = DOMAIN ui, manual' = manual, hist'.delivered = hist.delivered
  PROVE  Onward
<1> Steady /\ Types /\ AgentType /\ SessType /\ CallType /\ PlaceType /\ Aside(m)
  BY DEF RetryInv, Steady, Types
<1>0. {queue, shown, ui.held, ui.inputs} \subseteq Seq(Users)
  BY DEF PlaceType
<1>1. /\ {queue', shown', ui'.held, ui'.inputs} \subseteq Seq(Users)
      /\ \A x : x \in Elements(shown') <=> x \in Elements(shown) \/ (p = "done" /\ x = m)
      /\ \A x : x \in Elements(ui'.held) <=> x \in Elements(ui.held) \/ (p = "held" /\ x = m)
      /\ \A x : x \in Elements(ui'.inputs) <=> x \in Elements(ui.inputs) \/ (p = "input" /\ x = m)
  <2> DEFINE w == ui'.held
             v == ui'.inputs
  <2>1. queue' \in Seq(Users)
    BY <1>0, ElementsOfQueued
  <2>2. shown' \in Seq(Users) /\ \A x : x \in Elements(shown') <=> x \in Elements(shown) \/ (p = "done" /\ x = m)
    BY <1>0, ElementsOfQueued
  <2>3. w \in Seq(Users) /\ \A x : x \in Elements(w) <=> x \in Elements(ui.held) \/ (p = "held" /\ x = m)
    BY <1>0, ElementsOfQueued
  <2>4. v \in Seq(Users) /\ \A x : x \in Elements(v) <=> x \in Elements(ui.inputs) \/ (p = "input" /\ x = m)
    BY <1>0, ElementsOfQueued
  <2> QED BY <2>1, <2>2, <2>3, <2>4
<1>2. Types'
  <2>1. CallType'
    BY MovesType DEF CallType, Waiting, Over
  <2>2. PlaceType'
    BY <1>1 DEF PlaceType
  <2> QED BY <2>1, <2>2, SameAgentType, UnchangedTypes DEF Types
<1>3. /\ m \notin Elements(shown) /\ m \notin Elements(ui.held) /\ m \notin Elements(ui.inputs)
      /\ call[m].batch = <<>> /\ m \notin Elements(<<>>)
  BY ElementsOfEmpty DEF Aside
<1>4. \A y \in Users : m \notin Elements(call[y].batch)
  BY <1>3 DEF Aside
<1>5. ASSUME NEW x \in Users PROVE Aside(x)' /\ Owned(x)'
  <2> Aside(x) /\ Owned(x)
    BY DEF Steady
  <2>1. AtMostOnce(ui'.inputs, x)
    BY <1>0, <1>3, ElementsOfQueued DEF Aside
  <2>2. /\ \A y \in Users : call'[y].batch = call[y].batch
        /\ call'[m].pc = p /\ (x # m => call'[x].pc = call[x].pc)
    BY DEF Moves
  <2>3. Aside(x)'
    <3>1. CASE x = m
      BY <1>1, <1>3, <1>4, <2>1, <2>2, <3>1 DEF Aside
    <3>2. CASE x # m
      BY <1>1, <2>1, <2>2, <3>2 DEF Aside
    <3> QED BY <3>1, <3>2
  <2>4. Owned(x)'
    BY <2>2 DEF Owned, SameAgent, SameHand
  <2> QED BY <2>3, <2>4
<1>6. Steady'
  BY <1>2, <1>5 DEF Steady
<1> QED BY <1>6, NothingTried DEF Onward, SameAgent, SameHand

LEMMA SubmitOnward == ASSUME RetryInv, NEW m \in Users, Submit(m) PROVE Onward
<1> Steady /\ HistType /\ AgentType /\ SessType /\ CallType /\ PlaceType
  BY DEF RetryInv, Steady, Types
<1>1. /\ call[m].pc = "new" /\ UNCHANGED <<agent, sess, manual>> /\ hist'.delivered = hist.delivered
      /\ hist'.errors = hist.errors /\ hist'.recovered = hist.recovered
  BY DEF Submit, HistType
<1>2. SameAgent /\ SameTries
  BY <1>1 DEF SameAgent, SameHand, SameTries
<1> DEFINE held == front = "interactive" /\ isCompacting
<1>3. CASE held
  <2>1. /\ ui' = [ui EXCEPT !.held = Append(@, m)] /\ call' = At(m, "held") /\ UNCHANGED <<queue, shown>>
    BY <1>3 DEF Submit
  <2>2. /\ DOMAIN ui' = DOMAIN ui /\ ui'.held = Append(ui.held, m) /\ ui'.inputs = ui.inputs
    BY <2>1 DEF PlaceType
  <2>3. Moves(m, "held", call[m].stage) /\ Unretried
    BY <1>1, <2>1, AtMoves, AtUnretried
  <2> QED BY <1>1, <1>2, <2>1, <2>2, <2>3, EnteredOnward DEF Queued
<1>4. CASE ~held /\ isStreaming
  <2>1. Steer(m)
    BY <1>4 DEF Submit
  <2>2. call' = At(m, "done") /\ queue' = Append(queue, m) /\ shown' = Append(shown, m) /\ ui' = ui
    BY <2>1 DEF Steer
  <2>3. Moves(m, "done", call[m].stage) /\ Unretried
    BY <1>1, <2>2, AtMoves, AtUnretried
  <2> QED BY <1>1, <1>2, <2>2, <2>3, EnteredOnward DEF Queued
<1>5. CASE ~held /\ ~isStreaming /\ front = "interactive"
  <2>1. /\ ui' = [ui EXCEPT !.inputs = Append(@, m)] /\ call' = At(m, "input") /\ UNCHANGED <<queue, shown>>
    BY <1>5 DEF Submit
  <2>2. /\ DOMAIN ui' = DOMAIN ui /\ ui'.inputs = Append(ui.inputs, m) /\ ui'.held = ui.held
    BY <2>1 DEF PlaceType
  <2>3. Moves(m, "input", call[m].stage) /\ Unretried
    BY <1>1, <2>1, AtMoves, AtUnretried
  <2> QED BY <1>1, <1>2, <2>1, <2>2, <2>3, EnteredOnward DEF Queued
<1>6. CASE ~held /\ ~isStreaming /\ front # "interactive"
  <2>1. /\ ui' = ui /\ call' = At(m, "called") /\ UNCHANGED <<queue, shown>>
    BY <1>6 DEF Submit
  <2>2. Moves(m, "called", call[m].stage) /\ Unretried
    BY <1>1, <2>1, AtMoves, AtUnretried
  <2> QED BY <1>1, <1>2, <2>1, <2>2, EnteredOnward DEF Queued
<1> QED BY <1>3, <1>4, <1>5, <1>6

LEMMA NextInputOnward == ASSUME RetryInv, NextInput PROVE Onward
<1> Steady /\ HistType /\ Types /\ AgentType /\ SessType /\ CallType /\ PlaceType
  BY DEF RetryInv, Steady, Types
<1> DEFINE m == Head(ui.inputs)
<1>1. /\ ui.inputs # <<>> /\ ui' = [ui EXCEPT !.main = m, !.inputs = Tail(@)] /\ call' = At(m, "called")
      /\ UNCHANGED <<agent, queue, shown, sess, manual, hist>>
  BY DEF NextInput
<1>2. /\ Tail(ui.inputs) \in Seq(Users) /\ m \in Users /\ Elements(ui.inputs) = {m} \cup Elements(Tail(ui.inputs))
      /\ AtMostOnce(ui.inputs, m) => m \notin Elements(Tail(ui.inputs))
      /\ \A x : AtMostOnce(ui.inputs, x) => AtMostOnce(Tail(ui.inputs), x)
  BY <1>1, ElementsOfTail DEF PlaceType
<1> HIDE DEF m
<1>3. DOMAIN ui' = DOMAIN ui /\ ui'.inputs = Tail(ui.inputs) /\ ui'.held = ui.held
  BY <1>1 DEF PlaceType
<1>4. Moves(m, "called", call[m].stage)
  BY <1>1, <1>2, AtMoves
<1>5. Types'
  <2>1. CallType'
    BY <1>2, <1>4, MovesType DEF CallType, Waiting
  <2>2. PlaceType'
    BY <1>1, <1>2, <1>3 DEF PlaceType
  <2> QED BY <1>1, <2>1, <2>2, UnchangedTypes DEF Types
<1>6. call[m].pc = "input" /\ m \notin Elements(ui'.inputs) /\ call[m].batch = <<>>
  BY <1>2, <1>3 DEF Steady, Aside
<1>7. /\ m \notin Elements(shown) /\ m \notin Elements(ui.held)
      /\ \A y \in Users : m \notin Elements(call[y].batch)
  BY <1>2, <1>6, ElementsOfEmpty DEF Steady, Aside
<1>8. ASSUME NEW x \in Users PROVE Aside(x)' /\ Owned(x)'
  <2> Aside(x) /\ Owned(x)
    BY DEF Steady
  <2>1. /\ \A y \in Users : call'[y].batch = call[y].batch
        /\ call'[m].pc = "called" /\ (x # m => call'[x].pc = call[x].pc)
    BY <1>2, <1>4 DEF Moves
  <2>2. Aside(x)'
    <3>1. CASE x = m
      BY <1>1, <1>2, <1>3, <1>6, <1>7, <2>1, <3>1 DEF Aside
    <3>2. CASE x # m
      BY <1>1, <1>2, <1>3, <2>1, <3>2 DEF Aside
    <3> QED BY <3>1, <3>2
  <2>3. Owned(x)'
    BY <1>1, <1>6, <2>1 DEF Owned
  <2> QED BY <2>2, <2>3
<1>9. Steady'
  BY <1>5, <1>8 DEF Steady
<1>10. Unretried /\ SameTries
  BY <1>1, <1>2, <1>6, AtUnretried DEF SameTries
<1> QED BY <1>1, <1>9, <1>10, NothingTried DEF Onward

\* Waiting messages go back to the editor.
LEMMA RestoreOnward ==
  ASSUME RetryInv, NEW abort \in BOOLEAN, restoreQueuedMessagesToEditor(abort),
         hist'.delivered = hist.delivered, hist'.errors = hist.errors, hist'.recovered = hist.recovered
  PROVE  Onward
<1> Steady /\ AgentType /\ SessType /\ CallType /\ PlaceType
  BY DEF RetryInv, Steady, Types
<1> DEFINE back == Elements(shown) \cup Elements(ui.held)
<1>1. /\ queue' = <<>> /\ shown' = <<>> /\ ui' = [ui EXCEPT !.held = <<>>] /\ UNCHANGED <<sess, manual>>
      /\ agent' = [agent EXCEPT !.aborted = @ \/ abort]
  BY DEF restoreQueuedMessagesToEditor
<1>2. ToSet(shown \o ui.held) = back
  <2>1. shown \o ui.held \in Seq(Users) /\ Elements(shown \o ui.held) = back
    BY ElementsOfConcat DEF PlaceType
  <2> QED BY <2>1, ToSetIsElements
<1>3. call' = [m \in Users |-> IF m \in back THEN [NewCall EXCEPT !.pc = "editor"] ELSE call[m]]
  BY <1>2 DEF restoreQueuedMessagesToEditor
<1>4. \A y \in Users : y \in back => call[y].pc \in {"done", "held"}
  BY DEF Steady, Aside
<1> HIDE DEF back
<1>5. \A y \in Users : y \in back =>
        /\ call'[y].pc = "editor" /\ call'[y].stage = "own" /\ call'[y].batch = <<>>
        /\ DOMAIN call'[y] = DOMAIN call[y] /\ call'[y].reply = NoReply /\ call'[y].willRetry = FALSE
  BY <1>3, NewCallHas, NewCallAsks DEF NewCallFields, CallType
<1>6. DOMAIN call' = Users /\ \A y \in Users : y \notin back => call'[y] = call[y]
  BY <1>3
<1>7. DOMAIN ui' = DOMAIN ui /\ ui'.held = <<>> /\ ui'.inputs = ui.inputs
  BY <1>1 DEF PlaceType
<1>8. SameAgent
  BY <1>1 DEF SameAgent, SameHand, AgentType
<1>9. Types'
  <2>1. <<>> \in Seq(Users)
    OBVIOUS
  <2>2. \A y \in Users : call'[y].batch \in Seq(Users)
    BY <1>5, <1>6, <2>1 DEF CallType
  <2>3. CallType'
    BY <1>5, <1>6, <2>2 DEF CallType, Stages, Over
  <2>4. PlaceType'
    BY <1>1, <1>7, <2>1 DEF PlaceType
  <2> QED BY <1>1, <1>8, <2>3, <2>4, SameAgentType, UnchangedTypes DEF Types
<1>10. ASSUME NEW x \in Users PROVE Aside(x)' /\ Owned(x)'
  <2> Aside(x) /\ Owned(x)
    BY DEF Steady
  <2>1. x \notin Elements(<<>>)
    BY ElementsOfEmpty
  <2>2. \A y \in Users : x \in Elements(call'[y].batch) => y \notin back /\ x \in Elements(call[y].batch)
    BY <1>5, <1>6, <2>1
  <2>3. ASSUME NEW y \in Users, x \in Elements(call'[y].batch)
        PROVE  /\ y # x => call'[x].pc \in {"done", "editor"}
               /\ \A z \in Users : x \in Elements(call'[z].batch) => z = y
    BY <1>5, <1>6, <2>2, <2>3 DEF Aside
  <2>4. x \in Elements(ui'.inputs) => call'[x].pc = "input"
    BY <1>4, <1>6, <1>7 DEF Aside
  <2>5. /\ call'[x].pc \in {"new", "input", "held"} => call'[x].batch = <<>>
        /\ call'[x].batch # <<>> => x \in Elements(call'[x].batch)
    BY <1>5, <1>6 DEF Aside
  <2>6. Aside(x)'
    BY <1>1, <1>7, <2>1, <2>3, <2>4, <2>5 DEF Aside
  <2>7. Owned(x)'
    BY <1>1, <1>4, <1>6, <1>8 DEF Owned, SameAgent, SameHand
  <2> QED BY <2>6, <2>7
<1>11. Steady'
  BY <1>9, <1>10 DEF Steady
<1>12. Unretried /\ SameTries
  BY <1>1, <1>4, <1>5, <1>6 DEF Unretried, SameTries
<1> QED BY <1>8, <1>11, <1>12, NothingTried DEF Onward, SameAgent, SameHand

\* A flush sets messages aside with the one call it makes.
LEMMA FlushOnward ==
  ASSUME RetryInv, NEW retry, NEW calls, Within(calls), compaction_end(retry, calls),
         \A y \in Users : calls[y].reply = call[y].reply /\ calls[y].willRetry = call[y].willRetry,
         SameAgent, SessType', sess'.sleeper = sess.sleeper, SameTries, DOMAIN manual' = DOMAIN manual,
         hist'.delivered = hist.delivered
  PROVE  Onward
<1> Steady /\ AgentType /\ SessType /\ CallType /\ PlaceType
  BY DEF RetryInv, Steady, Types
<1> DEFINE rest == Flushed(retry)
<1>1. /\ rest \in Seq(Users) /\ Elements(rest) \subseteq Elements(ui.held)
      /\ \A x, y : {x, y} \subseteq Elements(ui.held) \ Elements(rest) => x = y
  BY FlushedFields
<1>2. ToSet(rest) = Elements(rest) /\ ToSet(ui.held) = Elements(ui.held)
  BY <1>1, ToSetIsElements DEF PlaceType
<1>3. /\ queue' = queue \o rest /\ shown' = shown \o rest /\ ui' = [ui EXCEPT !.held = <<>>]
      /\ call' = [x \in Users |->
                    IF x \in Elements(rest) THEN [NewCall EXCEPT !.pc = "done"]
                    ELSE IF x \in Elements(ui.held) THEN [NewCall EXCEPT !.pc = "called", !.batch = ui.held]
                    ELSE calls[x]]
  BY <1>2 DEF compaction_end
<1> HIDE DEF rest
<1>4. /\ queue' \in Seq(Users)
      /\ shown' \in Seq(Users) /\ Elements(shown') = Elements(shown) \cup Elements(rest)
  BY <1>1, <1>3, ElementsOfConcat DEF PlaceType
<1>5. DOMAIN ui' = DOMAIN ui /\ ui'.held = <<>> /\ ui'.inputs = ui.inputs
  BY <1>3 DEF PlaceType
<1>6. DOMAIN call' = Users /\ \A y \in Users :
        /\ y \in Elements(rest) =>
             /\ DOMAIN call'[y] = DOMAIN call[y] /\ call'[y].reply = NoReply /\ call'[y].willRetry = FALSE
             /\ call'[y].pc = "done" /\ call'[y].stage = "own" /\ call'[y].batch = <<>>
        /\ y \notin Elements(rest) /\ y \in Elements(ui.held) =>
             /\ DOMAIN call'[y] = DOMAIN call[y] /\ call'[y].reply = NoReply /\ call'[y].willRetry = FALSE
             /\ call'[y].pc = "called" /\ call'[y].stage = "own" /\ call'[y].batch = ui.held
        /\ y \notin Elements(ui.held) => call'[y] = calls[y]
  BY <1>1, <1>3, NewCallHas, NewCallAsks DEF NewCallFields, CallType
<1>7. <<>> \in Seq(Users) /\ ui.held \in Seq(Users)
  BY DEF PlaceType
<1>8. \A y \in Users : y \in Elements(ui.held) =>
        /\ call[y].pc = "held" /\ call[y].batch = <<>> /\ y \notin Elements(ui.inputs) /\ y \notin Elements(shown)
        /\ \A z \in Users : y \notin Elements(call[z].batch)
  BY ElementsOfEmpty DEF Steady, Aside
<1>9. Types'
  <2>1. CallType'
    <3> SUFFICES ASSUME NEW y \in Users
                 PROVE  /\ DOMAIN call'[y] = DOMAIN call[y]
                        /\ call'[y].pc \in Waiting \cup Over \cup InPrompt
                        /\ call'[y].stage \in Stages
                        /\ call'[y].batch \in Seq(Users)
      BY <1>6 DEF CallType
    <3>1. CASE y \in Elements(rest)
      BY <1>6, <1>7, <3>1 DEF Stages, Over
    <3>2. CASE y \notin Elements(rest) /\ y \in Elements(ui.held)
      BY <1>6, <1>7, <3>2 DEF Stages, Waiting
    <3>3. CASE y \notin Elements(ui.held)
      BY <1>6, <3>3 DEF Within, CallType, Waiting, InPrompt
    <3> QED BY <1>1, <3>1, <3>2, <3>3
  <2>2. PlaceType'
    BY <1>4, <1>5, <1>7 DEF PlaceType
  <2> QED BY <2>1, <2>2, SameAgentType DEF Types
<1>10. \A y \in Users : y \notin Elements(ui.held) =>
         /\ call'[y].batch = call[y].batch /\ call'[y].reply = call[y].reply /\ call'[y].willRetry = call[y].willRetry
         /\ \/ call'[y].pc = call[y].pc
            \/ /\ call[y].pc \in {"summarise", "compacted"} /\ call'[y].pc \in {"hooks", "continue", "finish"}
  BY <1>6 DEF Within
<1>11. ASSUME NEW x \in Users PROVE Aside(x)' /\ Owned(x)'
  <2> Aside(x) /\ Owned(x)
    BY DEF Steady
  <2>1. x \notin Elements(<<>>)
    BY ElementsOfEmpty
  <2>2. CASE x \in Elements(ui.held)
    <3>1. \A y \in Users : x \in Elements(call'[y].batch) => y \in Elements(ui.held) \ Elements(rest)
      BY <1>6, <1>8, <1>10, <2>1, <2>2
    <3>2. ASSUME NEW y \in Users, x \in Elements(call'[y].batch)
          PROVE  /\ y # x => call'[x].pc \in {"done", "editor"}
                 /\ \A z \in Users : x \in Elements(call'[z].batch) => z = y
      BY <1>1, <1>6, <2>2, <3>1, <3>2
    <3>3. x \notin Elements(ui'.inputs) /\ AtMostOnce(ui'.inputs, x)
      BY <1>5, <1>8, <2>2 DEF Aside
    <3>4. x \in Elements(shown') => call'[x].pc = "done"
      BY <1>4, <1>6, <1>8, <2>2
    <3>5. /\ call'[x].pc \in {"new", "input", "held"} => call'[x].batch = <<>>
          /\ call'[x].batch # <<>> => x \in Elements(call'[x].batch)
      BY <1>6, <2>2
    <3>6. Aside(x)'
      BY <1>5, <2>1, <3>2, <3>3, <3>4, <3>5 DEF Aside
    <3>7. Owned(x)'
      BY <1>8, <2>2 DEF Owned, SameAgent, SameHand
    <3> QED BY <3>6, <3>7
  <2>3. CASE x \notin Elements(ui.held)
    <3>1. \A y \in Users : x \in Elements(call'[y].batch) => y \notin Elements(ui.held) /\ x \in Elements(call[y].batch)
      BY <1>6, <1>10, <2>1, <2>3
    <3>2. ASSUME NEW y \in Users, x \in Elements(call'[y].batch)
          PROVE  /\ y # x => call'[x].pc \in {"done", "editor"}
                 /\ \A z \in Users : x \in Elements(call'[z].batch) => z = y
      BY <1>10, <2>3, <3>1, <3>2 DEF Aside
    <3>3. x \in Elements(ui'.inputs) => call'[x].pc = "input"
      BY <1>5, <1>10, <2>3 DEF Aside
    <3>4. x \in Elements(shown') => call'[x].pc = "done"
      BY <1>1, <1>4, <1>10, <2>3 DEF Aside
    <3>5. /\ call'[x].pc \in {"new", "input", "held"} => call'[x].batch = <<>>
          /\ call'[x].batch # <<>> => x \in Elements(call'[x].batch)
      BY <1>10, <2>3 DEF Aside
    <3>6. Aside(x)'
      BY <1>5, <2>1, <3>2, <3>3, <3>4, <3>5 DEF Aside
    <3>7. Owned(x)'
      BY <1>10, <2>3 DEF Owned, SameAgent, SameHand
    <3> QED BY <3>6, <3>7
  <2> QED BY <2>2, <2>3
<1>12. Steady'
  BY <1>9, <1>11 DEF Steady
<1>13. Unretried
  <2> SUFFICES ASSUME NEW y \in Users
               PROVE  /\ call'[y].pc = "ran" <=> call[y].pc = "ran"
                      /\ call'[y].reply \in {call[y].reply, NoReply}
                      /\ call'[y].willRetry => call[y].willRetry
    BY DEF Unretried
  <2>1. CASE y \in Elements(ui.held)
    BY <1>6, <1>8, <2>1
  <2>2. CASE y \notin Elements(ui.held)
    BY <1>10, <2>2
  <2> QED BY <2>1, <2>2
<1> QED BY <1>12, <1>13, NothingTried DEF Onward, SameAgent, SameHand

LEMMA AtAsksAlike ==
  ASSUME CallType, NEW m \in Users, NEW p, NEW calls, calls = At(m, p)
  PROVE  \A y \in Users : calls[y].reply = call[y].reply /\ calls[y].willRetry = call[y].willRetry
  BY DEF CallType, At

LEMMA AutoFailsOnward == ASSUME RetryInv, NEW m \in Users, AutoFails(m) PROVE Onward
<1> Steady /\ HistType /\ SessType /\ CallType
  BY DEF RetryInv, Steady, Types
<1> DEFINE p == NotCompacted(m, queue \o Flushed(FALSE))
           calls == At(m, p)
<1>1. /\ call[m].pc = "summarise" /\ UNCHANGED <<agent, sess, manual>>
      /\ hist'.delivered = hist.delivered /\ hist'.errors = hist.errors /\ hist'.recovered = hist.recovered
      /\ compaction_end(FALSE, calls)
  BY DEF AutoFails, HistType
<1>2. p \in {"hooks", "continue", "finish"} /\ (p = "hooks" => call[m].stage # "own")
  BY NotCompactedFields
<1> HIDE DEF p
<1>3. Within(calls) /\ \A y \in Users : calls[y].reply = call[y].reply /\ calls[y].willRetry = call[y].willRetry
  BY <1>1, <1>2, AtWithin, AtAsksAlike
<1> HIDE DEF calls
<1>4. SameAgent /\ SameTries /\ SessType' /\ sess'.sleeper = sess.sleeper /\ DOMAIN manual' = DOMAIN manual
  BY <1>1, UnchangedTypes DEF SameAgent, SameHand, SameTries
<1> QED BY <1>1, <1>3, <1>4, FlushOnward

LEMMA AutoDoneOnward == ASSUME RetryInv, NEW m \in Users, AutoDone(m) PROVE Onward
<1> Steady /\ HistType /\ SessType /\ CallType /\ AgentType
  BY DEF RetryInv, Steady, Types
<1> DEFINE retry == call[m].willRetry
           p == IF retry \/ queue \o Flushed(retry) # <<>> THEN "continue" ELSE NotCompacted(m, <<>>)
           calls == At(m, p)
<1>1. /\ call[m].pc = "compacted" /\ UNCHANGED <<sess, manual, hist>> /\ compaction_end(retry, calls)
      /\ agent' = [agent EXCEPT !.messages = IF retry /\ EndsWithReply(@) /\ Failed(Last(@)) THEN Front(@) ELSE @]
  BY DEF AutoDone
<1>2. p \in {"hooks", "continue", "finish"} /\ (p = "hooks" => call[m].stage # "own")
  BY NotCompactedFields
<1> HIDE DEF p
<1>3. Within(calls) /\ \A y \in Users : calls[y].reply = call[y].reply /\ calls[y].willRetry = call[y].willRetry
  BY <1>1, <1>2, AtWithin, AtAsksAlike
<1> HIDE DEF calls
<1>4. SameAgent
  BY <1>1 DEF AgentType, SameAgent, SameHand
<1>5. SessType' /\ sess'.sleeper = sess.sleeper /\ DOMAIN manual' = DOMAIN manual /\ SameTries
  BY <1>1, UnchangedTypes DEF SameTries
<1> HIDE DEF retry
<1> QED BY <1>1, <1>3, <1>4, <1>5, FlushOnward

LEMMA CompactEndsOnward == ASSUME RetryInv, CompactEnds PROVE Onward
<1> Steady /\ CallType /\ AgentType /\ SessType /\ PlaceType
  BY DEF RetryInv, Steady, Types
<1>1. /\ UNCHANGED <<agent, hist>> /\ compaction_end(FALSE, call) /\ sess' = [sess EXCEPT !.connected = TRUE]
      /\ DOMAIN manual' = DOMAIN manual
  BY DEF CompactEnds, PlaceType
<1>2. SessType' /\ sess'.sleeper = sess.sleeper /\ SameTries
  BY <1>1 DEF SessType, SameTries
<1>3. SameAgent
  BY <1>1 DEF SameAgent, SameHand
<1>4. Within(call)
  BY DEF Within
<1> QED BY <1>1, <1>2, <1>3, <1>4, FlushOnward

\* A step in which no call moves, asks or is answered.
LEMMA NoneGoesOn ==
  ASSUME RetryInv, SamePlaces, SameAgent, SessType', sess'.sleeper = sess.sleeper, SameTries, Unretried,
         DOMAIN call' = Users, \A y \in Users : SameCall(y) /\ DOMAIN call'[y] = DOMAIN call[y]
  PROVE  Onward
<1>1. Steady'
  BY NoneGoes DEF RetryInv
<1> QED BY <1>1, NothingTried DEF Onward, SameAgent, SameHand

LEMMA SameCallHas ==
  ASSUME CallType, call' = call
  PROVE  /\ Unretried /\ DOMAIN call' = Users
         /\ \A y \in Users : SameCall(y) /\ DOMAIN call'[y] = DOMAIN call[y]
  BY DEF CallType, Unretried, SameCall

\* abortRetry wakes the call that sleeps.
LEMMA abortRetryOnward ==
  ASSUME RetryInv, SamePlaces, SameAgent, SessType', sess'.sleeper = sess.sleeper, SameTries, call' = abortRetry
  PROVE  Onward
<1> Steady /\ CallType /\ SessType
  BY DEF RetryInv, Steady, Types
<1>1. CASE sess.sleeper = None
  BY <1>1, SameCallHas, NoneGoesOn DEF abortRetry
<1>2. CASE sess.sleeper # None
  <2> DEFINE m == sess.sleeper
  <2>1. m \in Users /\ call' = At(m, "cancelled")
    BY <1>2 DEF SessType, abortRetry
  <2>2. call[m].pc \in {"sleeping", "cancelled"}
    BY <2>1 DEF Steady, Owned
  <2>3. Moves(m, "cancelled", call[m].stage) /\ Unretried
    BY <2>1, <2>2, AtMoves, AtUnretried
  <2>4. \A x \in Users : sess'.sleeper = x => call'[x].pc \in {"sleeping", "cancelled"}
    BY <2>1, <2>3 DEF Moves
  <2>5. /\ call[m].stage \in Stages /\ call[m].pc \notin Idlers \cup {"running"}
        /\ "cancelled" \in InPrompt \cup {"hooks", "done", "rejected"}
    BY <2>1, <2>2 DEF CallType, Idlers, InPrompt
  <2> HIDE DEF m
  <2> QED BY <2>1, <2>3, <2>4, <2>5, OneGoesOn
<1> QED BY <1>1, <1>2

LEMMA CompactOnward == ASSUME RetryInv, Compact PROVE Onward
<1> HistType /\ AgentType /\ SessType /\ PlaceType
  BY DEF RetryInv, Steady, Types
<1>1. /\ sess' = [sess EXCEPT !.connected = FALSE] /\ call' = abortRetry
      /\ agent' = [agent EXCEPT !.aborted = isStreaming] /\ UNCHANGED <<queue, shown, ui>>
      /\ DOMAIN manual' = DOMAIN manual /\ hist'.delivered = hist.delivered
      /\ hist'.errors = hist.errors /\ hist'.recovered = hist.recovered
  BY DEF Compact, PlaceType, HistType
<1>2. SameAgent
  BY <1>1 DEF SameAgent, SameHand, AgentType
<1>3. SessType' /\ sess'.sleeper = sess.sleeper /\ SameTries
  BY <1>1 DEF SessType, SameTries
<1>4. SamePlaces
  BY <1>1 DEF SamePlaces
<1> QED BY <1>1, <1>2, <1>3, <1>4, abortRetryOnward

LEMMA CancelOnward == ASSUME RetryInv, Cancel PROVE Onward
<1> HistType /\ AgentType /\ SessType /\ CallType /\ PlaceType
  BY DEF RetryInv, Steady, Types
<1>1. hist'.delivered = hist.delivered /\ hist'.errors = hist.errors /\ hist'.recovered = hist.recovered
  BY DEF Cancel, HistType
<1>2. CASE CancelRetry
  <2>1. call' = abortRetry /\ UNCHANGED <<queue, shown, sess, manual, ui>>
    BY <1>2 DEF CancelRetry
  <2>2. SameAgent
    BY <1>2 DEF CancelRetry, SameAgent, SameHand, AgentType
  <2>3. SamePlaces /\ SameTries
    BY <1>1, <2>1 DEF SamePlaces, SameTries
  <2> QED BY <2>1, <2>2, <2>3, abortRetryOnward, UnchangedTypes
<1>3. CASE abortCompaction
  <2>1. /\ call' = [m \in Users |-> [call[m] EXCEPT !.aborted = @ \/ call[m].pc = "summarise"]]
        /\ manual' = [manual EXCEPT !.aborted = @ \/ manual.pc \in {"prepare", "summarise"}]
        /\ UNCHANGED <<agent, queue, shown, sess, ui>>
    BY <1>3 DEF abortCompaction
  <2>2. DOMAIN call' = Users /\ \A y \in Users : SameCall(y) /\ DOMAIN call'[y] = DOMAIN call[y]
    BY <2>1 DEF CallType, SameCall
  <2>3. Unretried
    BY <2>1 DEF CallType, Unretried
  <2>4. SamePlaces /\ SameAgent /\ SameTries
    BY <1>1, <2>1 DEF SamePlaces, PlaceType, SameAgent, SameHand, SameTries
  <2> QED BY <2>1, <2>2, <2>3, <2>4, NoneGoesOn, UnchangedTypes
<1>4. ASSUME NEW abort \in BOOLEAN, restoreQueuedMessagesToEditor(abort) PROVE Onward
  BY <1>1, <1>4, RestoreOnward
<1> QED BY <1>2, <1>3, <1>4 DEF Cancel

LEMMA CompactStepsOnward ==
  ASSUME RetryInv, CompactReady \/ CompactPrepared \/ CompactSummarised PROVE Onward
<1> AgentType /\ SessType /\ PlaceType /\ CallType
  BY DEF RetryInv, Steady, Types
<1>1. UNCHANGED <<queue, shown, sess, call, ui, hist>>
  BY DEF CompactReady, CompactPrepared, CompactSummarised
<1>2. DOMAIN manual' = DOMAIN manual
  BY DEF CompactReady, CompactPrepared, CompactSummarised
<1>3. SameAgent
  <2>1. CASE agent' = agent
    BY <2>1 DEF SameAgent, SameHand
  <2>2. CASE agent' = [agent EXCEPT !.messages = buildSessionContext(branch')]
    BY <2>2 DEF SameAgent, SameHand, AgentType
  <2> QED BY <2>1, <2>2 DEF CompactReady, CompactPrepared, CompactSummarised, Compacted
<1>4. SamePlaces /\ SameTries
  BY <1>1, <1>2 DEF SamePlaces, SameTries
<1> QED BY <1>1, <1>3, <1>4, SameCallHas, NoneGoesOn, UnchangedTypes

LEMMA recordBashResultOnward == ASSUME RetryInv, NEW b, recordBashResult(b) PROVE Onward
<1> HistType /\ AgentType /\ SessType /\ PlaceType /\ CallType
  BY DEF RetryInv, Steady, Types
<1>1. /\ UNCHANGED <<queue, shown, call, manual, ui>> /\ hist'.delivered = hist.delivered
      /\ hist'.errors = hist.errors /\ hist'.recovered = hist.recovered
  BY DEF recordBashResult, HistType
<1>2. /\ SameAgent /\ SessType' /\ sess'.sleeper = sess.sleeper
      /\ sess'.attempt = sess.attempt /\ sess'.overflow = sess.overflow
  <2>1. CASE isStreaming
    BY <2>1 DEF recordBashResult, SameAgent, SameHand, SessType
  <2>2. CASE ~isStreaming
    BY <2>2 DEF recordBashResult, SameAgent, SameHand, AgentType, SessType
  <2> QED BY <2>1, <2>2
<1>3. SamePlaces /\ SameTries
  BY <1>1, <1>2 DEF SamePlaces, SameTries
<1> QED BY <1>1, <1>2, <1>3, SameCallHas, NoneGoesOn

(***************************************************************************)
(* Every step.                                                             *)
(***************************************************************************)
LEMMA InitiallyRetried == Init => RetryInv
<1> HAVE Init
<1>1. HistType /\ Types
  <2>1. Inv /\ hist.clean
    BY InitialStates DEF Init
  <2> QED BY <2>1 DEF Inv, Good
<1>2. \A y \in Users : call[y] = NewCall
  BY DEF Init
<1>3. agent.at = "idle" /\ sess.sleeper = None /\ shown = <<>> /\ ui.held = <<>> /\ ui.inputs = <<>>
  BY DEF Init
<1>4. ASSUME NEW x \in Users PROVE Aside(x) /\ Owned(x)
  <2>1. \A y \in Users : call[y].pc = "new" /\ call[y].batch = <<>>
    BY <1>2 DEF NewCall
  <2>2. x \notin Elements(<<>>) /\ AtMostOnce(<<>>, x)
    BY ElementsOfEmpty
  <2>3. Aside(x)
    BY <1>3, <2>1, <2>2 DEF Aside
  <2>4. Owned(x)
    BY <1>3, SessionBounds DEF Owned
  <2> QED BY <2>3, <2>4
<1>5. Retried
  <2>1. hist.errors = 0 /\ sess.attempt = 0 /\ MaxRetries \in Nat
    BY SessionBounds DEF Init
  <2>2. ~Ran
    BY <1>2 DEF Ran, NewCall
  <2> QED BY <1>3, <2>1, <2>2 DEF Retried
<1>6. Recovered
  BY <1>2 DEF Init, Recovered, NewCall
<1> QED BY <1>1, <1>4, <1>5, <1>6 DEF RetryInv, Steady

LEMMA NextOnward == ASSUME RetryInv, Next PROVE Onward
<1>1. ASSUME NEW m \in Users, Call(m) PROVE Onward
  BY <1>1, CallOnward
<1>2. CASE Poll \/ CompactReady
  BY <1>2, PollOnward, CompactStepsOnward
<1>3. ASSUME NEW m \in Users, Settle(m) PROVE Onward
  BY <1>3, PostRunOnward, ContinueOnward, FinishOnward DEF Settle
<1>4. ASSUME NEW m \in Users, BeforeStart(m) PROVE Onward
  BY <1>4, BeforeStartOnward
<1>5. CASE Calm /\ AgentStep
  BY <1>5, DeliverOnward, ReplyArrivesOnward, ToolAnswersOnward, MessageEndOnward, RunEndsOnward DEF AgentStep
<1>6. CASE NextInput \/ CompactStep
  BY <1>6, NextInputOnward, CompactStepsOnward, CompactEndsOnward DEF CompactStep
<1>7. CASE UserStep
  BY <1>7, CompactOnward, CancelOnward, SubmitOnward, recordBashResultOnward DEF UserStep
<1>8. ASSUME NEW m \in Users, PromptStep(m) \/ AutoFails(m) PROVE Onward
  BY <1>4, <1>8, WakeOnward, RetryCancelledOnward, AutoAuthOnward, AutoSummarisedOnward, AutoDoneOnward,
     AutoFailsOnward DEF PromptStep
<1> QED BY <1>1, <1>2, <1>3, <1>4, <1>5, <1>6, <1>7, <1>8 DEF Next

LEMMA StutterOnward == ASSUME RetryInv, UNCHANGED vars PROVE Onward
<1> CallType /\ SessType
  BY DEF RetryInv, Steady, Types
<1> UNCHANGED <<agent, queue, shown, sess, call, manual, ui, hist>>
  BY DEF vars
<1>1. SamePlaces /\ SameAgent /\ SameTries
  BY DEF SamePlaces, SameAgent, SameHand, SameTries
<1> QED BY <1>1, SameCallHas, NoneGoesOn, UnchangedTypes

LEMMA RetryStep == RetryInv /\ [Next]_vars => RetryInv' /\ OnceRecovered
<1> SUFFICES ASSUME RetryInv, [Next]_vars PROVE RetryInv' /\ OnceRecovered
  OBVIOUS
<1>1. HistType'
  BY HistStep DEF RetryInv
<1>2. Onward
  BY NextOnward, StutterOnward
<1> QED BY <1>1, <1>2 DEF RetryInv, Onward

\* Whether calls of prompt() overlap or not, and whatever is cancelled meanwhile: the provider
\* fails at most 1 + retry.maxRetries times in a row before prompt() gives up (_prepareRetry), and
\* no recovery from a context overflow follows another one unless a reply succeeded or a message
\* came in between (_checkCompaction).
THEOREM RetriesAreBounded == Spec => RetriesBounded
<1>1. Init => RetryInv
  BY InitiallyRetried
<1>2. RetryInv /\ [Next]_vars => RetryInv'
  BY RetryStep
<1>3. RetryInv => hist.errors <= MaxRetries + 1
  BY SessionBounds DEF RetryInv, Retried
<1>4. RetryInv /\ [Next]_vars =>
        [\A m \in Users : call'[m].willRetry /\ ~call[m].willRetry => ~hist.recovered]_vars
  BY RetryStep DEF OnceRecovered
<1> QED BY <1>1, <1>2, <1>3, <1>4, PTL DEF Spec, RetriesBounded

=============================================================================
