---------------------- MODULE AgentSessionContextProofs ----------------------
(***************************************************************************)
(* Theorems about the messages of AgentSession, for every value of its     *)
(* constants: what the agent sends to the model is what the session holds, *)
(* a call of a tool is followed by its result, and a compaction is not set *)
(* off by a reply that an earlier one has dealt with.                      *)
(***************************************************************************)
EXTENDS AgentSessionProofs, SequenceTheorems

(***************************************************************************)
(* What is in the agent's messages and on the branch.                      *)
(***************************************************************************)
UserMessages == [role : {"user"}, id : Users]
BashMessages == [role : {"bashExecution"}, id : Bashes]
Results      == [role : {"toolResult"}, id : Nat]
Kinds        == {"stop", "length", "tool", "aborted", "error", "limit", "overflow"}
Summaries    == [role : {"compactionSummary"}, id : Nat]
Answers      == [role : {"assistant"}, id : Nat, kind : Kinds,
                 usage : {"low", "high", "none"}, epoch : Nat]
Entries      == UserMessages \cup BashMessages \cup Results \cup Answers
Messages     == Entries \cup Summaries
Branches     == [messages : Seq(Entries), compactions : Seq([at : Nat, keep : Nat, reason : {"auto", "manual"}])]

\* A compaction keeps from a message on that there is, and that is no tool result.
KeepsFrom(b, k) == k \in 1..Len(b.messages) /\ b.messages[k].role # "toolResult"
Cut(b) == \A i \in 1..Len(b.compactions) :
  b.compactions[i].at <= Len(b.messages) /\ KeepsFrom(b, b.compactions[i].keep)

\* A reply comes after the compactions it was requested after.
DatedAt(b, k) == /\ b.messages[k].epoch <= Len(b.compactions)
                 /\ \A i \in 1..b.messages[k].epoch : b.compactions[i].at < k
Dated(b) == \A k \in 1..Len(b.messages) : b.messages[k] \in Answers => DatedAt(b, k)

\* There is a reply that was requested after compaction n; one sets off an automatic compaction.
Since(b, n, from, to) == \E k \in from..to : b.messages[k] \in Answers /\ b.messages[k].epoch >= n
Fresh(b) == Since(b, Len(b.compactions), 1, Len(b.messages))
Grounded(b) == \A i, j \in 1..Len(b.compactions) :
  (i < j /\ b.compactions[j].reason = "auto") => Since(b, i, b.compactions[i].at + 1, b.compactions[j].at)

Recorded(b) == b \in Branches /\ Cut(b) /\ Dated(b) /\ Grounded(b)

\* The agent's messages are those of the branch, but for failed replies, and calls have results.
Match(ms, b) ==
  /\ ms \in Seq(Messages)
  /\ Lasting(ms) = Lasting(buildSessionContext(b))
  /\ \A i \in 1..Len(ms) : ms[i] \in Answers => ms[i] \in Elements(b.messages)
  /\ Paired(ms) /\ Paired(b.messages)

\* The last call has its result, or waits for it.
Asks(x) == x.role = "assistant" /\ x.kind = "tool"
Settled(s) == s # <<>> => ~Asks(Last(s))
AskedLast(s, n) == s # <<>> /\ Asks(Last(s)) /\ Last(s).id = n
Shut(ms, b) == Settled(ms) /\ Settled(b.messages)
Open(ms, b, n) == AskedLast(ms, n) /\ AskedLast(b.messages, n)

(***************************************************************************)
(* The invariant.                                                          *)
(***************************************************************************)
\* The agent's messages before the one that is being handled, and that one.
Saving == agent.at = "save"
Handled == IF Saving THEN Front(agent.messages) ELSE agent.messages
Pending == Last(agent.messages)

\* The fields that messages go through.
Fields ==
  /\ sess.bash \in Seq(BashMessages)
  /\ sess.last \in Answers \cup {NoReply}
  /\ hist.replies \in Nat
  /\ agent.since \in Nat /\ agent.since <= Compactions
  /\ Saving => /\ agent.messages \in Seq(Messages) /\ agent.messages # <<>> /\ agent.todo = <<Pending>>
               /\ Pending \in UserMessages \cup Results \cup Answers
               /\ Pending \in Answers => Pending.epoch <= Compactions

\* What was delivered is on the branch, or on its way to it.
Persisted == \A x \in Elements(hist.delivered) :
  User(x) \in Elements(branch.messages) \/ (Saving /\ Pending = User(x))

Joined ==
  /\ ~Saving /\ agent.at # "tools" => Shut(agent.messages, branch)
  /\ agent.at = "tools" => Open(agent.messages, branch, hist.replies)
  /\ Saving /\ Pending \in Results => Pending = Result(hist.replies) /\ Open(Handled, branch, hist.replies)
  /\ Saving /\ Pending \notin Results => Shut(Handled, branch) /\ (Pending \in Answers => Pending.id = hist.replies)

Data == Recorded(branch) /\ Match(Handled, branch) /\ Fields /\ Persisted /\ Joined

\* The reply that the session looks at when a run is over.
RunOver == agent.at = "end" \/ \E m \in Users : call[m].pc = "ran"
Latest ==
  /\ sess.last \in Answers => sess.last \in Elements(branch.messages)
  /\ Saving /\ agent.then = "end" => Pending \in Answers /\ Final(Pending)
  /\ agent.at = "poll" /\ agent.then = "end" => sess.last \in Answers /\ Final(sess.last) /\ agent.messages # <<>> /\ Pending = sess.last
  /\ RunOver /\ sess.last \in Answers /\ Fruitless(sess.last) => agent.messages # <<>> /\ Pending = sess.last

\* A call compacts for a reason, retries after an error, and has no bash messages deferred before
\* the run of its message.
Sound(y) ==
  /\ call[y].pc = "summarise" => KeepsFrom(branch, call[y].keep)
  /\ call[y].pc \in {"auth", "summarise"} => Fresh(branch)
  /\ call[y].reply = NoReply \/ (call[y].reply \in Answers /\ call[y].reply.kind = "error")
  /\ call[y].pc = "running" => call[y].stage # "check"
  /\ Engaged(y) /\ (call[y].pc = "hooks" \/ call[y].stage = "check") => sess.bash = <<>>

\* A call that is over has no bash messages to flush once another is under way; none enters
\* between the end of a run and what follows it.
Ended(y) == call[y].pc = "finish" /\ call[y].stage = "own"
Apart ==
  /\ \A y, m \in Users : Ended(y) /\ Engaged(m) => sess.bash = <<>> /\ call[m].pc \in {"auth", "hooks", "running"}
  /\ \A y, m \in Users : ~(call[y].pc = "called" /\ call[m].pc = "ran")

\* What compact() keeps from when its summary is there.
Planned == manual.pc = "summarise" => KeepsFrom(branch, manual.keep)

Shape == Data /\ Latest /\ (\A y \in Users : Sound(y)) /\ Apart /\ Planned

-----------------------------------------------------------------------------
(***************************************************************************)
(* What Lasting computes: a recursive function of the length, by           *)
(* induction over it (WFMin: a set of numbers has a least one).            *)
(***************************************************************************)
Failure(x) == x.role = "assistant" /\ Fruitless(x)
Filter(ms, n, f) ==
  f = [i \in 0..n |-> IF i = 0 THEN <<>> ELSE IF Failure(ms[i]) THEN f[i - 1] ELSE Append(f[i - 1], ms[i])]

\* A set of numbers that is not empty has a least one.
LEMMA LeastOf ==
  ASSUME NEW T \in SUBSET Nat, T # {} PROVE \E n \in T : \A k \in T : n <= k
<1>1. IsWellFoundedOn(OpToRel(<, Nat), Nat)
  BY NatLessThanWellFounded
<1>2. PICK n \in T : \A k \in T : <<k, n>> \notin OpToRel(<, Nat)
  BY <1>1, WFMin
<1>3. \A k \in T : ~(k < n)
  BY <1>2 DEF OpToRel
<1> QED BY <1>3

LEMMA FilterIs ==
  ASSUME NEW ms, NEW n \in Nat, NEW f, Filter(ms, n, f)
  PROVE  /\ f[0] = <<>>
         /\ \A i \in 1..n : f[i] = IF Failure(ms[i]) THEN f[i - 1] ELSE Append(f[i - 1], ms[i])
<1> DEFINE F(i) == IF i = 0 THEN <<>> ELSE IF Failure(ms[i]) THEN f[i - 1] ELSE Append(f[i - 1], ms[i])
<1>1. f = [i \in 0..n |-> F(i)]
  BY DEF Filter
<1>2. \A i \in 0..n : f[i] = F(i)
  <2> HIDE DEF F
  <2> QED BY <1>1
<1>3. 0 \in 0..n /\ \A i \in 1..n : i \in 0..n /\ i # 0
  OBVIOUS
<1> QED BY <1>2, <1>3

LEMMA FilterExists ==
  ASSUME NEW ms, NEW n \in Nat PROVE \E f : Filter(ms, n, f)
<1> DEFINE T == {k \in Nat : ~\E f : Filter(ms, k, f)}
<1> SUFFICES ASSUME n \in T PROVE FALSE
  OBVIOUS
<1>1. PICK k \in T : \A j \in T : k <= j
  BY LeastOf
<1>2. CASE k = 0
  <2> DEFINE f == [i \in 0..0 |-> <<>>]
  <2>1. Filter(ms, 0, f)
    BY DEF Filter
  <2> QED BY <1>1, <1>2, <2>1
<1>3. CASE k # 0
  <2>1. k \in Nat /\ k - 1 \in Nat /\ k - 1 \notin T
    BY <1>1, <1>3
  <2>2. PICK g : Filter(ms, k - 1, g)
    BY <2>1
  <2> DEFINE last == IF Failure(ms[k]) THEN g[k - 1] ELSE Append(g[k - 1], ms[k])
             f == [i \in 0..k |-> IF i = k THEN last ELSE g[i]]
  <2>3. /\ g[0] = <<>>
        /\ \A i \in 1..(k - 1) : g[i] = IF Failure(ms[i]) THEN g[i - 1] ELSE Append(g[i - 1], ms[i])
    BY <2>1, <2>2, FilterIs
  <2>4. \A i \in 0..k : f[i] = IF i = 0 THEN <<>> ELSE IF Failure(ms[i]) THEN f[i - 1] ELSE Append(f[i - 1], ms[i])
    <3> SUFFICES ASSUME NEW i \in 0..k
                 PROVE  f[i] = IF i = 0 THEN <<>> ELSE IF Failure(ms[i]) THEN f[i - 1] ELSE Append(f[i - 1], ms[i])
      OBVIOUS
    <3>1. CASE i = 0
      BY <1>3, <2>1, <2>3, <3>1
    <3>2. CASE i = k
      <4>1. f[i] = last /\ k - 1 \in 0..k /\ k - 1 # k
        BY <2>1, <3>2
      <4>2. f[i - 1] = g[i - 1]
        BY <3>2, <4>1
      <4> QED BY <1>3, <3>2, <4>1, <4>2
    <3>3. CASE i \in 1..(k - 1)
      <4>1. i # k /\ i # 0 /\ i - 1 \in 0..k /\ i - 1 # k
        BY <2>1, <3>3
      <4> QED BY <2>3, <3>3, <4>1
    <3> QED BY <2>1, <3>1, <3>2, <3>3
  <2>5. Filter(ms, k, f)
    <3> HIDE DEF last
    <3>1. f = [i \in 0..k |-> f[i]]
      OBVIOUS
    <3> HIDE DEF f
    <3> QED BY <2>4, <3>1 DEF Filter
  <2> QED BY <1>1, <2>5
<1> QED BY <1>2, <1>3

\* A filter of a sequence agrees with one of a longer sequence that begins with it.
Alike(s, t, from, to) == \A i \in from..to : s[i] = t[i]
LEMMA FilterAgrees ==
  ASSUME NEW s, NEW t, NEW n \in Nat, NEW k \in Nat, n <= k, Alike(s, t, 1, n),
         NEW f, Filter(s, n, f), NEW g, Filter(t, k, g)
  PROVE  Alike(f, g, 0, n)
<1> DEFINE T == {i \in 0..n : f[i] # g[i]}
<1> SUFFICES ASSUME T # {} PROVE FALSE
  BY DEF Alike
<1>1. T \in SUBSET Nat
  OBVIOUS
<1>2. PICK i \in T : \A j \in T : i <= j
  BY <1>1, LeastOf
<1>3. i \in 0..n /\ f[i] # g[i]
  BY <1>2
<1>4. f[0] = g[0]
  BY FilterIs
<1>5. i \in 1..n /\ i \in 1..k /\ i - 1 \in 0..n /\ i - 1 \notin T
  BY <1>2, <1>3, <1>4
<1>6. f[i - 1] = g[i - 1] /\ s[i] = t[i]
  BY <1>5 DEF Alike
<1>7. f[i] = IF Failure(s[i]) THEN f[i - 1] ELSE Append(f[i - 1], s[i])
  BY <1>5, FilterIs
<1>8. g[i] = IF Failure(t[i]) THEN g[i - 1] ELSE Append(g[i - 1], t[i])
  BY <1>5, FilterIs
<1> QED BY <1>3, <1>6, <1>7, <1>8

LEMMA LastingIsFilter ==
  ASSUME NEW S, NEW s \in Seq(S) PROVE \E f : Filter(s, Len(s), f) /\ Lasting(s) = f[Len(s)]
<1> DEFINE f == CHOOSE f : Filter(s, Len(s), f)
<1>1. Lasting(s) = f[Len(s)]
  BY DEF Lasting, Filter, Failure
<1>2. Filter(s, Len(s), f)
  BY FilterExists
<1> QED BY <1>1, <1>2

LEMMA LastingOfEmpty == Lasting(<<>>) = <<>>
<1>1. <<>> \in Seq({}) /\ Len(<<>>) = 0
  OBVIOUS
<1>2. PICK f : Filter(<<>>, 0, f) /\ Lasting(<<>>) = f[0]
  BY <1>1, LastingIsFilter
<1> QED BY <1>2, FilterIs

LEMMA LastingOfAppend ==
  ASSUME NEW S, NEW s \in Seq(S), NEW x \in S
  PROVE  /\ Failure(x) => Lasting(Append(s, x)) = Lasting(s)
         /\ ~Failure(x) => Lasting(Append(s, x)) = Append(Lasting(s), x)
<1> DEFINE t == Append(s, x)
           n == Len(s)
<1>1. t \in Seq(S) /\ Len(t) = n + 1 /\ n \in Nat /\ t[n + 1] = x /\ \A i \in 1..n : t[i] = s[i]
  OBVIOUS
<1> HIDE DEF t
<1>2. PICK f : Filter(s, n, f) /\ Lasting(s) = f[n]
  BY LastingIsFilter
<1>3. PICK g : Filter(t, n + 1, g) /\ Lasting(t) = g[n + 1]
  BY <1>1, LastingIsFilter
<1>4. f[n] = g[n]
  <2>1. n \in Nat /\ n + 1 \in Nat /\ n <= n + 1 /\ n \in 0..n /\ Alike(s, t, 1, n)
    BY <1>1 DEF Alike
  <2> HIDE DEF n
  <2> DEFINE k == n + 1
  <2>2. k \in Nat /\ n <= k /\ Filter(t, k, g)
    BY <1>3, <2>1
  <2> HIDE DEF k
  <2>3. Alike(f, g, 0, n)
    BY <1>2, <2>1, <2>2, FilterAgrees
  <2> QED BY <2>1, <2>3 DEF Alike
<1>5. g[n + 1] = IF Failure(t[n + 1]) THEN g[n] ELSE Append(g[n], t[n + 1])
  <2>1. n + 1 \in Nat /\ n + 1 \in 1..(n + 1) /\ (n + 1) - 1 = n
    BY <1>1
  <2>2. \A i \in 1..(n + 1) : g[i] = IF Failure(t[i]) THEN g[i - 1] ELSE Append(g[i - 1], t[i])
    BY <1>3, <2>1, FilterIs
  <2> QED BY <2>1, <2>2
<1> QED BY <1>1, <1>2, <1>3, <1>4, <1>5 DEF t

LEMMA AppendToConcat ==
  ASSUME NEW S, NEW s \in Seq(S), NEW v \in Seq(S), NEW x \in S
  PROVE  s \o Append(v, x) = Append(s \o v, x)
<1> DEFINE a == s \o Append(v, x)
           b == Append(s \o v, x)
           n == Len(s)
           k == Len(v)
<1>1. a \in Seq(S) /\ b \in Seq(S) /\ n \in Nat /\ k \in Nat /\ Len(a) = n + k + 1 /\ Len(b) = n + k + 1
  OBVIOUS
<1>2. \A i \in 1..(n + k + 1) : a[i] = b[i]
  <2> SUFFICES ASSUME NEW i \in 1..(n + k + 1) PROVE a[i] = b[i]
    OBVIOUS
  <2>1. CASE i <= n
    BY <1>1, <2>1
  <2>2. CASE i > n /\ i <= n + k
    BY <1>1, <2>2
  <2>3. CASE i = n + k + 1
    BY <1>1, <2>3
  <2> QED BY <1>1, <2>1, <2>2, <2>3
<1> HIDE DEF a, b, n, k
<1>3. a = b
  BY <1>1, <1>2, SeqEqual
<1> QED BY <1>3 DEF a, b

\* What is appended to two sequences that agree leaves them agreeing.
LEMMA LastingOfConcat ==
  ASSUME NEW S, NEW s \in Seq(S), NEW t \in Seq(S), Lasting(s) = Lasting(t), NEW u \in Seq(S)
  PROVE  Lasting(s \o u) = Lasting(t \o u)
<1> DEFINE T == {n \in 0..Len(u) : Lasting(s \o SubSeq(u, 1, n)) # Lasting(t \o SubSeq(u, 1, n))}
<1>1. ASSUME T # {} PROVE FALSE
  <2>1. T \in SUBSET Nat
    OBVIOUS
  <2>2. PICK n \in T : \A k \in T : n <= k
    BY <1>1, <2>1, LeastOf
  <2>3. n \in 0..Len(u) /\ Lasting(s \o SubSeq(u, 1, n)) # Lasting(t \o SubSeq(u, 1, n))
    BY <2>2
  <2>4. s \o SubSeq(u, 1, 0) = s /\ t \o SubSeq(u, 1, 0) = t
    OBVIOUS
  <2>5. n # 0
    BY <2>3, <2>4
  <2>6. n - 1 \in 0..Len(u) /\ n - 1 \notin T /\ n \in 1..Len(u)
    BY <2>2, <2>3, <2>5
  <2> DEFINE v == SubSeq(u, 1, n - 1)
  <2>7. Lasting(s \o v) = Lasting(t \o v)
    BY <2>6
  <2>8. v \in Seq(S) /\ u[n] \in S /\ SubSeq(u, 1, n) = Append(v, u[n])
    <3>1. v \in Seq(S) /\ Len(v) = n - 1 /\ u[n] \in S /\ \A i \in 1..(n - 1) : v[i] = u[i]
      BY <2>6
    <3>2. SubSeq(u, 1, n) \in Seq(S) /\ Len(SubSeq(u, 1, n)) = n /\ \A i \in 1..n : SubSeq(u, 1, n)[i] = u[i]
      BY <2>6
    <3> HIDE DEF v
    <3>3. Append(v, u[n]) \in Seq(S) /\ Len(Append(v, u[n])) = n
      BY <2>6, <3>1
    <3>4. \A i \in 1..n : Append(v, u[n])[i] = u[i]
      BY <2>6, <3>1
    <3> QED BY <3>1, <3>2, <3>3, <3>4, SeqEqual
  <2> HIDE DEF v
  <2> DEFINE x == u[n]
             a == s \o v
             b == t \o v
  <2>9. x \in S /\ a \in Seq(S) /\ b \in Seq(S)
    BY <2>8
  <2>10. s \o Append(v, x) = Append(a, x) /\ t \o Append(v, x) = Append(b, x)
    <3> HIDE DEF x
    <3>1. s \in Seq(S) /\ t \in Seq(S) /\ v \in Seq(S) /\ x \in S
      BY <2>8, <2>9
    <3>2. s \o Append(v, x) = Append(s \o v, x)
      BY ONLY <3>1, AppendToConcat
    <3>3. t \o Append(v, x) = Append(t \o v, x)
      BY ONLY <3>1, AppendToConcat
    <3> QED BY <3>2, <3>3
  <2>11. Lasting(a) = Lasting(b)
    BY <2>7
  <2> HIDE DEF a, b
  <2>12. Lasting(Append(a, x)) = Lasting(Append(b, x))
    <3> HIDE DEF x
    <3>1. CASE Failure(x)
      <4>1. Lasting(Append(a, x)) = Lasting(a)
        BY <2>9, <3>1, LastingOfAppend
      <4>2. Lasting(Append(b, x)) = Lasting(b)
        BY <2>9, <3>1, LastingOfAppend
      <4> QED BY <2>11, <4>1, <4>2
    <3>2. CASE ~Failure(x)
      <4>1. Lasting(Append(a, x)) = Append(Lasting(a), x)
        BY <2>9, <3>2, LastingOfAppend
      <4>2. Lasting(Append(b, x)) = Append(Lasting(b), x)
        BY <2>9, <3>2, LastingOfAppend
      <4> QED BY <2>11, <4>1, <4>2
    <3> QED BY <3>1, <3>2
  <2> QED BY <2>3, <2>8, <2>10, <2>12
<1>2. Len(u) \in 0..Len(u) /\ SubSeq(u, 1, Len(u)) = u
  OBVIOUS
<1>3. Len(u) \notin T
  BY <1>1
<1> QED BY <1>2, <1>3

(***************************************************************************)
(* Sequences of messages.                                                  *)
(***************************************************************************)
LEMMA LastIs ==
  ASSUME NEW S, NEW s \in Seq(S), s # <<>>
  PROVE  Len(s) \in 1..Len(s) /\ Last(s) = s[Len(s)] /\ Last(s) \in S
  BY DEF Last

\* A sequence that is not empty is its front and its last element.
LEMMA FrontIs ==
  ASSUME NEW S, NEW s \in Seq(S), s # <<>>
  PROVE  /\ Front(s) \in Seq(S) /\ Len(Front(s)) = Len(s) - 1 /\ Len(s) \in Nat \ {0}
         /\ \A i \in 1..(Len(s) - 1) : Front(s)[i] = s[i]
         /\ Last(s) = s[Len(s)] /\ Last(s) \in S
         /\ s = Append(Front(s), Last(s))
<1>1. Len(s) \in Nat \ {0} /\ Last(s) = s[Len(s)] /\ Last(s) \in S
  BY DEF Last
<1>2. /\ Front(s) \in Seq(S) /\ Len(Front(s)) = Len(s) - 1
      /\ \A i \in 1..(Len(s) - 1) : Front(s)[i] = s[i]
  <2> DEFINE k == Len(s) - 1
  <2>1. k \in 0..Len(s) /\ Front(s) = SubSeq(s, 1, k)
    BY <1>1 DEF Front
  <2> HIDE DEF k
  <2>2. SubSeq(s, 1, k) \in Seq(S) /\ Len(SubSeq(s, 1, k)) = k /\ \A i \in 1..k : SubSeq(s, 1, k)[i] = s[i]
    BY <2>1
  <2> QED BY <2>1, <2>2 DEF k
<1> DEFINE f == Front(s)
           x == Last(s)
<1> HIDE DEF f, x
<1>3. f \in Seq(S) /\ Len(f) = Len(s) - 1 /\ x \in S /\ x = s[Len(s)] /\ \A i \in 1..(Len(s) - 1) : f[i] = s[i]
  BY <1>1, <1>2 DEF f, x
<1>4. Append(f, x) \in Seq(S) /\ Len(Append(f, x)) = Len(s)
  BY <1>1, <1>3
<1>5. \A i \in 1..Len(s) : Append(f, x)[i] = s[i]
  BY <1>1, <1>3
<1>6. Append(f, x) = s
  BY <1>4, <1>5, SeqEqual
<1> QED BY <1>1, <1>2, <1>6 DEF f, x

\* What was appended is the last element, and what it was appended to the front.
LEMMA AppendIs ==
  ASSUME NEW S, NEW s \in Seq(S), NEW x \in S
  PROVE  /\ Append(s, x) \in Seq(S) /\ Append(s, x) # <<>> /\ Len(Append(s, x)) = Len(s) + 1
         /\ Append(s, x)[Len(s) + 1] = x /\ \A i \in 1..Len(s) : Append(s, x)[i] = s[i]
         /\ Last(Append(s, x)) = x /\ Front(Append(s, x)) = s
<1> DEFINE t == Append(s, x)
<1>1. t \in Seq(S) /\ t # <<>> /\ Len(t) = Len(s) + 1 /\ Len(s) \in Nat /\ t[Len(s) + 1] = x
      /\ \A i \in 1..Len(s) : t[i] = s[i]
  OBVIOUS
<1> HIDE DEF t
<1>2. /\ Front(t) \in Seq(S) /\ Len(Front(t)) = Len(t) - 1
      /\ \A i \in 1..(Len(t) - 1) : Front(t)[i] = t[i]
      /\ Last(t) = t[Len(t)]
  BY <1>1, FrontIs
<1>3. Len(t) - 1 = Len(s)
  BY <1>1
<1>4. Front(t) = s
  BY <1>1, <1>2, <1>3, SeqEqual
<1> QED BY <1>1, <1>2, <1>4 DEF t

\* What a concatenation has where.
LEMMA ConcatIs ==
  ASSUME NEW S, NEW s \in Seq(S), NEW u \in Seq(S)
  PROVE  /\ s \o u \in Seq(S) /\ Len(s \o u) = Len(s) + Len(u) /\ Len(s) \in Nat /\ Len(u) \in Nat
         /\ \A i \in 1..Len(s) : (s \o u)[i] = s[i]
         /\ \A i \in Len(s) + 1 .. Len(s) + Len(u) : (s \o u)[i] = u[i - Len(s)] /\ i - Len(s) \in 1..Len(u)
         /\ u = <<>> => s \o u = s
         /\ u # <<>> => s \o u # <<>> /\ Last(s \o u) = Last(u)
<1> DEFINE t == s \o u
<1>1. /\ t \in Seq(S) /\ Len(t) = Len(s) + Len(u) /\ Len(s) \in Nat /\ Len(u) \in Nat
      /\ \A i \in 1..Len(s) : t[i] = s[i]
      /\ \A i \in Len(s) + 1 .. Len(s) + Len(u) : t[i] = u[i - Len(s)] /\ i - Len(s) \in 1..Len(u)
      /\ u = <<>> => t = s
  OBVIOUS
<1>2. ASSUME u # <<>> PROVE t # <<>> /\ Last(t) = Last(u)
  <2>1. Len(u) >= 1 /\ Last(u) = u[Len(u)]
    BY <1>2 DEF Last
  <2>2. t # <<>>
    BY <1>1, <2>1
  <2>3. Last(t) = t[Len(t)]
    <3> HIDE DEF t
    <3> QED BY <1>1, <2>2, FrontIs
  <2>4. Len(t) \in Len(s) + 1 .. Len(s) + Len(u) /\ Len(t) - Len(s) = Len(u)
    BY <1>1, <2>1
  <2> HIDE DEF t
  <2> QED BY <1>1, <2>1, <2>2, <2>3, <2>4
<1> QED BY <1>1, <1>2

\* Calls and results in a longer sequence.
LEMMA PairedOfEmpty == Paired(<<>>)
  BY DEF Paired

LEMMA PairedAppend ==
  ASSUME NEW S, NEW s \in Seq(S), NEW x \in S, Paired(s),
         \/ x.role # "toolResult" /\ Settled(s)
         \/ \E n : x = Result(n) /\ AskedLast(s, n)
  PROVE  Paired(Append(s, x))
<1> DEFINE t == Append(s, x)
           n == Len(s)
<1>1. t \in Seq(S) /\ Len(t) = n + 1 /\ n \in Nat /\ t[n + 1] = x /\ \A i \in 1..n : t[i] = s[i]
  BY AppendIs
<1>2. s # <<>> => n >= 1 /\ Last(s) = s[n]
  BY DEF Last
<1>3. n >= 1 => s # <<>>
  OBVIOUS
<1> HIDE DEF t
<1> SUFFICES ASSUME NEW i \in 1..(n + 1)
             PROVE  /\ t[i].role = "toolResult" => i > 1 /\ t[i - 1].role = "assistant" /\ t[i - 1].id = t[i].id
                    /\ (t[i].role = "assistant" /\ t[i].kind = "tool" /\ i < n + 1) => t[i + 1] = Result(t[i].id)
  BY <1>1 DEF Paired
<1>4. \A j \in 1..n : /\ s[j].role = "toolResult" => j > 1 /\ s[j - 1].role = "assistant" /\ s[j - 1].id = s[j].id
                      /\ (s[j].role = "assistant" /\ s[j].kind = "tool" /\ j < n) => s[j + 1] = Result(s[j].id)
  BY DEF Paired
<1>5. CASE i < n
  <2>1. i \in 1..n /\ i + 1 \in 1..n /\ (i > 1 => i - 1 \in 1..n)
    BY <1>1, <1>5
  <2> QED BY <1>1, <1>4, <1>5, <2>1
<1>6. CASE i = n
  <2>1. i \in 1..n /\ t[i] = s[i] /\ t[i + 1] = x /\ (i > 1 => i - 1 \in 1..n) /\ i >= 1
    BY <1>1, <1>6
  <2>2. s # <<>> /\ Last(s) = s[i]
    BY <1>2, <1>3, <1>6, <2>1
  <2>3. t[i].role = "toolResult" => i > 1 /\ t[i - 1].role = "assistant" /\ t[i - 1].id = t[i].id
    BY <1>1, <1>4, <2>1
  <2>4. (t[i].role = "assistant" /\ t[i].kind = "tool") => x = Result(t[i].id)
    BY <2>1, <2>2 DEF Settled, AskedLast, Asks
  <2> QED BY <2>1, <2>3, <2>4
<1>7. CASE i = n + 1
  <2>1. t[i] = x
    BY <1>1, <1>7
  <2>2. CASE x.role = "toolResult"
    <3>1. PICK r : x = Result(r) /\ AskedLast(s, r)
      BY <2>2
    <3>2. s # <<>> /\ Last(s).role = "assistant" /\ Last(s).id = r /\ x.id = r
      BY <3>1 DEF AskedLast, Asks, Result
    <3>3. n >= 1 /\ Last(s) = s[n] /\ n \in 1..n
      BY <1>1, <1>2, <3>2
    <3>4. i > 1 /\ i - 1 = n /\ t[i - 1] = s[n]
      BY <1>1, <1>7, <3>3
    <3> QED BY <1>7, <2>1, <2>2, <3>2, <3>3, <3>4
  <2> QED BY <1>7, <2>1, <2>2
<1> QED BY <1>1, <1>5, <1>6, <1>7

LEMMA PairedConcat ==
  ASSUME NEW S, NEW s \in Seq(S), NEW u \in Seq(S), Paired(s), Settled(s),
         \A i \in 1..Len(u) : u[i].role \notin {"toolResult", "assistant"}
  PROVE  Paired(s \o u) /\ Settled(s \o u)
<1> DEFINE t == s \o u
           n == Len(s)
           k == Len(u)
<1>1. /\ t \in Seq(S) /\ Len(t) = n + k /\ n \in Nat /\ k \in Nat
      /\ \A i \in 1..n : t[i] = s[i]
      /\ \A i \in n + 1 .. n + k : t[i] = u[i - n] /\ i - n \in 1..k
      /\ u = <<>> => t = s
      /\ u # <<>> => t # <<>> /\ Last(t) = Last(u)
  BY ConcatIs
<1>2. \A i \in n + 1 .. n + k : t[i].role \notin {"toolResult", "assistant"}
  BY <1>1
<1>3. s # <<>> => n >= 1 /\ Last(s) = s[n]
  BY DEF Last
<1>4. n >= 1 => s # <<>>
  OBVIOUS
<1>5. u # <<>> => Last(u).role \notin {"toolResult", "assistant"}
  <2>1. u # <<>> => Len(u) \in 1..Len(u) /\ Last(u) = u[Len(u)]
    BY DEF Last
  <2> QED BY <2>1
<1> HIDE DEF t
<1>6. Paired(t)
  <2> SUFFICES ASSUME NEW i \in 1..(n + k)
               PROVE  /\ t[i].role = "toolResult" => i > 1 /\ t[i - 1].role = "assistant" /\ t[i - 1].id = t[i].id
                      /\ (t[i].role = "assistant" /\ t[i].kind = "tool" /\ i < n + k) => t[i + 1] = Result(t[i].id)
    BY <1>1 DEF Paired
  <2>1. \A j \in 1..n : /\ s[j].role = "toolResult" => j > 1 /\ s[j - 1].role = "assistant" /\ s[j - 1].id = s[j].id
                        /\ (s[j].role = "assistant" /\ s[j].kind = "tool" /\ j < n) => s[j + 1] = Result(s[j].id)
    BY DEF Paired
  <2>2. CASE i < n
    <3>1. i \in 1..n /\ i + 1 \in 1..n /\ (i > 1 => i - 1 \in 1..n)
      BY <1>1, <2>2
    <3> QED BY <1>1, <2>1, <2>2, <3>1
  <2>3. CASE i = n
    <3>1. i \in 1..n /\ t[i] = s[i] /\ (i > 1 => i - 1 \in 1..n) /\ i >= 1
      BY <1>1, <2>3
    <3>2. s # <<>> /\ Last(s) = s[i]
      BY <1>3, <1>4, <2>3, <3>1
    <3>3. ~(t[i].role = "assistant" /\ t[i].kind = "tool")
      BY <3>1, <3>2 DEF Settled, Asks
    <3> QED BY <1>1, <2>1, <3>1, <3>3
  <2>4. CASE i > n
    <3>1. i \in n + 1 .. n + k
      BY <1>1, <2>4
    <3> QED BY <1>2, <3>1
  <2> QED BY <1>1, <2>2, <2>3, <2>4
<1>7. Settled(t)
  BY <1>1, <1>5 DEF Settled, Asks
<1> QED BY <1>6, <1>7 DEF t

LEMMA PairedFront ==
  ASSUME NEW S, NEW s \in Seq(S), s # <<>>, Paired(s), Last(s).role # "toolResult"
  PROVE  Paired(Front(s)) /\ Settled(Front(s))
<1> DEFINE f == Front(s)
           n == Len(s)
<1>1. f \in Seq(S) /\ Len(f) = n - 1 /\ n \in Nat /\ n >= 1 /\ Last(s) = s[n] /\ \A i \in 1..(n - 1) : f[i] = s[i]
  BY FrontIs
<1>2. \A j \in 1..n : /\ s[j].role = "toolResult" => j > 1 /\ s[j - 1].role = "assistant" /\ s[j - 1].id = s[j].id
                      /\ (s[j].role = "assistant" /\ s[j].kind = "tool" /\ j < n) => s[j + 1] = Result(s[j].id)
  BY DEF Paired
<1> HIDE DEF f
<1>3. f # <<>> => Len(f) >= 1 /\ Last(f) = f[Len(f)]
  BY <1>1 DEF Last
<1>4. Paired(f)
  <2> SUFFICES ASSUME NEW i \in 1..(n - 1)
               PROVE  /\ f[i].role = "toolResult" => i > 1 /\ f[i - 1].role = "assistant" /\ f[i - 1].id = f[i].id
                      /\ (f[i].role = "assistant" /\ f[i].kind = "tool" /\ i < n - 1) => f[i + 1] = Result(f[i].id)
    BY <1>1 DEF Paired
  <2>1. i \in 1..n /\ f[i] = s[i] /\ (i > 1 => i - 1 \in 1..(n - 1) /\ f[i - 1] = s[i - 1])
        /\ (i < n - 1 => i + 1 \in 1..(n - 1) /\ f[i + 1] = s[i + 1] /\ i < n)
    BY <1>1
  <2> QED BY <1>2, <2>1
<1>5. ASSUME f # <<>>, Asks(Last(f)) PROVE FALSE
  <2>1. n - 1 \in 1..n /\ n - 1 < n /\ f[n - 1] = s[n - 1] /\ n - 1 + 1 = n
    BY <1>1, <1>3, <1>5
  <2>2. s[n] = Result(s[n - 1].id)
    BY <1>1, <1>2, <1>3, <1>5, <2>1 DEF Asks
  <2>3. Last(s).role = "toolResult"
    BY <1>1, <2>2 DEF Result
  <2> QED BY <2>3
<1> QED BY <1>4, <1>5 DEF Settled, f

LEMMA ConsIs ==
  ASSUME NEW S, NEW p \in Seq(S), NEW x \in S
  PROVE  LET c == <<x>> \o p IN
         /\ c \in Seq(S) /\ Len(c) = 1 + Len(p) /\ c[1] = x
         /\ \A i \in 2..(1 + Len(p)) : c[i] = p[i - 1] /\ i - 1 \in 1..Len(p)
         /\ p # <<>> => c # <<>> /\ Last(c) = Last(p)
<1> DEFINE c == <<x>> \o p
<1>1. /\ c \in Seq(S) /\ Len(c) = 1 + Len(p) /\ c[1] = x
      /\ \A i \in 2..(1 + Len(p)) : c[i] = p[i - 1] /\ i - 1 \in 1..Len(p)
  OBVIOUS
<1> HIDE DEF c
<1>2. ASSUME p # <<>> PROVE c # <<>> /\ Last(c) = Last(p)
  <2>1. Len(p) \in 1..Len(p) /\ Last(p) = p[Len(p)]
    BY <1>2, LastIs
  <2>2. Len(c) \in 2..(1 + Len(p)) /\ Len(c) - 1 = Len(p) /\ c # <<>>
    BY <1>1, <2>1
  <2>3. Last(c) = c[Len(c)]
    BY <1>1, <2>2 DEF Last
  <2> QED BY <1>1, <2>1, <2>2, <2>3
<1> QED BY <1>1, <1>2 DEF c

\* From a message on that is no result, calls have their results, also after a summary.
LEMMA PairedContext ==
  ASSUME NEW S, NEW es \in Seq(S), Paired(es), NEW k \in 1..Len(es), es[k].role # "toolResult",
         NEW x \in S, x.role \notin {"toolResult", "assistant"}
  PROVE  LET c == <<x>> \o SubSeq(es, k, Len(es)) IN
         /\ c \in Seq(S) /\ c # <<>> /\ Paired(c) /\ Last(c) = Last(es) /\ Elements(c) \subseteq {x} \cup Elements(es)
<1> DEFINE p == SubSeq(es, k, Len(es))
           c == <<x>> \o p
           n == Len(es)
<1>1. /\ n \in Nat /\ k \in Nat /\ k >= 1 /\ k <= n
      /\ p \in Seq(S) /\ Len(p) = n - k + 1 /\ \A i \in 1..(n - k + 1) : p[i] = es[k + i - 1]
  OBVIOUS
<1> HIDE DEF p
<1>3. /\ c \in Seq(S) /\ Len(c) = 1 + Len(p) /\ c[1] = x
      /\ \A i \in 2..(1 + Len(p)) : c[i] = p[i - 1] /\ i - 1 \in 1..Len(p)
      /\ p # <<>> => c # <<>> /\ Last(c) = Last(p)
  <2>1. p \in Seq(S) /\ x \in S
    BY <1>1
  <2>2. /\ <<x>> \o p \in Seq(S) /\ Len(<<x>> \o p) = 1 + Len(p) /\ (<<x>> \o p)[1] = x
        /\ \A i \in 2..(1 + Len(p)) : (<<x>> \o p)[i] = p[i - 1] /\ i - 1 \in 1..Len(p)
    BY ONLY <2>1, ConsIs
  <2>3. p # <<>> => <<x>> \o p # <<>> /\ Last(<<x>> \o p) = Last(p)
    BY ONLY <2>1, ConsIs
  <2> QED BY <2>2, <2>3
<1>4. Len(c) = n - k + 2 /\ c[1] = x /\ \A i \in 2..(n - k + 2) : c[i] = es[k + i - 2] /\ k + i - 2 \in 1..n
  <2>1. Len(c) = n - k + 2 /\ c[1] = x
    BY <1>1, <1>3
  <2>2. ASSUME NEW i \in 2..(n - k + 2) PROVE c[i] = es[k + i - 2] /\ k + i - 2 \in 1..n
    <3>1. i \in 2..(1 + Len(p)) /\ i - 1 \in 1..(n - k + 1) /\ k + (i - 1) - 1 = k + i - 2 /\ k + i - 2 \in 1..n
      BY <1>1
    <3> QED BY <1>1, <1>3, <3>1
  <2> QED BY <2>1, <2>2
<1>5. c # <<>> /\ Last(c) = Last(es)
  <2>1. p # <<>> /\ es # <<>>
    BY <1>1
  <2>2. Last(p) = p[Len(p)] /\ Last(es) = es[n]
    BY <1>1, <2>1, FrontIs
  <2>3. Len(p) \in 1..(n - k + 1) /\ k + Len(p) - 1 = n
    BY <1>1
  <2> QED BY <1>1, <1>3, <2>1, <2>2, <2>3
<1> HIDE DEF c
<1>6. \A j \in 1..n : /\ es[j].role = "toolResult" => j > 1 /\ es[j - 1].role = "assistant" /\ es[j - 1].id = es[j].id
                      /\ (es[j].role = "assistant" /\ es[j].kind = "tool" /\ j < n) => es[j + 1] = Result(es[j].id)
  BY DEF Paired
<1>9. DOMAIN c = 1..(n - k + 2) /\ Len(c) = n - k + 2
  BY <1>3, <1>4
<1>7. Paired(c)
  <2>1. ASSUME NEW i \in 1..(n - k + 2)
        PROVE  /\ c[i].role = "toolResult" => i > 1 /\ c[i - 1].role = "assistant" /\ c[i - 1].id = c[i].id
               /\ (c[i].role = "assistant" /\ c[i].kind = "tool" /\ i < n - k + 2) => c[i + 1] = Result(c[i].id)
    <3>1. CASE i = 1
      BY <1>4, <3>1
    <3>2. CASE i # 1
      <4> DEFINE j == k + i - 2
      <4>1. i \in 2..(n - k + 2) /\ j \in 1..n /\ c[i] = es[j]
        <5>1. i \in 2..(n - k + 2)
          BY <1>1, <3>2
        <5> QED BY <1>4, <5>1
      <4>2. i < n - k + 2 => i + 1 \in 2..(n - k + 2) /\ k + (i + 1) - 2 = j + 1 /\ j < n
        BY <1>1, <4>1
      <4>3. i < n - k + 2 => c[i + 1] = es[j + 1]
        BY <1>4, <4>2
      <4>4. CASE i = 2
        <5>1. j = k
          BY <1>1, <4>4
        <5> HIDE DEF j
        <5> QED BY <1>6, <4>1, <4>2, <4>3, <5>1
      <4>5. CASE i # 2
        <5>1. i - 1 \in 2..(n - k + 2) /\ k + (i - 1) - 2 = j - 1 /\ i > 1
          <6>1. n \in Nat /\ k \in 1..n /\ i \in 2..(n - k + 2) /\ i # 2
            BY <1>1, <4>1, <4>5
          <6> QED BY ONLY <6>1 DEF j
        <5>2. c[i - 1] = es[j - 1]
          BY <1>4, <5>1
        <5> HIDE DEF j
        <5> QED BY <1>6, <4>1, <4>2, <4>3, <5>1, <5>2
      <4> QED BY <4>4, <4>5
    <3> QED BY <3>1, <3>2
  <2> QED BY ONLY <1>9, <2>1 DEF Paired
<1>8. Elements(c) \subseteq {x} \cup Elements(es)
  <2>1. ASSUME NEW i \in 1..(n - k + 2) PROVE c[i] \in {x} \cup Elements(es)
    <3>1. CASE i = 1
      BY <1>4, <3>1
    <3>2. CASE i # 1
      <4>1. i \in 2..(n - k + 2)
        BY <1>1, <3>2
      <4> QED BY <1>4, <4>1 DEF Elements
    <3> QED BY <3>1, <3>2
  <2> DEFINE E == {x} \cup Elements(es)
  <2>2. \A i \in 1..(n - k + 2) : c[i] \in E
    BY <2>1
  <2> HIDE DEF E
  <2>3. Elements(c) \subseteq E
    BY ONLY <1>9, <2>2 DEF Elements
  <2> QED BY <2>3 DEF E
<1> QED BY <1>3, <1>5, <1>7, <1>8 DEF c, p

(***************************************************************************)
(* Messages and branches.                                                  *)
(***************************************************************************)
LEMMA RolesAre ==
  ASSUME NEW x \in Messages
  PROVE  /\ x.role = "assistant" <=> x \in Answers
         /\ x.role = "toolResult" <=> x \in Results
         /\ x \in Answers => x.kind \in Kinds /\ x.epoch \in Nat
         /\ x \in Summaries <=> x \notin Entries
  BY DEF Messages, Entries, UserMessages, BashMessages, Results, Answers, Summaries

LEMMA BashesAre ==
  ASSUME NEW u \in Seq(BashMessages)
  PROVE  u \in Seq(Entries) /\ u \in Seq(Messages)
         /\ \A i \in 1..Len(u) : u[i].role \notin {"toolResult", "assistant"} /\ u[i] \notin Answers
<1>1. BashMessages \subseteq Entries /\ BashMessages \subseteq Messages
  BY DEF Messages, Entries
<1>2. \A x \in BashMessages : x.role \notin {"toolResult", "assistant"} /\ x \notin Answers
  BY DEF BashMessages, Answers
<1>3. \A i \in 1..Len(u) : u[i] \in BashMessages
  OBVIOUS
<1>4. u \in Seq(Entries) /\ u \in Seq(Messages)
  BY <1>1
<1> QED BY <1>2, <1>3, <1>4

LEMMA EntriesAreMessages == ASSUME NEW s \in Seq(Entries) PROVE s \in Seq(Messages)
  BY DEF Messages

LEMMA SummariesAre ==
  ASSUME NEW n \in Nat
  PROVE  Summary(n) \in Messages /\ Summary(n).role \notin {"toolResult", "assistant"} /\ Summary(n) \notin Answers
  BY DEF Summary, Messages, Summaries, Answers

LEMMA NoReplyIsNone == NoReply \notin Messages /\ NoReply \notin Answers
  BY DEF NoReply, Messages, Entries, UserMessages, BashMessages, Results, Answers, Summaries

LEMMA LastingOfFront ==
  ASSUME NEW S, NEW s \in Seq(S), s # <<>>, Failure(Last(s))
  PROVE  Lasting(Front(s)) = Lasting(s)
<1> DEFINE f == Front(s)
           x == Last(s)
<1>1. f \in Seq(S) /\ x \in S /\ s = Append(f, x)
  BY FrontIs
<1> HIDE DEF f
<1>2. Failure(x)
  OBVIOUS
<1> HIDE DEF x
<1>3. Lasting(Append(f, x)) = Lasting(f)
  BY <1>1, <1>2, LastingOfAppend
<1> QED BY <1>1, <1>3 DEF f, x

\* The branch with messages u at its end, or with one more compaction.
Grown(b, u) == [b EXCEPT !.messages = b.messages \o u]
Cutting(b, e) == [b EXCEPT !.compactions = Append(b.compactions, e)]
CompactionEntries == [at : Nat, keep : Nat, reason : {"auto", "manual"}]

LEMMA BranchHas ==
  ASSUME NEW b \in Branches
  PROVE  /\ b.messages \in Seq(Entries) /\ b.compactions \in Seq(CompactionEntries)
         /\ Len(b.messages) \in Nat /\ Len(b.compactions) \in Nat
  BY DEF Branches, CompactionEntries

LEMMA GrownIs ==
  ASSUME NEW b \in Branches, NEW u \in Seq(Entries)
  PROVE  /\ Grown(b, u) \in Branches /\ Grown(b, u).messages = b.messages \o u
         /\ Grown(b, u).compactions = b.compactions
<1>1. b.messages \o u \in Seq(Entries)
  BY BranchHas
<1> QED BY <1>1 DEF Grown, Branches

LEMMA CuttingIs ==
  ASSUME NEW b \in Branches, NEW e \in CompactionEntries
  PROVE  /\ Cutting(b, e) \in Branches /\ Cutting(b, e).messages = b.messages
         /\ Cutting(b, e).compactions = Append(b.compactions, e)
<1>1. Append(b.compactions, e) \in Seq(CompactionEntries)
  BY BranchHas
<1> QED BY <1>1 DEF Cutting, Branches, CompactionEntries

\* What buildSessionContext makes of a branch: all its messages, or a summary and those kept.
LEMMA ContextIs ==
  ASSUME NEW b \in Branches, Cut(b)
  PROVE  /\ buildSessionContext(b) \in Seq(Messages)
         /\ b.compactions = <<>> => buildSessionContext(b) = b.messages
         /\ b.compactions # <<>> =>
              /\ KeepsFrom(b, FirstKept(b))
              /\ buildSessionContext(b) = <<Summary(Len(b.compactions))>> \o SubSeq(b.messages, FirstKept(b), Len(b.messages))
<1> DEFINE ms == b.messages
           cs == b.compactions
           k == FirstKept(b)
<1>1. ms \in Seq(Messages) /\ cs \in Seq(CompactionEntries) /\ Len(cs) \in Nat
  BY BranchHas, EntriesAreMessages
<1>2. CASE cs = <<>>
  BY <1>1, <1>2 DEF buildSessionContext
<1>3. CASE cs # <<>>
  <2>1. Last(cs) = cs[Len(cs)] /\ Len(cs) \in 1..Len(cs)
    BY <1>1, <1>3, LastIs
  <2>2. KeepsFrom(b, k)
    BY <1>3, <2>1 DEF Cut, FirstKept
  <2>3. k \in 1..Len(ms)
    BY <2>2 DEF KeepsFrom
  <2> DEFINE x == Summary(Len(cs))
             p == SubSeq(ms, k, Len(ms))
  <2>4. buildSessionContext(b) = <<x>> \o p
    BY <1>3 DEF buildSessionContext
  <2>5. x \in Messages
    BY <1>1, SummariesAre
  <2> HIDE DEF k
  <2>6. p \in Seq(Messages)
    BY <1>1, <2>3
  <2> HIDE DEF x, p
  <2>7. <<x>> \o p \in Seq(Messages)
    BY <2>5, <2>6
  <2> QED BY <1>3, <2>2, <2>4, <2>7 DEF x, p, k
<1> QED BY <1>2, <1>3

LEMMA KeptGrows ==
  ASSUME NEW S, NEW s \in Seq(S), NEW u \in Seq(S), NEW k \in 1..Len(s), NEW x \in S
  PROVE  <<x>> \o SubSeq(s \o u, k, Len(s \o u)) = (<<x>> \o SubSeq(s, k, Len(s))) \o u
<1> DEFINE t == s \o u
           n == Len(s)
           l == Len(u)
           p == SubSeq(t, k, n + l)
           q == SubSeq(s, k, n)
           a == <<x>> \o p
           h == <<x>> \o q
           c == h \o u
<1>1. /\ t \in Seq(S) /\ Len(t) = n + l /\ n \in Nat /\ l \in Nat /\ k \in Nat /\ k >= 1 /\ k <= n
      /\ \A i \in 1..n : t[i] = s[i]
      /\ \A i \in n + 1 .. n + l : t[i] = u[i - n] /\ i - n \in 1..l
  BY ConcatIs
<1> HIDE DEF t
<1>2. /\ p \in Seq(S) /\ Len(p) = n + l - k + 1 /\ \A i \in 1..(n + l - k + 1) : p[i] = t[k + i - 1]
      /\ q \in Seq(S) /\ Len(q) = n - k + 1 /\ \A i \in 1..(n - k + 1) : q[i] = s[k + i - 1]
  BY <1>1
<1> HIDE DEF p, q
<1>0. x \in S /\ p \in Seq(S) /\ q \in Seq(S) /\ u \in Seq(S)
  BY <1>2
<1>3. /\ a \in Seq(S) /\ Len(a) = 1 + Len(p) /\ a[1] = x
      /\ \A i \in 2..(1 + Len(p)) : a[i] = p[i - 1]
  BY ONLY <1>0, ConsIs
<1>4. /\ h \in Seq(S) /\ Len(h) = 1 + Len(q) /\ h[1] = x
      /\ \A i \in 2..(1 + Len(q)) : h[i] = q[i - 1]
  BY ONLY <1>0, ConsIs
<1> HIDE DEF a, h
<1>5. /\ c \in Seq(S) /\ Len(c) = Len(h) + Len(u)
      /\ \A i \in 1..Len(h) : c[i] = h[i]
      /\ \A i \in Len(h) + 1 .. Len(h) + Len(u) : c[i] = u[i - Len(h)]
  <2>1. h \in Seq(S) /\ u \in Seq(S)
    BY <1>0, <1>4
  <2>2. c \in Seq(S) /\ Len(c) = Len(h) + Len(u) /\ \A i \in 1..Len(h) : c[i] = h[i]
    BY ONLY <2>1, ConcatIs
  <2>3. \A i \in Len(h) + 1 .. Len(h) + Len(u) : c[i] = u[i - Len(h)]
    BY ONLY <2>1, ConcatIs
  <2> QED BY <2>2, <2>3
<1> HIDE DEF c, n, l
<1>10. l = Len(u) /\ Len(a) = n + l - k + 2 /\ Len(h) = n - k + 2 /\ Len(c) = n + l - k + 2
  BY <1>1, <1>2, <1>3, <1>4, <1>5 DEF l
<1>7. ASSUME NEW i \in 1..(n + l - k + 2) PROVE a[i] = c[i]
  <2>1. CASE i = 1
    <3>1. 1 \in 1..Len(h)
      BY <1>1, <1>10
    <3>2. c[1] = h[1]
      BY <1>5, <3>1
    <3> QED BY <1>3, <1>4, <2>1, <3>2
  <2>2. CASE i # 1 /\ i <= n - k + 2
    <3>1. i \in 2..(1 + Len(p)) /\ i \in 2..(1 + Len(q)) /\ i \in 1..Len(h)
      BY <1>1, <1>2, <1>10, <2>2
    <3>2. a[i] = p[i - 1] /\ h[i] = q[i - 1] /\ c[i] = h[i]
      BY <1>3, <1>4, <1>5, <3>1
    <3>3. i - 1 \in 1..(n + l - k + 1) /\ i - 1 \in 1..(n - k + 1) /\ k + (i - 1) - 1 \in 1..n
      BY <1>1, <2>2
    <3>4. p[i - 1] = t[k + (i - 1) - 1] /\ q[i - 1] = s[k + (i - 1) - 1]
      BY <1>2, <3>3
    <3> QED BY <1>1, <3>2, <3>3, <3>4
  <2>3. CASE i > n - k + 2
    <3>1. i \in 2..(1 + Len(p)) /\ i \in Len(h) + 1 .. Len(h) + Len(u)
      BY <1>1, <1>2, <1>10, <2>3
    <3>2. a[i] = p[i - 1] /\ c[i] = u[i - Len(h)]
      BY <1>3, <1>5, <3>1
    <3>3. i - 1 \in 1..(n + l - k + 1) /\ k + (i - 1) - 1 \in n + 1 .. n + l /\ k + (i - 1) - 1 - n = i - Len(h)
      BY <1>1, <1>10, <2>3
    <3>4. p[i - 1] = t[k + (i - 1) - 1] /\ t[k + (i - 1) - 1] = u[k + (i - 1) - 1 - n]
      <4>1. p[i - 1] = t[k + (i - 1) - 1]
        BY <1>2, <3>3
      <4>2. t[k + (i - 1) - 1] = u[k + (i - 1) - 1 - n]
        BY <1>1, <3>3
      <4> QED BY <4>1, <4>2
    <3> QED BY <3>2, <3>3, <3>4
  <2> QED BY <1>1, <2>1, <2>2, <2>3
<1>8. a = c
  BY <1>3, <1>5, <1>7, <1>10, SeqEqual
<1>9. a = <<x>> \o SubSeq(t, k, Len(t)) /\ c = (<<x>> \o SubSeq(s, k, Len(s))) \o u
  BY <1>1 DEF a, c, h, p, q, n
<1> QED BY <1>8, <1>9 DEF t

\* A branch that grows stands for as much more.
LEMMA ContextGrows ==
  ASSUME NEW b \in Branches, Cut(b), NEW u \in Seq(Entries)
  PROVE  buildSessionContext(Grown(b, u)) = buildSessionContext(b) \o u
<1> DEFINE c == Grown(b, u)
           ms == b.messages
           cs == b.compactions
           k == FirstKept(b)
<1>1. c.messages = ms \o u /\ c.compactions = cs
  BY GrownIs
<1>2. ms \in Seq(Messages) /\ u \in Seq(Messages) /\ cs \in Seq(CompactionEntries) /\ Len(cs) \in Nat
  BY BranchHas, EntriesAreMessages
<1>3. FirstKept(c) = k
  BY <1>1 DEF FirstKept
<1> HIDE DEF c
<1>4. CASE cs = <<>>
  <2>1. c.compactions = <<>> /\ b.compactions = <<>>
    BY <1>1, <1>4
  <2>2. buildSessionContext(c) = c.messages /\ buildSessionContext(b) = b.messages
    BY ONLY <2>1 DEF buildSessionContext
  <2> QED BY <1>1, <2>2 DEF c
<1>5. CASE cs # <<>>
  <2>1. KeepsFrom(b, k) /\ buildSessionContext(b) = <<Summary(Len(cs))>> \o SubSeq(ms, k, Len(ms))
    BY <1>5, ContextIs
  <2>2. buildSessionContext(c) = <<Summary(Len(cs))>> \o SubSeq(ms \o u, k, Len(ms \o u))
    BY <1>1, <1>3, <1>5 DEF buildSessionContext
  <2>3. k \in 1..Len(ms)
    BY <2>1 DEF KeepsFrom
  <2>4. Summary(Len(cs)) \in Messages
    BY <1>2, SummariesAre
  <2> DEFINE x == Summary(Len(cs))
  <2>5. x \in Messages
    BY <2>4
  <2>6. ms \in Seq(Messages) /\ u \in Seq(Messages)
    BY <1>2
  <2>7. buildSessionContext(c) = <<x>> \o SubSeq(ms \o u, k, Len(ms \o u))
    BY <2>2
  <2>8. buildSessionContext(b) = <<x>> \o SubSeq(ms, k, Len(ms))
    BY <2>1
  <2> HIDE DEF k, x, ms
  <2>9. <<x>> \o SubSeq(ms \o u, k, Len(ms \o u)) = (<<x>> \o SubSeq(ms, k, Len(ms))) \o u
    BY ONLY <2>3, <2>5, <2>6, KeptGrows
  <2> QED BY <2>7, <2>8, <2>9 DEF c
<1> QED BY <1>4, <1>5 DEF c

\* One message more is a sequence of one more.
LEMMA AppendedIsConcat ==
  ASSUME NEW S, NEW s \in Seq(S), NEW x \in S
  PROVE  <<x>> \in Seq(S) /\ Append(s, x) = s \o <<x>>
<1>1. <<x>> \in Seq(S)
  OBVIOUS
<1>2. Append(s, x) = s \o <<x>>
  BY AppendIsConcat
<1> QED BY <1>1, <1>2

(***************************************************************************)
(* What a branch keeps when it grows or is compacted.                      *)
(***************************************************************************)
Timely(b, u) == \A i \in 1..Len(u) : u[i] \in Answers => u[i].epoch <= Len(b.compactions)

\* What was there before is where it was.
LEMMA GrownHas ==
  ASSUME NEW b \in Branches, NEW u \in Seq(Entries)
  PROVE  /\ Elements(b.messages) \subseteq Elements(Grown(b, u).messages)
         /\ Elements(u) \subseteq Elements(Grown(b, u).messages)
         /\ \A k : KeepsFrom(b, k) => KeepsFrom(Grown(b, u), k)
         /\ Fresh(b) => Fresh(Grown(b, u))
<1> DEFINE c == Grown(b, u)
           n == Len(b.messages)
<1>1. c \in Branches /\ c.messages = b.messages \o u /\ c.compactions = b.compactions
  BY GrownIs
<1>2. b.messages \in Seq(Entries) /\ u \in Seq(Entries)
  BY BranchHas
<1> HIDE DEF c
<1>3. /\ Len(c.messages) = n + Len(u) /\ n \in Nat /\ Len(u) \in Nat
      /\ \A i \in 1..n : c.messages[i] = b.messages[i]
  BY <1>1, <1>2, ConcatIs
<1>4. \A i \in 1..n : i \in 1..Len(c.messages)
  BY <1>3
<1> HIDE DEF n
<1>5. Elements(c.messages) = Elements(b.messages) \cup Elements(u)
  BY <1>1, <1>2, ElementsOfConcat
<1>6. \A k : KeepsFrom(b, k) => KeepsFrom(c, k)
  BY <1>3, <1>4 DEF KeepsFrom, n
<1>7. Fresh(b) => Fresh(c)
  <2> HAVE Fresh(b)
  <2>1. PICK k \in 1..n : b.messages[k] \in Answers /\ b.messages[k].epoch >= Len(b.compactions)
    BY DEF Fresh, Since, n
  <2> QED BY <1>1, <1>3, <1>4, <2>1 DEF Fresh, Since
<1> QED BY <1>5, <1>6, <1>7 DEF c

LEMMA RecordedGrows ==
  ASSUME NEW b, Recorded(b), NEW u \in Seq(Entries), Timely(b, u)
  PROVE  Recorded(Grown(b, u))
<1> DEFINE c == Grown(b, u)
           n == Len(b.messages)
           cs == b.compactions
<1>1. b \in Branches
  BY DEF Recorded
<1>2. c \in Branches /\ c.messages = b.messages \o u /\ c.compactions = cs
  BY <1>1, GrownIs
<1>3. b.messages \in Seq(Entries) /\ u \in Seq(Entries) /\ cs \in Seq(CompactionEntries)
  BY <1>1, BranchHas
<1>4. \A k : KeepsFrom(b, k) => KeepsFrom(c, k)
  BY <1>1, GrownHas
<1> HIDE DEF c
<1>5. /\ Len(c.messages) = n + Len(u) /\ n \in Nat /\ Len(u) \in Nat
      /\ \A i \in 1..n : c.messages[i] = b.messages[i]
      /\ \A i \in n + 1 .. n + Len(u) : c.messages[i] = u[i - n] /\ i - n \in 1..Len(u)
  BY <1>2, <1>3, ConcatIs
<1>6. \A i \in 1..Len(cs) : cs[i].at \in Nat
  <2>1. \A i \in 1..Len(cs) : cs[i] \in CompactionEntries
    BY <1>3
  <2> QED BY <2>1 DEF CompactionEntries
<1>7. \A i \in 1..Len(cs) : cs[i].at <= n /\ KeepsFrom(b, cs[i].keep)
  BY DEF Recorded, Cut
<1> HIDE DEF n, cs
<1>8. Cut(c)
  BY <1>2, <1>4, <1>5, <1>6, <1>7 DEF Cut
<1>9. Dated(c)
  <2> SUFFICES ASSUME NEW k \in 1..(n + Len(u)), c.messages[k] \in Answers PROVE DatedAt(c, k)
    BY <1>5 DEF Dated
  <2>1. CASE k <= n
    <3>1. k \in 1..n /\ c.messages[k] = b.messages[k]
      BY <1>5, <2>1
    <3>2. DatedAt(b, k)
      BY <3>1 DEF Recorded, Dated, n
    <3> QED BY <1>2, <3>1, <3>2 DEF DatedAt, cs
  <2>2. CASE k > n
    <3>1. k \in n + 1 .. n + Len(u)
      BY <1>5, <2>2
    <3>2. c.messages[k].epoch <= Len(cs)
      BY <1>5, <3>1 DEF Timely, cs
    <3>3. c.messages[k].epoch \in Nat
      BY DEF Answers
    <3>4. Len(cs) \in Nat
      BY <1>3
    <3>5. \A i \in 1..c.messages[k].epoch : i \in 1..Len(cs)
      BY <3>2, <3>3, <3>4
    <3>6. \A i \in 1..Len(cs) : cs[i].at < k
      BY <1>5, <1>6, <1>7, <2>2
    <3> QED BY <1>2, <3>2, <3>5, <3>6 DEF DatedAt
  <2> QED BY <1>5, <2>1, <2>2
<1>10. Grounded(c)
  <2> SUFFICES ASSUME NEW i \in 1..Len(cs), NEW j \in 1..Len(cs), i < j, cs[j].reason = "auto"
               PROVE  Since(c, i, cs[i].at + 1, cs[j].at)
    BY <1>2 DEF Grounded
  <2>1. Since(b, i, cs[i].at + 1, cs[j].at)
    BY DEF Recorded, Grounded, cs
  <2>2. PICK k \in cs[i].at + 1 .. cs[j].at : b.messages[k] \in Answers /\ b.messages[k].epoch >= i
    BY <2>1 DEF Since
  <2>3. k \in 1..n
    BY <1>5, <1>6, <1>7
  <2> QED BY <1>5, <2>2, <2>3 DEF Since
<1> QED BY <1>2, <1>8, <1>9, <1>10 DEF Recorded, c

LEMMA CuttingHas ==
  ASSUME NEW b \in Branches, NEW e \in CompactionEntries
  PROVE  \A k : KeepsFrom(b, k) => KeepsFrom(Cutting(b, e), k)
  BY CuttingIs DEF KeepsFrom

LEMMA RecordedCompacts ==
  ASSUME NEW b, Recorded(b), NEW e \in CompactionEntries, e.at = Len(b.messages), KeepsFrom(b, e.keep),
         e.reason = "auto" => Fresh(b)
  PROVE  Recorded(Cutting(b, e))
<1> DEFINE c == Cutting(b, e)
           n == Len(b.messages)
           cs == b.compactions
           l == Len(cs)
           ds == c.compactions
<1>1. b \in Branches
  BY DEF Recorded
<1>2. c \in Branches /\ c.messages = b.messages /\ ds = Append(cs, e)
  BY <1>1, CuttingIs
<1>3. b.messages \in Seq(Entries) /\ cs \in Seq(CompactionEntries) /\ n \in Nat /\ l \in Nat
  BY <1>1, BranchHas
<1>4. \A k : KeepsFrom(b, k) => KeepsFrom(c, k)
  BY <1>1, CuttingHas
<1> HIDE DEF c
<1>5. Len(ds) = l + 1 /\ ds[l + 1] = e /\ \A i \in 1..l : ds[i] = cs[i]
  BY <1>2, <1>3
<1>6. \A i \in 1..l : cs[i].at \in Nat
  <2>1. \A i \in 1..l : cs[i] \in CompactionEntries
    BY <1>3
  <2> QED BY <2>1 DEF CompactionEntries
<1>7. \A i \in 1..l : cs[i].at <= n /\ KeepsFrom(b, cs[i].keep)
  BY DEF Recorded, Cut
<1> HIDE DEF n, cs, ds
<1>8. Cut(c)
  <2> SUFFICES ASSUME NEW i \in 1..(l + 1) PROVE ds[i].at <= n /\ KeepsFrom(c, ds[i].keep)
    BY <1>2, <1>5 DEF Cut, n, ds
  <2>1. CASE i = l + 1
    BY <1>3, <1>4, <1>5, <2>1 DEF n
  <2>2. CASE i # l + 1
    <3>1. i \in 1..l
      BY <1>3, <2>2
    <3> QED BY <1>4, <1>5, <1>7, <3>1
  <2> QED BY <2>1, <2>2
<1>9. Dated(c)
  <2> SUFFICES ASSUME NEW k \in 1..n, b.messages[k] \in Answers PROVE DatedAt(c, k)
    BY <1>2 DEF Dated, n
  <2>1. DatedAt(b, k) /\ b.messages[k].epoch \in Nat
    BY DEF Recorded, Dated, n, Answers
  <2>2. b.messages[k].epoch <= l /\ \A i \in 1..b.messages[k].epoch : i \in 1..l /\ cs[i].at < k
    BY <1>3, <2>1 DEF DatedAt, cs
  <2> QED BY <1>2, <1>3, <1>5, <2>1, <2>2 DEF DatedAt, ds
<1>10. Grounded(c)
  <2> SUFFICES ASSUME NEW i \in 1..(l + 1), NEW j \in 1..(l + 1), i < j, ds[j].reason = "auto"
               PROVE  Since(c, i, ds[i].at + 1, ds[j].at)
    BY <1>5 DEF Grounded, ds
  <2>1. i \in 1..l /\ ds[i] = cs[i]
    BY <1>3, <1>5
  <2>2. CASE j = l + 1
    <3>1. PICK k \in 1..n : b.messages[k] \in Answers /\ b.messages[k].epoch >= l
      BY <1>5, <2>2 DEF Fresh, Since, n, cs
    <3>2. DatedAt(b, k) /\ b.messages[k].epoch \in Nat
      BY <3>1 DEF Recorded, Dated, n, Answers
    <3>3. i \in 1..b.messages[k].epoch
      BY <1>3, <2>1, <3>1, <3>2
    <3>4. cs[i].at < k
      BY <3>2, <3>3 DEF DatedAt, cs
    <3>5. k \in cs[i].at + 1 .. n /\ b.messages[k].epoch >= i
      BY <1>3, <1>6, <2>1, <3>1, <3>2, <3>4
    <3> QED BY <1>2, <1>5, <2>1, <2>2, <3>1, <3>5 DEF Since, n
  <2>3. CASE j # l + 1
    <3>1. j \in 1..l /\ ds[j] = cs[j]
      BY <1>3, <1>5, <2>3
    <3>2. Since(b, i, cs[i].at + 1, cs[j].at)
      BY <2>1, <3>1 DEF Recorded, Grounded, cs
    <3> QED BY <1>2, <2>1, <3>1, <3>2 DEF Since
  <2> QED BY <2>2, <2>3
<1> QED BY <1>2, <1>8, <1>9, <1>10 DEF Recorded, c

(***************************************************************************)
(* How the agent's messages stay in step with the branch.                  *)
(***************************************************************************)
\* What was answered before is on the branch.
Answered(ms, b) == \A i \in 1..Len(ms) : ms[i] \in Answers => ms[i] \in Elements(b.messages)

LEMMA MatchGrows ==
  ASSUME NEW b \in Branches, Cut(b), NEW ms, Match(ms, b), Shut(ms, b), NEW u \in Seq(BashMessages)
  PROVE  Match(ms \o u, Grown(b, u)) /\ Shut(ms \o u, Grown(b, u))
<1> DEFINE c == Grown(b, u)
           es == b.messages
<1>1. u \in Seq(Entries) /\ u \in Seq(Messages) /\ \A i \in 1..Len(u) : u[i].role \notin {"toolResult", "assistant"} /\ u[i] \notin Answers
  BY BashesAre
<1>2. c.messages = es \o u /\ buildSessionContext(c) = buildSessionContext(b) \o u
  BY <1>1, GrownIs, ContextGrows
<1>3. Elements(es) \subseteq Elements(c.messages)
  BY <1>1, GrownHas
<1>4. es \in Seq(Entries) /\ ms \in Seq(Messages) /\ buildSessionContext(b) \in Seq(Messages)
  BY BranchHas, ContextIs DEF Match
<1> HIDE DEF c, es
<1> DEFINE ctx == buildSessionContext(b)
<1>5. Lasting(ms) = Lasting(ctx) /\ Paired(ms) /\ Paired(es) /\ Settled(ms) /\ Settled(es)
  BY DEF Match, Shut, es
<1> HIDE DEF ctx
<1>6. Lasting(ms \o u) = Lasting(ctx \o u)
  BY <1>1, <1>4, <1>5, LastingOfConcat DEF ctx
<1>7. Paired(ms \o u) /\ Settled(ms \o u)
  BY <1>1, <1>4, <1>5, PairedConcat
<1>8. Paired(es \o u) /\ Settled(es \o u)
  BY <1>1, <1>4, <1>5, PairedConcat
<1>9. ms \o u \in Seq(Messages)
  BY <1>1, <1>4
<1>10. Answered(ms \o u, c)
  <2>1. Answered(ms, b)
    BY DEF Match, Answered
  <2>2. /\ Len(ms \o u) = Len(ms) + Len(u) /\ Len(ms) \in Nat /\ Len(u) \in Nat
        /\ \A i \in 1..Len(ms) : (ms \o u)[i] = ms[i]
        /\ \A i \in Len(ms) + 1 .. Len(ms) + Len(u) : (ms \o u)[i] = u[i - Len(ms)] /\ i - Len(ms) \in 1..Len(u)
    BY <1>1, <1>4, ConcatIs
  <2> DEFINE t == ms \o u
  <2> SUFFICES ASSUME NEW i \in 1..Len(t), t[i] \in Answers PROVE t[i] \in Elements(c.messages)
    BY DEF Answered
  <2> HIDE DEF t
  <2>3. CASE i <= Len(ms)
    <3>1. i \in 1..Len(ms)
      BY <2>2, <2>3
    <3> QED BY <1>3, <2>1, <2>2, <3>1 DEF Answered, t, es
  <2>4. CASE i > Len(ms)
    <3>1. i \in Len(ms) + 1 .. Len(ms) + Len(u)
      BY <2>2, <2>4 DEF t
    <3> QED BY <1>1, <2>2, <3>1 DEF t
  <2> QED BY <2>2, <2>3, <2>4
<1> QED BY <1>2, <1>6, <1>7, <1>8, <1>9, <1>10 DEF Match, Shut, Answered, c, ctx

\* A message is saved: it joins those that were handled before.
LEMMA MatchSaves ==
  ASSUME NEW b \in Branches, Cut(b), NEW ms, Match(ms, b), NEW x \in Entries,
         \/ x \notin Results /\ Shut(ms, b)
         \/ \E n : x = Result(n) /\ Open(ms, b, n)
  PROVE  Match(Append(ms, x), Grown(b, <<x>>)) /\ Grown(b, <<x>>).messages = Append(b.messages, x)
<1> DEFINE u == <<x>>
           c == Grown(b, u)
           es == b.messages
           ctx == buildSessionContext(b)
<1>1. es \in Seq(Entries) /\ ms \in Seq(Messages) /\ ctx \in Seq(Messages) /\ x \in Messages /\ es \in Seq(Messages)
  BY BranchHas, ContextIs, EntriesAreMessages DEF Match, Messages
<1>2. u \in Seq(Entries) /\ Append(es, x) = es \o u
  BY <1>1, AppendedIsConcat
<1>3. u \in Seq(Messages) /\ Append(ms, x) = ms \o u
  BY <1>1, AppendedIsConcat
<1>4. c.messages = es \o u /\ buildSessionContext(c) = ctx \o u
  BY <1>2, GrownIs, ContextGrows
<1>5. Elements(es) \subseteq Elements(c.messages) /\ Elements(u) \subseteq Elements(c.messages)
  BY <1>2, GrownHas
<1>6. x \in Elements(u)
  BY 1 \in 1..1 DEF Elements
<1>7. Lasting(ms) = Lasting(ctx) /\ Paired(ms) /\ Paired(es) /\ Answered(ms, b)
  BY DEF Match, Answered
<1>8. /\ x.role # "toolResult" /\ Settled(ms) /\ Settled(es)
      \/ \E n : x = Result(n) /\ AskedLast(ms, n) /\ AskedLast(es, n)
  BY <1>1, RolesAre DEF Shut, Open
<1> HIDE DEF u, c, es, ctx
<1>9. Lasting(ms \o u) = Lasting(ctx \o u)
  BY <1>1, <1>3, <1>7, LastingOfConcat
<1>10. Paired(Append(ms, x))
  BY <1>1, <1>7, <1>8, PairedAppend
<1>11. Paired(Append(es, x))
  BY <1>1, <1>7, <1>8, PairedAppend
<1>12. Answered(Append(ms, x), c)
  <2> DEFINE t == Append(ms, x)
  <2>1. Len(t) = Len(ms) + 1 /\ Len(ms) \in Nat /\ t[Len(ms) + 1] = x /\ \A i \in 1..Len(ms) : t[i] = ms[i]
    BY <1>1
  <2> HIDE DEF t
  <2> SUFFICES ASSUME NEW i \in 1..(Len(ms) + 1), t[i] \in Answers PROVE t[i] \in Elements(c.messages)
    BY <2>1 DEF Answered, t
  <2>2. CASE i = Len(ms) + 1
    BY <1>5, <1>6, <2>1, <2>2
  <2>3. CASE i # Len(ms) + 1
    <3>1. i \in 1..Len(ms)
      BY <2>1, <2>3
    <3> QED BY <1>5, <1>7, <2>1, <3>1 DEF Answered, es
  <2> QED BY <2>2, <2>3
<1>13. Append(ms, x) \in Seq(Messages)
  BY <1>1
<1> QED BY <1>2, <1>3, <1>4, <1>9, <1>10, <1>11, <1>12, <1>13 DEF Match, Answered, c, u, es

\* A failed reply is dropped from the agent's messages.
LEMMA MatchDrops ==
  ASSUME NEW b, NEW ms, Match(ms, b), Shut(ms, b), ms # <<>>, Failure(Last(ms))
  PROVE  Match(Front(ms), b) /\ Shut(Front(ms), b)
<1> DEFINE f == Front(ms)
<1>1. ms \in Seq(Messages) /\ Paired(ms) /\ Paired(b.messages) /\ Settled(b.messages) /\ Answered(ms, b)
  BY DEF Match, Shut, Answered
<1>2. f \in Seq(Messages) /\ Len(f) = Len(ms) - 1 /\ Len(ms) \in Nat /\ \A i \in 1..(Len(ms) - 1) : f[i] = ms[i]
  BY <1>1, FrontIs
<1>3. Lasting(f) = Lasting(ms)
  BY <1>1, LastingOfFront
<1>4. Last(ms).role # "toolResult"
  BY DEF Failure
<1>5. Paired(f) /\ Settled(f)
  BY <1>1, <1>4, PairedFront
<1> HIDE DEF f
<1>6. Answered(f, b)
  <2>1. \A i \in 1..Len(f) : i \in 1..Len(ms) /\ i \in 1..(Len(ms) - 1)
    BY <1>2
  <2> QED BY <1>1, <1>2, <2>1 DEF Answered
<1> QED BY <1>1, <1>2, <1>3, <1>5, <1>6 DEF Match, Shut, Answered, f

\* After a compaction the agent's messages are those that the branch stands for.
LEMMA MatchCompacts ==
  ASSUME NEW b, Recorded(b), NEW ms, Match(ms, b), Shut(ms, b), NEW e \in CompactionEntries, Recorded(Cutting(b, e))
  PROVE  LET c == Cutting(b, e) IN
         Match(buildSessionContext(c), c) /\ Shut(buildSessionContext(c), c)
<1> DEFINE c == Cutting(b, e)
           es == b.messages
           ctx == buildSessionContext(c)
           k == FirstKept(c)
<1>1. b \in Branches /\ c \in Branches /\ Cut(c)
  BY DEF Recorded
<1>2. c.messages = es /\ c.compactions = Append(b.compactions, e)
  BY <1>1, CuttingIs
<1>3. es \in Seq(Entries) /\ es \in Seq(Messages) /\ Append(b.compactions, e) # <<>>
  <2>1. es \in Seq(Entries) /\ b.compactions \in Seq(CompactionEntries)
    BY <1>1, BranchHas
  <2>2. es \in Seq(Messages)
    BY ONLY <2>1, EntriesAreMessages
  <2> DEFINE cs == b.compactions
  <2>3. cs \in Seq(CompactionEntries)
    BY <2>1
  <2> HIDE DEF cs
  <2>4. Append(cs, e) # <<>>
    BY <2>3, AppendProperties
  <2> QED BY <2>1, <2>2, <2>4 DEF cs
<1>4. Paired(es) /\ Settled(es)
  BY DEF Match, Shut
<1> HIDE DEF c
<1> DEFINE x == Summary(Len(c.compactions))
<1>5. ctx \in Seq(Messages) /\ KeepsFrom(c, k) /\ ctx = <<x>> \o SubSeq(es, k, Len(es))
  BY <1>1, <1>2, <1>3, ContextIs
<1>6. k \in 1..Len(es) /\ es[k].role # "toolResult"
  BY <1>2, <1>5 DEF KeepsFrom
<1>7. x \in Messages /\ x.role \notin {"toolResult", "assistant"} /\ x \notin Answers
  BY <1>1, BranchHas, SummariesAre
<1>11. es \in Seq(Messages)
  BY <1>3
<1> HIDE DEF x, k, es, ctx
<1> DEFINE d == <<x>> \o SubSeq(es, k, Len(es))
<1>8. d \in Seq(Messages) /\ d # <<>> /\ Paired(d) /\ Last(d) = Last(es) /\ Elements(d) \subseteq {x} \cup Elements(es)
  <2>1. x \in Messages /\ x.role \notin {"toolResult", "assistant"}
    BY <1>7
  <2>2. Paired(es)
    BY <1>4
  <2> QED BY ONLY <1>6, <1>11, <2>1, <2>2, PairedContext
<1> HIDE DEF d
<1>9. ctx = d
  BY <1>5 DEF d
<1>10. Answered(ctx, c)
  <2> SUFFICES ASSUME NEW i \in 1..Len(ctx), ctx[i] \in Answers PROVE ctx[i] \in Elements(es)
    BY <1>2 DEF Answered
  <2>1. ctx[i] \in Elements(ctx)
    BY DEF Elements
  <2> QED BY <1>7, <1>8, <1>9, <2>1
<1>12. es # <<>>
  BY <1>3, <1>6
<1>13. Settled(ctx)
  BY <1>4, <1>8, <1>9, <1>12 DEF Settled
<1>14. Match(ctx, c)
  BY <1>2, <1>4, <1>5, <1>8, <1>9, <1>10 DEF Match, Answered, ctx
<1>15. Shut(ctx, c)
  BY <1>2, <1>4, <1>13 DEF Shut
<1> QED BY <1>14, <1>15 DEF ctx, c

(***************************************************************************)
(* What a step leaves alone.                                               *)
(***************************************************************************)
Outside == {"new", "input", "held", "called", "done", "rejected", "editor"}
SameWay(y) == /\ call'[y].pc = call[y].pc /\ call'[y].stage = call[y].stage
              /\ call'[y].reply = call[y].reply /\ call'[y].keep = call[y].keep
Out(y) == call'[y].pc \in Outside /\ call'[y].reply \in {call[y].reply, NoReply}
Nobody(pc) == \A y \in Users : call[y].pc # pc

BranchKeeps == /\ \A k : KeepsFrom(branch, k) => KeepsFrom(branch', k)
               /\ Elements(branch.messages) \subseteq Elements(branch'.messages)
               /\ Compactions' >= Compactions
FreshStays == Fresh(branch) => Fresh(branch')

SameRecords == /\ hist'.replies = hist.replies /\ hist'.delivered = hist.delivered
               /\ agent'.since \in {agent.since, Compactions}
SameDrafts == sess'.bash \in {sess.bash, <<>>} /\ sess'.last \in {sess.last, NoReply}

LEMMA BranchStays == ASSUME Data, branch' = branch PROVE BranchKeeps /\ FreshStays
<1>1. Compactions \in Nat /\ Compactions' = Compactions
  BY BranchHas DEF Data, Recorded, Compactions
<1> QED BY <1>1 DEF BranchKeeps, FreshStays

LEMMA BranchGrows ==
  ASSUME Recorded(branch), NEW u \in Seq(Entries), branch' = Grown(branch, u)
  PROVE  BranchKeeps /\ FreshStays /\ Compactions' = Compactions
<1>1. branch \in Branches
  BY DEF Recorded
<1>2. Compactions' = Compactions /\ Compactions \in Nat
  BY <1>1, BranchHas, GrownIs DEF Compactions
<1> QED BY <1>1, <1>2, GrownHas DEF BranchKeeps, FreshStays

\* The messages and the branch are left alone.
LEMMA DataStays ==
  ASSUME Data, branch' = branch, agent'.messages = agent.messages,
         agent'.at = "save" <=> agent.at = "save", agent'.at = "tools" <=> agent.at = "tools",
         Saving => agent'.todo = agent.todo, SameRecords,
         sess'.bash \in Seq(BashMessages), sess'.last \in {sess.last, NoReply}
  PROVE  Data'
<1>1. Saving' = Saving /\ Handled' = Handled /\ Pending' = Pending /\ Compactions' = Compactions
  BY DEF Saving, Handled, Pending, Compactions
<1>2. Compactions \in Nat
  BY BranchHas DEF Data, Recorded, Compactions
<1>3. Fields'
  <2>1. Fields
    BY DEF Data
  <2>2. agent'.since \in Nat /\ agent'.since <= Compactions
    BY <1>2, <2>1 DEF SameRecords, Fields
  <2> QED BY <1>1, <2>1, <2>2 DEF SameRecords, Fields
<1>4. Persisted'
  BY <1>1 DEF Data, Persisted, SameRecords
<1>5. Joined'
  BY <1>1 DEF Data, Joined, SameRecords
<1> QED BY <1>1, <1>3, <1>4, <1>5 DEF Data

\* While the agent is idle they may change together.
LEMMA DataAtRest ==
  ASSUME Data, agent.at = "idle", agent'.at = "idle", Recorded(branch'),
         Match(agent'.messages, branch'), Shut(agent'.messages, branch'), BranchKeeps, SameRecords,
         sess'.bash \in Seq(BashMessages), sess'.last \in {sess.last, NoReply}
  PROVE  Data'
<1>1. ~Saving /\ ~Saving' /\ Handled' = agent'.messages
  BY DEF Saving, Handled
<1>2. Compactions \in Nat /\ Compactions' \in Nat
  BY BranchHas DEF Data, Recorded, Compactions
<1>3. Fields'
  <2>1. Fields
    BY DEF Data
  <2>2. agent'.since \in Nat /\ agent'.since <= Compactions'
    BY <1>2, <2>1 DEF SameRecords, Fields, BranchKeeps
  <2> QED BY <1>1, <2>1, <2>2 DEF SameRecords, Fields
<1>4. Persisted'
  BY <1>1 DEF Data, Persisted, SameRecords, BranchKeeps
<1>5. Joined'
  BY <1>1 DEF Joined
<1> QED BY <1>1, <1>3, <1>4, <1>5 DEF Data

LEMMA AtRestHas ==
  ASSUME Data, agent.at = "idle"
  PROVE  /\ Recorded(branch) /\ branch \in Branches /\ Cut(branch)
         /\ Match(agent.messages, branch) /\ Shut(agent.messages, branch)
         /\ agent.messages \in Seq(Messages) /\ sess.bash \in Seq(BashMessages)
  BY DEF Data, Handled, Saving, Joined, Recorded, Match, Fields

\* What a call may do that does not matter here.
LEMMA SoundStays ==
  ASSUME Good, NEW y \in Users, Sound(y), SameWay(y) \/ Out(y), BranchKeeps,
         FreshStays \/ ~Engaged(y), agent.at # "idle" \/ sess'.bash \in {sess.bash, <<>>}
  PROVE  Sound(y)'
<1>1. CASE Out(y)
  BY <1>1 DEF Out, Outside, Sound, Engaged, InPrompt
<1>2. CASE SameWay(y)
  <2>1. call'[y].pc = "summarise" => KeepsFrom(branch', call'[y].keep)
    BY <1>2 DEF SameWay, Sound, BranchKeeps
  <2>2. call'[y].pc \in {"auth", "summarise"} => Fresh(branch')
    BY <1>2 DEF SameWay, Sound, FreshStays, Engaged, InPrompt
  <2>3. ASSUME Engaged(y)', call'[y].pc = "hooks" \/ call'[y].stage = "check" PROVE sess'.bash = <<>>
    <3>1. Engaged(y) /\ (call[y].pc = "hooks" \/ call[y].stage = "check")
      BY <1>2, <2>3 DEF SameWay, Engaged
    <3>2. sess.bash = <<>>
      BY <3>1 DEF Sound
    <3>3. CASE agent.at # "idle"
      <4>1. call[y].pc = "running"
        BY <3>1, <3>3, IdleMeanwhile
      <4> QED BY <3>1, <4>1 DEF Sound
    <3> QED BY <3>2, <3>3
  <2> QED BY <1>2, <2>1, <2>2, <2>3 DEF SameWay, Sound
<1> QED BY <1>1, <1>2

\* The session looks at no reply while the agent is idle and no run has just ended.
LEMMA LatestAtRest ==
  ASSUME Latest, agent'.at = "idle", Nobody("ran")' \/ sess'.last = NoReply, BranchKeeps, sess'.last \in {sess.last, NoReply}
  PROVE  Latest'
  BY NoReplyIsNone DEF Latest, RunOver, Nobody, BranchKeeps, Saving

LEMMA LatestStays ==
  ASSUME Latest, agent'.messages = agent.messages, BranchKeeps, sess'.last = sess.last,
         \A s \in {"save", "poll"} : agent'.at = s /\ agent'.then = "end" => agent.at = s /\ agent.then = "end",
         RunOver' => RunOver
  PROVE  Latest'
  BY DEF Latest, BranchKeeps, Saving, Pending

\* Nobody is over or on the way in.
LEMMA CalmHas ==
  ASSUME Calm
  PROVE  /\ \A y \in Users : call[y].pc \notin {"called", "ran", "continue", "finish"} /\ ~Ended(y)
         /\ agent.at # "poll"
  BY DEF Calm, Calls, Ended

LEMMA ApartStays ==
  ASSUME Apart, sess'.bash \in {sess.bash, <<>>},
         \A y \in Users : /\ Ended(y)' => Ended(y)
                          /\ Engaged(y)' => Engaged(y) /\ call'[y].pc = call[y].pc
                          /\ call'[y].pc = "called" => call[y].pc = "called"
                          /\ call'[y].pc = "ran" => call[y].pc = "ran"
  PROVE  Apart'
  BY DEF Apart

\* One call is under way, and nobody is over before it is.
LEMMA ApartMoves ==
  ASSUME Good, NEW m \in Users, Engaged(m), \A y \in Users : ~Ended(y), \A y \in Users : y # m => (Engaged(y)' => Engaged(y)) /\ (Ended(y)' => Ended(y)),
         \A y \in Users : call'[y].pc # "ran" \/ \A x \in Users : call'[x].pc # "called"
  PROVE  Apart'
<1>1. \A y \in Users : y # m => ~Engaged(y)' /\ ~Ended(y)'
  BY DEF Good, Followed, Alone
<1>2. ~(Ended(m)' /\ Engaged(m)')
  BY DEF Ended, Engaged
<1> QED BY <1>1, <1>2 DEF Apart

LEMMA PlannedStays ==
  ASSUME Planned, BranchKeeps, manual'.pc = "summarise" => manual.pc = "summarise" /\ manual'.keep = manual.keep
  PROVE  Planned'
  BY DEF Planned, BranchKeeps

(***************************************************************************)
(* The steps of the agent.                                                 *)
(***************************************************************************)
\* A message is pushed.
LEMMA PushData ==
  ASSUME Data, agent.at # "save", NEW x \in UserMessages \cup Results \cup Answers,
         agent'.at = "save", agent'.messages = Append(agent.messages, x), agent'.todo = <<x>>, agent'.since = agent.since,
         branch' = branch, sess'.bash = sess.bash, sess'.last = sess.last, hist'.replies \in Nat,
         \A y \in Elements(hist'.delivered) : y \in Elements(hist.delivered) \/ x = User(y),
         x \in Answers => x.epoch <= Compactions /\ x.id = hist'.replies /\ x.kind \in Kinds,
         x \in Results => x = Result(hist'.replies) /\ Open(agent.messages, branch, hist'.replies),
         x \notin Results => Shut(agent.messages, branch)
  PROVE  Data' /\ Pending' = x
<1>1. ~Saving /\ Saving' /\ Handled = agent.messages
  BY DEF Saving, Handled
<1>2. agent.messages \in Seq(Messages) /\ x \in Messages
  BY <1>1 DEF Data, Match, Messages, Entries
<1>3. /\ agent'.messages \in Seq(Messages) /\ agent'.messages # <<>>
      /\ Last(agent'.messages) = x /\ Front(agent'.messages) = agent.messages
  BY <1>2, AppendIs
<1>4. Handled' = agent.messages /\ Pending' = x
  BY <1>1, <1>3 DEF Handled, Saving, Pending
<1>5. Compactions' = Compactions
  BY DEF Compactions
<1>6. Fields'
  BY <1>1, <1>3, <1>4, <1>5 DEF Data, Fields
<1>7. Persisted'
  BY <1>1, <1>4 DEF Data, Persisted
<1>8. Joined'
  BY <1>1, <1>4 DEF Joined, Saving
<1> QED BY <1>1, <1>4, <1>6, <1>7, <1>8 DEF Data

LEMMA LatestPushed ==
  ASSUME Latest, agent'.at = "save", branch' = branch, sess'.last = sess.last, Nobody("ran")',
         agent'.then = "end" => Pending' \in Answers /\ Final(Pending')
  PROVE  Latest'
  BY DEF Latest, RunOver, Nobody, Saving

\* The calls are left alone.
LEMMA CallsStay ==
  ASSUME Good, Shape, call' = call, manual' = manual, BranchKeeps, FreshStays, sess'.bash \in {sess.bash, <<>>}
  PROVE  (\A y \in Users : Sound(y)') /\ Apart' /\ Planned'
<1>1. ASSUME NEW y \in Users PROVE Sound(y)'
  BY SoundStays DEF SameWay, Shape
<1>2. Apart'
  BY ApartStays DEF Shape, Ended, Engaged
<1>3. Planned'
  BY PlannedStays DEF Shape
<1> QED BY <1>1, <1>2, <1>3

LEMMA DeliverShapes == ASSUME Good, HistType, Tended, Shape, Calm, Deliver PROVE Shape'
<1> AgentType /\ SessType /\ PlaceType /\ Data /\ Latest
  BY DEF Good, Types, Shape
<1>1. PICK u \in Users : agent.todo = <<User(u)>>
  BY DEF Deliver, AgentType
<1> DEFINE x == User(u)
<1>2. Head(agent.todo) = x /\ x.id = u /\ x \in UserMessages /\ x \notin Results /\ x \notin Answers
  BY <1>1 DEF User, UserMessages, Results, Answers
<1>3. /\ agent.at = "deliver" /\ agent' = Pushed(x) /\ branch' = branch /\ call' = call /\ manual' = manual
      /\ sess' = [sess EXCEPT !.overflow = @ /\ ~sess.connected]
      /\ hist' = [hist EXCEPT !.delivered = Append(@, u), !.errors = 0, !.recovered = FALSE]
  BY <1>2 DEF Deliver
<1>4. /\ agent'.at = "save" /\ agent'.messages = Append(agent.messages, x) /\ agent'.todo = <<x>>
      /\ agent'.since = agent.since /\ agent'.then = agent.then
  BY <1>3 DEF Pushed, AgentType
<1>5. sess'.bash = sess.bash /\ sess'.last = sess.last
  BY <1>3 DEF SessType
<1>6. hist'.replies = hist.replies /\ hist'.delivered = Append(hist.delivered, u)
  BY <1>3 DEF HistType
<1>7. \A y \in Elements(hist'.delivered) : y \in Elements(hist.delivered) \/ x = User(y)
  <2>1. Elements(hist'.delivered) = Elements(hist.delivered) \cup {u}
    BY <1>6, ElementsOfAppend DEF PlaceType
  <2> QED BY <2>1
<1>8. Shut(agent.messages, branch) /\ hist.replies \in Nat
  BY <1>3 DEF Data, Joined, Saving, Fields
<1> HIDE DEF x
<1>9. Data' /\ Pending' = x
  BY <1>2, <1>3, <1>4, <1>5, <1>6, <1>7, <1>8, PushData
<1>10. agent'.then = "request"
  BY <1>3, <1>4 DEF Tended, Told
<1>11. Nobody("ran")'
  BY <1>3, CalmHas DEF Nobody
<1>12. Latest'
  BY <1>3, <1>4, <1>5, <1>10, <1>11, LatestPushed
<1>13. (\A y \in Users : Sound(y)') /\ Apart' /\ Planned'
  BY <1>3, <1>5, BranchStays, CallsStay
<1> QED BY <1>9, <1>12, <1>13 DEF Shape

LEMMA ReplyArrivesShapes == ASSUME Good, HistType, Tended, Shape, Calm, ReplyArrives PROVE Shape'
<1> AgentType /\ SessType /\ PlaceType /\ Data /\ Latest
  BY DEF Good, Types, Shape
<1>1. PICK r \in Replies :
        /\ agent' = [Pushed(r) EXCEPT !.polled = FALSE, !.then = IF Final(r) THEN "end" ELSE "request"]
        /\ hist' = [hist EXCEPT !.replies = @ + 1, !.errors = IF r.kind \in {"error", "limit"} THEN @ + 1 ELSE 0,
                                !.recovered = @ /\ Failed(r)]
  BY DEF ReplyArrives
<1>2. agent.at = "request" /\ UNCHANGED <<branch, sess, call, manual>>
  BY DEF ReplyArrives
<1>3. hist'.replies = hist.replies + 1 /\ hist'.delivered = hist.delivered
  BY <1>1 DEF HistType
<1>4. hist.replies \in Nat /\ agent.since \in Nat /\ agent.since <= Compactions /\ Shut(agent.messages, branch)
  BY <1>2 DEF Data, Joined, Saving, Fields
<1>5. /\ r \in Answers /\ r.epoch = agent.since /\ r.id = hist'.replies /\ r \notin Results
      /\ r.kind \in Kinds
  BY <1>3, <1>4 DEF Replies, Reply, Answers, Results, Kinds
<1>6. DOMAIN Pushed(r) = DOMAIN agent
  BY PushedFields
<1>7. /\ agent'.at = "save" /\ agent'.messages = Append(agent.messages, r) /\ agent'.todo = <<r>>
      /\ agent'.since = agent.since /\ agent'.then = IF Final(r) THEN "end" ELSE "request"
  <2>1. /\ Pushed(r).at = "save" /\ Pushed(r).messages = Append(agent.messages, r) /\ Pushed(r).todo = <<r>>
        /\ Pushed(r).since = agent.since
    BY DEF Pushed, AgentType
  <2> QED BY <1>1, <1>6, <2>1 DEF AgentType
<1>8. hist'.replies \in Nat
  BY <1>3, <1>4
<1>9. Data' /\ Pending' = r
  BY <1>2, <1>3, <1>4, <1>5, <1>7, <1>8, PushData
<1>10. Nobody("ran")'
  BY <1>2, CalmHas DEF Nobody
<1>11. Latest'
  BY <1>2, <1>5, <1>7, <1>9, <1>10, LatestPushed
<1>12. (\A y \in Users : Sound(y)') /\ Apart' /\ Planned'
  BY <1>2, BranchStays, CallsStay
<1> QED BY <1>9, <1>11, <1>12 DEF Shape

LEMMA ToolAnswersShapes == ASSUME Good, HistType, Tended, Shape, Calm, ToolAnswers PROVE Shape'
<1> AgentType /\ SessType /\ PlaceType /\ Data /\ Latest
  BY DEF Good, Types, Shape
<1> DEFINE r == Result(hist.replies)
<1>1. agent.at = "tools" /\ agent' = Pushed(r) /\ UNCHANGED <<branch, sess, call, manual, hist>>
  BY DEF ToolAnswers
<1>2. hist.replies \in Nat /\ Open(agent.messages, branch, hist.replies)
  BY <1>1 DEF Data, Joined, Fields
<1>3. r \in Results /\ r \notin Answers
  BY <1>2 DEF Result, Results, Answers
<1>4. r = Result(hist'.replies)
  BY <1>1
<1> HIDE DEF r
<1>5. /\ agent'.at = "save" /\ agent'.messages = Append(agent.messages, r) /\ agent'.todo = <<r>>
      /\ agent'.since = agent.since /\ agent'.then = agent.then
  BY <1>1 DEF Pushed, AgentType
<1>6. Data' /\ Pending' = r
  BY <1>1, <1>2, <1>3, <1>4, <1>5, PushData
<1>7. agent'.then = "request"
  BY <1>1, <1>5 DEF Tended, Told
<1>8. Nobody("ran")'
  BY <1>1, CalmHas DEF Nobody
<1>9. Latest'
  BY <1>1, <1>5, <1>7, <1>8, LatestPushed
<1>10. (\A y \in Users : Sound(y)') /\ Apart' /\ Planned'
  BY <1>1, BranchStays, CallsStay
<1> QED BY <1>6, <1>9, <1>10 DEF Shape

LEMMA MessageEndShapes == ASSUME Good, HistType, Tended, Shape, Calm, MessageEnd PROVE Shape'
<1> AgentType /\ SessType /\ PlaceType /\ Data /\ Latest /\ Recorded(branch) /\ Fields /\ Joined
  BY DEF Good, Types, Shape, Data
<1> DEFINE x == Pending
           ms == Handled
<1>1. agent.at = "save" /\ Saving /\ agent.heard
  BY DEF MessageEnd, Saving, Tended, Told
<1>2. /\ agent.messages \in Seq(Messages) /\ agent.messages # <<>> /\ agent.todo = <<x>>
      /\ x \in UserMessages \cup Results \cup Answers /\ (x \in Answers => x.epoch <= Compactions)
  BY <1>1 DEF Fields
<1>3. Head(agent.todo) = x /\ x \in Entries /\ x \in Messages /\ x = Last(agent.messages) /\ ms = Front(agent.messages)
  BY <1>1, <1>2 DEF Entries, Messages, Handled, Pending
<1>4. agent.messages = Append(ms, x) /\ ms \in Seq(Messages)
  BY <1>2, <1>3, FrontIs
<1>5. branch \in Branches /\ Cut(branch) /\ Match(ms, branch)
  BY DEF Recorded, Data
<1>6. /\ agent' = [agent EXCEPT !.todo = Tail(@), !.heard = FALSE, !.at = AfterMessage(x), !.since = Compactions]
      /\ branch' = [branch EXCEPT !.messages = Append(@, x)]
      /\ sess' = IF x.role = "assistant" THEN Counted(x) ELSE sess
      /\ UNCHANGED <<call, manual, hist>>
  BY <1>1, <1>3 DEF MessageEnd
<1>7. \/ x \notin Results /\ Shut(ms, branch)
      \/ \E n : x = Result(n) /\ Open(ms, branch, n)
  BY <1>1 DEF Joined
<1>8. x \in Answers => x.id = hist.replies /\ Shut(ms, branch)
  BY <1>1 DEF Joined, Results, Answers
<1>9. x.role \in {"user", "toolResult", "assistant"} /\ (x.role = "assistant" <=> x \in Answers) /\ (x.role = "toolResult" <=> x \in Results)
      /\ (x \in Answers => x.kind \in Kinds)
  BY <1>2 DEF UserMessages, Results, Answers
<1>10. agent.then = "end" => x \in Answers /\ Final(x)
  BY <1>1 DEF Latest
<1> DEFINE at == AfterMessage(x)
<1>11. /\ at \in {"request", "poll", "tools", "end"} /\ (at = "tools" <=> Asks(x))
       /\ at = "end" => x \in Answers
  BY <1>9 DEF AfterMessage, Asks
<1>12. agent'.at = at /\ agent'.then = agent.then /\ agent'.messages = agent.messages /\ agent'.since = Compactions
  BY <1>6 DEF AgentType
<1>13. branch' = Grown(branch, <<x>>)
  <2>1. branch.messages \in Seq(Entries)
    BY <1>5, BranchHas
  <2>2. Append(branch.messages, x) = branch.messages \o <<x>>
    BY <1>3, <2>1, AppendedIsConcat
  <2> QED BY <1>6, <2>2 DEF Grown
<1>14. <<x>> \in Seq(Entries) /\ Timely(branch, <<x>>)
  BY <1>2, <1>3 DEF Timely, Compactions
<1>15. x \in Answers => sess'.last = x
  BY <1>6, <1>9 DEF Counted, SessType
<1>16. sess'.bash = sess.bash /\ (x \notin Answers => sess'.last = sess.last)
  BY <1>6, <1>9 DEF Counted, SessType
<1>17. BranchKeeps /\ FreshStays /\ Compactions' = Compactions
  BY <1>13, <1>14, BranchGrows
<1> HIDE DEF x, ms, at
<1>18. Match(Append(ms, x), branch') /\ branch'.messages = Append(branch.messages, x)
  BY <1>3, <1>5, <1>7, <1>13, MatchSaves
<1>19. Recorded(branch')
  BY <1>13, <1>14, RecordedGrows
<1>20. x \in Elements(branch'.messages)
  BY <1>3, <1>5, <1>18, BranchHas, ElementsOfAppend
<1>21. ~Saving' /\ Handled' = agent.messages /\ Pending' = x
  BY <1>3, <1>11, <1>12 DEF Saving, Handled, Pending
<1>22. Fields'
  <2>1. Compactions \in Nat
    BY <1>5, BranchHas DEF Compactions
  <2> QED BY <1>6, <1>12, <1>15, <1>16, <1>17, <1>21, <2>1 DEF Fields
<1>23. Persisted'
  BY <1>1, <1>6, <1>17, <1>20, <1>21 DEF Data, Persisted, BranchKeeps, x
<1>24. Joined'
  <2>1. Last(agent.messages) = x /\ agent.messages # <<>>
    BY <1>2, <1>3
  <2>2. Last(branch'.messages) = x /\ branch'.messages # <<>>
    BY <1>3, <1>5, <1>18, BranchHas, AppendIs
  <2>3. ~Asks(x) => Shut(agent.messages, branch')
    BY <2>1, <2>2 DEF Shut, Settled
  <2>4. Asks(x) => Open(agent.messages, branch', hist.replies)
    BY <1>8, <1>9, <2>1, <2>2 DEF Open, AskedLast, Asks
  <2> QED BY <1>6, <1>11, <1>12, <1>21, <2>3, <2>4 DEF Joined
<1>25. Data'
  BY <1>4, <1>18, <1>19, <1>21, <1>22, <1>23, <1>24 DEF Data
<1>26. Nobody("ran")'
  BY <1>6, CalmHas DEF Nobody
<1>27. Latest'
  <2>1. sess'.last \in Answers => sess'.last \in Elements(branch'.messages)
    BY <1>15, <1>16, <1>17, <1>20 DEF Latest, BranchKeeps
  <2>2. agent'.at = "poll" /\ agent'.then = "end" => sess'.last \in Answers /\ Final(sess'.last) /\ sess'.last = x
    BY <1>10, <1>12, <1>15 DEF x
  <2>3. (RunOver' => sess'.last = x) /\ agent'.messages # <<>> /\ Pending' = x
    BY <1>2, <1>11, <1>12, <1>15, <1>21, <1>26 DEF RunOver, Nobody
  <2> QED BY <1>21, <2>1, <2>2, <2>3 DEF Latest
<1>28. (\A y \in Users : Sound(y)') /\ Apart' /\ Planned'
  BY <1>6, <1>16, <1>17, CallsStay
<1> QED BY <1>25, <1>27, <1>28 DEF Shape

LEMMA PollShapes == ASSUME Good, Shape, Poll PROVE Shape'
<1> AgentType /\ SessType /\ Data /\ Latest
  BY DEF Good, Types, Shape
<1>1. agent.at = "poll" /\ UNCHANGED <<branch, sess, call, manual, hist>>
  BY DEF Poll
<1>2. /\ agent'.at = "deliver" \/ (agent'.at = agent.then /\ agent'.then = agent.then)
      /\ agent'.at \in {"deliver", "request", "end"} /\ agent'.messages = agent.messages
      /\ agent'.since \in {agent.since, Compactions}
  BY DEF Poll, AgentType
<1>3. Data'
  BY <1>1, <1>2, DataStays DEF Saving, SameRecords, Data, Fields
<1>4. BranchKeeps /\ FreshStays
  BY <1>1, BranchStays
<1>5. Latest'
  <2>1. CASE agent'.at = "end"
    <3>1. sess.last \in Answers /\ agent.messages # <<>> /\ Pending = sess.last
      BY <1>1, <1>2, <2>1 DEF Latest
    <3>2. sess'.last \in Answers /\ agent'.messages # <<>> /\ Pending' = sess'.last
      BY <1>1, <1>2, <3>1 DEF Pending
    <3> QED BY <1>1, <2>1, <3>2 DEF Latest, Saving
  <2>2. CASE agent'.at # "end"
    BY <1>1, <1>2, <1>4, <2>2, LatestStays DEF RunOver
  <2> QED BY <2>1, <2>2
<1>6. (\A y \in Users : Sound(y)') /\ Apart' /\ Planned'
  BY <1>1, <1>4, CallsStay
<1> QED BY <1>3, <1>5, <1>6 DEF Shape

LEMMA RunEndsShapes == ASSUME Good, Shape, Calm, RunEnds PROVE Shape'
<1> AgentType /\ SessType /\ CallType /\ Data /\ Latest
  BY DEF Good, Types, Shape
<1> DEFINE m == agent.owner
<1>1. /\ agent.at = "end" /\ call' = At(m, "ran") /\ UNCHANGED <<branch, sess, manual, hist>>
      /\ agent' = [agent EXCEPT !.at = "idle", !.aborted = FALSE, !.owner = None, !.then = "request", !.polled = FALSE]
  BY DEF RunEnds
<1>2. /\ m \in Users /\ agent'.at = "idle" /\ agent'.messages = agent.messages /\ agent'.since = agent.since
  BY <1>1 DEF AgentType
<1>3. call[m].pc = "running"
  BY <1>1, <1>2 DEF Good, Followed, Owned
<1> HIDE DEF m
<1>4. /\ call'[m].pc = "ran" /\ call'[m].stage = call[m].stage /\ call'[m].reply = call[m].reply
      /\ \A y \in Users : y # m => call'[y] = call[y]
  BY <1>1, <1>2 DEF At, CallType
<1>5. Data'
  BY <1>1, <1>2, DataStays DEF Saving, SameRecords, Data, Fields
<1>6. BranchKeeps /\ FreshStays
  BY <1>1, BranchStays
<1>7. Latest'
  BY <1>1, <1>2, <1>6, LatestStays DEF RunOver
<1>8. ASSUME NEW y \in Users PROVE Sound(y)'
  <2>1. CASE y # m
    BY <1>1, <1>4, <1>6, <2>1, SoundStays DEF SameWay, Shape
  <2>2. CASE y = m
    BY <1>3, <1>4, <2>2 DEF Sound, Shape
  <2> QED BY <2>1, <2>2
<1>9. Apart'
  <2>1. Engaged(m)
    BY <1>3 DEF Engaged, InPrompt
  <2>2. \A y \in Users : ~Ended(y) /\ call'[y].pc # "called"
    BY <1>4, CalmHas
  <2>3. \A y \in Users : y # m => (Engaged(y)' => Engaged(y)) /\ (Ended(y)' => Ended(y))
    BY <1>4 DEF Engaged, Ended
  <2> QED BY <1>2, <2>1, <2>2, <2>3, ApartMoves
<1>10. Planned'
  BY <1>1, <1>6, PlannedStays DEF Shape
<1> QED BY <1>5, <1>7, <1>8, <1>9, <1>10 DEF Shape

(***************************************************************************)
(* The last message of a kind, and what _checkCompaction finds.            *)
(***************************************************************************)
LEMMA MaxIs ==
  ASSUME NEW n \in Nat, NEW I \in SUBSET (1..n), I # {}
  PROVE  Max(I) \in I /\ \A i \in I : i <= Max(I)
<1> DEFINE T == {k \in Nat : \A i \in I : i <= k}
<1>1. n \in T
  OBVIOUS
<1>2. PICK k \in T : \A j \in T : k <= j
  BY <1>1, LeastOf
<1>3. k \in I
  <2> SUFFICES ASSUME k \notin I PROVE FALSE
    OBVIOUS
  <2>1. PICK i \in I : i \in 1..n
    OBVIOUS
  <2>2. k - 1 \in Nat /\ \A j \in I : j <= k - 1
    BY <1>2, <2>1
  <2> QED BY <1>2, <2>2
<1>4. \E x \in I : \A y \in I : x >= y
  BY <1>2, <1>3
<1>5. Max(I) \in I /\ \A y \in I : Max(I) >= y
  BY <1>4 DEF Max
<1> QED BY <1>5

LEMMA LastUsageIs ==
  ASSUME NEW S, NEW s \in Seq(S), LastUsage(s) # 0
  PROVE  LastUsage(s) \in 1..Len(s) /\ s[LastUsage(s)].role = "assistant"
<1> DEFINE I == {i \in 1..Len(s) : s[i].role = "assistant" /\ s[i].kind \in {"stop", "tool", "length"}}
<1>1. LastUsage(s) = IF I # {} THEN Max(I) ELSE 0
  BY DEF LastUsage, SelectLastInSeq
<1>2. I # {} /\ LastUsage(s) = Max(I)
  BY <1>1
<1>3. Len(s) \in Nat /\ I \in SUBSET (1..Len(s))
  OBVIOUS
<1>4. Max(I) \in I
  <2> HIDE DEF I
  <2> QED BY <1>2, <1>3, MaxIs
<1> QED BY <1>2, <1>4

LastReply(s) == SelectLastInSeq(s, LAMBDA x : x.role = "assistant")
LEMMA LastReplyIs ==
  ASSUME NEW S, NEW s \in Seq(S)
  PROVE  /\ LastReply(s) # 0 => LastReply(s) \in 1..Len(s) /\ s[LastReply(s)].role = "assistant"
         /\ EndsWithReply(s) => LastReply(s) = Len(s)
<1> DEFINE I == {i \in 1..Len(s) : s[i].role = "assistant"}
<1>1. LastReply(s) = IF I # {} THEN Max(I) ELSE 0
  BY DEF LastReply, SelectLastInSeq
<1>2. Len(s) \in Nat /\ I \in SUBSET (1..Len(s))
  OBVIOUS
<1>3. I # {} => Max(I) \in I /\ \A i \in I : i <= Max(I)
  <2> HIDE DEF I
  <2> QED BY <1>2, MaxIs
<1>4. ASSUME EndsWithReply(s) PROVE LastReply(s) = Len(s)
  <2>1. Len(s) \in I
    BY <1>4 DEF EndsWithReply, Last
  <2>2. Len(s) <= Max(I) /\ Max(I) \in 1..Len(s) /\ I # {}
    BY <1>3, <2>1
  <2> QED BY <1>1, <1>2, <2>2
<1> QED BY <1>1, <1>3, <1>4

LEMMA FreshHas ==
  ASSUME branch \in Branches, NEW r \in Answers, r \in Elements(branch.messages), ~Stale(r)
  PROVE  Fresh(branch)
<1>1. PICK k \in 1..Len(branch.messages) : branch.messages[k] = r
  BY DEF Elements
<1>2. r.epoch \in Nat /\ Len(branch.compactions) \in Nat
  BY BranchHas DEF Answers
<1>3. r.epoch >= Len(branch.compactions)
  BY <1>2 DEF Stale, Compactions
<1> QED BY <1>1, <1>3 DEF Fresh, Since

\* A compaction is called for by a reply that came after the last one.
LEMMA CheckFresh ==
  ASSUME Data, agent.at = "idle", NEW r, NEW skip, Check(r, skip) # "no",
         r # NoReply => r \in Answers /\ (r \in Elements(branch.messages) \/ r.kind = "error")
  PROVE  Fresh(branch)
<1> DEFINE usage == LastUsage(agent.messages)
           from == IF Failed(r) THEN IF usage = 0 THEN NoReply ELSE agent.messages[usage] ELSE r
           high == ~Stale(from) /\ from.usage = "high"
           last == IF from = NoReply THEN "no" ELSE IF high THEN "compact" ELSE "no"
<1>1. Check(r, skip) = CASE r = NoReply -> "no"
        [] r # NoReply /\ (Stale(r) \/ (skip /\ r.kind = "aborted")) -> "no"
        [] r # NoReply /\ ~Stale(r) /\ Overflowed(r) -> IF sess.overflow THEN "no" ELSE "retry"
        [] OTHER -> last
  BY DEF Check
<1>2. branch \in Branches /\ agent.messages \in Seq(Messages) /\ Match(agent.messages, branch)
  BY AtRestHas
<1> HIDE DEF last
<1>3. r # NoReply /\ ~Stale(r) /\ (Overflowed(r) \/ last # "no")
  BY <1>1
<1>4. CASE r \in Elements(branch.messages)
  BY <1>2, <1>3, <1>4, FreshHas
<1>5. CASE r \notin Elements(branch.messages)
  <2>1. r.kind = "error"
    BY <1>3, <1>5
  <2>2. from # NoReply /\ ~Stale(from)
    BY <1>3, <2>1 DEF last, Overflowed
  <2>3. usage # 0 /\ from = agent.messages[usage]
    BY <2>1, <2>2 DEF Failed
  <2>4. usage \in 1..Len(agent.messages) /\ from.role = "assistant"
    BY <1>2, <2>3, LastUsageIs
  <2>5. agent.messages[usage] \in Messages
    BY <1>2, <2>4
  <2>6. from \in Answers
    BY <2>3, <2>4, <2>5, RolesAre
  <2>7. from \in Elements(branch.messages)
    BY <1>2, <2>3, <2>4, <2>6 DEF Match
  <2> HIDE DEF from
  <2> QED BY <1>2, <2>2, <2>6, <2>7, FreshHas
<1> QED BY <1>4, <1>5

(***************************************************************************)
(* What the steps of a call have in common.                                *)
(***************************************************************************)
LEMMA MessagesAre ==
  ASSUME Data
  PROVE  agent.messages \in Seq(Messages) /\ branch \in Branches /\ sess.bash \in Seq(BashMessages)
  BY DEF Data, Handled, Fields, Match, Recorded

\* Bash messages are added to the agent's messages and to the branch while the agent is idle.
LEMMA BashGrows ==
  ASSUME Data, agent.at = "idle", agent'.at = "idle", NEW u \in Seq(BashMessages), branch' = Grown(branch, u),
         agent'.messages = agent.messages \o u, SameRecords,
         sess'.bash \in Seq(BashMessages), sess'.last \in {sess.last, NoReply}
  PROVE  Data' /\ BranchKeeps /\ FreshStays /\ Match(agent'.messages, branch') /\ Shut(agent'.messages, branch')
<1>1. /\ Recorded(branch) /\ branch \in Branches /\ Cut(branch)
      /\ Match(agent.messages, branch) /\ Shut(agent.messages, branch)
  BY AtRestHas
<1>2. u \in Seq(Entries) /\ Timely(branch, u)
  BY BashesAre DEF Timely
<1>3. Recorded(branch')
  BY <1>1, <1>2, RecordedGrows
<1>4. Match(agent'.messages, branch') /\ Shut(agent'.messages, branch')
  BY <1>1, MatchGrows
<1>5. BranchKeeps /\ FreshStays
  BY <1>1, <1>2, BranchGrows
<1> QED BY <1>3, <1>4, <1>5, DataAtRest

\* The deferred ones are, or there are none.
LEMMA FlushShapes ==
  ASSUME Good, Data, FlushBash, agent.at = "idle" \/ sess.bash = <<>>,
         hist'.replies = hist.replies, hist'.delivered = hist.delivered
  PROVE  /\ Data' /\ BranchKeeps /\ FreshStays
         /\ sess'.bash = <<>> /\ sess'.last = sess.last
         /\ agent'.at = agent.at /\ agent'.then = agent.then
         /\ agent.at # "idle" => agent'.messages = agent.messages
<1> AgentType /\ SessType
  BY DEF Good, Types
<1>1. /\ agent'.messages = agent.messages \o sess.bash /\ agent'.at = agent.at /\ agent'.then = agent.then
      /\ agent'.todo = agent.todo /\ agent'.since = agent.since
      /\ branch' = Grown(branch, sess.bash) /\ sess'.bash = <<>> /\ sess'.last = sess.last
  BY DEF FlushBash, AgentType, SessType, Grown
<1>2. agent.messages \in Seq(Messages) /\ branch \in Branches /\ sess.bash \in Seq(BashMessages)
  BY MessagesAre
<1>3. <<>> \in Seq(BashMessages)
  OBVIOUS
<1>4. CASE agent.at = "idle"
  <2>1. SameRecords
    BY <1>1 DEF SameRecords
  <2> QED BY <1>1, <1>2, <1>3, <1>4, <2>1, BashGrows
<1>5. CASE agent.at # "idle"
  <2>1. sess.bash = <<>>
    BY <1>5
  <2>2. agent'.messages = agent.messages
    BY <1>1, <1>2, <2>1
  <2>3. branch.messages \in Seq(Entries)
    BY <1>2, BranchHas
  <2>4. branch' = [branch EXCEPT !.messages = branch.messages]
    BY <1>1, <2>1, <2>3 DEF Grown
  <2>5. branch' = branch
    BY <1>2, <2>4 DEF Branches
  <2>6. Data'
    BY <1>1, <1>3, <2>2, <2>5, DataStays DEF Saving, SameRecords
  <2> QED BY <1>1, <2>2, <2>5, <2>6, BranchStays
<1> QED BY <1>4, <1>5

\* The agent's last message is dropped if it is a failed reply.
LEMMA DropData ==
  ASSUME Data, agent.at = "idle", agent'.at = "idle", branch' = branch,
         \/ agent'.messages = agent.messages
         \/ agent'.messages = Front(agent.messages) /\ agent.messages # <<>> /\ Failure(Last(agent.messages)),
         SameRecords, sess'.bash \in Seq(BashMessages), sess'.last \in {sess.last, NoReply}
  PROVE  Data' /\ BranchKeeps /\ FreshStays
<1>1. Recorded(branch) /\ Match(agent.messages, branch) /\ Shut(agent.messages, branch)
  BY AtRestHas
<1>2. Match(agent'.messages, branch) /\ Shut(agent'.messages, branch)
  BY <1>1, MatchDrops
<1>3. BranchKeeps /\ FreshStays
  BY BranchStays
<1> QED BY <1>1, <1>2, <1>3, DataAtRest

\* No reply is expected once no call is looked at.
LEMMA SoundElsewhere ==
  ASSUME NEW m \in Users, call'[m].reply = NoReply \/ (call'[m].reply \in Answers /\ call'[m].reply.kind = "error"),
         call'[m].pc \notin {"auth", "summarise", "running"},
         sess'.bash = <<>> \/ (call'[m].pc # "hooks" /\ call'[m].stage # "check")
  PROVE  Sound(m)'
  BY DEF Sound

\* A call under way keeps its stage and the deferred messages it has.
LEMMA SoundMoves ==
  ASSUME NEW m \in Users, Sound(m), Engaged(m), call[m].pc # "running",
         call'[m].reply \in {call[m].reply, NoReply} \/ (call'[m].reply \in Answers /\ call'[m].reply.kind = "error"),
         call'[m].pc # "running", call'[m].stage = call[m].stage, sess'.bash \in {sess.bash, <<>>},
         call'[m].pc = "hooks" => call[m].stage = "check" \/ sess'.bash = <<>>,
         call'[m].pc \in {"auth", "summarise"} => Fresh(branch'),
         call'[m].pc = "summarise" => KeepsFrom(branch', call'[m].keep)
  PROVE  Sound(m)'
  BY DEF Sound

\* Nobody else is under way.
LEMMA OthersRest ==
  ASSUME Good, NEW m \in Users, Engaged(m)
  PROVE  /\ \A y \in Users : y # m => ~Engaged(y) /\ call[y].pc # "ran"
         /\ call[m].pc # "ran" => Nobody("ran")
         /\ Apart /\ call[m].pc \notin {"auth", "hooks", "running"} => \A y \in Users : ~Ended(y)
<1>1. \A y \in Users : y # m => ~Engaged(y)
  BY DEF Good, Followed, Alone
<1>2. \A y \in Users : y # m => call[y].pc # "ran"
  BY <1>1 DEF Engaged, InPrompt
<1>3. ~Ended(m)
  BY DEF Ended, Engaged
<1> QED BY <1>1, <1>2, <1>3 DEF Nobody, Apart

\* What is left to show when the call for m moves.
LEMMA MoverShapes ==
  ASSUME Good, Shape, NEW m \in Users, Engaged(m), \A y \in Users : ~Ended(y), call'[m].pc # "ran",
         \A y \in Users : y # m => SameWay(y) \/ Out(y),
         Sound(m)', Data', Nobody("ran")' => Latest', BranchKeeps, sess'.bash \in {sess.bash, <<>>}, manual' = manual
  PROVE  Shape'
<1>1. \A y \in Users : y # m => ~Engaged(y) /\ call[y].pc # "ran"
  BY OthersRest
<1>2. \A y \in Users : y # m => /\ ~Engaged(y)' /\ call'[y].pc # "ran"
                                /\ (Ended(y)' => Ended(y))
  BY <1>1 DEF SameWay, Out, Outside, Engaged, InPrompt, Ended
<1>3. Nobody("ran")'
  BY <1>2 DEF Nobody
<1>4. ASSUME NEW y \in Users PROVE Sound(y)'
  <2>1. CASE y # m
    BY <1>1, <2>1, SoundStays DEF Shape
  <2> QED BY <2>1
<1>5. Apart'
  <2>1. \A y \in Users : call'[y].pc # "ran"
    BY <1>3 DEF Nobody
  <2> QED BY <1>2, <2>1, ApartMoves
<1>6. Planned'
  BY PlannedStays DEF Shape
<1> QED BY <1>3, <1>4, <1>5, <1>6 DEF Shape

\* A call that is woken goes on.
Woken(y) == /\ call[y].pc \in {"sleeping", "cancelled"} /\ call'[y].pc \in {"cancelled", "continue"}
            /\ call'[y].stage = call[y].stage /\ call'[y].reply = call[y].reply

\* A step that touches neither messages nor runs: calls come and go, or are woken.
LEMMA OutsideShapes ==
  ASSUME Good, Shape, Calm, branch' = branch, agent'.messages = agent.messages, agent'.at = agent.at,
         agent'.todo = agent.todo, agent'.then = agent.then, agent'.since = agent.since,
         sess'.bash = sess.bash, sess'.last = sess.last,
         hist'.replies = hist.replies, hist'.delivered = hist.delivered,
         \A y \in Users : SameWay(y) \/ Out(y) \/ Woken(y),
         manual'.pc = "summarise" => manual.pc = "summarise" /\ manual'.keep = manual.keep
  PROVE  Shape'
<1> Data /\ Latest
  BY DEF Shape
<1>1. \A y \in Users : call[y].pc \notin {"called", "ran", "continue", "finish"} /\ ~Ended(y)
  BY CalmHas
<1>2. BranchKeeps /\ FreshStays
  BY BranchStays
<1>3. Data'
  BY DataStays DEF Saving, SameRecords, Data, Fields
<1>4. \A y \in Users : call'[y].pc # "ran" /\ ~Ended(y)'
  BY <1>1 DEF SameWay, Out, Outside, Woken, Ended
<1>5. Latest'
  BY <1>2, <1>4, LatestStays DEF RunOver
<1>6. ASSUME NEW y \in Users PROVE Sound(y)'
  <2>1. CASE SameWay(y) \/ Out(y)
    BY <1>2, <2>1, SoundStays DEF Shape
  <2>2. CASE Woken(y)
    <3>1. Engaged(y) /\ Sound(y)
      BY <2>2 DEF Woken, Engaged, InPrompt, Shape
    <3> QED BY <2>2, <3>1, SoundMoves DEF Woken
  <2> QED BY <2>1, <2>2
<1>7. Apart'
  BY <1>4 DEF Apart
<1>8. Planned'
  BY <1>2, PlannedStays DEF Shape
<1> QED BY <1>3, <1>5, <1>6, <1>7, <1>8 DEF Shape

(***************************************************************************)
(* The steps of prompt().                                                  *)
(***************************************************************************)
LEMMA FinishShapes == ASSUME Good, HistType, Tended, Shape, NEW m \in Users, Finish(m) PROVE Shape'
<1> AgentType /\ SessType /\ CallType /\ Data /\ Latest /\ Apart
  BY DEF Good, Types, Shape
<1> DEFINE p == IF call[m].stage = "pre" THEN "hooks" ELSE "done"
<1>1. call[m].pc = "finish" /\ call' = At(m, p) /\ FlushBash /\ UNCHANGED <<manual, hist>>
  BY DEF Finish
<1>2. call[m].stage \in {"own", "pre"}
  BY <1>1 DEF CallType, Stages, Tended, NoneHalted, Halted
<1>3. /\ call'[m].pc = p /\ call'[m].stage = call[m].stage /\ call'[m].reply = call[m].reply
      /\ \A y \in Users : y # m => call'[y] = call[y]
  BY <1>1 DEF At, CallType
<1>4. CASE call[m].stage = "pre"
  <2>1. Engaged(m)
    BY <1>1, <1>4 DEF Engaged, InPrompt
  <2>2. agent.at = "idle"
    BY <1>1, <2>1, IdleMeanwhile
  <2>3. Data' /\ BranchKeeps /\ sess'.bash = <<>> /\ sess'.last = sess.last /\ agent'.at = "idle"
    BY <1>1, <2>2, FlushShapes
  <2>4. Sound(m)'
    BY <1>1, <1>3, <1>4, <2>1, <2>3, SoundMoves DEF Shape
  <2>5. \A y \in Users : ~Ended(y)
    BY <1>1, <2>1, OthersRest
  <2>6. Nobody("ran")' => Latest'
    BY <2>3, LatestAtRest
  <2> QED BY <1>1, <1>3, <1>4, <2>1, <2>3, <2>4, <2>5, <2>6, MoverShapes DEF SameWay
<1>5. CASE call[m].stage = "own"
  <2>1. Ended(m) /\ p = "done"
    BY <1>1, <1>5 DEF Ended
  <2>2. \A y \in Users : call[y].pc # "ran"
    BY <2>1 DEF Apart, Engaged, InPrompt
  <2>3. agent.at = "idle" \/ sess.bash = <<>>
    BY <2>1, BusyIsMinded DEF Apart
  <2>4. /\ Data' /\ BranchKeeps /\ FreshStays /\ sess'.bash = <<>> /\ sess'.last = sess.last
        /\ agent'.at = agent.at /\ agent'.then = agent.then /\ (agent.at # "idle" => agent'.messages = agent.messages)
    BY <1>1, <2>3, FlushShapes
  <2>5. \A y \in Users : call'[y].pc # "ran"
    BY <1>3, <2>1, <2>2
  <2>6. Latest'
    <3>1. CASE agent.at = "idle"
      BY <2>4, <2>5, <3>1, LatestAtRest DEF Nobody
    <3>2. CASE agent.at # "idle"
      BY <2>4, <2>5, <3>2, LatestStays DEF RunOver
    <3> QED BY <3>1, <3>2
  <2>7. ASSUME NEW y \in Users PROVE Sound(y)'
    <3>1. SameWay(y) \/ Out(y)
      BY <1>3, <2>1 DEF SameWay, Out, Outside
    <3> QED BY <2>4, <3>1, SoundStays DEF Shape
  <2>8. Apart'
    BY <1>3, <2>1, <2>4, <2>5, ApartStays DEF Ended, Engaged, InPrompt
  <2>9. Planned'
    BY <1>1, <2>4, PlannedStays DEF Shape
  <2> QED BY <2>4, <2>6, <2>7, <2>8, <2>9 DEF Shape
<1> QED BY <1>2, <1>4, <1>5

LEMMA WakeShapes == ASSUME Good, Shape, Calm, NEW m \in Users, Wake(m) PROVE Shape'
<1> SessType /\ CallType
  BY DEF Good, Types
<1>1. /\ call[m].pc = "sleeping" /\ call' = At(m, "continue") /\ UNCHANGED <<agent, branch, manual, hist>>
      /\ sess'.bash = sess.bash /\ sess'.last = sess.last
  BY DEF Wake, SessType
<1>2. /\ call'[m].pc = "continue" /\ call'[m].stage = call[m].stage /\ call'[m].reply = call[m].reply
      /\ \A y \in Users : y # m => call'[y] = call[y]
  BY <1>1 DEF At, CallType
<1>3. \A y \in Users : SameWay(y) \/ Woken(y)
  BY <1>1, <1>2 DEF SameWay, Woken
<1> QED BY <1>1, <1>3, OutsideShapes

\* A message of a kind that _checkCompaction retries after is the last one, and failed.
LEMMA DropReplyIs ==
  ASSUME NEW ms, EndsWithReply(ms) => Fruitless(Last(ms))
  PROVE  DropReply(ms) = ms \/ (DropReply(ms) = Front(ms) /\ ms # <<>> /\ Failure(Last(ms)))
  BY DEF DropReply, EndsWithReply, Failure

LEMMA CheckAfterRunShapes ==
  ASSUME Good, HistType, Tended, Shape, NEW m \in Users, call[m].pc \in {"ran", "cancelled"}, NEW msg, NEW s,
         DOMAIN s = DOMAIN sess, s.bash = sess.bash, s.last \in {sess.last, NoReply},
         msg # NoReply => msg \in Answers /\ (msg \in Elements(branch.messages) \/ msg.kind = "error"),
         msg # NoReply /\ Overflowed(msg) => agent.messages # <<>> /\ Pending = msg,
         CheckAfterRun(m, msg, s), UNCHANGED <<branch, manual>>
  PROVE  Shape'
<1> AgentType /\ SessType /\ CallType /\ Data /\ Latest /\ Apart
  BY DEF Good, Types, Shape
<1> DEFINE job == Check(msg, TRUE)
           p == IF job = "no" THEN NotCompacted(m, queue) ELSE "auth"
<1>1. /\ agent' = [agent EXCEPT !.messages = IF job = "retry" THEN DropReply(agent.messages) ELSE agent.messages]
      /\ sess' = [s EXCEPT !.overflow = @ \/ job = "retry"]
      /\ hist' = [hist EXCEPT !.recovered = @ \/ job = "retry", !.errors = 0]
      /\ call' = [call EXCEPT ![m].pc = p, ![m].reply = NoReply, ![m].willRetry = job = "retry"]
  BY DEF CheckAfterRun, Start
<1>2. Engaged(m) /\ call[m].pc \notin {"running", "auth", "hooks"}
  BY DEF Engaged, InPrompt
<1>3. agent.at = "idle"
  BY <1>2, IdleMeanwhile
<1>4. job = "retry" => msg # NoReply /\ Overflowed(msg)
  BY CheckRetry
<1>5. job # "no" => Fresh(branch)
  BY <1>3, CheckFresh
<1> HIDE DEF job
<1>6. p \in {"hooks", "continue", "finish", "auth"} /\ (p = "hooks" => call[m].stage = "check") /\ (p = "auth" => job # "no")
  BY NotCompactedFields
<1> HIDE DEF p
<1>7. /\ call'[m].pc = p /\ call'[m].stage = call[m].stage /\ call'[m].reply = NoReply
      /\ \A y \in Users : y # m => call'[y] = call[y]
  BY <1>1 DEF CallType
<1>8. /\ agent'.at = "idle" /\ agent'.since = agent.since
      /\ agent'.messages = IF job = "retry" THEN DropReply(agent.messages) ELSE agent.messages
  BY <1>1, <1>3 DEF AgentType
<1>9. sess'.bash = sess.bash /\ sess'.last \in {sess.last, NoReply}
  BY <1>1 DEF SessType
<1>10. hist'.replies = hist.replies /\ hist'.delivered = hist.delivered
  BY <1>1 DEF HistType
<1>11. \/ agent'.messages = agent.messages
       \/ agent'.messages = Front(agent.messages) /\ agent.messages # <<>> /\ Failure(Last(agent.messages))
  <2>1. CASE job = "retry"
    <3>1. Fruitless(Last(agent.messages))
      BY <1>4, <2>1 DEF Fruitless, Pending
    <3> QED BY <1>8, <2>1, <3>1, DropReplyIs
  <2> QED BY <1>8, <2>1
<1>12. Data' /\ BranchKeeps /\ FreshStays
  BY <1>3, <1>8, <1>9, <1>10, <1>11, MessagesAre, DropData DEF SameRecords
<1>13. Sound(m)'
  <2>1. call'[m].pc \in {"auth", "summarise"} => Fresh(branch')
    BY <1>5, <1>6, <1>7
  <2> QED BY <1>2, <1>6, <1>7, <1>9, <2>1, SoundMoves DEF Shape
<1>14. \A y \in Users : ~Ended(y)
  BY <1>2, OthersRest
<1>15. Nobody("ran")' => Latest'
  BY <1>8, <1>9, <1>12, LatestAtRest
<1> QED BY <1>2, <1>6, <1>7, <1>9, <1>12, <1>13, <1>14, <1>15, MoverShapes DEF SameWay

LEMMA PostRunShapes == ASSUME Good, HistType, Tended, Shape, NEW m \in Users, PostRun(m) PROVE Shape'
<1> AgentType /\ SessType /\ CallType /\ Data /\ Latest /\ Apart
  BY DEF Good, Types, Shape
<1> DEFINE msg == sess.last
           rest == [sess EXCEPT !.last = NoReply]
<1>1. call[m].pc = "ran" /\ UNCHANGED <<branch, manual>>
  BY DEF PostRun
<1>2. Engaged(m) /\ call[m].pc \notin {"running", "auth", "hooks"} /\ RunOver
  BY <1>1 DEF Engaged, InPrompt, RunOver
<1>3. agent.at = "idle"
  BY <1>2, IdleMeanwhile
<1>4. msg \in Answers \cup {NoReply} /\ (msg # NoReply => msg \in Elements(branch.messages))
  BY DEF Data, Fields, Latest
<1>5. msg # NoReply /\ Fruitless(msg) => agent.messages # <<>> /\ Pending = msg
  BY <1>2, <1>4 DEF Latest
<1>6. /\ DOMAIN rest = DOMAIN sess /\ rest.bash = sess.bash /\ rest.last = NoReply
  BY DEF SessType
<1>7. sess.bash \in Seq(BashMessages) /\ \A y \in Users : ~Ended(y)
  BY <1>2, MessagesAre, OthersRest
<1>8. CASE msg = NoReply
  <2>1. sess' = rest /\ call' = At(m, "finish") /\ hist' = [hist EXCEPT !.errors = 0] /\ agent' = agent
    BY <1>8 DEF PostRun
  <2>2. /\ call'[m].pc = "finish" /\ call'[m].stage = call[m].stage /\ call'[m].reply = call[m].reply
        /\ \A y \in Users : y # m => call'[y] = call[y]
    BY <2>1 DEF At, CallType
  <2>3. hist'.replies = hist.replies /\ hist'.delivered = hist.delivered
    BY <2>1 DEF HistType
  <2>4. Data' /\ BranchKeeps
    BY <1>1, <1>3, <1>6, <1>7, <2>1, <2>3, DropData DEF SameRecords
  <2>5. Sound(m)'
    BY <1>2, <1>6, <2>1, <2>2, SoundMoves DEF Shape
  <2>6. Nobody("ran")' => Latest'
    BY <1>3, <1>6, <2>1, <2>4, LatestAtRest
  <2> QED BY <1>1, <1>2, <1>6, <1>7, <2>1, <2>2, <2>4, <2>5, <2>6, MoverShapes DEF SameWay
<1>9. CASE msg # NoReply /\ Retries(msg)
  <2>1. /\ sess' = [rest EXCEPT !.attempt = @ + 1, !.sleeper = m]
        /\ agent' = [agent EXCEPT !.messages = DropReply(agent.messages)]
        /\ call' = [call EXCEPT ![m].pc = "sleeping", ![m].reply = msg] /\ hist' = hist
    BY <1>9 DEF PostRun
  <2>2. /\ call'[m].pc = "sleeping" /\ call'[m].stage = call[m].stage /\ call'[m].reply = msg
        /\ \A y \in Users : y # m => call'[y] = call[y]
    BY <2>1 DEF CallType
  <2>3. msg.kind = "error" /\ Fruitless(msg) /\ msg \in Answers
    BY <1>4, <1>9 DEF Retries, Failed, Fruitless
  <2>4. sess'.bash = sess.bash /\ sess'.last = NoReply
    BY <1>6, <2>1 DEF SessType
  <2>5. agent'.at = "idle" /\ agent'.since = agent.since /\ agent'.messages = DropReply(agent.messages)
    BY <1>3, <2>1 DEF AgentType
  <2>6. \/ agent'.messages = agent.messages
        \/ agent'.messages = Front(agent.messages) /\ agent.messages # <<>> /\ Failure(Last(agent.messages))
    BY <1>5, <1>9, <2>3, <2>5, DropReplyIs DEF Pending
  <2>7. Data' /\ BranchKeeps
    BY <1>1, <1>3, <1>7, <2>1, <2>4, <2>5, <2>6, DropData DEF SameRecords
  <2>8. Sound(m)'
    BY <1>2, <2>2, <2>3, <2>4, SoundMoves DEF Shape
  <2>9. Nobody("ran")' => Latest'
    BY <2>4, <2>5, <2>7, LatestAtRest
  <2> QED BY <1>1, <1>2, <1>7, <2>2, <2>4, <2>7, <2>8, <2>9, MoverShapes DEF SameWay
<1>10. CASE ~(msg = NoReply) /\ ~(msg # NoReply /\ Retries(msg))
  <2> DEFINE s == [rest EXCEPT !.attempt = IF Failed(msg) THEN 0 ELSE @]
  <2>1. CheckAfterRun(m, msg, s)
    BY <1>10 DEF PostRun
  <2>2. DOMAIN s = DOMAIN sess /\ s.bash = sess.bash /\ s.last = NoReply
    BY <1>6 DEF SessType
  <2> HIDE DEF s
  <2>3. msg \in Answers /\ msg \in Elements(branch.messages)
    BY <1>4, <1>10
  <2>4. Overflowed(msg) => agent.messages # <<>> /\ Pending = msg
    BY <1>5, <1>10 DEF Fruitless
  <2> HIDE DEF msg
  <2> QED BY <1>1, <2>1, <2>2, <2>3, <2>4, CheckAfterRunShapes
<1> QED BY <1>8, <1>9, <1>10

LEMMA RetryCancelledShapes == ASSUME Good, HistType, Tended, Shape, NEW m \in Users, RetryCancelled(m) PROVE Shape'
<1> SessType
  BY DEF Good, Types
<1> DEFINE msg == call[m].reply
           s == [sess EXCEPT !.attempt = 0, !.sleeper = None]
<1>1. call[m].pc = "cancelled" /\ UNCHANGED <<branch, manual>> /\ CheckAfterRun(m, msg, s)
  BY DEF RetryCancelled
<1>2. DOMAIN s = DOMAIN sess /\ s.bash = sess.bash /\ s.last = sess.last
  BY DEF SessType
<1>3. msg = NoReply \/ (msg \in Answers /\ msg.kind = "error")
  BY DEF Shape, Sound
<1>4. msg # NoReply => ~Overflowed(msg)
  BY <1>3 DEF Overflowed
<1> HIDE DEF s, msg
<1> QED BY <1>1, <1>2, <1>3, <1>4, CheckAfterRunShapes

\* A compaction may keep from a cut point.
LEMMA CutPointsKeep ==
  ASSUME branch \in Branches, Cut(branch), NEW k \in CutPoints(branch)
  PROVE  KeepsFrom(branch, k) /\ k \in Nat
<1> DEFINE f == FirstKept(branch)
<1>1. f \in Nat /\ f >= 1
  <2>1. CASE branch.compactions = <<>>
    BY <2>1 DEF FirstKept
  <2>2. CASE branch.compactions # <<>>
    <3>1. KeepsFrom(branch, f)
      BY <2>2, ContextIs
    <3> QED BY <3>1, BranchHas DEF KeepsFrom
  <2> QED BY <2>1, <2>2
<1>2. k \in f + 1 .. Len(branch.messages) /\ branch.messages[k].role \in {"user", "assistant", "bashExecution"}
  BY DEF CutPoints
<1> HIDE DEF f
<1>3. k \in 1..Len(branch.messages)
  BY <1>1, <1>2, BranchHas
<1> QED BY <1>2, <1>3 DEF KeepsFrom

LEMMA AutoAuthShapes == ASSUME Good, Shape, Calm, NEW m \in Users, AutoAuth(m) PROVE Shape'
<1> SessType /\ CallType /\ Data /\ Latest
  BY DEF Good, Types, Shape
<1>1. call[m].pc = "auth" /\ UNCHANGED <<agent, branch, sess, manual, hist>>
  BY DEF AutoAuth
<1>2. Engaged(m) /\ Fresh(branch) /\ Sound(m)
  BY <1>1 DEF Engaged, InPrompt, Shape, Sound
<1>3. agent.at = "idle" /\ branch \in Branches /\ Cut(branch)
  BY <1>1, <1>2, IdleMeanwhile, AtRestHas
<1>4. Data' /\ BranchKeeps /\ FreshStays
  BY <1>1, DataStays, BranchStays DEF Saving, SameRecords, Data, Fields
<1>5. \A y \in Users : ~Ended(y)
  BY CalmHas
<1>6. Nobody("ran")' => Latest'
  BY <1>1, <1>3, <1>4, LatestAtRest
<1>7. CASE call' = At(m, NotCompacted(m, queue))
  <2> DEFINE p == NotCompacted(m, queue)
  <2>1. p \in {"hooks", "continue", "finish"} /\ (p = "hooks" => call[m].stage = "check")
    BY NotCompactedFields
  <2> HIDE DEF p
  <2>2. /\ call'[m].pc = p /\ call'[m].stage = call[m].stage /\ call'[m].reply = call[m].reply
        /\ \A y \in Users : y # m => call'[y] = call[y]
    BY <1>7 DEF At, CallType, p
  <2>3. Sound(m)'
    BY <1>1, <1>2, <2>1, <2>2, SoundMoves
  <2> QED BY <1>1, <1>2, <1>4, <1>5, <1>6, <2>1, <2>2, <2>3, MoverShapes DEF SameWay
<1>8. CASE \E k \in CutPoints(branch) :
             call' = [call EXCEPT ![m].pc = "summarise", ![m].keep = k, ![m].aborted = FALSE]
  <2>1. PICK k \in CutPoints(branch) :
             call' = [call EXCEPT ![m].pc = "summarise", ![m].keep = k, ![m].aborted = FALSE]
    BY <1>8
  <2>2. /\ call'[m].pc = "summarise" /\ call'[m].stage = call[m].stage /\ call'[m].reply = call[m].reply
        /\ call'[m].keep = k /\ \A y \in Users : y # m => call'[y] = call[y]
    BY <2>1 DEF CallType
  <2>3. KeepsFrom(branch', call'[m].keep)
    BY <1>1, <1>3, <2>2, CutPointsKeep
  <2>4. Sound(m)'
    BY <1>1, <1>2, <2>2, <2>3, SoundMoves
  <2> QED BY <1>1, <1>2, <1>4, <1>5, <1>6, <2>2, <2>4, MoverShapes DEF SameWay
<1> QED BY <1>7, <1>8 DEF AutoAuth

\* The agent's messages become those of the compacted branch.
LEMMA CompactedData ==
  ASSUME Data, agent.at = "idle", agent'.at = "idle", NEW k, NEW why \in {"auto", "manual"}, KeepsFrom(branch, k),
         why = "auto" => Fresh(branch),
         Compacted(k, why), AgentType, SameRecords, sess'.bash \in Seq(BashMessages), sess'.last \in {sess.last, NoReply}
  PROVE  Data' /\ BranchKeeps
<1> DEFINE e == Compaction(k, why)
<1>1. /\ Recorded(branch) /\ branch \in Branches /\ Match(agent.messages, branch) /\ Shut(agent.messages, branch)
  BY AtRestHas
<1>2. k \in Nat /\ Len(branch.messages) \in Nat
  BY <1>1, BranchHas DEF KeepsFrom
<1>3. e \in CompactionEntries /\ e.at = Len(branch.messages) /\ e.keep = k /\ e.reason = why
  BY <1>2 DEF Compaction, CompactionEntries
<1>4. branch' = Cutting(branch, e)
  BY DEF Compacted, Cutting
<1>5. agent'.messages = buildSessionContext(branch')
  BY DEF Compacted, AgentType
<1> HIDE DEF e
<1>6. Recorded(branch')
  BY <1>1, <1>3, <1>4, RecordedCompacts
<1>7. Match(agent'.messages, branch') /\ Shut(agent'.messages, branch')
  BY <1>1, <1>3, <1>4, <1>5, <1>6, MatchCompacts
<1>8. BranchKeeps
  <2>1. \A j : KeepsFrom(branch, j) => KeepsFrom(branch', j)
    BY <1>1, <1>3, <1>4, CuttingHas
  <2>2. branch'.messages = branch.messages /\ branch'.compactions = Append(branch.compactions, e)
    BY <1>1, <1>3, <1>4, CuttingIs
  <2>3. branch.compactions \in Seq(CompactionEntries)
    BY <1>1, BranchHas
  <2>4. Compactions' >= Compactions
    BY <1>3, <2>2, <2>3 DEF Compactions
  <2> QED BY <2>1, <2>2, <2>4 DEF BranchKeeps
<1> QED BY <1>6, <1>7, <1>8, DataAtRest

LEMMA AutoSummarisedShapes == ASSUME Good, Shape, Calm, NEW m \in Users, AutoSummarised(m) PROVE Shape'
<1> AgentType /\ SessType /\ CallType /\ Data /\ Latest
  BY DEF Good, Types, Shape
<1> DEFINE k == call[m].keep
<1>1. /\ call[m].pc = "summarise" /\ Compacted(k, "auto") /\ call' = At(m, "compacted")
      /\ UNCHANGED <<sess, manual, hist>>
  BY DEF AutoSummarised
<1>2. Engaged(m) /\ Fresh(branch) /\ Sound(m) /\ KeepsFrom(branch, k)
  BY <1>1 DEF Engaged, InPrompt, Shape, Sound
<1>3. agent.at = "idle" /\ sess.bash \in Seq(BashMessages)
  BY <1>1, <1>2, IdleMeanwhile, AtRestHas
<1>4. agent'.at = "idle" /\ agent'.since = agent.since
  BY <1>1, <1>3 DEF Compacted, AgentType
<1>5. /\ call'[m].pc = "compacted" /\ call'[m].stage = call[m].stage /\ call'[m].reply = call[m].reply
      /\ \A y \in Users : y # m => call'[y] = call[y]
  BY <1>1 DEF At, CallType
<1> HIDE DEF k
<1>6. Data' /\ BranchKeeps
  BY <1>1, <1>2, <1>3, <1>4, CompactedData DEF SameRecords
<1>7. Nobody("ran")' => Latest'
  BY <1>1, <1>4, <1>6, LatestAtRest
<1>8. Sound(m)'
  BY <1>1, <1>2, <1>5, SoundMoves
<1>9. \A y \in Users : ~Ended(y)
  BY CalmHas
<1> QED BY <1>1, <1>2, <1>5, <1>6, <1>7, <1>8, <1>9, MoverShapes DEF SameWay

\* A run starts with the messages there are.
LEMMA StartRunHas ==
  ASSUME AgentType, NEW m, NEW msgs, NEW polled, agent' = StartRun(m, msgs, polled, agent.messages)
  PROVE  /\ agent'.at \in {"poll", "deliver"} /\ agent'.messages = agent.messages
         /\ agent'.since = Compactions /\ agent'.then = "request"
  BY DEF AgentType, StartRun

LEMMA RunShapes ==
  ASSUME Good, Shape, agent.at = "idle", agent'.at \in {"poll", "deliver"}, agent'.messages = agent.messages,
         agent'.since = Compactions, agent'.then = "request", UNCHANGED <<branch, sess, hist>>,
         \A y \in Users : call'[y].pc = "ran" => call[y].pc = "ran"
  PROVE  Data' /\ Latest' /\ BranchKeeps /\ FreshStays
<1> Data /\ Latest
  BY DEF Shape
<1>1. Data'
  BY DataStays DEF Saving, SameRecords, Data, Fields
<1>2. BranchKeeps /\ FreshStays
  BY BranchStays
<1>3. Latest'
  BY <1>2, LatestStays DEF RunOver
<1> QED BY <1>1, <1>2, <1>3

LEMMA BeforeStartShapes == ASSUME Good, Shape, NEW m \in Users, BeforeStart(m) PROVE Shape'
<1> AgentType /\ CallType /\ Apart
  BY DEF Good, Types, Shape
<1>1. call[m].pc = "hooks" /\ UNCHANGED <<manual, hist>>
  BY DEF BeforeStart
<1>2. Engaged(m)
  BY <1>1 DEF Engaged
<1>3. agent.at = "idle"
  BY <1>1, <1>2, IdleMeanwhile
<1>4. /\ agent' = StartRun(m, <<User(m)>>, FALSE, agent.messages) /\ UNCHANGED <<branch, sess>>
      /\ call' = [call EXCEPT ![m].pc = "running", ![m].stage = "own"]
  BY <1>3 DEF BeforeStart, isStreaming
<1>5. /\ call'[m].pc = "running" /\ call'[m].stage = "own" /\ call'[m].reply = call[m].reply
      /\ \A y \in Users : y # m => call'[y] = call[y]
  BY <1>4 DEF CallType
<1>6. /\ agent'.at \in {"poll", "deliver"} /\ agent'.messages = agent.messages
      /\ agent'.since = Compactions /\ agent'.then = "request"
  BY <1>4, StartRunHas
<1>7. \A y \in Users : y # m => ~Engaged(y) /\ call[y].pc # "ran"
  BY <1>2, OthersRest
<1>8. Data' /\ Latest' /\ BranchKeeps /\ FreshStays
  BY <1>1, <1>3, <1>4, <1>5, <1>6, RunShapes
<1>9. ASSUME NEW y \in Users PROVE Sound(y)'
  <2>1. CASE y # m
    BY <1>4, <1>5, <1>8, <2>1, SoundStays DEF SameWay, Shape
  <2>2. CASE y = m
    BY <1>5, <2>2 DEF Sound, Shape
  <2> QED BY <2>1, <2>2
<1>10. Apart'
  <2>1. ASSUME NEW y \in Users, NEW x \in Users, Ended(y)', Engaged(x)'
        PROVE  sess'.bash = <<>> /\ call'[x].pc \in {"auth", "hooks", "running"}
    <3>1. Ended(y)
      BY <1>5, <2>1 DEF Ended
    <3>2. x = m
      BY <1>5, <1>7, <2>1 DEF Engaged
    <3> QED BY <1>2, <1>4, <1>5, <3>1, <3>2 DEF Apart
  <2>2. \A y \in Users : call'[y].pc # "ran"
    BY <1>5, <1>7
  <2> QED BY <2>1, <2>2 DEF Apart
<1>11. Planned'
  BY <1>1, <1>8, PlannedStays DEF Shape
<1> QED BY <1>8, <1>9, <1>10, <1>11 DEF Shape

LEMMA ContinueShapes == ASSUME Good, HistType, Shape, NEW m \in Users, Continue(m), hist'.clean PROVE Shape'
<1> AgentType /\ CallType /\ Apart
  BY DEF Good, Types, Shape
<1> DEFINE steered == EndsWithReply(agent.messages)
           msgs == IF steered THEN <<User(Head(queue))>> ELSE <<>>
           s == IF call[m].stage = "check" THEN "pre" ELSE call[m].stage
<1>1. call[m].pc = "continue" /\ manual' = manual
  BY DEF Continue
<1>2. Engaged(m) /\ call[m].pc \notin {"running", "auth", "hooks"}
  BY <1>1 DEF Engaged, InPrompt
<1>3. agent.at = "idle"
  BY <1>2, IdleMeanwhile
<1>4. hist' # [hist EXCEPT !.clean = FALSE]
  BY DEF HistType
<1>5. /\ agent' = StartRun(m, msgs, steered, agent.messages) /\ UNCHANGED <<branch, sess, hist>>
      /\ call' = [call EXCEPT ![m].pc = "running", ![m].stage = s]
  BY <1>4 DEF Continue
<1> HIDE DEF steered, msgs
<1>6. s # "check"
  OBVIOUS
<1>7. /\ call'[m].pc = "running" /\ call'[m].stage = s /\ call'[m].reply = call[m].reply
      /\ \A y \in Users : y # m => call'[y] = call[y]
  BY <1>5 DEF CallType
<1> HIDE DEF s
<1>8. /\ agent'.at \in {"poll", "deliver"} /\ agent'.messages = agent.messages
      /\ agent'.since = Compactions /\ agent'.then = "request"
  BY <1>5, StartRunHas
<1>9. Data' /\ Latest' /\ BranchKeeps
  BY <1>3, <1>5, <1>7, <1>8, RunShapes
<1>10. Sound(m)'
  BY <1>6, <1>7 DEF Sound, Shape
<1>11. \A y \in Users : ~Ended(y)
  BY <1>2, OthersRest
<1> QED BY <1>1, <1>2, <1>5, <1>7, <1>9, <1>10, <1>11, MoverShapes DEF SameWay

\* What prompt() throws leaves the calls that are under way alone.
LEMMA RejectedOut ==
  ASSUME Good, NEW m \in Users, call[m].pc = "called", Rejected(m)
  PROVE  \A y \in Users : SameWay(y) \/ (Out(y) /\ call'[y].pc # "called")
<1> CallType /\ PlaceType /\ Followed(m)
  BY DEF Good, Types
<1>1. CASE call[m].batch = <<>>
  <2>1. call' = At(m, "rejected")
    BY <1>1 DEF Rejected
  <2> QED BY <2>1 DEF At, CallType, SameWay, Out, Outside
<1>2. CASE call[m].batch # <<>>
  <2>1. call' = [x \in Users |-> IF x \in ToSet(call[m].batch) THEN [NewCall EXCEPT !.pc = "held"] ELSE call[x]]
    BY <1>2 DEF Rejected
  <2>2. [NewCall EXCEPT !.pc = "held"].pc = "held" /\ [NewCall EXCEPT !.pc = "held"].reply = NoReply
    BY DEF NewCall
  <2> QED BY <2>1, <2>2 DEF SameWay, Out, Outside
<1> QED BY <1>1, <1>2

LEMMA CallShapes ==
  ASSUME Good, HistType, Tended, Shape, NEW m \in Users, Call(m), hist'.clean PROVE Shape'
<1> AgentType /\ SessType /\ CallType /\ Data /\ Latest /\ Apart
  BY DEF Good, Types, Shape
<1>1. call[m].pc = "called" /\ manual' = manual
  BY DEF Call
<1>2. \A y \in Users : call[y].pc # "ran"
  BY <1>1 DEF Apart
<1>3. ASSUME Rejected(m), Data', BranchKeeps, FreshStays, sess'.bash \in {sess.bash, <<>>}, sess'.last = sess.last,
             agent'.at = agent.at, agent'.then = agent.then, agent.at # "idle" => agent'.messages = agent.messages
      PROVE  Shape'
  <2>1. \A y \in Users : SameWay(y) \/ (Out(y) /\ call'[y].pc # "called")
    BY <1>1, <1>3, RejectedOut
  <2>2. \A y \in Users : /\ Ended(y)' => Ended(y)
                         /\ Engaged(y)' => Engaged(y) /\ call'[y].pc = call[y].pc
                         /\ call'[y].pc = "called" => call[y].pc = "called"
                         /\ call'[y].pc # "ran"
    BY <1>2, <2>1 DEF SameWay, Out, Outside, Ended, Engaged, InPrompt
  <2>3. ASSUME NEW y \in Users PROVE Sound(y)'
    BY <1>3, <2>1, SoundStays DEF Shape
  <2>4. Apart'
    BY <1>3, <2>2, ApartStays
  <2>5. Planned'
    BY <1>1, <1>3, PlannedStays DEF Shape
  <2>6. Latest'
    <3>1. CASE agent.at = "idle"
      BY <1>3, <2>2, <3>1, LatestAtRest DEF Nobody
    <3>2. CASE agent.at # "idle"
      BY <1>3, <2>2, <3>2, LatestStays DEF RunOver
    <3> QED BY <3>1, <3>2
  <2> QED BY <1>3, <2>3, <2>4, <2>5, <2>6 DEF Shape
<1>4. CASE isStreaming
  <2>1. Rejected(m) /\ UNCHANGED <<agent, branch, sess, hist>>
    BY <1>4 DEF Call
  <2>2. Data' /\ BranchKeeps /\ FreshStays
    BY <2>1, DataStays, BranchStays DEF Saving, SameRecords, Data, Fields
  <2> QED BY <1>3, <2>1, <2>2
<1>5. CASE ~isStreaming /\ FlushBash /\ Rejected(m) /\ hist' = [hist EXCEPT !.events = @ + 1]
  <2>1. hist'.replies = hist.replies /\ hist'.delivered = hist.delivered
    BY <1>5 DEF HistType
  <2> QED BY <1>3, <1>5, <2>1, FlushShapes DEF isStreaming
<1>6. CASE ~isStreaming /\ ~(FlushBash /\ Rejected(m) /\ hist' = [hist EXCEPT !.events = @ + 1])
  <2> DEFINE ms == agent.messages \o sess.bash
             i == SelectLastInSeq(ms, LAMBDA x : x.role = "assistant")
             job == IF i = 0 THEN "no" ELSE Check(ms[i], FALSE)
             p == IF job = "no" THEN "hooks" ELSE "auth"
             b == Grown(branch, sess.bash)
  <2>1. /\ Start(job, ms, [sess EXCEPT !.bash = <<>>])
        /\ hist' = [hist EXCEPT !.recovered = @ \/ job = "retry", !.clean = @ /\ Others(m) = {} /\ manual.pc = "none"]
        /\ call' = [call EXCEPT ![m].pc = p, ![m].stage = "check", ![m].willRetry = job = "retry"]
        /\ branch' = b
    BY <1>6 DEF Call, Grown
  <2>2. agent.at = "idle"
    BY <1>6 DEF isStreaming
  <2>3. /\ Match(agent.messages, branch) /\ Shut(agent.messages, branch) /\ branch \in Branches /\ Cut(branch)
        /\ Recorded(branch) /\ agent.messages \in Seq(Messages) /\ sess.bash \in Seq(BashMessages)
    BY <2>2, AtRestHas
  <2>4. Match(ms, b) /\ Shut(ms, b)
    BY <2>3, MatchGrows
  <2>5. sess.bash \in Seq(Entries) /\ Timely(branch, sess.bash) /\ sess.bash \in Seq(Messages)
        /\ \A j \in 1..Len(sess.bash) : sess.bash[j].role # "assistant"
    BY <2>3, BashesAre DEF Timely
  <2>6. Recorded(b)
    BY <2>3, <2>5, RecordedGrows
  <2>7. BranchKeeps /\ FreshStays
    BY <2>1, <2>3, <2>5, BranchGrows
  <2>8. ms \in Seq(Messages) /\ \A j \in 1..Len(ms) : ms[j].role = "assistant" => j \in 1..Len(agent.messages) /\ ms[j] = agent.messages[j]
    <3>1. /\ ms \in Seq(Messages) /\ Len(ms) = Len(agent.messages) + Len(sess.bash)
          /\ Len(agent.messages) \in Nat /\ Len(sess.bash) \in Nat
      BY <2>3, <2>5
    <3>2. \A j \in 1..Len(ms) : ms[j] = IF j <= Len(agent.messages) THEN agent.messages[j] ELSE sess.bash[j - Len(agent.messages)]
      BY <2>3, <2>5, <3>1
    <3> HIDE DEF ms
    <3>3. \A j \in 1..Len(ms) : j <= Len(agent.messages) => j \in 1..Len(agent.messages)
      BY <3>1
    <3>4. \A j \in 1..Len(ms) : ~(j <= Len(agent.messages)) => j - Len(agent.messages) \in 1..Len(sess.bash)
      <4> DEFINE n == Len(agent.messages)
                 l == Len(sess.bash)
                 t == Len(ms)
      <4>1. t = n + l /\ n \in Nat /\ l \in Nat
        BY <3>1
      <4> HIDE DEF n, l, t
      <4>2. \A j \in 1..t : ~(j <= n) => j - n \in 1..l
        BY <4>1
      <4> QED BY <4>2 DEF n, l, t
    <3> QED BY <2>5, <3>1, <3>2, <3>3, <3>4
  <2> HIDE DEF ms, b
  <2>9. /\ i = LastReply(ms)
        /\ i # 0 => i \in 1..Len(ms) /\ ms[i].role = "assistant"
        /\ EndsWithReply(ms) => i = Len(ms)
    BY <2>8, LastReplyIs DEF LastReply
  <2> HIDE DEF i
  <2>10. i # 0 => ms[i] \in Answers /\ ms[i] \in Elements(branch.messages)
    <3> HAVE i # 0
    <3>1. i \in 1..Len(agent.messages) /\ ms[i] = agent.messages[i] /\ ms[i].role = "assistant"
      BY <2>8, <2>9
    <3>2. agent.messages[i] \in Messages
      BY <2>3, <3>1
    <3>3. agent.messages[i] \in Answers
      BY <3>1, <3>2, RolesAre
    <3> QED BY <2>3, <3>1, <3>3 DEF Match
  <2>11. job # "no" => Fresh(branch)
    BY <2>2, <2>10, CheckFresh
  <2>12. job = "retry" /\ EndsWithReply(ms) => Fruitless(Last(ms))
    <3> HAVE job = "retry" /\ EndsWithReply(ms)
    <3>1. i # 0 /\ Check(ms[i], FALSE) = "retry"
      OBVIOUS
    <3>2. Overflowed(ms[i])
      BY <3>1, CheckRetry
    <3>3. Last(ms) = ms[i]
      BY <2>9 DEF Last
    <3> QED BY <3>2, <3>3 DEF Fruitless
  <2> HIDE DEF job
  <2>13. /\ agent'.at = "idle" /\ agent'.since = agent.since
         /\ agent'.messages = IF job = "retry" THEN DropReply(ms) ELSE ms
         /\ sess'.bash = <<>> /\ sess'.last = sess.last
    BY <2>1, <2>2 DEF Start, AgentType, SessType
  <2>14. Match(agent'.messages, branch') /\ Shut(agent'.messages, branch')
    <3>1. CASE job = "retry"
      <4>1. DropReply(ms) = ms \/ (DropReply(ms) = Front(ms) /\ ms # <<>> /\ Failure(Last(ms)))
        BY <2>12, <3>1, DropReplyIs
      <4> QED BY <2>1, <2>4, <2>13, <3>1, <4>1, MatchDrops
    <3> QED BY <2>1, <2>4, <2>13, <3>1
  <2>15. hist'.replies = hist.replies /\ hist'.delivered = hist.delivered /\ Others(m) = {}
    BY <2>1 DEF HistType
  <2>16. Data'
    <3>1. <<>> \in Seq(BashMessages) /\ SameRecords
      BY <2>13, <2>15 DEF SameRecords
    <3> QED BY <2>1, <2>2, <2>6, <2>7, <2>13, <2>14, <3>1, DataAtRest
  <2>17. p \in {"hooks", "auth"} /\ (p = "auth" => job # "no")
    OBVIOUS
  <2> HIDE DEF p
  <2>18. /\ call'[m].pc = p /\ call'[m].stage = "check" /\ call'[m].reply = call[m].reply
         /\ \A y \in Users : y # m => call'[y] = call[y]
    BY <2>1 DEF CallType
  <2>19. \A y \in Users : y # m => ~Engaged(y)
    <3> SUFFICES ASSUME NEW y \in Users, y # m, Engaged(y) PROVE FALSE
      OBVIOUS
    <3>1. y \in Others(m)
      BY DEF Others, Engaged, InPrompt
    <3> QED BY <2>15, <3>1
  <2>20. ASSUME NEW y \in Users PROVE Sound(y)'
    <3>1. CASE y # m
      BY <2>7, <2>13, <2>18, <3>1, SoundStays DEF SameWay, Shape
    <3>2. CASE y = m
      <4>1. call'[y].pc \in {"auth", "summarise"} => Fresh(branch')
        BY <2>7, <2>11, <2>17, <2>18, <3>2 DEF FreshStays
      <4>2. call[y].reply = NoReply \/ (call[y].reply \in Answers /\ call[y].reply.kind = "error")
        BY DEF Shape, Sound
      <4> QED BY <2>13, <2>17, <2>18, <3>2, <4>1, <4>2 DEF Sound
    <3> QED BY <3>1, <3>2
  <2>21. \A y \in Users : call'[y].pc # "ran"
    BY <1>2, <2>17, <2>18
  <2>22. Apart'
    <3>1. ASSUME NEW y \in Users, Engaged(y)' PROVE call'[y].pc \in {"auth", "hooks", "running"}
      BY <2>17, <2>18, <2>19, <3>1 DEF Engaged
    <3> QED BY <2>13, <2>21, <3>1 DEF Apart
  <2>23. Planned'
    BY <1>1, <2>7, PlannedStays DEF Shape
  <2>24. Latest'
    BY <2>7, <2>13, <2>21, LatestAtRest DEF Nobody
  <2> QED BY <2>16, <2>20, <2>22, <2>23, <2>24 DEF Shape
<1> QED BY <1>4, <1>5, <1>6

(***************************************************************************)
(* The end of a compaction, and compact().                                 *)
(***************************************************************************)
\* What was held back goes, the other calls are as the compaction leaves them.
LEMMA EndIs ==
  ASSUME Good, NEW retry, NEW calls, compaction_end(retry, calls)
  PROVE  \A y \in Users : (call[y].pc = "held" /\ Out(y)) \/ call'[y] = calls[y]
<1> PlaceType
  BY DEF Good, Types
<1> DEFINE rest == Flushed(retry)
<1>1. ToSet(ui.held) = Elements(ui.held) /\ ToSet(rest) \subseteq Elements(ui.held)
  BY FlushedFields, ToSetIsElements DEF PlaceType
<1>2. call' = [x \in Users |->
                 IF x \in ToSet(rest) THEN [NewCall EXCEPT !.pc = "done"]
                 ELSE IF x \in ToSet(ui.held) THEN [NewCall EXCEPT !.pc = "called", !.batch = ui.held]
                 ELSE calls[x]]
  BY DEF compaction_end
<1> HIDE DEF rest
<1>3. /\ [NewCall EXCEPT !.pc = "done"].pc = "done" /\ [NewCall EXCEPT !.pc = "done"].reply = NoReply
      /\ [NewCall EXCEPT !.pc = "called", !.batch = ui.held].pc = "called"
      /\ [NewCall EXCEPT !.pc = "called", !.batch = ui.held].reply = NoReply
  BY DEF NewCall
<1>4. \A y \in Users : y \in Elements(ui.held) => call[y].pc = "held"
  BY DEF Good, Followed, Placed
<1>5. \A y \in Users : y \in Elements(ui.held) => Out(y)
  <2> SUFFICES ASSUME NEW y \in Users, y \in Elements(ui.held) PROVE Out(y)
    OBVIOUS
  <2>1. CASE y \in ToSet(rest)
    BY <1>2, <1>3, <2>1 DEF Out, Outside
  <2>2. CASE y \notin ToSet(rest)
    BY <1>1, <1>2, <1>3, <2>2 DEF Out, Outside
  <2> QED BY <2>1, <2>2
<1>6. \A y \in Users : y \notin Elements(ui.held) => call'[y] = calls[y]
  BY <1>1, <1>2
<1> QED BY <1>4, <1>5, <1>6

\* The call for m, whose compaction is over, goes on.
LEMMA AutoEndIs ==
  ASSUME Good, NEW m \in Users, call[m].pc \in {"summarise", "compacted"}, NEW retry, NEW p, compaction_end(retry, At(m, p))
  PROVE  /\ call'[m].pc = p /\ call'[m].stage = call[m].stage /\ call'[m].reply = call[m].reply
         /\ \A y \in Users : y # m => SameWay(y) \/ Out(y)
<1> CallType
  BY DEF Good, Types
<1>1. \A y \in Users : (call[y].pc = "held" /\ Out(y)) \/ call'[y] = At(m, p)[y]
  BY EndIs
<1>2. /\ At(m, p)[m].pc = p /\ At(m, p)[m].stage = call[m].stage /\ At(m, p)[m].reply = call[m].reply
      /\ \A y \in Users : y # m => At(m, p)[y] = call[y]
  BY DEF At, CallType
<1> QED BY <1>1, <1>2 DEF SameWay

LEMMA AutoFailsShapes == ASSUME Good, HistType, Shape, Calm, NEW m \in Users, AutoFails(m) PROVE Shape'
<1> Data /\ Latest
  BY DEF Shape
<1> DEFINE p == NotCompacted(m, queue \o Flushed(FALSE))
<1>1. /\ call[m].pc = "summarise" /\ UNCHANGED <<agent, branch, sess, manual>> /\ compaction_end(FALSE, At(m, p))
      /\ hist'.replies = hist.replies /\ hist'.delivered = hist.delivered
  BY DEF AutoFails, HistType
<1>2. p \in {"hooks", "continue", "finish"} /\ (p = "hooks" => call[m].stage = "check")
  BY NotCompactedFields
<1> HIDE DEF p
<1>3. /\ call'[m].pc = p /\ call'[m].stage = call[m].stage /\ call'[m].reply = call[m].reply
      /\ \A y \in Users : y # m => SameWay(y) \/ Out(y)
  BY <1>1, AutoEndIs
<1>4. Engaged(m) /\ Sound(m) /\ \A y \in Users : ~Ended(y)
  BY <1>1, CalmHas DEF Engaged, InPrompt, Shape
<1>5. agent.at = "idle"
  BY <1>1, <1>4, IdleMeanwhile
<1>6. Data' /\ BranchKeeps
  BY <1>1, DataStays, BranchStays DEF Saving, SameRecords, Data, Fields
<1>7. Nobody("ran")' => Latest'
  BY <1>1, <1>5, <1>6, LatestAtRest
<1>8. Sound(m)'
  BY <1>1, <1>2, <1>3, <1>4, SoundMoves
<1> QED BY <1>1, <1>2, <1>3, <1>4, <1>6, <1>7, <1>8, MoverShapes

LEMMA AutoDoneShapes == ASSUME Good, Shape, Calm, NEW m \in Users, AutoDone(m) PROVE Shape'
<1> AgentType /\ Data /\ Latest
  BY DEF Good, Types, Shape
<1> DEFINE retry == call[m].willRetry
           p == IF retry \/ queue \o Flushed(retry) # <<>> THEN "continue" ELSE NotCompacted(m, <<>>)
           drops == retry /\ EndsWithReply(agent.messages) /\ Failed(Last(agent.messages))
<1>1. /\ call[m].pc = "compacted" /\ UNCHANGED <<branch, sess, manual, hist>> /\ compaction_end(retry, At(m, p))
      /\ agent' = [agent EXCEPT !.messages = IF drops THEN Front(agent.messages) ELSE agent.messages]
  BY DEF AutoDone
<1>2. p \in {"hooks", "continue", "finish"} /\ (p = "hooks" => call[m].stage = "check")
  BY NotCompactedFields
<1>3. drops => agent.messages # <<>> /\ Failure(Last(agent.messages))
  BY DEF EndsWithReply, Failure, Fruitless
<1> HIDE DEF p, retry, drops
<1>4. /\ call'[m].pc = p /\ call'[m].stage = call[m].stage /\ call'[m].reply = call[m].reply
      /\ \A y \in Users : y # m => SameWay(y) \/ Out(y)
  BY <1>1, AutoEndIs
<1>5. Engaged(m) /\ Sound(m) /\ \A y \in Users : ~Ended(y)
  BY <1>1, CalmHas DEF Engaged, InPrompt, Shape
<1>6. agent.at = "idle"
  BY <1>1, <1>5, IdleMeanwhile
<1>7. /\ agent'.at = "idle" /\ agent'.since = agent.since
      /\ agent'.messages = IF drops THEN Front(agent.messages) ELSE agent.messages
  BY <1>1, <1>6 DEF AgentType
<1>8. Data' /\ BranchKeeps
  BY <1>1, <1>3, <1>6, <1>7, MessagesAre, DropData DEF SameRecords
<1>9. Nobody("ran")' => Latest'
  BY <1>1, <1>7, <1>8, LatestAtRest
<1>10. Sound(m)'
  BY <1>1, <1>2, <1>4, <1>5, SoundMoves
<1> QED BY <1>1, <1>2, <1>4, <1>5, <1>8, <1>9, <1>10, MoverShapes

\* abortRetry wakes the call that sleeps.
LEMMA abortRetryWakes ==
  ASSUME Good, call' = abortRetry
  PROVE  \A y \in Users : SameWay(y) \/ Woken(y)
<1> SessType /\ CallType
  BY DEF Good, Types
<1> DEFINE m == sess.sleeper
<1>1. CASE m = None
  BY <1>1 DEF abortRetry, SameWay
<1>2. CASE m # None
  <2>1. m \in Users /\ call' = At(m, "cancelled")
    BY <1>2 DEF SessType, abortRetry
  <2>2. call[m].pc \in {"sleeping", "cancelled"}
    BY <2>1 DEF Good, Followed, Owned
  <2> HIDE DEF m
  <2> QED BY <2>1, <2>2 DEF At, CallType, SameWay, Woken
<1> QED BY <1>1, <1>2

LEMMA CompactShapes == ASSUME Good, HistType, Shape, Calm, Compact PROVE Shape'
<1> AgentType /\ SessType
  BY DEF Good, Types
<1>1. /\ sess' = [sess EXCEPT !.connected = FALSE] /\ call' = abortRetry
      /\ agent' = [agent EXCEPT !.aborted = isStreaming] /\ branch' = branch
      /\ hist'.replies = hist.replies /\ hist'.delivered = hist.delivered /\ manual'.pc # "summarise"
  BY DEF Compact, HistType
<1>2. /\ agent'.messages = agent.messages /\ agent'.at = agent.at /\ agent'.todo = agent.todo
      /\ agent'.then = agent.then /\ agent'.since = agent.since /\ sess'.bash = sess.bash /\ sess'.last = sess.last
  BY <1>1 DEF AgentType, SessType
<1>3. \A y \in Users : SameWay(y) \/ Woken(y)
  BY <1>1, abortRetryWakes
<1> QED BY <1>1, <1>2, <1>3, OutsideShapes

LEMMA CompactReadyShapes == ASSUME Good, Shape, CompactReady PROVE Shape'
<1> PlaceType /\ Data /\ Latest
  BY DEF Good, Types, Shape
<1>1. UNCHANGED <<agent, branch, sess, call, hist>> /\ manual'.pc # "summarise"
  BY DEF CompactReady, PlaceType
<1>2. BranchKeeps /\ FreshStays
  BY <1>1, BranchStays
<1>3. Data'
  BY <1>1, DataStays DEF Saving, SameRecords, Data, Fields
<1>4. Latest'
  BY <1>1, <1>2, LatestStays DEF RunOver
<1>5. ASSUME NEW y \in Users PROVE Sound(y)'
  BY <1>1, <1>2, SoundStays DEF SameWay, Shape
<1>6. Apart'
  BY <1>1, ApartStays DEF Shape, Ended, Engaged
<1>7. Planned'
  BY <1>1 DEF Planned
<1> QED BY <1>3, <1>4, <1>5, <1>6, <1>7 DEF Shape

LEMMA CompactPreparedShapes == ASSUME Good, Shape, Calm, CompactPrepared PROVE Shape'
<1> PlaceType /\ Data /\ Latest
  BY DEF Good, Types, Shape
<1>1. UNCHANGED <<agent, branch, sess, call, hist>>
  BY DEF CompactPrepared
<1>2. BranchKeeps /\ FreshStays
  BY <1>1, BranchStays
<1>3. Data'
  BY <1>1, DataStays DEF Saving, SameRecords, Data, Fields
<1>4. Latest'
  BY <1>1, <1>2, LatestStays DEF RunOver
<1>5. ASSUME NEW y \in Users PROVE Sound(y)'
  BY <1>1, <1>2, SoundStays DEF SameWay, Shape
<1>6. Apart'
  BY <1>1, ApartStays DEF Shape, Ended, Engaged
<1>7. Planned'
  <2>1. PICK k \in CutPoints(branch) : manual' = [manual EXCEPT !.pc = "summarise", !.keep = k]
    BY DEF CompactPrepared
  <2>2. manual'.keep = k
    BY <2>1 DEF PlaceType
  <2>3. KeepsFrom(branch, k)
    BY CutPointsKeep DEF Data, Recorded
  <2> QED BY <1>1, <2>2, <2>3 DEF Planned
<1> QED BY <1>3, <1>4, <1>5, <1>6, <1>7 DEF Shape

LEMMA CompactSummarisedShapes == ASSUME Good, Tended, Shape, Calm, CompactSummarised PROVE Shape'
<1> AgentType /\ PlaceType /\ Data /\ Latest
  BY DEF Good, Types, Shape
<1> DEFINE k == manual.keep
<1>1. /\ manual.pc = "summarise" /\ Compacted(k, "manual") /\ UNCHANGED <<sess, call, hist>>
      /\ manual'.pc # "summarise"
  BY DEF CompactSummarised, PlaceType
<1>2. \A y \in Users : ~Engaged(y)
  BY <1>1 DEF Tended, Listens
<1>3. agent.at = "idle" /\ KeepsFrom(branch, k)
  BY <1>1, <1>2, BusyIsMinded DEF Shape, Planned
<1>4. agent'.at = "idle" /\ agent'.since = agent.since
  BY <1>1, <1>3 DEF Compacted, AgentType
<1> HIDE DEF k
<1>5. Data' /\ BranchKeeps
  <2>1. sess'.bash \in Seq(BashMessages) /\ sess'.last \in {sess.last, NoReply} /\ SameRecords
    BY <1>1, <1>4, MessagesAre DEF SameRecords
  <2> QED BY <1>1, <1>3, <1>4, <2>1, CompactedData
<1>6. Latest'
  BY <1>1, <1>4, <1>5, CalmHas, LatestAtRest DEF Nobody
<1>7. ASSUME NEW y \in Users PROVE Sound(y)'
  BY <1>1, <1>2, <1>5, SoundStays DEF SameWay, Shape
<1>8. Apart'
  BY <1>1, ApartStays DEF Shape, Ended, Engaged
<1>9. Planned'
  BY <1>1 DEF Planned
<1> QED BY <1>5, <1>6, <1>7, <1>8, <1>9 DEF Shape

LEMMA CompactEndsShapes == ASSUME Good, Shape, Calm, CompactEnds PROVE Shape'
<1> SessType /\ PlaceType
  BY DEF Good, Types
<1>1. /\ UNCHANGED <<agent, branch, hist>> /\ compaction_end(FALSE, call) /\ manual'.pc # "summarise"
      /\ sess'.bash = sess.bash /\ sess'.last = sess.last
  BY DEF CompactEnds, SessType, PlaceType
<1>2. \A y \in Users : SameWay(y) \/ Out(y)
  BY <1>1, EndIs DEF SameWay
<1> QED BY <1>1, <1>2, OutsideShapes

(***************************************************************************)
(* What the user does.                                                     *)
(***************************************************************************)
LEMMA AtIsOut ==
  ASSUME Good, NEW m \in Users, NEW p \in Outside, call' = At(m, p)
  PROVE  \A y \in Users : SameWay(y) \/ Out(y)
<1> CallType
  BY DEF Good, Types
<1> QED BY DEF At, CallType, SameWay, Out

LEMMA SubmitShapes == ASSUME Good, HistType, Shape, Calm, NEW m \in Users, Submit(m) PROVE Shape'
<1>1. /\ UNCHANGED <<agent, branch, sess, manual>> /\ hist'.replies = hist.replies /\ hist'.delivered = hist.delivered
  BY DEF Submit, HistType
<1>2. \E p \in Outside : call' = At(m, p)
  BY DEF Submit, Steer, Outside
<1>3. \A y \in Users : SameWay(y) \/ Out(y)
  BY <1>2, AtIsOut
<1> QED BY <1>1, <1>3, OutsideShapes

LEMMA NextInputShapes == ASSUME Good, Shape, Calm, NextInput PROVE Shape'
<1> DEFINE m == Head(ui.inputs)
<1>1. UNCHANGED <<agent, branch, sess, manual, hist>> /\ call' = At(m, "called") /\ ui.inputs # <<>>
  BY DEF NextInput
<1>2. m \in Users
  BY <1>1, ElementsOfTail DEF Good, Types, PlaceType
<1> HIDE DEF m
<1>3. \A y \in Users : SameWay(y) \/ Out(y)
  BY <1>1, <1>2, AtIsOut DEF Outside
<1> QED BY <1>1, <1>3, OutsideShapes

LEMMA CancelShapes == ASSUME Good, HistType, Shape, Calm, Cancel PROVE Shape'
<1> AgentType /\ CallType /\ PlaceType
  BY DEF Good, Types
<1>1. hist'.replies = hist.replies /\ hist'.delivered = hist.delivered
  BY DEF Cancel, HistType
<1>2. ASSUME NEW a, agent' = [agent EXCEPT !.aborted = a], UNCHANGED <<branch, sess>>,
             manual'.pc = "summarise" => manual.pc = "summarise" /\ manual'.keep = manual.keep,
             \A y \in Users : SameWay(y) \/ Out(y) \/ Woken(y)
      PROVE  Shape'
  <2>1. /\ agent'.messages = agent.messages /\ agent'.at = agent.at /\ agent'.todo = agent.todo
        /\ agent'.then = agent.then /\ agent'.since = agent.since
    BY <1>2 DEF AgentType
  <2> QED BY <1>1, <1>2, <2>1, OutsideShapes
<1>3. CASE CancelRetry
  <2>1. call' = abortRetry /\ UNCHANGED <<branch, sess, manual>> /\ \E a : agent' = [agent EXCEPT !.aborted = a]
    BY <1>3 DEF CancelRetry
  <2> QED BY <1>2, <2>1, abortRetryWakes
<1>4. CASE abortCompaction
  <2>1. /\ call' = [m \in Users |-> [call[m] EXCEPT !.aborted = @ \/ call[m].pc = "summarise"]]
        /\ manual' = [manual EXCEPT !.aborted = @ \/ manual.pc \in {"prepare", "summarise"}]
        /\ UNCHANGED <<agent, branch, sess>>
    BY <1>4 DEF abortCompaction
  <2>2. manual'.pc = manual.pc /\ manual'.keep = manual.keep
    BY <2>1 DEF PlaceType
  <2>3. \A y \in Users : SameWay(y)
    BY <2>1 DEF CallType, SameWay
  <2> QED BY <1>1, <2>1, <2>2, <2>3, OutsideShapes
<1>5. ASSUME NEW abort \in BOOLEAN, restoreQueuedMessagesToEditor(abort) PROVE Shape'
  <2>1. /\ call' = [m \in Users |-> IF m \in ToSet(shown \o ui.held) THEN [NewCall EXCEPT !.pc = "editor"] ELSE call[m]]
        /\ UNCHANGED <<branch, sess, manual>> /\ \E a : agent' = [agent EXCEPT !.aborted = a]
    BY <1>5 DEF restoreQueuedMessagesToEditor
  <2>2. [NewCall EXCEPT !.pc = "editor"].pc = "editor" /\ [NewCall EXCEPT !.pc = "editor"].reply = NoReply
    BY DEF NewCall
  <2>3. \A y \in Users : SameWay(y) \/ Out(y)
    BY <2>1, <2>2 DEF SameWay, Out, Outside
  <2> QED BY <1>2, <2>1, <2>3
<1> QED BY <1>3, <1>4, <1>5 DEF Cancel

LEMMA recordBashResultShapes == ASSUME Good, HistType, Shape, Calm, NEW b \in Bashes, recordBashResult(b) PROVE Shape'
<1> AgentType /\ SessType /\ Data /\ Latest
  BY DEF Good, Types, Shape
<1>1. /\ UNCHANGED <<call, manual>> /\ hist'.replies = hist.replies /\ hist'.delivered = hist.delivered
  BY DEF recordBashResult, HistType
<1>2. Bash(b) \in BashMessages /\ sess.bash \in Seq(BashMessages) /\ branch \in Branches /\ agent.messages \in Seq(Messages)
  BY MessagesAre DEF Bash, BashMessages
<1>3. \A y \in Users : call[y].pc # "ran" /\ ~Ended(y)
  BY CalmHas
<1>4. CASE isStreaming
  <2>1. sess' = [sess EXCEPT !.bash = Append(@, Bash(b))] /\ UNCHANGED <<agent, branch>> /\ agent.at # "idle"
    BY <1>4 DEF recordBashResult, isStreaming
  <2>2. sess'.bash = Append(sess.bash, Bash(b)) /\ sess'.last = sess.last
    BY <2>1 DEF SessType
  <2>3. sess'.bash \in Seq(BashMessages)
    BY <1>2, <2>2
  <2>4. Data' /\ BranchKeeps /\ FreshStays
    BY <1>1, <2>1, <2>2, <2>3, DataStays, BranchStays DEF Saving, SameRecords
  <2>5. Latest'
    BY <1>1, <2>1, <2>2, <2>4, LatestStays DEF RunOver
  <2>6. ASSUME NEW y \in Users PROVE Sound(y)'
    BY <1>1, <2>1, <2>4, SoundStays DEF SameWay, Shape
  <2>7. Apart'
    BY <1>1, <1>3 DEF Apart, Ended
  <2>8. Planned'
    BY <1>1, <2>4, PlannedStays DEF Shape
  <2> QED BY <2>4, <2>5, <2>6, <2>7, <2>8 DEF Shape
<1>5. CASE ~isStreaming
  <2> DEFINE u == <<Bash(b)>>
  <2>1. /\ agent' = [agent EXCEPT !.messages = Append(@, Bash(b))]
        /\ branch' = [branch EXCEPT !.messages = Append(@, Bash(b))] /\ sess' = sess /\ agent.at = "idle"
    BY <1>5 DEF recordBashResult, isStreaming
  <2>2. Bash(b) \in Entries /\ Bash(b) \in Messages
    BY <1>2 DEF Entries, Messages
  <2>3. branch.messages \in Seq(Entries)
    BY <1>2, BranchHas
  <2>4. Append(branch.messages, Bash(b)) = branch.messages \o u
    BY <2>2, <2>3, AppendedIsConcat
  <2>5. Append(agent.messages, Bash(b)) = agent.messages \o u
    BY <1>2, <2>2, AppendedIsConcat
  <2>6. u \in Seq(BashMessages)
    BY <1>2, AppendedIsConcat
  <2>7. branch' = Grown(branch, u)
    BY <2>1, <2>4 DEF Grown
  <2>8. agent'.messages = agent.messages \o u /\ agent'.at = "idle" /\ agent'.since = agent.since
    BY <2>1, <2>5 DEF AgentType
  <2> HIDE DEF u
  <2>9. Data' /\ BranchKeeps /\ FreshStays
    BY <1>1, <1>2, <2>1, <2>6, <2>7, <2>8, BashGrows DEF SameRecords
  <2>10. Latest'
    BY <1>1, <1>3, <2>1, <2>8, <2>9, LatestAtRest DEF Nobody
  <2>11. (\A y \in Users : Sound(y)') /\ Apart' /\ Planned'
    BY <1>1, <2>1, <2>9, CallsStay
  <2> QED BY <2>9, <2>10, <2>11 DEF Shape
<1> QED BY <1>4, <1>5

(***************************************************************************)
(* Every step.                                                             *)
(***************************************************************************)
LEMMA InitiallyShaped == Init => Shape
<1> HAVE Init
<1>1. branch = [messages |-> <<>>, compactions |-> <<>>] /\ agent.messages = <<>> /\ agent.at = "idle"
      /\ sess.bash = <<>> /\ sess.last = NoReply /\ hist.delivered = <<>> /\ hist.replies = 0 /\ agent.since = 0
      /\ manual.pc = "none"
  BY DEF Init
<1>2. \A y \in Users : call[y].pc = "new" /\ call[y].stage = "own" /\ call[y].reply = NoReply
  BY DEF Init, NewCall
<1>3. branch \in Branches /\ Len(branch.messages) = 0 /\ Len(branch.compactions) = 0
  BY <1>1 DEF Branches
<1>4. Recorded(branch)
  BY <1>3 DEF Recorded, Cut, Dated, Grounded
<1>5. Match(<<>>, branch)
  <2>1. buildSessionContext(branch) = <<>>
    BY <1>1 DEF buildSessionContext
  <2>2. Paired(<<>>)
    BY DEF Paired
  <2> QED BY <1>1, <2>1, <2>2 DEF Match
<1>6. Shut(<<>>, branch)
  BY <1>1 DEF Shut, Settled
<1>7. Data
  <2>1. ~Saving /\ Handled = <<>>
    BY <1>1 DEF Saving, Handled
  <2>2. Fields
    BY <1>1, <1>3, <2>1 DEF Fields, Compactions
  <2>3. Persisted
    BY <1>1, ElementsOfEmpty DEF Persisted
  <2>4. Joined
    BY <1>1, <1>6, <2>1 DEF Joined
  <2> QED BY <1>4, <1>5, <2>1, <2>2, <2>3, <2>4 DEF Data
<1>8. Latest
  BY <1>1, <1>2, NoReplyIsNone DEF Latest, RunOver, Saving
<1>9. ASSUME NEW y \in Users PROVE Sound(y)
  BY <1>1, <1>2 DEF Sound
<1>10. Apart /\ Planned
  BY <1>1, <1>2 DEF Apart, Planned, Ended
<1> QED BY <1>7, <1>8, <1>9, <1>10 DEF Shape

LEMMA NextShapes ==
  ASSUME Good, HistType, Tended, Shape, Next, hist'.clean
  PROVE  Shape'
<1>1. ASSUME NEW m \in Users, Call(m) PROVE Shape'
  BY <1>1, CallShapes
<1>2. CASE Poll
  BY <1>2, PollShapes
<1>3. CASE CompactReady
  BY <1>3, CompactReadyShapes
<1>4. ASSUME NEW m \in Users, Settle(m) PROVE Shape'
  BY <1>4, PostRunShapes, ContinueShapes, FinishShapes DEF Settle
<1>5. ASSUME NEW m \in Users, BeforeStart(m) PROVE Shape'
  BY <1>5, BeforeStartShapes
<1>6. CASE Calm /\ AgentStep
  BY <1>6, DeliverShapes, ReplyArrivesShapes, ToolAnswersShapes, MessageEndShapes, RunEndsShapes DEF AgentStep
<1>7. CASE Calm /\ (NextInput \/ CompactStep)
  BY <1>7, NextInputShapes, CompactPreparedShapes, CompactSummarisedShapes, CompactEndsShapes DEF CompactStep
<1>8. CASE Calm /\ UserStep
  BY <1>8, CompactShapes, CancelShapes, SubmitShapes, recordBashResultShapes DEF UserStep
<1>9. ASSUME NEW m \in Users, Calm, PromptStep(m) PROVE Shape'
  BY <1>5, <1>9, WakeShapes, RetryCancelledShapes, AutoAuthShapes, AutoSummarisedShapes, AutoDoneShapes DEF PromptStep
<1>10. ASSUME NEW m \in Users, Calm, AutoFails(m) PROVE Shape'
  BY <1>10, AutoFailsShapes
<1>11. \/ \E m \in Users : Call(m)
       \/ Poll \/ CompactReady
       \/ \E m \in Users : Settle(m) \/ BeforeStart(m)
       \/ Calm /\ (AgentStep \/ NextInput \/ CompactStep \/ UserStep \/ \E m \in Users : PromptStep(m) \/ AutoFails(m))
  BY DEF Next
<1> QED BY <1>1, <1>2, <1>3, <1>4, <1>5, <1>6, <1>7, <1>8, <1>9, <1>10, <1>11

LEMMA StutterShapes == ASSUME Good, Shape, UNCHANGED vars PROVE Shape'
<1> UNCHANGED <<agent, branch, sess, call, manual, hist>>
  BY DEF vars
<1> Data /\ Latest
  BY DEF Shape
<1>1. BranchKeeps /\ FreshStays
  BY BranchStays
<1>2. Data'
  BY DataStays DEF Saving, SameRecords, Data, Fields
<1>3. Latest'
  BY <1>1, LatestStays DEF RunOver
<1>4. (\A y \in Users : Sound(y)') /\ Apart' /\ Planned'
  BY <1>1, CallsStay
<1> QED BY <1>2, <1>3, <1>4 DEF Shape

ContextInv == FullInv /\ (hist.clean => Shape)

LEMMA ContextStep == ContextInv /\ [Next]_vars => ContextInv'
<1> SUFFICES ASSUME ContextInv, [Next]_vars PROVE ContextInv'
  OBVIOUS
<1>1. HistType /\ (hist'.clean => hist.clean) /\ FullInv'
  BY HistStep, FullStep DEF ContextInv, FullInv, Inv
<1>2. ASSUME hist'.clean PROVE Shape'
  <2>1. Good /\ Tended /\ Shape
    BY <1>1, <1>2 DEF ContextInv, FullInv, Inv
  <2> QED BY <1>1, <1>2, <2>1, NextShapes, StutterShapes
<1> QED BY <1>1, <1>2 DEF ContextInv

LEMMA InitiallyInContext == Init => ContextInv
  BY InitialStates, InitiallyTended, InitiallyShaped DEF ContextInv, FullInv

(***************************************************************************)
(* What follows from it.                                                   *)
(***************************************************************************)
\* A message that is about to be saved goes well with those before it.
LEMMA PendingPairs ==
  ASSUME Data PROVE Paired(agent.messages)
<1>1. CASE ~Saving
  BY <1>1 DEF Data, Handled, Match
<1>2. CASE Saving
  <2> DEFINE ms == Handled
             x == Pending
  <2>1. /\ agent.messages \in Seq(Messages) /\ agent.messages # <<>> /\ x \in UserMessages \cup Results \cup Answers
        /\ ms \in Seq(Messages) /\ agent.messages = Append(ms, x) /\ x \in Entries
    <3>1. agent.messages \in Seq(Messages) /\ agent.messages # <<>> /\ x \in UserMessages \cup Results \cup Answers
      BY <1>2 DEF Data, Fields
    <3> QED BY <1>2, <3>1, FrontIs DEF Handled, Pending, Entries
  <2>2. branch \in Branches /\ Cut(branch) /\ Match(ms, branch)
    BY DEF Data, Recorded
  <2>3. \/ x \notin Results /\ Shut(ms, branch)
        \/ \E n : x = Result(n) /\ Open(ms, branch, n)
    BY <1>2 DEF Data, Joined
  <2> HIDE DEF ms, x
  <2>4. Match(Append(ms, x), Grown(branch, <<x>>))
    BY <2>1, <2>2, <2>3, MatchSaves
  <2> QED BY <2>1, <2>4 DEF Match
<1> QED BY <1>1, <1>2

LEMMA ContextInvImpliesPaired == ContextInv => CallsMeetResults
<1> SUFFICES ASSUME ContextInv, hist.clean PROVE Paired(agent.messages) /\ Paired(branch.messages)
  BY DEF CallsMeetResults
<1>1. Data
  BY DEF ContextInv, Shape
<1> QED BY <1>1, PendingPairs DEF Data, Match

LEMMA ContextInvImpliesContext == ContextInv => ContextIsSession
<1> SUFFICES ASSUME ContextInv, AtRest, hist.clean
             PROVE  /\ Lasting(agent.messages) = Lasting(buildSessionContext(branch))
                    /\ \A m \in ToSet(hist.delivered) : Contains(branch.messages, User(m))
  BY DEF ContextIsSession
<1>1. Data /\ PlaceType
  BY DEF ContextInv, FullInv, Inv, Good, Types, Shape
<1>2. ~Saving /\ agent.at = "idle"
  BY DEF AtRest, isStreaming, Saving
<1>3. Lasting(agent.messages) = Lasting(buildSessionContext(branch))
  BY <1>1, <1>2 DEF Data, Handled, Match
<1>4. branch.messages \in Seq(Entries) /\ hist.delivered \in Seq(Users)
  BY <1>1, MessagesAre, BranchHas DEF PlaceType
<1>5. ASSUME NEW m \in ToSet(hist.delivered) PROVE Contains(branch.messages, User(m))
  <2>1. m \in Elements(hist.delivered)
    BY <1>4, ToSetIsElements
  <2>2. User(m) \in Elements(branch.messages)
    BY <1>1, <1>2, <2>1 DEF Data, Persisted
  <2> QED BY <1>4, <2>2 DEF Contains, Elements
<1> QED BY <1>3, <1>5

LEMMA ContextInvImpliesNoneStale == ContextInv => NoStaleCompaction
<1> SUFFICES ASSUME ContextInv, hist.clean, NEW i \in DOMAIN branch.compactions, NEW j \in DOMAIN branch.compactions,
                    i < j, branch.compactions[j].reason = "auto"
             PROVE  \E k \in branch.compactions[i].at + 1 .. branch.compactions[j].at :
                      branch.messages[k].role = "assistant" /\ branch.messages[k].epoch >= i
  BY DEF NoStaleCompaction
<1>1. branch \in Branches /\ Grounded(branch)
  BY DEF ContextInv, Shape, Data, Recorded
<1>2. i \in 1..Len(branch.compactions) /\ j \in 1..Len(branch.compactions)
  BY <1>1, BranchHas
<1>3. Since(branch, i, branch.compactions[i].at + 1, branch.compactions[j].at)
  BY <1>1, <1>2 DEF Grounded
<1> QED BY <1>3 DEF Since, Answers

\* As long as calls of prompt() and compact() do not overlap, a tool result follows its call at
\* once, and a call its result, both in what the provider is sent and in the session file: bash
\* messages recorded during a run wait until it is over (recordBashResult,
\* _flushPendingBashMessages), and a compaction keeps from no tool result (findCutPoint).
THEOREM CallsAndResultsMeet == Spec => []CallsMeetResults
<1>1. Init => ContextInv
  BY InitiallyInContext
<1>2. ContextInv /\ [Next]_vars => ContextInv'
  BY ContextStep
<1>3. ContextInv => CallsMeetResults
  BY ContextInvImpliesPaired
<1> QED BY <1>1, <1>2, <1>3, PTL DEF Spec

\* At rest, after any number of runs, retries and compactions, the agent's messages are those the
\* session file would restore, apart from failed replies that were taken out, and every message
\* the agent was given is in the file.
THEOREM ContextIsTheSession == Spec => []ContextIsSession
<1>1. Init => ContextInv
  BY InitiallyInContext
<1>2. ContextInv /\ [Next]_vars => ContextInv'
  BY ContextStep
<1>3. ContextInv => ContextIsSession
  BY ContextInvImpliesContext
<1> QED BY <1>1, <1>2, <1>3, PTL DEF Spec

\* Between a compaction and a later automatic one there is a reply that was requested after the
\* first: usage that was reported before a compaction sets off no other (_checkCompaction).
THEOREM NoCompactionIsStale == Spec => []NoStaleCompaction
<1>1. Init => ContextInv
  BY InitiallyInContext
<1>2. ContextInv /\ [Next]_vars => ContextInv'
  BY ContextStep
<1>3. ContextInv => NoStaleCompaction
  BY ContextInvImpliesNoneStale
<1> QED BY <1>1, <1>2, <1>3, PTL DEF Spec
=============================================================================
