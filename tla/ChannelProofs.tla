---------------------------- MODULE ChannelProofs ----------------------------
(***************************************************************************)
(* Theorems about the channels between a producer and its consumers,       *)
(* EventStream and RpcClient, for every value of their constants.          *)
(***************************************************************************)
EXTENDS EventStream, RpcClient, FiniteSetTheorems, TLAPS

Elements(s) == {s[i] : i \in 1..Len(s)}

\* x occurs in s at most once.
AtMostOnce(s, x) == \A i, j \in 1..Len(s) : s[i] = x /\ s[j] = x => i = j

LEMMA ElementsOfEmpty == Elements(<<>>) = {} /\ \A x : AtMostOnce(<<>>, x)
  BY DEF Elements, AtMostOnce

LEMMA ElementsOfTail ==
  ASSUME NEW S, NEW s \in Seq(S), s # <<>>
  PROVE  /\ Tail(s) \in Seq(S) /\ Head(s) \in S /\ Elements(s) = {Head(s)} \cup Elements(Tail(s))
         /\ AtMostOnce(s, Head(s)) => Head(s) \notin Elements(Tail(s))
         /\ \A x : AtMostOnce(s, x) => AtMostOnce(Tail(s), x)
<1>1. Len(s) \in Nat /\ Len(s) >= 1 /\ Head(s) = s[1]
  OBVIOUS
<1>2. Tail(s) \in Seq(S) /\ Len(Tail(s)) = Len(s) - 1 /\ \A i \in 1..Len(Tail(s)) : Tail(s)[i] = s[i + 1]
  OBVIOUS
<1>3. /\ \A i \in 1..Len(Tail(s)) : i + 1 \in 1..Len(s) /\ i + 1 # 1
      /\ \A i, j \in 1..Len(Tail(s)) : i + 1 = j + 1 => i = j
  BY <1>1, <1>2
<1>4. ASSUME NEW i \in 1..Len(s), i # 1 PROVE s[i] \in Elements(Tail(s))
  <2>1. i - 1 \in 1..Len(Tail(s)) /\ i - 1 + 1 = i
    BY <1>1, <1>2, <1>4
  <2>2. Tail(s)[i - 1] = s[i]
    BY <1>2, <2>1
  <2> QED BY <2>1, <2>2 DEF Elements
<1>5. 1 \in 1..Len(s)
  BY <1>1
<1>6. Elements(s) = {Head(s)} \cup Elements(Tail(s))
  <2>1. Elements(Tail(s)) \subseteq Elements(s)
    BY <1>2, <1>3 DEF Elements
  <2>2. Elements(s) \subseteq {Head(s)} \cup Elements(Tail(s))
    BY <1>1, <1>4 DEF Elements
  <2>3. Head(s) \in Elements(s)
    BY <1>1, <1>5 DEF Elements
  <2> QED BY <2>1, <2>2, <2>3
<1>7. AtMostOnce(s, Head(s)) => Head(s) \notin Elements(Tail(s))
  BY <1>1, <1>2, <1>3, <1>5 DEF AtMostOnce, Elements
<1>8. \A x : AtMostOnce(s, x) => AtMostOnce(Tail(s), x)
  BY <1>2, <1>3 DEF AtMostOnce
<1> QED BY <1>1, <1>2, <1>5, <1>6, <1>7, <1>8

LEMMA ElementsOfAppend ==
  ASSUME NEW S, NEW s \in Seq(S), NEW x \in S
  PROVE  /\ Append(s, x) \in Seq(S) /\ Elements(Append(s, x)) = Elements(s) \cup {x}
         /\ x \notin Elements(s) => AtMostOnce(Append(s, x), x)
         /\ \A y : y # x /\ AtMostOnce(s, y) => AtMostOnce(Append(s, x), y)
<1> DEFINE t == Append(s, x)
<1>1. t \in Seq(S) /\ Len(t) = Len(s) + 1 /\ Len(s) \in Nat
  OBVIOUS
<1>2. /\ \A i \in 1..Len(s) : t[i] = s[i]
      /\ t[Len(t)] = x
  OBVIOUS
<1>3. \A i \in 1..Len(t) : i # Len(t) => i \in 1..Len(s)
  BY <1>1
<1>4. Len(t) \in 1..Len(t) /\ 1..Len(s) \subseteq 1..Len(t)
  BY <1>1
<1> HIDE DEF t
<1>5. Elements(t) = Elements(s) \cup {x}
  <2>1. Elements(t) \subseteq Elements(s) \cup {x}
    BY <1>2, <1>3 DEF Elements
  <2>2. x \in Elements(t)
    BY <1>2, <1>4 DEF Elements
  <2>3. Elements(s) \subseteq Elements(t)
    BY <1>2, <1>4 DEF Elements
  <2> QED BY <2>1, <2>2, <2>3
<1>6. x \notin Elements(s) => AtMostOnce(t, x)
  BY <1>2, <1>3 DEF AtMostOnce, Elements
<1>7. \A y : y # x /\ AtMostOnce(s, y) => AtMostOnce(t, y)
  BY <1>2, <1>3 DEF AtMostOnce
<1> QED BY <1>1, <1>5, <1>6, <1>7 DEF t

(***************************************************************************)
(* RpcClient.                                                              *)
(***************************************************************************)
RpcTypes ==
  /\ stdin \in Seq(Requests) /\ stdout \in Seq(Requests \cup {RpcEvent})
  /\ DOMAIN request = Requests /\ DOMAIN handler = Requests
  /\ pendingRequests \subseteq Requests

\* A request is in one place at a time on its way down, through its handler and up.
AtOnePlace(r) ==
  /\ AtMostOnce(stdin, r) /\ AtMostOnce(stdout, r)
  /\ r \in Elements(stdin) => r \notin Elements(stdout) /\ handler[r] # "running"
  /\ handler[r] = "running" => r \notin Elements(stdout)
  /\ request[r] = "new" => r \notin Elements(stdin) /\ r \notin Elements(stdout) /\ handler[r] = "none"

\* A request on its way is still pending, or was given up.
OnTheWay(r) == r \in Elements(stdin) \/ handler[r] = "running" \/ r \in Elements(stdout)
Expected(r) ==
  /\ r \in pendingRequests => request[r] = "sent"
  /\ listening /\ OnTheWay(r) => r \in pendingRequests \/ request[r] = "rejected"
  /\ r \in strays => request[r] = "rejected"

RpcInv ==
  /\ RpcTypes /\ strays \subseteq Requests
  /\ listening => child = "up"
  /\ \A r \in Requests : AtOnePlace(r) /\ Expected(r)

LEMMA RpcStart == RpcInit => RpcInv
  BY ElementsOfEmpty DEF RpcInit, RpcInv, RpcTypes, AtOnePlace, Expected, OnTheWay

\* The client listens to a process that is up.
LEMMA RpcTypesStep == RpcInv /\ [RpcNext]_rpcVars => RpcTypes' /\ strays' \subseteq Requests /\ (listening' => child' = "up")
<1> SUFFICES ASSUME RpcInv, [RpcNext]_rpcVars PROVE RpcTypes' /\ strays' \subseteq Requests /\ (listening' => child' = "up")
  OBVIOUS
<1> RpcTypes /\ RpcEvent \notin Requests /\ stdout \in Seq(Requests \cup {RpcEvent})
  BY RpcAssumption DEF RpcInv, RpcTypes
<1>1. CASE StartChild
  <2>1. <<>> \in Seq(Requests) /\ <<>> \in Seq(Requests \cup {RpcEvent})
    OBVIOUS
  <2> QED BY <1>1, <2>1 DEF StartChild, RpcTypes, RpcInv
<1>2. CASE TakeLine
  <2>1. stdin' \in Seq(Requests) /\ Head(stdin) \in Requests
    BY <1>2, ElementsOfTail DEF TakeLine, RpcTypes
  <2> QED BY <1>2, <2>1 DEF TakeLine, RpcTypes, RpcInv
<1>3. CASE HandleLine
  <2>1. stdout' \in Seq(Requests \cup {RpcEvent}) /\ Head(stdout) \in Requests \cup {RpcEvent}
    BY <1>3, ElementsOfTail DEF HandleLine, RpcTypes
  <2> QED BY <1>3, <2>1 DEF HandleLine, Settle, RpcTypes, RpcInv
<1>4. CASE ChildExits
  BY <1>4 DEF ChildExits, Settle, RpcTypes, RpcInv
<1>5. CASE Stop
  BY <1>5 DEF Stop, RpcTypes, RpcInv
<1>6. CASE StopEnds
  BY <1>6 DEF StopEnds, RpcTypes, RpcInv
<1>7. ASSUME NEW r \in Requests, SendRequest(r) PROVE RpcTypes' /\ strays' \subseteq Requests /\ (listening' => child' = "up")
  <2>1. stdin' \in Seq(Requests)
    <3>1. Append(stdin, r) \in Seq(Requests)
      BY ElementsOfAppend DEF RpcTypes
    <3> QED BY <1>7, <3>1 DEF SendRequest, RpcTypes
  <2> QED BY <1>7, <2>1 DEF SendRequest, RpcTypes, RpcInv
<1>8. ASSUME NEW r \in Requests, Answer(r) PROVE RpcTypes' /\ strays' \subseteq Requests /\ (listening' => child' = "up")
  <2>1. stdout' \in Seq(Requests \cup {RpcEvent})
    BY <1>8, ElementsOfAppend DEF Answer, RpcTypes
  <2> QED BY <1>8, <2>1 DEF Answer, RpcTypes, RpcInv
<1>9. ASSUME NEW r \in Requests, PromptThrows(r) PROVE RpcTypes' /\ strays' \subseteq Requests /\ (listening' => child' = "up")
  <2>1. stdout' \in Seq(Requests \cup {RpcEvent})
    BY <1>9, ElementsOfAppend DEF PromptThrows, Refused, RpcTypes
  <2> QED BY <1>9, <2>1 DEF PromptThrows, Refused, RpcTypes, RpcInv
<1>10. ASSUME NEW r \in Requests, RunOver(r) PROVE RpcTypes' /\ strays' \subseteq Requests /\ (listening' => child' = "up")
  <2>1. stdout' \in Seq(Requests \cup {RpcEvent})
    BY <1>10, ElementsOfAppend DEF RunOver, RpcTypes
  <2> QED BY <1>10, <2>1 DEF RunOver, RpcTypes, RpcInv
<1>11. ASSUME NEW r \in Requests, TimesOut(r) PROVE RpcTypes' /\ strays' \subseteq Requests /\ (listening' => child' = "up")
  BY <1>11 DEF TimesOut, Settle, RpcTypes, RpcInv
<1>12. CASE UNCHANGED rpcVars
  BY <1>12 DEF rpcVars, RpcTypes, RpcInv
<1> QED
  BY <1>1, <1>2, <1>3, <1>4, <1>5, <1>6, <1>7, <1>8, <1>9, <1>10, <1>11, <1>12 DEF RpcNext

\* A line goes from one place to the next.
LEMMA AtOnePlaceStep == RpcInv /\ [RpcNext]_rpcVars => (\A q \in Requests : AtOnePlace(q))'
<1> SUFFICES ASSUME RpcInv, [RpcNext]_rpcVars PROVE (\A q \in Requests : AtOnePlace(q))'
  OBVIOUS
<1> RpcTypes /\ RpcEvent \notin Requests /\ stdout \in Seq(Requests \cup {RpcEvent})
  BY RpcAssumption DEF RpcInv, RpcTypes
<1>1. CASE StartChild
  <2> SUFFICES ASSUME NEW q \in Requests PROVE AtOnePlace(q)'
    OBVIOUS
  <2> AtOnePlace(q)
    BY DEF RpcInv
  <2> QED BY <1>1, ElementsOfEmpty DEF StartChild, AtOnePlace, RpcTypes
<1>2. CASE TakeLine
  <2> SUFFICES ASSUME NEW q \in Requests PROVE AtOnePlace(q)'
    OBVIOUS
  <2> AtOnePlace(q)
    BY DEF RpcInv
  <2>1. /\ Head(stdin) \in Requests /\ Elements(stdin) = {Head(stdin)} \cup Elements(stdin')
        /\ AtMostOnce(stdin, Head(stdin)) => Head(stdin) \notin Elements(stdin')
        /\ \A x : AtMostOnce(stdin, x) => AtMostOnce(stdin', x)
    BY <1>2, ElementsOfTail DEF TakeLine, RpcTypes
  <2>2. UNCHANGED <<request, stdout>> /\ handler'[q] = IF q = Head(stdin) THEN "running" ELSE handler[q]
    BY <1>2 DEF TakeLine, RpcTypes
  <2> QED BY <1>2, <2>1, <2>2 DEF TakeLine, AtOnePlace, RpcTypes
<1>3. CASE HandleLine
  <2> SUFFICES ASSUME NEW q \in Requests PROVE AtOnePlace(q)'
    OBVIOUS
  <2> AtOnePlace(q)
    BY DEF RpcInv
  <2>1. /\ Elements(stdout) = {Head(stdout)} \cup Elements(stdout')
        /\ AtMostOnce(stdout, Head(stdout)) => Head(stdout) \notin Elements(stdout')
        /\ \A x : AtMostOnce(stdout, x) => AtMostOnce(stdout', x)
    BY <1>3, ElementsOfTail DEF HandleLine
  <2>2. UNCHANGED <<stdin, handler>>
    BY <1>3 DEF HandleLine
  <2>3. request'[q] = "new" => request[q] = "new"
    BY <1>3 DEF HandleLine, Settle
  <2> QED BY <2>1, <2>2, <2>3 DEF AtOnePlace
<1>4. CASE ChildExits
  <2> SUFFICES ASSUME NEW q \in Requests PROVE AtOnePlace(q)'
    OBVIOUS
  <2> AtOnePlace(q)
    BY DEF RpcInv
  <2> QED BY <1>4 DEF ChildExits, Settle, AtOnePlace, RpcTypes
<1>5. CASE Stop
  <2> SUFFICES ASSUME NEW q \in Requests PROVE AtOnePlace(q)'
    OBVIOUS
  <2> AtOnePlace(q)
    BY DEF RpcInv
  <2> QED BY <1>5 DEF Stop, AtOnePlace, RpcTypes
<1>6. CASE StopEnds
  <2> SUFFICES ASSUME NEW q \in Requests PROVE AtOnePlace(q)'
    OBVIOUS
  <2> AtOnePlace(q)
    BY DEF RpcInv
  <2> QED BY <1>6 DEF StopEnds, AtOnePlace, RpcTypes
<1>7. ASSUME NEW r \in Requests, SendRequest(r) PROVE (\A q \in Requests : AtOnePlace(q))'
  <2> SUFFICES ASSUME NEW q \in Requests PROVE AtOnePlace(q)'
    OBVIOUS
  <2> AtOnePlace(q)
    BY DEF RpcInv
  <2>1. /\ Elements(Append(stdin, r)) = Elements(stdin) \cup {r}
        /\ r \notin Elements(stdin) => AtMostOnce(Append(stdin, r), r)
        /\ \A x : x # r /\ AtMostOnce(stdin, x) => AtMostOnce(Append(stdin, r), x)
    BY ElementsOfAppend DEF RpcTypes
  <2>2. UNCHANGED <<stdout, handler>>
    BY <1>7 DEF SendRequest
  <2>3. request'[q] = "new" => request[q] = "new" /\ q # r
    BY <1>7 DEF SendRequest, RpcTypes
  <2>4. stdin' = stdin \/ (stdin' = Append(stdin, r) /\ request[r] = "new")
    BY <1>7 DEF SendRequest
  <2> QED BY <2>1, <2>2, <2>3, <2>4 DEF AtOnePlace
<1>8. ASSUME NEW r \in Requests, Answer(r) PROVE (\A q \in Requests : AtOnePlace(q))'
  <2> SUFFICES ASSUME NEW q \in Requests PROVE AtOnePlace(q)'
    OBVIOUS
  <2> AtOnePlace(q)
    BY DEF RpcInv
  <2>1. /\ Elements(Append(stdout, r)) = Elements(stdout) \cup {r}
        /\ r \notin Elements(stdout) => AtMostOnce(Append(stdout, r), r)
        /\ \A x : x # r /\ AtMostOnce(stdout, x) => AtMostOnce(Append(stdout, r), x)
    BY ElementsOfAppend
  <2>2. UNCHANGED <<stdin, request>> /\ \A x \in Requests : x # r => handler'[x] = handler[x]
    BY <1>8 DEF Answer, RpcTypes
  <2>3. /\ stdout' = stdout \/ (stdout' = Append(stdout, r) /\ handler[r] = "running")
        /\ handler[r] # "none" /\ handler'[r] \notin {"none", "running"}
    BY <1>8 DEF Answer, RpcTypes
  <2>a. /\ Elements(stdout') \subseteq Elements(stdout) \cup {r} /\ Elements(stdout) \subseteq Elements(stdout')
        /\ \A x : x # r /\ AtMostOnce(stdout, x) => AtMostOnce(stdout', x)
    <3>1. CASE stdout' = stdout
      BY <3>1
    <3>2. CASE stdout' = Append(stdout, r)
      <4> DEFINE t == Append(stdout, r)
      <4>1. /\ Elements(t) = Elements(stdout) \cup {r}
            /\ \A x : x # r /\ AtMostOnce(stdout, x) => AtMostOnce(t, x)
        BY <2>1
      <4>2. stdout' = t
        BY <3>2
      <4> HIDE DEF t
      <4> QED BY <4>1, <4>2
    <3> QED BY <2>3, <3>1, <3>2
  <2>4. request[r] # "new" /\ (handler[r] = "running" => r \notin Elements(stdin) /\ r \notin Elements(stdout))
    BY <2>3 DEF RpcInv, AtOnePlace
  <2>5. CASE q = r
    <3>1. q \in Elements(stdout') => q \in Elements(stdout) \/ handler[r] = "running"
      BY <2>1, <2>3, <2>5
    <3>2. AtMostOnce(stdout', q)
      BY <2>1, <2>3, <2>4, <2>5 DEF AtOnePlace
    <3> QED BY <2>2, <2>3, <2>4, <2>5, <3>1, <3>2 DEF AtOnePlace
  <2>6. CASE q # r
    <3>1. (q \in Elements(stdout') <=> q \in Elements(stdout)) /\ AtMostOnce(stdout', q) /\ handler'[q] = handler[q]
      BY <2>a, <2>2, <2>6 DEF AtOnePlace
    <3> QED BY <2>2, <3>1 DEF AtOnePlace
  <2> QED BY <2>5, <2>6
<1>9. ASSUME NEW r \in Requests, PromptThrows(r) PROVE (\A q \in Requests : AtOnePlace(q))'
  <2> SUFFICES ASSUME NEW q \in Requests PROVE AtOnePlace(q)'
    OBVIOUS
  <2> AtOnePlace(q)
    BY DEF RpcInv
  <2>1. /\ Elements(Append(stdout, r)) = Elements(stdout) \cup {r}
        /\ r \notin Elements(stdout) => AtMostOnce(Append(stdout, r), r)
        /\ \A x : x # r /\ AtMostOnce(stdout, x) => AtMostOnce(Append(stdout, r), x)
    BY ElementsOfAppend
  <2>2. UNCHANGED <<stdin, request>> /\ \A x \in Requests : x # r => handler'[x] = handler[x]
    BY <1>9 DEF PromptThrows, RpcTypes
  <2>3. /\ stdout' = stdout \/ (stdout' = Append(stdout, r) /\ handler[r] = "running")
        /\ handler[r] # "none" /\ handler'[r] \notin {"none", "running"}
    BY <1>9 DEF PromptThrows, Refused, RpcTypes
  <2>a. /\ Elements(stdout') \subseteq Elements(stdout) \cup {r} /\ Elements(stdout) \subseteq Elements(stdout')
        /\ \A x : x # r /\ AtMostOnce(stdout, x) => AtMostOnce(stdout', x)
    <3>1. CASE stdout' = stdout
      BY <3>1
    <3>2. CASE stdout' = Append(stdout, r)
      <4> DEFINE t == Append(stdout, r)
      <4>1. /\ Elements(t) = Elements(stdout) \cup {r}
            /\ \A x : x # r /\ AtMostOnce(stdout, x) => AtMostOnce(t, x)
        BY <2>1
      <4>2. stdout' = t
        BY <3>2
      <4> HIDE DEF t
      <4> QED BY <4>1, <4>2
    <3> QED BY <2>3, <3>1, <3>2
  <2>4. request[r] # "new" /\ (handler[r] = "running" => r \notin Elements(stdin) /\ r \notin Elements(stdout))
    BY <2>3 DEF RpcInv, AtOnePlace
  <2>5. CASE q = r
    <3>1. q \in Elements(stdout') => q \in Elements(stdout) \/ handler[r] = "running"
      BY <2>1, <2>3, <2>5
    <3>2. AtMostOnce(stdout', q)
      BY <2>1, <2>3, <2>4, <2>5 DEF AtOnePlace
    <3> QED BY <2>2, <2>3, <2>4, <2>5, <3>1, <3>2 DEF AtOnePlace
  <2>6. CASE q # r
    <3>1. (q \in Elements(stdout') <=> q \in Elements(stdout)) /\ AtMostOnce(stdout', q) /\ handler'[q] = handler[q]
      BY <2>a, <2>2, <2>6 DEF AtOnePlace
    <3> QED BY <2>2, <3>1 DEF AtOnePlace
  <2> QED BY <2>5, <2>6
<1>10. ASSUME NEW r \in Requests, RunOver(r) PROVE (\A q \in Requests : AtOnePlace(q))'
  <2> SUFFICES ASSUME NEW q \in Requests PROVE AtOnePlace(q)'
    OBVIOUS
  <2> AtOnePlace(q)
    BY DEF RpcInv
  <2>1. /\ Elements(Append(stdout, RpcEvent)) = Elements(stdout) \cup {RpcEvent}
        /\ RpcEvent \notin Elements(stdout) => AtMostOnce(Append(stdout, RpcEvent), RpcEvent)
        /\ \A x : x # RpcEvent /\ AtMostOnce(stdout, x) => AtMostOnce(Append(stdout, RpcEvent), x)
    BY ElementsOfAppend
  <2>2. UNCHANGED <<stdin, request>> /\ \A x \in Requests : x # r => handler'[x] = handler[x]
    BY <1>10 DEF RunOver, RpcTypes
  <2>3. stdout' = Append(stdout, RpcEvent) /\ handler[r] = "accepted" /\ handler'[r] = "over" /\ q # RpcEvent
    BY <1>10 DEF RunOver, RpcTypes
  <2> QED BY <2>1, <2>2, <2>3 DEF AtOnePlace
<1>11. ASSUME NEW r \in Requests, TimesOut(r) PROVE (\A q \in Requests : AtOnePlace(q))'
  <2> SUFFICES ASSUME NEW q \in Requests PROVE AtOnePlace(q)'
    OBVIOUS
  <2> AtOnePlace(q)
    BY DEF RpcInv
  <2> QED BY <1>11 DEF TimesOut, Settle, AtOnePlace, RpcTypes
<1>12. CASE UNCHANGED rpcVars
  <2> SUFFICES ASSUME NEW q \in Requests PROVE AtOnePlace(q)'
    OBVIOUS
  <2> AtOnePlace(q)
    BY DEF RpcInv
  <2> QED BY <1>12 DEF rpcVars, AtOnePlace, RpcTypes
<1> QED
  BY <1>1, <1>2, <1>3, <1>4, <1>5, <1>6, <1>7, <1>8, <1>9, <1>10, <1>11, <1>12 DEF RpcNext

\* Whatever ends a wait gives the request up before its answer can come, or nobody listens.
LEMMA ExpectedStep == RpcInv /\ [RpcNext]_rpcVars => (\A q \in Requests : Expected(q))'
<1> SUFFICES ASSUME RpcInv, [RpcNext]_rpcVars PROVE (\A q \in Requests : Expected(q))'
  OBVIOUS
<1> RpcTypes /\ RpcEvent \notin Requests /\ stdout \in Seq(Requests \cup {RpcEvent})
  BY RpcAssumption DEF RpcInv, RpcTypes
<1>1. CASE StartChild
  <2> SUFFICES ASSUME NEW q \in Requests PROVE Expected(q)'
    OBVIOUS
  <2> AtOnePlace(q) /\ Expected(q) /\ (listening => child = "up")
    BY DEF RpcInv
  <2>1. stdin' = <<>> /\ stdout' = <<>> /\ handler'[q] # "running" /\ UNCHANGED <<request, pendingRequests, strays>>
    BY <1>1 DEF StartChild
  <2> QED BY <2>1, ElementsOfEmpty DEF Expected, OnTheWay
<1>2. CASE TakeLine
  <2> SUFFICES ASSUME NEW q \in Requests PROVE Expected(q)'
    OBVIOUS
  <2> AtOnePlace(q) /\ Expected(q) /\ (listening => child = "up")
    BY DEF RpcInv
  <2>1. /\ Head(stdin) \in Requests /\ Elements(stdin) = {Head(stdin)} \cup Elements(stdin')
        /\ AtMostOnce(stdin, Head(stdin)) => Head(stdin) \notin Elements(stdin')
        /\ \A x : AtMostOnce(stdin, x) => AtMostOnce(stdin', x)
    BY <1>2, ElementsOfTail DEF TakeLine, RpcTypes
  <2>2. UNCHANGED <<request, stdout>> /\ handler'[q] = IF q = Head(stdin) THEN "running" ELSE handler[q]
    BY <1>2 DEF TakeLine, RpcTypes
  <2> QED BY <1>2, <2>1, <2>2 DEF TakeLine, Expected, OnTheWay
<1>3. CASE HandleLine
  <2> SUFFICES ASSUME NEW q \in Requests PROVE Expected(q)'
    OBVIOUS
  <2> AtOnePlace(q) /\ Expected(q) /\ (listening => child = "up")
    BY DEF RpcInv
  <2>1. /\ Elements(stdout) = {Head(stdout)} \cup Elements(stdout')
        /\ AtMostOnce(stdout, Head(stdout)) => Head(stdout) \notin Elements(stdout')
        /\ \A x : AtMostOnce(stdout, x) => AtMostOnce(stdout', x)
    BY <1>3, ElementsOfTail DEF HandleLine
  <2>2. UNCHANGED <<stdin, handler>>
    BY <1>3 DEF HandleLine
  <2>3. listening /\ OnTheWay(Head(stdout))
    BY <1>3, <2>1 DEF HandleLine, OnTheWay
  <2>4. CASE Head(stdout) \in pendingRequests
    <3>1. /\ pendingRequests' = pendingRequests \ {Head(stdout)} /\ UNCHANGED strays
          /\ request'[q] = IF q = Head(stdout) THEN "resolved" ELSE request[q]
      BY <1>3, <2>4 DEF HandleLine, Settle
    <3>2. request[Head(stdout)] = "sent"
      BY <2>4 DEF RpcInv, RpcTypes, Expected
    <3>3. q = Head(stdout) => ~OnTheWay(q)'
      BY <2>1, <2>2 DEF OnTheWay, AtOnePlace
    <3> QED BY <2>1, <2>2, <3>1, <3>2, <3>3, <1>3 DEF Expected, OnTheWay, HandleLine
  <2>5. CASE Head(stdout) \notin pendingRequests
    <3>1. UNCHANGED <<request, pendingRequests, listening>> /\ strays' = strays \cup ({Head(stdout)} \ {RpcEvent})
      BY <1>3, <2>5 DEF HandleLine
    <3> QED BY <2>1, <2>2, <2>3, <2>5, <3>1 DEF Expected, OnTheWay
  <2> QED BY <2>4, <2>5
<1>4. CASE ChildExits
  <2> SUFFICES ASSUME NEW q \in Requests PROVE Expected(q)'
    OBVIOUS
  <2> AtOnePlace(q) /\ Expected(q) /\ (listening => child = "up")
    BY DEF RpcInv
  <2>1. /\ pendingRequests' = {} /\ request'[q] = (IF q \in pendingRequests THEN "rejected" ELSE request[q])
        /\ handler'[q] # "running" /\ UNCHANGED <<listening, stdin, stdout, strays>>
    BY <1>4 DEF ChildExits, Settle
  <2> QED BY <2>1 DEF Expected, OnTheWay
<1>5. CASE Stop
  <2> SUFFICES ASSUME NEW q \in Requests PROVE Expected(q)'
    OBVIOUS
  <2> AtOnePlace(q) /\ Expected(q) /\ (listening => child = "up")
    BY DEF RpcInv
  <2> QED BY <1>5 DEF Stop, Expected, OnTheWay
<1>6. CASE StopEnds
  <2> SUFFICES ASSUME NEW q \in Requests PROVE Expected(q)'
    OBVIOUS
  <2> AtOnePlace(q) /\ Expected(q) /\ (listening => child = "up")
    BY DEF RpcInv
  <2> QED BY <1>6 DEF StopEnds, Expected, OnTheWay
<1>7. ASSUME NEW r \in Requests, SendRequest(r) PROVE (\A q \in Requests : Expected(q))'
  <2> SUFFICES ASSUME NEW q \in Requests PROVE Expected(q)'
    OBVIOUS
  <2> AtOnePlace(q) /\ Expected(q) /\ (listening => child = "up")
    BY DEF RpcInv
  <2>1. /\ Elements(Append(stdin, r)) = Elements(stdin) \cup {r}
        /\ r \notin Elements(stdin) => AtMostOnce(Append(stdin, r), r)
        /\ \A x : x # r /\ AtMostOnce(stdin, x) => AtMostOnce(Append(stdin, r), x)
    BY ElementsOfAppend DEF RpcTypes
  <2>2. UNCHANGED <<stdout, handler>>
    BY <1>7 DEF SendRequest
  <2>3. /\ request[r] = "new" /\ UNCHANGED <<listening, strays>> /\ (q # r => request'[q] = request[q])
        /\ \/ /\ stdin' = Append(stdin, r) /\ request'[r] = "sent" /\ pendingRequests' = pendingRequests \cup {r}
           \/ /\ stdin' = stdin /\ request'[r] = "rejected" /\ pendingRequests' = pendingRequests
    BY <1>7 DEF SendRequest, RpcTypes
  <2> QED BY <2>1, <2>2, <2>3 DEF Expected, OnTheWay
<1>8. ASSUME NEW r \in Requests, Answer(r) PROVE (\A q \in Requests : Expected(q))'
  <2> SUFFICES ASSUME NEW q \in Requests PROVE Expected(q)'
    OBVIOUS
  <2> AtOnePlace(q) /\ Expected(q) /\ (listening => child = "up")
    BY DEF RpcInv
  <2>1. /\ Elements(Append(stdout, r)) = Elements(stdout) \cup {r}
        /\ r \notin Elements(stdout) => AtMostOnce(Append(stdout, r), r)
        /\ \A x : x # r /\ AtMostOnce(stdout, x) => AtMostOnce(Append(stdout, r), x)
    BY ElementsOfAppend
  <2>2. UNCHANGED <<stdin, request>> /\ \A x \in Requests : x # r => handler'[x] = handler[x]
    BY <1>8 DEF Answer, RpcTypes
  <2>3. /\ stdout' = stdout \/ (stdout' = Append(stdout, r) /\ handler[r] = "running")
        /\ handler'[r] # "running" /\ UNCHANGED <<pendingRequests, listening, strays>>
    BY <1>8 DEF Answer, RpcTypes
  <2>a. /\ Elements(stdout') \subseteq Elements(stdout) \cup {r} /\ Elements(stdout) \subseteq Elements(stdout')
        /\ \A x : x # r /\ AtMostOnce(stdout, x) => AtMostOnce(stdout', x)
    <3>1. CASE stdout' = stdout
      BY <3>1
    <3>2. CASE stdout' = Append(stdout, r)
      <4> DEFINE t == Append(stdout, r)
      <4>1. /\ Elements(t) = Elements(stdout) \cup {r}
            /\ \A x : x # r /\ AtMostOnce(stdout, x) => AtMostOnce(t, x)
        BY <2>1
      <4>2. stdout' = t
        BY <3>2
      <4> HIDE DEF t
      <4> QED BY <4>1, <4>2
    <3> QED BY <2>3, <3>1, <3>2
  <2>4. handler'[q] = "running" => handler[q] = "running"
    BY <2>2, <2>3
  <2>5. q \in Elements(stdout') => q \in Elements(stdout) \/ handler[q] = "running"
    BY <2>a, <2>3
  <2> QED BY <2>2, <2>3, <2>4, <2>5 DEF Expected, OnTheWay
<1>9. ASSUME NEW r \in Requests, PromptThrows(r) PROVE (\A q \in Requests : Expected(q))'
  <2> SUFFICES ASSUME NEW q \in Requests PROVE Expected(q)'
    OBVIOUS
  <2> AtOnePlace(q) /\ Expected(q) /\ (listening => child = "up")
    BY DEF RpcInv
  <2>1. /\ Elements(Append(stdout, r)) = Elements(stdout) \cup {r}
        /\ r \notin Elements(stdout) => AtMostOnce(Append(stdout, r), r)
        /\ \A x : x # r /\ AtMostOnce(stdout, x) => AtMostOnce(Append(stdout, r), x)
    BY ElementsOfAppend
  <2>2. UNCHANGED <<stdin, request>> /\ \A x \in Requests : x # r => handler'[x] = handler[x]
    BY <1>9 DEF PromptThrows, RpcTypes
  <2>3. /\ stdout' = stdout \/ (stdout' = Append(stdout, r) /\ handler[r] = "running")
        /\ handler'[r] # "running" /\ UNCHANGED <<pendingRequests, listening, strays>>
    BY <1>9 DEF PromptThrows, Refused, RpcTypes
  <2>a. /\ Elements(stdout') \subseteq Elements(stdout) \cup {r} /\ Elements(stdout) \subseteq Elements(stdout')
        /\ \A x : x # r /\ AtMostOnce(stdout, x) => AtMostOnce(stdout', x)
    <3>1. CASE stdout' = stdout
      BY <3>1
    <3>2. CASE stdout' = Append(stdout, r)
      <4> DEFINE t == Append(stdout, r)
      <4>1. /\ Elements(t) = Elements(stdout) \cup {r}
            /\ \A x : x # r /\ AtMostOnce(stdout, x) => AtMostOnce(t, x)
        BY <2>1
      <4>2. stdout' = t
        BY <3>2
      <4> HIDE DEF t
      <4> QED BY <4>1, <4>2
    <3> QED BY <2>3, <3>1, <3>2
  <2>4. handler'[q] = "running" => handler[q] = "running"
    BY <2>2, <2>3
  <2>5. q \in Elements(stdout') => q \in Elements(stdout) \/ handler[q] = "running"
    BY <2>a, <2>3
  <2> QED BY <2>2, <2>3, <2>4, <2>5 DEF Expected, OnTheWay
<1>10. ASSUME NEW r \in Requests, RunOver(r) PROVE (\A q \in Requests : Expected(q))'
  <2> SUFFICES ASSUME NEW q \in Requests PROVE Expected(q)'
    OBVIOUS
  <2> AtOnePlace(q) /\ Expected(q) /\ (listening => child = "up")
    BY DEF RpcInv
  <2>1. /\ Elements(Append(stdout, RpcEvent)) = Elements(stdout) \cup {RpcEvent}
        /\ RpcEvent \notin Elements(stdout) => AtMostOnce(Append(stdout, RpcEvent), RpcEvent)
        /\ \A x : x # RpcEvent /\ AtMostOnce(stdout, x) => AtMostOnce(Append(stdout, RpcEvent), x)
    BY ElementsOfAppend
  <2>2. UNCHANGED <<stdin, request>> /\ \A x \in Requests : x # r => handler'[x] = handler[x]
    BY <1>10 DEF RunOver, RpcTypes
  <2>3. /\ stdout' = Append(stdout, RpcEvent) /\ q # RpcEvent /\ handler'[r] = "over"
        /\ UNCHANGED <<pendingRequests, listening, strays>>
    BY <1>10 DEF RunOver, RpcTypes
  <2> QED BY <2>1, <2>2, <2>3 DEF Expected, OnTheWay
<1>11. ASSUME NEW r \in Requests, TimesOut(r) PROVE (\A q \in Requests : Expected(q))'
  <2> SUFFICES ASSUME NEW q \in Requests PROVE Expected(q)'
    OBVIOUS
  <2> AtOnePlace(q) /\ Expected(q) /\ (listening => child = "up")
    BY DEF RpcInv
  <2>1. /\ pendingRequests' = pendingRequests \ {r} /\ request'[q] = (IF q = r THEN "rejected" ELSE request[q])
        /\ UNCHANGED <<listening, stdin, stdout, handler, strays>>
    BY <1>11 DEF TimesOut, Settle
  <2> QED BY <2>1 DEF Expected, OnTheWay
<1>12. CASE UNCHANGED rpcVars
  <2> SUFFICES ASSUME NEW q \in Requests PROVE Expected(q)'
    OBVIOUS
  <2> AtOnePlace(q) /\ Expected(q) /\ (listening => child = "up")
    BY DEF RpcInv
  <2> QED BY <1>12 DEF rpcVars, Expected, OnTheWay
<1> QED
  BY <1>1, <1>2, <1>3, <1>4, <1>5, <1>6, <1>7, <1>8, <1>9, <1>10, <1>11, <1>12 DEF RpcNext

LEMMA RpcStep == RpcInv /\ [RpcNext]_rpcVars => RpcInv'
<1> SUFFICES ASSUME RpcInv, [RpcNext]_rpcVars PROVE RpcInv'
  OBVIOUS
<1>1. RpcTypes' /\ strays' \subseteq Requests /\ (listening' => child' = "up")
  BY RpcTypesStep
<1>2. (\A q \in Requests : AtOnePlace(q))' /\ (\A q \in Requests : Expected(q))'
  BY AtOnePlaceStep, ExpectedStep
<1> QED BY <1>1, <1>2 DEF RpcInv

\* For any number of requests, however they are answered, time out or lose their process: a response
\* that nobody waits for belongs to a request that was given up, and none is answered twice.
THEOREM StraysWereGivenUp == RpcSpec => []StrayAnswers
<1>1. RpcInv => StrayAnswers
  BY DEF RpcInv, Expected, StrayAnswers
<1> QED BY <1>1, RpcStart, RpcStep, PTL DEF RpcSpec

(***************************************************************************)
(* EventStream.                                                            *)
(***************************************************************************)
StreamTypes ==
  /\ pushed \in Nat /\ events \in Seq(Nat) /\ waiting \in Seq(Readers)
  /\ got \in [Readers -> Seq(Nat)] /\ hand \in [Readers -> {<<>>} \cup {<<e>> : e \in Nat}]
  /\ DOMAIN reader = Readers

\* A reader waits in line once, and has nothing in hand until it is woken.
InLine(r) ==
  /\ AtMostOnce(waiting, r)
  /\ r \in Elements(waiting) => reader[r] = "waiting"
  /\ reader[r] # "woken" => hand[r] = <<>>

\* An event has gone to nobody and is queued, or it has gone to one reader and is not.
Holders(e) == {r \in Readers : e \in Elements(Held(r))}
Once(e) ==
  IF e \in Elements(events) THEN Holders(e) = {} ELSE \E r \in Readers : Holders(e) = {r}

\* s is ascending and below every event of t.
Below(s, t) == Ascending(s) /\ \A x \in Elements(s) : \A y \in Elements(t) : x < y

StreamInv ==
  /\ StreamTypes
  /\ \A r \in Readers : InLine(r)
  /\ events # <<>> => waiting = <<>>
  /\ Elements(events) \subseteq 1..pushed /\ \A r \in Readers : Elements(Held(r)) \subseteq 1..pushed
  /\ \A e \in 1..pushed : Once(e)
  /\ Ascending(events) /\ \A r \in Readers : Below(Held(r), events)

\* What a step does to the events: the queue and what the readers hold.
Queues ==
  /\ waiting = <<>> /\ pushed' = pushed + 1 /\ events' = Append(events, pushed + 1)
  /\ \A r \in Readers : Held(r)' = Held(r)
Gives ==
  /\ pushed' = pushed + 1 /\ events = <<>> /\ events' = <<>>
  /\ \E r \in Readers : \A q \in Readers : Held(q)' = IF q = r THEN Append(Held(q), pushed + 1) ELSE Held(q)
Takes ==
  /\ pushed' = pushed /\ events # <<>> /\ events' = Tail(events)
  /\ \E r \in Readers : \A q \in Readers : Held(q)' = IF q = r THEN Append(Held(q), Head(events)) ELSE Held(q)
Rests ==
  pushed' = pushed /\ events' = events /\ \A r \in Readers : Held(r)' = Held(r)

LEMMA AscendingTail ==
  ASSUME NEW s \in Seq(Nat), s # <<>>, Ascending(s)
  PROVE  Ascending(Tail(s)) /\ \A y \in Elements(Tail(s)) : Head(s) < y
<1>1. Len(s) \in Nat /\ Len(s) >= 1 /\ Head(s) = s[1] /\ DOMAIN s = 1..Len(s)
  OBVIOUS
<1>2. /\ Tail(s) \in Seq(Nat) /\ Len(Tail(s)) = Len(s) - 1 /\ DOMAIN Tail(s) = 1..Len(Tail(s))
      /\ \A i \in 1..Len(Tail(s)) : Tail(s)[i] = s[i + 1]
  OBVIOUS
<1>3. \A i \in 1..Len(Tail(s)) : i + 1 \in 1..Len(s) /\ 1 < i + 1
  BY <1>1, <1>2
<1>4. \A i, j \in 1..Len(Tail(s)) : i < j => i + 1 < j + 1
  BY <1>1, <1>2
<1>5. Ascending(Tail(s))
  BY <1>1, <1>2, <1>3, <1>4 DEF Ascending
<1>6. 1 \in 1..Len(s)
  BY <1>1
<1>7. \A i \in 1..Len(Tail(s)) : s[1] < Tail(s)[i]
  BY <1>1, <1>2, <1>3, <1>6 DEF Ascending
<1> QED BY <1>1, <1>5, <1>7 DEF Elements

LEMMA AscendingAppend ==
  ASSUME NEW s \in Seq(Nat), NEW e \in Nat, Ascending(s), \A x \in Elements(s) : x < e
  PROVE  Ascending(Append(s, e))
<1> DEFINE t == Append(s, e)
<1>1. t \in Seq(Nat) /\ Len(t) = Len(s) + 1 /\ Len(s) \in Nat /\ DOMAIN s = 1..Len(s) /\ DOMAIN t = 1..Len(t)
  OBVIOUS
<1>2. (\A i \in 1..Len(s) : t[i] = s[i]) /\ t[Len(t)] = e
  OBVIOUS
<1> HIDE DEF t
<1>3. ASSUME NEW i \in 1..Len(t), NEW j \in 1..Len(t), i < j PROVE t[i] < t[j]
  <2>1. i \in 1..Len(s)
    BY <1>1, <1>3
  <2>2. CASE j = Len(t)
    BY <1>2, <2>1, <2>2 DEF Elements
  <2>3. CASE j # Len(t)
    <3>1. j \in 1..Len(s)
      BY <1>1, <2>3
    <3> QED BY <1>1, <1>2, <1>3, <2>1, <3>1 DEF Ascending
  <2> QED BY <2>2, <2>3
<1> QED BY <1>1, <1>3 DEF Ascending, t

\* Two ascending sequences, the first below the second, are one.
LEMMA AscendingConcat ==
  ASSUME NEW s \in Seq(Nat), NEW t \in Seq(Nat), Below(s, t), Ascending(t)
  PROVE  Ascending(s \o t)
<1> DEFINE u == s \o t
<1>1. /\ u \in Seq(Nat) /\ Len(u) = Len(s) + Len(t) /\ Len(s) \in Nat /\ Len(t) \in Nat
      /\ DOMAIN s = 1..Len(s) /\ DOMAIN t = 1..Len(t) /\ DOMAIN u = 1..Len(u)
  OBVIOUS
<1>2. \A i \in 1..Len(u) : u[i] = IF i <= Len(s) THEN s[i] ELSE t[i - Len(s)]
  OBVIOUS
<1> HIDE DEF u
<1>3. ASSUME NEW i \in 1..Len(u), NEW j \in 1..Len(u), i < j PROVE u[i] < u[j]
  <2>1. CASE j <= Len(s)
    <3>1. i \in 1..Len(s) /\ j \in 1..Len(s) /\ i <= Len(s)
      BY <1>1, <1>3, <2>1
    <3> QED BY <1>1, <1>2, <1>3, <2>1, <3>1 DEF Below, Ascending
  <2>2. CASE i > Len(s)
    <3>1. /\ i - Len(s) \in 1..Len(t) /\ j - Len(s) \in 1..Len(t) /\ i - Len(s) < j - Len(s)
          /\ ~(i <= Len(s)) /\ ~(j <= Len(s))
      BY <1>1, <1>3, <2>2
    <3> QED BY <1>1, <1>2, <3>1 DEF Ascending
  <2>3. CASE i <= Len(s) /\ ~(j <= Len(s))
    <3>1. i \in 1..Len(s) /\ j - Len(s) \in 1..Len(t)
      BY <1>1, <1>3, <2>3
    <3>2. s[i] \in Elements(s) /\ t[j - Len(s)] \in Elements(t)
      BY <3>1 DEF Elements
    <3> QED BY <1>2, <2>3, <3>2 DEF Below
  <2> QED BY <1>1, <1>3, <2>1, <2>2, <2>3
<1> QED BY <1>1, <1>3 DEF Ascending, u

LEMMA StreamStart == StreamInit => StreamInv
<1> SUFFICES ASSUME StreamInit PROVE StreamInv
  OBVIOUS
<1>1. StreamTypes
  BY DEF StreamInit, StreamTypes
<1>2. \A r \in Readers : Held(r) = <<>>
  BY DEF StreamInit, Held
<1>3. events = <<>> /\ waiting = <<>> /\ pushed = 0 /\ \A r \in Readers : hand[r] = <<>>
  BY DEF StreamInit
<1>4. Elements(<<>>) = {} /\ 1..0 = {} /\ \A x : AtMostOnce(<<>>, x)
  BY ElementsOfEmpty
<1>5. Ascending(<<>>)
  BY DEF Ascending
<1> QED BY <1>1, <1>2, <1>3, <1>4, <1>5 DEF StreamInv, InLine, Below

\* Held is a sequence, and only what was in hand comes behind what was yielded.
LEMMA HeldIs ==
  ASSUME StreamTypes, NEW r \in Readers
  PROVE  /\ Held(r) \in Seq(Nat)
         /\ hand[r] = <<>> => Held(r) = got[r]
         /\ hand[r] # <<>> => Held(r) = Append(got[r], Head(hand[r])) /\ Head(hand[r]) \in Nat
<1>1. got[r] \in Seq(Nat) /\ hand[r] \in {<<>>} \cup {<<e>> : e \in Nat}
  BY DEF StreamTypes
<1>2. CASE hand[r] = <<>>
  <2>1. got[r] \o <<>> = got[r]
    BY <1>1
  <2> QED BY <1>1, <1>2, <2>1 DEF Held
<1>3. ASSUME NEW e \in Nat, hand[r] = <<e>>
      PROVE  Held(r) = Append(got[r], e) /\ Held(r) \in Seq(Nat) /\ Head(hand[r]) = e /\ hand[r] # <<>>
  <2>1. got[r] \o <<e>> = Append(got[r], e) /\ Append(got[r], e) \in Seq(Nat)
    BY <1>1
  <2> QED BY <1>3, <2>1 DEF Held
<1> QED BY <1>1, <1>2, <1>3

\* What every step keeps of the readers, and does to the events.
Moved ==
  /\ StreamTypes' /\ (\A r \in Readers : InLine(r))'
  /\ events' # <<>> => waiting' = <<>>
  /\ Queues \/ Gives \/ Takes \/ Rests

LEMMA HandMoves ==
  ASSUME StreamInv, pushed' = pushed + 1, Hand(pushed + 1), got' = got
  PROVE  Moved
<1> StreamTypes /\ pushed + 1 \in Nat /\ (events # <<>> => waiting = <<>>)
  BY DEF StreamInv, StreamTypes
<1>1. CASE waiting = <<>>
  <2>1. events' = Append(events, pushed + 1) /\ UNCHANGED <<waiting, reader, hand>>
    BY <1>1 DEF Hand
  <2>2. Append(events, pushed + 1) \in Seq(Nat)
    BY DEF StreamTypes
  <2>3. StreamTypes'
    BY <2>1, <2>2 DEF StreamTypes
  <2>4. (\A r \in Readers : InLine(r))'
    BY <2>1 DEF StreamInv, InLine
  <2>5. \A r \in Readers : Held(r)' = Held(r)
    BY <2>1 DEF Held
  <2>6. Queues
    BY <1>1, <2>1, <2>5 DEF Queues
  <2> QED BY <1>1, <2>1, <2>3, <2>4, <2>6 DEF Moved
<1>2. CASE waiting # <<>>
  <2> DEFINE h == Head(waiting)
  <2>1. /\ h \in Readers /\ waiting' = Tail(waiting) /\ waiting' \in Seq(Readers)
        /\ Elements(waiting) = {h} \cup Elements(waiting')
        /\ AtMostOnce(waiting, h) => h \notin Elements(waiting')
        /\ \A x : AtMostOnce(waiting, x) => AtMostOnce(waiting', x)
    <3>1. waiting' = Tail(waiting)
      BY <1>2 DEF Hand
    <3>2. waiting \in Seq(Readers)
      BY DEF StreamTypes
    <3> QED BY <1>2, <3>1, <3>2, ElementsOfTail
  <2> HIDE DEF h
  <2>2. /\ reader' = [reader EXCEPT ![h] = "woken"] /\ hand' = [hand EXCEPT ![h] = <<pushed + 1>>]
        /\ events' = events /\ events = <<>>
    BY <1>2 DEF Hand, h
  <2>3. \A r \in Readers : reader'[r] = (IF r = h THEN "woken" ELSE reader[r])
    BY <2>2 DEF StreamTypes
  <2>4. \A r \in Readers : hand'[r] = (IF r = h THEN <<pushed + 1>> ELSE hand[r])
    BY <2>2 DEF StreamTypes
  <2>5. StreamTypes'
    <3>1. hand' \in [Readers -> {<<>>} \cup {<<e>> : e \in Nat}]
      BY <2>2 DEF StreamTypes
    <3> QED BY <2>1, <2>2, <3>1 DEF StreamTypes
  <2>6. \A r \in Readers : InLine(r)
    BY DEF StreamInv
  <2>7. ASSUME NEW r \in Readers PROVE InLine(r)'
    BY <2>1, <2>3, <2>4, <2>6 DEF InLine
  <2>8. hand[h] = <<>>
    BY <2>1, <2>6 DEF InLine
  <2>9. ASSUME NEW q \in Readers PROVE Held(q)' = IF q = h THEN Append(Held(q), pushed + 1) ELSE Held(q)
    <3>1. CASE q = h
      <4>1. Held(q) = got[q] /\ Held(q)' = got[q] \o <<pushed + 1>>
        BY <2>4, <2>8, <3>1, HeldIs DEF Held
      <4>2. got[q] \o <<pushed + 1>> = Append(got[q], pushed + 1)
        BY DEF StreamTypes
      <4> QED BY <3>1, <4>1, <4>2
    <3>2. CASE q # h
      BY <2>4, <3>2 DEF Held
    <3> QED BY <3>1, <3>2
  <2>10. Gives
    BY <2>1, <2>2, <2>9 DEF Gives
  <2> QED BY <2>2, <2>5, <2>7, <2>10 DEF Moved
<1> QED BY <1>1, <1>2

LEMMA EndMoves == ASSUME StreamInv, NEW result \in BOOLEAN, End(result) PROVE Moved
<1> StreamTypes
  BY DEF StreamInv
<1>1. UNCHANGED <<pushed, events, hand, got>> /\ waiting' = <<>>
  BY DEF End
<1>2. \A r \in Readers : reader'[r] = IF Contains(waiting, r) THEN "woken" ELSE reader[r]
  BY DEF End
<1>3. <<>> \in Seq(Readers) /\ DOMAIN reader' = Readers
  BY DEF End
<1>4. StreamTypes'
  BY <1>1, <1>3 DEF StreamTypes
<1>5. ASSUME NEW r \in Readers PROVE InLine(r)'
  <2>1. InLine(r)
    BY DEF StreamInv
  <2> QED BY <1>1, <1>2, <2>1, ElementsOfEmpty DEF InLine
<1>6. Rests
  BY <1>1 DEF Rests, Held
<1> QED BY <1>1, <1>4, <1>5, <1>6 DEF Moved

\* A reader goes on with an event: what it holds is behind what it was yielded.
LEMMA ReadMoves == ASSUME StreamInv, NEW r \in Readers, ReadNext(r) PROVE Moved
<1> StreamTypes /\ (events # <<>> => waiting = <<>>)
  BY DEF StreamInv
<1>1. reader[r] = "next" /\ UNCHANGED <<pushed, hand>>
  BY DEF ReadNext
<1>2. InLine(r) /\ hand[r] = <<>> /\ r \notin Elements(waiting)
  BY <1>1 DEF StreamInv, InLine
<1>3. CASE events # <<>>
  <2> DEFINE e == Head(events)
  <2>1. e \in Nat /\ events' = Tail(events) /\ Tail(events) \in Seq(Nat) /\ waiting' = waiting
    BY <1>3 DEF ReadNext, StreamTypes
  <2>2. got' = [got EXCEPT ![r] = Append(@, e)] /\ reader' = [reader EXCEPT ![r] = IF e = final THEN "result" ELSE "next"]
    BY <1>3 DEF ReadNext, Given
  <2> HIDE DEF e
  <2>3. \A q \in Readers : got'[q] = IF q = r THEN Append(got[q], e) ELSE got[q]
    BY <2>2 DEF StreamTypes
  <2>4. \A q \in Readers : Append(got[q], e) \in Seq(Nat)
    BY <2>1 DEF StreamTypes
  <2>5. got' \in [Readers -> Seq(Nat)]
    BY <2>2, <2>4 DEF StreamTypes
  <2>6. StreamTypes'
    BY <1>1, <2>1, <2>2, <2>5 DEF StreamTypes
  <2>7. ASSUME NEW q \in Readers PROVE InLine(q)'
    <3>1. InLine(q) /\ reader'[q] = IF q = r THEN IF e = final THEN "result" ELSE "next" ELSE reader[q]
      BY <2>2 DEF StreamInv, StreamTypes
    <3> QED BY <1>1, <1>2, <2>1, <3>1 DEF InLine
  <2>8. ASSUME NEW q \in Readers PROVE Held(q)' = IF q = r THEN Append(Held(q), e) ELSE Held(q)
    <3>1. CASE q = r
      <4>1. Held(q)' = Append(got[q], e) \o <<>>
        BY <1>1, <1>2, <2>3, <3>1 DEF Held
      <4>2. Append(got[q], e) \o <<>> = Append(got[q], e)
        BY <2>4
      <4> QED BY <1>2, <3>1, <4>1, <4>2, HeldIs
    <3>2. CASE q # r
      BY <1>1, <2>3, <3>2 DEF Held
    <3> QED BY <3>1, <3>2
  <2>9. Takes
    BY <1>1, <1>3, <2>1, <2>8 DEF Takes, e
  <2> QED BY <1>3, <2>1, <2>6, <2>7, <2>9 DEF Moved
<1>4. CASE events = <<>>
  <2>1. /\ UNCHANGED <<events, got>> /\ reader' = [reader EXCEPT ![r] = IF closed THEN "result" ELSE "waiting"]
        /\ waiting' = IF closed THEN waiting ELSE Append(waiting, r)
    BY <1>4 DEF ReadNext
  <2>2. /\ Append(waiting, r) \in Seq(Readers) /\ Elements(Append(waiting, r)) = Elements(waiting) \cup {r}
        /\ AtMostOnce(Append(waiting, r), r)
        /\ \A y : y # r /\ AtMostOnce(waiting, y) => AtMostOnce(Append(waiting, r), y)
    BY <1>2, ElementsOfAppend DEF StreamTypes
  <2>3. StreamTypes'
    BY <1>1, <2>1, <2>2 DEF StreamTypes
  <2>4. ASSUME NEW q \in Readers PROVE InLine(q)'
    <3>1. InLine(q) /\ reader'[q] = IF q = r THEN IF closed THEN "result" ELSE "waiting" ELSE reader[q]
      BY <2>1 DEF StreamInv, StreamTypes
    <3>2. CASE closed
      BY <1>1, <1>2, <2>1, <3>1, <3>2 DEF InLine
    <3>3. CASE ~closed
      BY <1>1, <1>2, <2>1, <2>2, <3>1, <3>3 DEF InLine
    <3> QED BY <3>2, <3>3
  <2>5. Rests
    BY <1>1, <2>1 DEF Rests, Held
  <2> QED BY <1>4, <2>1, <2>3, <2>4, <2>5 DEF Moved
<1> QED BY <1>3, <1>4

LEMMA ResumeMoves == ASSUME StreamInv, NEW r \in Readers, Resume(r) PROVE Moved
<1> StreamTypes /\ InLine(r)
  BY DEF StreamInv
<1>1. /\ reader[r] = "woken" /\ hand' = [hand EXCEPT ![r] = <<>>]
      /\ UNCHANGED <<pushed, events, waiting>>
  BY DEF Resume
<1>2. \A q \in Readers : hand'[q] = IF q = r THEN <<>> ELSE hand[q]
  BY <1>1 DEF StreamTypes
<1>3. \A q \in Readers : q # r => reader'[q] = reader[q] /\ got'[q] = got[q]
  BY DEF Resume, Given, StreamTypes
<1>4. got'[r] = Held(r) /\ got' \in [Readers -> Seq(Nat)]
  <2>1. CASE hand[r] # <<>>
    <3>1. got' = [got EXCEPT ![r] = Append(@, Head(hand[r]))]
      BY <2>1 DEF Resume, Given
    <3>2. Held(r) = Append(got[r], Head(hand[r])) /\ Held(r) \in Seq(Nat)
      BY <2>1, HeldIs
    <3>3. got' = [got EXCEPT ![r] = Held(r)]
      BY <3>1, <3>2
    <3> QED BY <3>2, <3>3 DEF StreamTypes
  <2>2. CASE hand[r] = <<>>
    BY <2>2, HeldIs DEF Resume, StreamTypes
  <2> QED BY <2>1, <2>2
<1>5. StreamTypes'
  <2>1. DOMAIN reader' = Readers
    BY DEF Resume, Given, StreamTypes
  <2> QED BY <1>1, <1>4, <2>1 DEF StreamTypes
<1>6. ASSUME NEW q \in Readers PROVE InLine(q)'
  <2>1. InLine(q)
    BY DEF StreamInv
  <2> QED BY <1>1, <1>2, <1>3, <2>1 DEF InLine
<1>7. ASSUME NEW q \in Readers PROVE Held(q)' = Held(q)
  <2>1. CASE q = r
    <3>1. Held(q)' = Held(q) \o <<>>
      BY <1>2, <1>4, <2>1 DEF Held
    <3>2. Held(q) \in Seq(Nat)
      BY HeldIs
    <3>3. Held(q) \o <<>> = Held(q)
      BY <3>2
    <3> QED BY <3>1, <3>3
  <2>2. CASE q # r
    BY <1>2, <1>3, <2>2 DEF Held
  <2> QED BY <2>1, <2>2
<1>8. Rests
  BY <1>1, <1>7 DEF Rests
<1> QED BY <1>1, <1>5, <1>6, <1>8 DEF Moved, StreamInv

\* A step that changes neither the queue nor a reader that waits or was woken moves nothing.
LEMMA OthersRest ==
  ASSUME StreamInv, UNCHANGED <<pushed, events, waiting, hand, got>>, DOMAIN reader' = Readers,
         \A q \in Readers : reader'[q] = reader[q] \/ reader[q] \notin {"waiting", "woken"}
  PROVE  Moved
<1>1. StreamTypes'
  BY DEF StreamInv, StreamTypes
<1>2. ASSUME NEW q \in Readers PROVE InLine(q)'
  BY DEF StreamInv, InLine
<1>3. Rests
  BY DEF Rests, Held
<1> QED BY <1>1, <1>2, <1>3 DEF Moved, StreamInv

LEMMA StreamMoves == StreamInv /\ [StreamNext]_streamVars => Moved
<1> SUFFICES ASSUME StreamInv, [StreamNext]_streamVars PROVE Moved
  OBVIOUS
<1> DOMAIN reader = Readers
  BY DEF StreamInv, StreamTypes
<1>1. CASE Push \/ PushFinal
  <2>1. pushed' = pushed + 1 /\ Hand(pushed + 1) /\ got' = got
    BY <1>1 DEF Push, PushFinal
  <2> QED BY <2>1, HandMoves
<1>2. CASE EndAfterFinal \/ HangUp
  <2>1. PICK result \in BOOLEAN : End(result)
    BY <1>2 DEF EndAfterFinal, HangUp
  <2> QED BY <2>1, EndMoves
<1>3. ASSUME NEW r \in Readers, ReadNext(r) PROVE Moved
  BY <1>3, ReadMoves
<1>4. ASSUME NEW r \in Readers, Resume(r) PROVE Moved
  BY <1>4, ResumeMoves
<1>5. ASSUME NEW r \in Readers, Result(r) \/ Iterate(r) PROVE Moved
  <2>1. UNCHANGED <<pushed, events, waiting, hand, got>> /\ reader[r] \in {"result", "new"}
    BY <1>5 DEF Result, Iterate
  <2>2. DOMAIN reader' = Readers /\ \A q \in Readers : q # r => reader'[q] = reader[q]
    BY <1>5 DEF Result, Iterate
  <2> QED BY <2>1, <2>2, OthersRest
<1>6. CASE RunRejects \/ UNCHANGED streamVars
  <2>1. UNCHANGED <<pushed, events, waiting, hand, got, reader>>
    BY <1>6 DEF RunRejects, streamVars
  <2> QED BY <2>1, OthersRest
<1> QED BY <1>1, <1>2, <1>3, <1>4, <1>5, <1>6 DEF StreamNext, Produce, Consume

\* The queue and the readers hold what was pushed, once and in order.
LEMMA EventsStep == StreamInv /\ Moved => StreamInv'
<1> SUFFICES ASSUME StreamInv, Moved PROVE StreamInv'
  OBVIOUS
<1> DEFINE n == pushed + 1
<1>0. /\ StreamTypes /\ StreamTypes' /\ pushed \in Nat /\ n \in Nat /\ n \in 1..n /\ n \notin 1..pushed
      /\ 1..n = 1..pushed \cup {n} /\ \A x \in 1..pushed : x < n
  <2>1. StreamTypes /\ StreamTypes' /\ pushed \in Nat
    BY DEF StreamInv, Moved, StreamTypes
  <2> QED BY <2>1
<1> SUFFICES /\ Elements(events') \subseteq 1..pushed' /\ \A r \in Readers : Elements(Held(r)') \subseteq 1..pushed'
             /\ (\A e \in 1..pushed : Once(e))'
             /\ Ascending(events') /\ \A r \in Readers : Below(Held(r)', events')
  BY DEF StreamInv, Moved
<1>a. /\ Elements(events) \subseteq 1..pushed /\ \A r \in Readers : Elements(Held(r)) \subseteq 1..pushed
      /\ \A e \in 1..pushed : Once(e)
      /\ Ascending(events) /\ \A r \in Readers : Below(Held(r), events)
  BY DEF StreamInv
<1>b. events \in Seq(Nat) /\ \A r \in Readers : Held(r) \in Seq(Nat)
  BY <1>0, HeldIs DEF StreamTypes
<1> HIDE DEF n
<1>1. CASE Queues
  <2>1. pushed' = n /\ events' = Append(events, n) /\ \A r \in Readers : Held(r)' = Held(r)
    BY <1>1 DEF Queues, n
  <2>2. Elements(events') = Elements(events) \cup {n}
    BY <1>0, <1>b, <2>1, ElementsOfAppend
  <2>3. Ascending(events')
    BY <1>0, <1>a, <1>b, <2>1, AscendingAppend
  <2>4. ASSUME NEW r \in Readers PROVE Elements(Held(r)') \subseteq 1..pushed' /\ Below(Held(r)', events')
    BY <1>0, <1>a, <2>1, <2>2 DEF Below
  <2>5. ASSUME NEW e \in 1..n PROVE Once(e)'
    <3>1. Holders(e)' = Holders(e)
      BY <2>1 DEF Holders
    <3>2. CASE e \in 1..pushed
      <4>1. Once(e) /\ e # n
        BY <1>0, <1>a, <3>2
      <4> QED BY <2>2, <3>1, <4>1 DEF Once
    <3>3. CASE e = n
      <4>1. Holders(e) = {}
        BY <1>0, <1>a, <3>3 DEF Holders
      <4> QED BY <2>2, <3>1, <3>3, <4>1 DEF Once
    <3> QED BY <1>0, <3>2, <3>3
  <2> QED BY <1>0, <1>a, <2>1, <2>2, <2>3, <2>4, <2>5
<1>2. CASE Gives
  <2>1. PICK r \in Readers : \A q \in Readers : Held(q)' = IF q = r THEN Append(Held(q), n) ELSE Held(q)
    BY <1>2 DEF Gives, n
  <2>2. pushed' = n /\ events = <<>> /\ events' = <<>> /\ Elements(<<>>) = {}
    BY <1>2, ElementsOfEmpty DEF Gives, n
  <2>3. \A q \in Readers : Elements(Held(q)') = IF q = r THEN Elements(Held(q)) \cup {n} ELSE Elements(Held(q))
    <3>1. Elements(Append(Held(r), n)) = Elements(Held(r)) \cup {n}
      BY <1>0, <1>b, ElementsOfAppend
    <3> QED BY <2>1, <3>1
  <2>4. ASSUME NEW q \in Readers PROVE Elements(Held(q)') \subseteq 1..pushed' /\ Below(Held(q)', events')
    <3>1. Ascending(Held(q)')
      <4>1. Ascending(Held(q)) /\ \A x \in Elements(Held(q)) : x < n
        BY <1>0, <1>a DEF Below
      <4>2. Ascending(Append(Held(q), n))
        BY <1>0, <1>b, <4>1, AscendingAppend
      <4> QED BY <2>1, <4>1, <4>2
    <3> QED BY <1>0, <1>a, <2>2, <2>3, <3>1 DEF Below
  <2>5. ASSUME NEW e \in 1..n PROVE Once(e)'
    <3>1. CASE e \in 1..pushed
      <4>1. Once(e) /\ e # n
        BY <1>0, <1>a, <3>1
      <4>2. Holders(e)' = Holders(e)
        BY <2>3, <4>1 DEF Holders
      <4> QED BY <2>2, <4>1, <4>2 DEF Once
    <3>2. CASE e = n
      <4>1. Holders(e)' = {r}
        BY <1>0, <1>a, <2>3, <3>2 DEF Holders
      <4> QED BY <2>2, <4>1 DEF Once
    <3> QED BY <1>0, <3>1, <3>2
  <2> QED BY <1>a, <2>2, <2>4, <2>5
<1>3. CASE Takes
  <2> DEFINE h == Head(events)
  <2>1. PICK r \in Readers : \A q \in Readers : Held(q)' = IF q = r THEN Append(Held(q), h) ELSE Held(q)
    BY <1>3 DEF Takes
  <2>2. /\ pushed' = pushed /\ events' = Tail(events) /\ h \in Nat /\ Elements(events) = {h} \cup Elements(events')
        /\ Ascending(events') /\ \A y \in Elements(events') : h < y
    BY <1>3, <1>a, <1>b, ElementsOfTail, AscendingTail DEF Takes
  <2> HIDE DEF h
  <2>3. \A q \in Readers : Elements(Held(q)') = IF q = r THEN Elements(Held(q)) \cup {h} ELSE Elements(Held(q))
    <3>1. Elements(Append(Held(r), h)) = Elements(Held(r)) \cup {h}
      BY <1>b, <2>2, ElementsOfAppend
    <3> QED BY <2>1, <3>1
  <2>4. ASSUME NEW q \in Readers PROVE Elements(Held(q)') \subseteq 1..pushed' /\ Below(Held(q)', events')
    <3>1. Ascending(Held(q)')
      <4>1. Ascending(Held(q)) /\ \A x \in Elements(Held(q)) : x < h
        BY <1>a, <2>2 DEF Below
      <4>2. Ascending(Append(Held(q), h))
        BY <1>b, <2>2, <4>1, AscendingAppend
      <4> QED BY <2>1, <4>1, <4>2
    <3> QED BY <1>a, <2>2, <2>3, <3>1 DEF Below
  <2>5. h \notin Elements(events')
    BY <2>2
  <2>6. ASSUME NEW e \in 1..pushed PROVE Once(e)'
    <3>1. Once(e)
      BY <1>a
    <3>2. CASE e = h
      <4>1. Holders(e) = {} /\ e \in Elements(events)
        BY <2>2, <3>1, <3>2 DEF Once
      <4>2. Holders(e)' = {r}
        BY <2>3, <3>2, <4>1 DEF Holders
      <4> QED BY <2>5, <3>2, <4>2 DEF Once
    <3>3. CASE e # h
      <4>1. Holders(e)' = Holders(e)
        BY <2>3, <3>3 DEF Holders
      <4> QED BY <2>2, <3>1, <3>3, <4>1 DEF Once
    <3> QED BY <3>2, <3>3
  <2> QED BY <1>a, <2>2, <2>4, <2>6
<1>4. CASE Rests
  <2>1. pushed' = pushed /\ events' = events /\ \A r \in Readers : Held(r)' = Held(r)
    BY <1>4 DEF Rests
  <2>2. \A e \in 1..pushed : Once(e)'
    BY <1>a, <2>1 DEF Once, Holders
  <2> QED BY <1>a, <2>1, <2>2
<1> QED BY <1>1, <1>2, <1>3, <1>4 DEF Moved

\* Nothing is accepted once the final event was.
FinalIsLast == final # 0 => closed /\ pushed = final

LEMMA FinalStep == FinalIsLast /\ [StreamNext]_streamVars => FinalIsLast'
<1> SUFFICES ASSUME FinalIsLast, [StreamNext]_streamVars PROVE FinalIsLast'
  OBVIOUS
<1>1. CASE Push
  BY <1>1 DEF Push, Pushing, Accepts, FinalIsLast
<1>2. CASE PushFinal
  BY <1>2 DEF PushFinal, FinalIsLast
<1>3. ASSUME NEW result \in BOOLEAN, End(result) PROVE FinalIsLast'
  BY <1>3 DEF End, FinalIsLast
<1>4. CASE Consume \/ RunRejects \/ (\E r \in Readers : Iterate(r)) \/ UNCHANGED streamVars
  BY <1>4 DEF Consume, ReadNext, Resume, Result, RunRejects, Iterate, streamVars, FinalIsLast
<1> QED BY <1>1, <1>2, <1>3, <1>4 DEF StreamNext, Produce, EndAfterFinal, HangUp

\* For any number of readers and events: each event pushed is queued, or went to one reader, in the
\* order of the pushes, none after the final one, and nobody waits while one is queued.
THEOREM EventsReachOneReader == StreamSpec => []EachEventOnce
<1>1. StreamInv /\ FinalIsLast => EachEventOnce
  <2> SUFFICES ASSUME StreamInv, FinalIsLast PROVE EachEventOnce
    OBVIOUS
  <2> StreamTypes
    BY DEF StreamInv
  <2>1. ASSUME NEW s, NEW e PROVE Contains(s, e) <=> e \in Elements(s)
    BY DEF Contains, Elements
  <2>2. ASSUME NEW e \in 1..pushed
        PROVE  Cardinality({r \in Readers : Contains(Held(r), e)}) = IF Contains(events, e) THEN 0 ELSE 1
    <3>1. Once(e)
      BY DEF StreamInv
    <3>2. {r \in Readers : Contains(Held(r), e)} = Holders(e)
      BY <2>1 DEF Holders
    <3>3. CASE e \in Elements(events)
      BY <2>1, <3>1, <3>2, <3>3, FS_EmptySet DEF Once
    <3>4. CASE e \notin Elements(events)
      <4>1. PICK r \in Readers : Holders(e) = {r}
        BY <3>1, <3>4 DEF Once
      <4> QED BY <2>1, <3>2, <3>4, <4>1, FS_Singleton
    <3> QED BY <3>3, <3>4
  <2>3. ASSUME NEW r \in Readers PROVE Ascending(Held(r) \o events)
    <3>1. Held(r) \in Seq(Nat) /\ events \in Seq(Nat) /\ Below(Held(r), events) /\ Ascending(events)
      BY HeldIs DEF StreamInv, StreamTypes
    <3> QED BY <3>1, AscendingConcat
  <2> QED BY <2>2, <2>3 DEF EachEventOnce, StreamInv, FinalIsLast
<1>2. StreamInv /\ [StreamNext]_streamVars => StreamInv'
  BY StreamMoves, EventsStep
<1>3. StreamInit => FinalIsLast
  BY DEF StreamInit, FinalIsLast
<1> QED BY <1>1, <1>2, <1>3, StreamStart, FinalStep, PTL DEF StreamSpec

=============================================================================
