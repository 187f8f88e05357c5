-------------------------- MODULE SharedFilesProofs --------------------------
(***************************************************************************)
(* Theorems about the components that share files with other processes, or *)
(* with calls of their own: AuthStorage, SettingsManager, MemoryStore and  *)
(* FileMutationQueue, for every value of their constants.                  *)
(***************************************************************************)
EXTENDS AuthStorage, SettingsManager, MemoryStore, FileMutationQueue, FiniteSetTheorems, TLAPS

(***************************************************************************)
(* AuthStorage.                                                            *)
(***************************************************************************)
Credential == [token : Nat, other : Nat]

AuthTypes ==
  /\ issued \in Nat /\ expired \in Nat /\ logins \in Nat
  /\ stored \in Credential /\ current \in [Callers -> Credential] /\ answer \in [Callers -> Nat]
  /\ DOMAIN caller = Callers

\* A token that is not issued yet is nowhere, and what is sent or answered is a token.
Issued ==
  /\ spent \subseteq 1..issued
  /\ stored.token <= issued /\ stored.other <= logins
  /\ \A c \in Callers :
       /\ current[c].token <= issued /\ current[c].other <= logins /\ answer[c] <= issued
       /\ caller[c] = "exchange" => current[c].token # 0
       /\ caller[c] = "write" => answer[c] # 0

\* The answer a call is about to write is known to nobody else.
Fresh == \A c \in Callers : caller[c] = "write" =>
  /\ answer[c] \notin spent /\ answer[c] # stored.token
  /\ \A d \in Holding : current[d].token # answer[c]
  /\ \A d \in Callers \ {c} : caller[d] = "write" => answer[d] # answer[c]

\* Who refreshes holds the lock, and what was read under it is still what the file holds - or the call
\* was disturbed, and then what it sends is excused.
HoldsLock(c) == IF c \in disturbed THEN current[c].token \in excused ELSE locked = c /\ current[c] = stored
Exclusive == disturbed \subseteq Holding /\ \A c \in Holding : HoldsLock(c)

\* The refresh token in the file is spent only while the call that holds the lock is about to replace it.
Replacing == \E c \in Holding \ disturbed : caller[c] = "write" /\ current[c].token = stored.token
Unspent ==
  /\ wasted \subseteq excused
  /\ stored.token \in spent => stored.token \in excused \/ Replacing

AuthInv == AuthTypes /\ Issued /\ Fresh /\ Exclusive /\ Unspent

LEMMA CredentialParts ==
  \A r \in Credential :
    /\ r.token \in Nat /\ r.other \in Nat
    /\ \A t \in Nat : [r EXCEPT !.token = t] \in Credential /\ [r EXCEPT !.token = t].token = t
                      /\ [r EXCEPT !.token = t].other = r.other
    /\ \A o \in Nat : [r EXCEPT !.other = o] \in Credential /\ [r EXCEPT !.other = o].other = o
                      /\ [r EXCEPT !.other = o].token = r.token
  BY DEF Credential

LEMMA EmptyIs == Empty \in Credential /\ Empty.token = 0 /\ Empty.other = 0
  BY DEF Empty, Credential

LEMMA AuthStart == AuthInit => AuthInv
<1> SUFFICES ASSUME AuthInit PROVE AuthInv
  OBVIOUS
<1>1. stored \in Credential /\ stored.token = 1 /\ stored.other = 0 /\ issued = 1 /\ logins = 0 /\ expired = 0 /\ spent = {}
  BY DEF AuthInit, Credential
<1>2. current = [c \in Callers |-> Empty] /\ answer = [c \in Callers |-> 0] /\ caller = [c \in Callers |-> "idle"]
      /\ wasted = {} /\ disturbed = {}
  BY DEF AuthInit
<1>3. AuthTypes /\ Issued
  BY <1>1, <1>2, EmptyIs DEF AuthTypes, Issued
<1>4. Fresh /\ Exclusive /\ Unspent
  BY <1>1, <1>2 DEF Fresh, Exclusive, Unspent, Holding
<1> QED BY <1>3, <1>4 DEF AuthInv

\* A step that sends, answers and writes nothing, and takes no lock from a call that is not disturbed.
LEMMA OthersHold ==
  ASSUME AuthInv, UNCHANGED <<stored, logins, spent, current, answer, wasted>>,
         issued' = issued, expired' \in Nat, DOMAIN caller' = Callers,
         Holding' = Holding, \A c \in Holding : caller'[c] = caller[c],
         \A c \in Holding : locked = c => locked' = c \/ c \in disturbed',
         disturbed \subseteq disturbed', disturbed' \subseteq Holding, excused \subseteq excused',
         \A c \in disturbed' \ disturbed : current[c].token \in excused'
  PROVE  AuthInv'
<1>1. \A c \in Callers, x \in {"exchange", "write"} : caller'[c] = x <=> caller[c] = x
  BY DEF Holding
<1>2. AuthTypes' /\ Issued' /\ Fresh'
  BY <1>1 DEF AuthInv, AuthTypes, Issued, Fresh
<1>3. Exclusive'
  BY DEF AuthInv, Exclusive, HoldsLock
<1>4. Unspent'
  <2>1. Replacing => Replacing' \/ stored.token \in excused'
    BY <1>1 DEF Replacing
  <2> QED BY <2>1 DEF AuthInv, Unspent
<1> QED BY <1>2, <1>3, <1>4 DEF AuthInv

\* A process writes a credential of its own only when no call has the lock.
LEMMA PersistKeeps ==
  ASSUME AuthInv, NEW t \in Nat, NEW o \in Nat,
         UNCHANGED <<locked, current, answer, caller, expired, spent, wasted, disturbed, excused>>,
         issued' \in Nat, issued <= issued', logins' \in Nat, logins <= logins', o <= logins',
         t = stored.token \/ t = 0 \/ (t = issued' /\ issued' = issued + 1),
         stored' \in Credential, stored' = stored \/ (locked = Free /\ stored'.token = t /\ stored'.other = o)
  PROVE  AuthInv'
<1>1. Holding' = Holding
  BY DEF Holding
<1>2. AuthTypes'
  BY DEF AuthInv, AuthTypes
<1>3. stored'.token \in Nat /\ stored'.other \in Nat /\ stored.token \in Nat /\ stored.other \in Nat
  BY CredentialParts DEF AuthInv, AuthTypes
<1>4. \A c \in Callers : current[c].token \in Nat /\ answer[c] \in Nat
  BY CredentialParts DEF AuthInv, AuthTypes
<1>5. stored'.token = stored.token \/ (stored'.token \notin spent /\ \A c \in Callers : caller[c] = "write" => stored'.token # answer[c])
  BY <1>3, <1>4 DEF AuthInv, AuthTypes, Issued
<1>6. Issued'
  <2>1. spent' \subseteq 1..issued'
    BY <1>2 DEF AuthInv, AuthTypes, Issued
  <2>2. stored'.token <= issued' /\ stored'.other <= logins'
    BY <1>2, <1>3 DEF AuthInv, AuthTypes, Issued
  <2>3. ASSUME NEW c \in Callers
        PROVE  /\ current'[c].token <= issued' /\ current'[c].other <= logins' /\ answer'[c] <= issued'
               /\ caller'[c] = "exchange" => current'[c].token # 0
               /\ caller'[c] = "write" => answer'[c] # 0
    <3>1. current[c].token <= issued /\ current[c].other <= logins /\ answer[c] <= issued
      BY DEF AuthInv, Issued
    <3>2. current[c].token \in Nat /\ current[c].other \in Nat /\ answer[c] \in Nat
      BY CredentialParts DEF AuthInv, AuthTypes
    <3>3. issued \in Nat /\ logins \in Nat
      BY DEF AuthInv, AuthTypes
    <3>4. current[c].token <= issued' /\ current[c].other <= logins' /\ answer[c] <= issued'
      BY <3>1, <3>2, <3>3
    <3> QED BY <3>4 DEF AuthInv, Issued
  <2> QED BY <2>1, <2>2, <2>3 DEF Issued
<1>7. Fresh'
  BY <1>1, <1>5 DEF AuthInv, Fresh
<1>8. Exclusive'
  BY <1>1, AuthAssumption DEF AuthInv, Exclusive, HoldsLock, Holding
<1>9. Unspent'
  <2>1. CASE stored'.token = stored.token
    <3>1. Replacing => Replacing'
      BY <1>1, <2>1 DEF Replacing
    <3> QED BY <2>1, <3>1 DEF AuthInv, Unspent
  <2>2. CASE stored'.token # stored.token
    BY <1>5, <2>2 DEF AuthInv, Unspent
  <2> QED BY <2>1, <2>2
<1> QED BY <1>2, <1>6, <1>7, <1>8, <1>9 DEF AuthInv

\* What the end of a call does, whoever has its lock by then.
LEMMA EndIs ==
  ASSUME AuthTypes, NEW c \in Callers, NEW next, NEW who \in SUBSET Holding, NEW lost, EndCall(c, next, who, lost)
  PROVE  \E robbed \in SUBSET Holding :
           /\ disturbed' = (disturbed \cup who \cup robbed) \ {c}
           /\ excused' = excused \cup lost \cup {current[d].token : d \in who \cup robbed}
           /\ \A d \in Holding \ {c} : locked = d => locked' = d \/ d \in robbed
           /\ caller'[c] = next /\ current'[c] = Empty /\ answer'[c] = 0
           /\ \A d \in Callers \ {c} : caller'[d] = caller[d] /\ current'[d] = current[d] /\ answer'[d] = answer[d]
           /\ DOMAIN caller' = Callers /\ current' \in [Callers -> Credential] /\ answer' \in [Callers -> Nat]
<1>1. PICK owner \in AfterRelease(c) :
        /\ locked' = owner
        /\ caller' = [caller EXCEPT ![c] = next]
        /\ current' = [current EXCEPT ![c] = Empty] /\ answer' = [answer EXCEPT ![c] = 0]
        /\ disturbed' = (disturbed \cup who \cup (IF owner = locked THEN {} ELSE Holding \cap {locked})) \ {c}
        /\ excused' = excused \cup lost \cup
             {current[d].token : d \in who \cup (IF owner = locked THEN {} ELSE Holding \cap {locked})}
  BY DEF EndCall
<1>2. WITNESS (IF owner = locked THEN {} ELSE Holding \cap {locked}) \in SUBSET Holding
<1>3. \A d \in Holding \ {c} : locked = d => locked' = d \/ d \in (IF owner = locked THEN {} ELSE Holding \cap {locked})
  BY <1>1
<1>4. /\ caller'[c] = next /\ current'[c] = Empty /\ answer'[c] = 0
      /\ \A d \in Callers \ {c} : caller'[d] = caller[d] /\ current'[d] = current[d] /\ answer'[d] = answer[d]
      /\ DOMAIN caller' = Callers /\ current' \in [Callers -> Credential] /\ answer' \in [Callers -> Nat]
  BY <1>1, EmptyIs DEF AuthTypes
<1> QED BY <1>1, <1>3, <1>4

\* The end of a call: it has written its answer, or what it sent is excused if it was taken.
LEMMA EndKeeps ==
  ASSUME AuthInv, NEW c \in Holding, NEW next, next \notin {"exchange", "write"},
         NEW who \in SUBSET Holding, NEW lost, EndCall(c, next, who, lost),
         UNCHANGED <<issued, expired, logins>>, spent \subseteq spent', spent' \subseteq spent \cup {current[c].token},
         spent' # spent => caller[c] = "exchange" /\ current[c].token \in lost,
         wasted' \subseteq wasted \cup ({current[c].token} \cap spent), caller[c] # "exchange" => wasted' = wasted,
         \/ stored' = stored /\ (caller[c] = "write" => current[c].token \in lost)
         \/ caller[c] = "write" /\ stored' = Renewed(c, answer[c]) /\ Holding \ {c} \subseteq who
  PROVE  AuthInv'
<1>t. AuthTypes /\ c \in Callers
  BY DEF AuthInv, Holding
<1>1. PICK robbed \in SUBSET Holding :
        /\ disturbed' = (disturbed \cup who \cup robbed) \ {c}
        /\ excused' = excused \cup lost \cup {current[d].token : d \in who \cup robbed}
        /\ \A d \in Holding \ {c} : locked = d => locked' = d \/ d \in robbed
        /\ caller'[c] = next /\ current'[c] = Empty /\ answer'[c] = 0
        /\ \A d \in Callers \ {c} : caller'[d] = caller[d] /\ current'[d] = current[d] /\ answer'[d] = answer[d]
        /\ DOMAIN caller' = Callers /\ current' \in [Callers -> Credential] /\ answer' \in [Callers -> Nat]
  BY <1>t, EndIs
<1>2. Holding' = Holding \ {c}
  BY <1>1, <1>t DEF Holding
<1>3. /\ stored'.token = stored.token \/ (caller[c] = "write" /\ stored'.token = answer[c] /\ spent' = spent)
      /\ stored' \in Credential /\ stored'.token \in Nat /\ stored'.other \in Nat
      /\ stored'.other = stored.other \/ stored'.other = current[c].other
  <2>1. CASE stored' = stored
    BY <1>t, <2>1, CredentialParts DEF AuthTypes
  <2>2. CASE stored' = Renewed(c, answer[c]) /\ caller[c] = "write"
    <3>1. current[c] \in Credential /\ answer[c] \in Nat /\ stored' = [current[c] EXCEPT !.token = answer[c]]
      BY <1>t, <2>2 DEF AuthTypes, Renewed
    <3> QED BY <2>2, <3>1 DEF Credential
  <2> QED BY <2>1, <2>2
<1>4. AuthTypes'
  BY <1>1, <1>3 DEF AuthInv, AuthTypes
<1>5. excused \subseteq excused' /\ (current[c].token \in lost => current[c].token \in excused')
  BY <1>1
<1>6. \A d \in Holding \ {c} : d \in disturbed' \ disturbed => current[d].token \in excused'
  BY <1>1
<1>7. \A d \in Callers \ {c}, x \in {"exchange", "write"} : caller'[d] = x <=> caller[d] = x
  BY <1>1
<1>8. Exclusive'
  <2>1. disturbed' \subseteq Holding'
    BY <1>1, <1>2 DEF AuthInv, Exclusive
  <2>2. ASSUME NEW d \in Holding' PROVE HoldsLock(d)'
    <3>1. d \in Holding /\ d # c /\ d \in Callers /\ current'[d] = current[d]
      BY <1>1, <1>2, <2>2 DEF Holding
    <3>2. HoldsLock(d)
      BY <3>1 DEF AuthInv, Exclusive
    <3>3. CASE d \in disturbed'
      BY <1>5, <1>6, <3>1, <3>2, <3>3 DEF HoldsLock
    <3>4. CASE d \notin disturbed'
      <4>1. d \notin disturbed /\ d \notin who /\ d \notin robbed
        BY <1>1, <3>1, <3>4
      <4>2. stored' = stored
        BY <3>1, <4>1
      <4> QED BY <1>1, <3>1, <3>2, <3>4, <4>1, <4>2 DEF HoldsLock
    <3> QED BY <3>3, <3>4
  <2> QED BY <2>1, <2>2 DEF Exclusive
<1>9. caller[c] = "exchange" /\ current[c].token \in spent => current[c].token \in excused
  <2> SUFFICES ASSUME caller[c] = "exchange", current[c].token \in spent, c \notin disturbed
               PROVE  current[c].token \in excused
    BY DEF AuthInv, Exclusive, HoldsLock
  <2>1. locked = c /\ current[c] = stored
    BY DEF AuthInv, Exclusive, HoldsLock
  <2>2. ~Replacing
    BY <2>1 DEF AuthInv, Exclusive, HoldsLock, Replacing
  <2> QED BY <2>1, <2>2 DEF AuthInv, Unspent
<1>10. Unspent'
  <2>1. wasted' \subseteq excused'
    BY <1>5, <1>9 DEF AuthInv, Unspent, Holding
  <2>2. ASSUME stored'.token \in spent', stored'.token \notin excused' PROVE Replacing'
    <3>1. stored'.token = stored.token /\ stored' = stored
      <4>1. CASE caller[c] = "write" /\ stored' = Renewed(c, answer[c])
        <5>1. stored'.token = answer[c] /\ answer[c] \notin spent /\ spent' = spent
          BY <1>t, <4>1, CredentialParts DEF AuthInv, AuthTypes, Fresh, Renewed
        <5> QED BY <2>2, <5>1
      <4>2. CASE stored' = stored
        BY <4>2
      <4> QED BY <4>1, <4>2
    <3>2. stored.token \in spent \/ stored.token = current[c].token
      BY <2>2, <3>1
    <3>3. stored.token \in spent
      BY <1>5, <2>2, <3>1, <3>2
    <3>4. PICK d \in Holding \ disturbed : caller[d] = "write" /\ current[d].token = stored.token
      BY <1>5, <2>2, <3>1, <3>3 DEF AuthInv, Unspent, Replacing
    <3>5. d # c
      <4> SUFFICES ASSUME d = c PROVE FALSE
        OBVIOUS
      <4>1. current[c].token = stored.token /\ caller[c] = "write"
        BY <3>4
      <4>2. current[c].token \in lost \/ stored' = Renewed(c, answer[c])
        BY <4>1
      <4>3. stored' = Renewed(c, answer[c]) => stored'.token = answer[c]
        BY <1>t, CredentialParts DEF AuthTypes, Renewed
      <4>4. answer[c] # stored.token
        BY <4>1, <1>t DEF AuthInv, Fresh
      <4> QED BY <1>5, <2>2, <3>1, <4>1, <4>2, <4>3, <4>4
    <3>6. d \in Callers /\ d \in Holding' /\ caller'[d] = "write" /\ current'[d].token = stored'.token
      BY <1>1, <1>2, <3>1, <3>4, <3>5 DEF Holding
    <3>7. d \notin disturbed'
      BY <1>6, <2>2, <3>1, <3>4, <3>5
    <3> QED BY <3>6, <3>7 DEF Replacing
  <2> QED BY <2>1, <2>2 DEF Unspent
<1>11. Fresh'
  <2> SUFFICES ASSUME NEW d \in Callers, caller'[d] = "write"
               PROVE  /\ answer'[d] \notin spent' /\ answer'[d] # stored'.token
                      /\ \A e \in Holding' : current'[e].token # answer'[d]
                      /\ \A e \in Callers \ {d} : caller'[e] = "write" => answer'[e] # answer'[d]
    BY DEF Fresh
  <2>1. d # c /\ caller[d] = "write" /\ answer'[d] = answer[d]
    BY <1>1
  <2>2. /\ answer[d] \notin spent /\ answer[d] # stored.token
        /\ \A e \in Holding : current[e].token # answer[d]
        /\ \A e \in Callers \ {d} : caller[e] = "write" => answer[e] # answer[d]
    BY <2>1 DEF AuthInv, Fresh
  <2>3. answer[d] \notin spent' /\ answer[d] # stored'.token
    BY <1>3, <1>t, <2>1, <2>2
  <2>4. \A e \in Holding' : current'[e].token # answer[d]
    BY <1>1, <1>2, <2>2 DEF Holding
  <2>5. \A e \in Callers \ {d} : caller'[e] = "write" => answer'[e] # answer[d]
    BY <1>1, <2>2
  <2> QED BY <2>1, <2>3, <2>4, <2>5
<1>12. Issued'
  <2>1. spent' \subseteq 1..issued
    <3>1. caller[c] = "exchange" => current[c].token \in 1..issued
      BY <1>t, CredentialParts DEF AuthInv, AuthTypes, Issued
    <3> QED BY <3>1 DEF AuthInv, Issued
  <2>2. stored'.token <= issued /\ stored'.other <= logins
    <3>1. stored'.token <= issued
      BY <1>3, <1>t DEF AuthInv, Issued
    <3>2. stored'.other <= logins
      BY <1>3, <1>t DEF AuthInv, Issued
    <3> QED BY <3>1, <3>2
  <2>3. ASSUME NEW d \in Callers
        PROVE  /\ current'[d].token <= issued /\ current'[d].other <= logins /\ answer'[d] <= issued
               /\ caller'[d] = "exchange" => current'[d].token # 0
               /\ caller'[d] = "write" => answer'[d] # 0
    <3>1. CASE d = c
      BY <1>1, <1>t, <3>1, EmptyIs DEF AuthTypes
    <3>2. CASE d # c
      BY <1>1, <3>2 DEF AuthInv, Issued
    <3> QED BY <3>1, <3>2
  <2> QED BY <2>1, <2>2, <2>3 DEF Issued
<1> QED BY <1>4, <1>8, <1>10, <1>11, <1>12 DEF AuthInv

\* The call that takes a free lock is alone: any other is disturbed.
LEMMA LockKeeps == ASSUME AuthInv, NEW c \in Callers, Lock(c) PROVE AuthInv'
<1>1. /\ caller[c] = "locking" /\ locked = Free
      /\ UNCHANGED <<stored, answer, issued, expired, spent, logins, wasted, disturbed, excused>>
  BY DEF Lock, authServer, authHistory
<1>2. DOMAIN caller = Callers
  BY DEF AuthInv, AuthTypes
<1>3. CASE stored.token \in 1..expired
  <2>1. caller' = [caller EXCEPT ![c] = "exchange"] /\ locked' = c /\ current' = [current EXCEPT ![c] = stored]
    BY <1>3 DEF Lock, Read
  <2>2. /\ caller'[c] = "exchange" /\ current'[c] = stored /\ DOMAIN caller' = Callers
        /\ \A d \in Callers \ {c} : caller'[d] = caller[d] /\ current'[d] = current[d]
        /\ current' \in [Callers -> Credential]
    BY <1>2, <2>1 DEF AuthInv, AuthTypes
  <2>3. Holding' = Holding \cup {c} /\ c \notin Holding
    BY <1>1, <2>2 DEF Holding
  <2>4. AuthTypes'
    BY <1>1, <2>2 DEF AuthInv, AuthTypes
  <2>5. Issued'
    <3>1. stored.token # 0
      BY <1>3 DEF AuthInv, AuthTypes
    <3>2. ASSUME NEW d \in Callers
          PROVE  /\ current'[d].token <= issued' /\ current'[d].other <= logins' /\ answer'[d] <= issued'
                 /\ caller'[d] = "exchange" => current'[d].token # 0
                 /\ caller'[d] = "write" => answer'[d] # 0
      <4>1. CASE d = c
        BY <1>1, <2>2, <3>1, <4>1 DEF AuthInv, Issued
      <4>2. CASE d # c
        BY <1>1, <2>2, <4>2 DEF AuthInv, Issued
      <4> QED BY <4>1, <4>2
    <3>3. spent' \subseteq 1..issued'
      BY <1>1 DEF AuthInv, Issued
    <3>4. stored'.token <= issued' /\ stored'.other <= logins'
      BY <1>1 DEF AuthInv, Issued
    <3> QED BY ONLY <3>2, <3>3, <3>4 DEF Issued
  <2>6. Fresh'
    <3>1. ASSUME NEW d \in Callers, caller'[d] = "write"
          PROVE  /\ answer'[d] \notin spent' /\ answer'[d] # stored'.token
                 /\ \A e \in Holding' : current'[e].token # answer'[d]
                 /\ \A e \in Callers \ {d} : caller'[e] = "write" => answer'[e] # answer'[d]
      <4>1. d # c /\ caller[d] = "write" /\ answer' = answer /\ spent' = spent /\ stored' = stored
        BY <1>1, <2>2, <3>1
      <4>2. /\ answer[d] \notin spent /\ answer[d] # stored.token
            /\ \A e \in Holding : current[e].token # answer[d]
            /\ \A e \in Callers \ {d} : caller[e] = "write" => answer[e] # answer[d]
        BY <4>1 DEF AuthInv, Fresh
      <4>3. ASSUME NEW e \in Holding' PROVE current'[e].token # answer'[d]
        <5>1. e \in Callers
          BY DEF Holding
        <5> QED BY <2>2, <2>3, <4>1, <4>2, <5>1
      <4>4. ASSUME NEW e \in Callers \ {d}, caller'[e] = "write" PROVE answer'[e] # answer'[d]
        BY <2>2, <4>1, <4>2, <4>4
      <4> QED BY <4>1, <4>2, <4>3, <4>4
    <3> QED BY <3>1 DEF Fresh
  <2>7. \A d \in Holding : d \in disturbed
    BY <1>1, AuthAssumption DEF AuthInv, Exclusive, HoldsLock, Holding
  <2>8. Exclusive'
    <3>1. \A d \in Holding : d \in Callers /\ d # c
      BY <2>3 DEF Holding
    <3> QED BY <1>1, <2>1, <2>2, <2>3, <2>7, <3>1 DEF AuthInv, Exclusive, HoldsLock
  <2>9. Unspent'
    BY <1>1, <2>7 DEF AuthInv, Unspent, Replacing
  <2> QED BY <2>4, <2>5, <2>6, <2>8, <2>9 DEF AuthInv
<1>4. CASE stored.token \notin 1..expired
  <2>1. caller' = [caller EXCEPT ![c] = "idle"] /\ UNCHANGED <<locked, current>>
    BY <1>4 DEF Lock, Read
  <2>2. DOMAIN caller' = Callers /\ Holding' = Holding /\ \A d \in Holding : caller'[d] = caller[d]
    BY <1>1, <1>2, <2>1 DEF Holding
  <2>3. disturbed' \subseteq Holding /\ expired' \in Nat
    BY <1>1 DEF AuthInv, Exclusive, AuthTypes
  <2> QED BY <1>1, <2>1, <2>2, <2>3, OthersHold
<1> QED BY <1>3, <1>4

\* What the server has taken is what the call that holds the lock is about to replace, or is excused.
LEMMA ExchangeKeeps == ASSUME AuthInv, NEW c \in Callers, Exchange(c) PROVE AuthInv'
<1> DEFINE t == current[c].token
<1>1. /\ caller[c] = "exchange" /\ t \notin spent
      /\ issued' = issued + 1 /\ spent' = spent \cup {t}
      /\ UNCHANGED <<stored, locked, current, expired, logins, wasted, disturbed, excused>>
  BY DEF Exchange, authHistory
<1>2. AuthTypes /\ issued' \in Nat
  BY <1>1 DEF AuthInv, AuthTypes
<1>3. /\ caller'[c] = "write" /\ answer'[c] = issued' /\ DOMAIN caller' = Callers /\ answer' \in [Callers -> Nat]
      /\ \A d \in Callers \ {c} : caller'[d] = caller[d] /\ answer'[d] = answer[d]
  BY <1>1, <1>2 DEF Exchange, AuthTypes
<1>4. Holding' = Holding /\ c \in Holding
  BY <1>1, <1>3 DEF Holding
<1>5. stored.token \in Nat /\ \A d \in Callers : current[d].token \in Nat /\ answer[d] \in Nat
  BY <1>2, CredentialParts DEF AuthTypes
<1>6. t \in 1..issued
  BY <1>1, <1>2, <1>5 DEF AuthInv, Issued, AuthTypes
<1>7. AuthTypes'
  BY <1>1, <1>2, <1>3 DEF AuthTypes
<1>8. Issued'
  <2>1. spent' \subseteq 1..issued'
    <3>1. 1..issued \subseteq 1..issued'
      BY <1>1, <1>2 DEF AuthTypes
    <3> QED BY <1>1, <1>6, <3>1 DEF AuthInv, Issued
  <2>2. stored'.token <= issued' /\ stored'.other <= logins'
    BY <1>1, <1>2, <1>5 DEF AuthInv, Issued, AuthTypes
  <2>3. ASSUME NEW d \in Callers
        PROVE  /\ current'[d].token <= issued' /\ current'[d].other <= logins' /\ answer'[d] <= issued'
               /\ caller'[d] = "exchange" => current'[d].token # 0
               /\ caller'[d] = "write" => answer'[d] # 0
    <3>1. current[d].token <= issued' /\ current[d].other <= logins /\ answer[d] <= issued'
      <4>1. current[d].token <= issued /\ current[d].other <= logins /\ answer[d] <= issued
        BY DEF AuthInv, Issued
      <4>2. issued \in Nat /\ issued' = issued + 1 /\ current[d].token \in Nat /\ answer[d] \in Nat
        BY <1>1, <1>2, <1>5 DEF AuthTypes
      <4>3. \A n \in Nat : n <= issued => n <= issued'
        BY <4>2
      <4> QED BY <4>1, <4>2, <4>3
    <3>2. CASE d = c
      <4>1. answer'[d] = issued' /\ issued' <= issued' /\ issued' # 0
        BY <1>1, <1>2, <1>3, <3>2 DEF AuthTypes
      <4>2. caller'[d] # "exchange" /\ current' = current /\ logins' = logins
        BY <1>1, <1>3, <3>2
      <4> QED BY <3>1, <4>1, <4>2
    <3>3. CASE d # c
      BY <1>1, <1>3, <3>1, <3>3 DEF AuthInv, Issued
    <3> QED BY <3>2, <3>3
  <2> QED BY <2>1, <2>2, <2>3 DEF Issued
<1>9. Fresh'
  <2> SUFFICES ASSUME NEW d \in Callers, caller'[d] = "write"
               PROVE  /\ answer'[d] \notin spent' /\ answer'[d] # stored'.token
                      /\ \A e \in Holding' : current'[e].token # answer'[d]
                      /\ \A e \in Callers \ {d} : caller'[e] = "write" => answer'[e] # answer'[d]
    BY DEF Fresh
  <2>h. \A e \in Holding : e \in Callers
    BY DEF Holding
  <2>1. CASE d = c
    <3>1. \A n \in 1..issued : n # issued'
      BY <1>1, <1>2 DEF AuthTypes
    <3>2. \A n \in Nat : n <= issued => n # issued'
      BY <1>1, <1>2 DEF AuthTypes
    <3>3. issued' \notin spent'
      BY <1>1, <1>6, <3>1 DEF AuthInv, Issued
    <3>4. issued' # stored'.token /\ \A e \in Holding' : current'[e].token # issued'
      BY <1>1, <1>4, <1>5, <2>h, <3>2 DEF AuthInv, Issued
    <3>5. \A e \in Callers \ {d} : answer'[e] # issued'
      BY <1>3, <1>5, <2>1, <3>2 DEF AuthInv, Issued
    <3> QED BY <1>3, <2>1, <3>3, <3>4, <3>5
  <2>2. CASE d # c
    <3>1. caller[d] = "write" /\ answer'[d] = answer[d]
      BY <1>3, <2>2
    <3>2. /\ answer[d] \notin spent /\ answer[d] # stored.token
          /\ \A e \in Holding : current[e].token # answer[d]
          /\ \A e \in Callers \ {d} : caller[e] = "write" => answer[e] # answer[d]
      BY <3>1 DEF AuthInv, Fresh
    <3>3. answer[d] # issued'
      BY <1>1, <1>2, <1>5 DEF AuthInv, Issued, AuthTypes
    <3> QED BY <1>1, <1>3, <1>4, <3>1, <3>2, <3>3
  <2> QED BY <2>1, <2>2
<1>10. Exclusive'
  BY <1>1, <1>4 DEF AuthInv, Exclusive, HoldsLock
<1>11. Unspent'
  <2>1. Replacing => Replacing'
    BY <1>1, <1>3, <1>4 DEF Replacing, Holding
  <2>2. t = stored.token => t \in excused \/ Replacing'
    BY <1>1, <1>3, <1>4 DEF AuthInv, Exclusive, HoldsLock, Replacing
  <2> QED BY <1>1, <2>1, <2>2 DEF AuthInv, Unspent
<1> QED BY <1>7, <1>8, <1>9, <1>10, <1>11 DEF AuthInv

\* A process that is killed leaves its lock, and what it had sent is excused.
LEMMA RestartKeeps == ASSUME AuthInv, NEW i \in Instances, Restart(i) PROVE AuthInv'
<1>1. /\ excused' = excused \cup {current[c].token : c \in {d \in Of(i) : caller[d] = "write"}}
      /\ caller' = [c \in Callers |-> IF c \in Of(i) THEN "idle" ELSE caller[c]]
      /\ current' = [c \in Callers |-> IF c \in Of(i) THEN Empty ELSE current[c]]
      /\ answer' = [c \in Callers |-> IF c \in Of(i) THEN 0 ELSE answer[c]]
      /\ disturbed' = disturbed \ Of(i)
      /\ UNCHANGED <<stored, locked, issued, expired, spent, logins, wasted>>
  BY DEF Restart, authServer
<1>2. Holding' = Holding \ Of(i)
  BY <1>1 DEF Holding
<1>3. AuthTypes'
  BY <1>1, EmptyIs DEF AuthInv, AuthTypes
<1>4. \A c \in Callers : caller'[c] \in {"exchange", "write"} =>
        c \in Holding /\ c \notin Of(i) /\ caller'[c] = caller[c] /\ current'[c] = current[c] /\ answer'[c] = answer[c]
  BY <1>1 DEF Holding
<1>5. Issued'
  <2>1. ASSUME NEW c \in Callers
        PROVE  /\ current'[c].token <= issued /\ current'[c].other <= logins /\ answer'[c] <= issued
               /\ caller'[c] = "exchange" => current'[c].token # 0
               /\ caller'[c] = "write" => answer'[c] # 0
    <3>1. CASE c \in Of(i)
      BY <1>1, <3>1, EmptyIs DEF AuthInv, AuthTypes
    <3>2. CASE c \notin Of(i)
      BY <1>1, <3>2 DEF AuthInv, Issued
    <3> QED BY <3>1, <3>2
  <2> QED BY <1>1, <2>1 DEF AuthInv, Issued
<1>6. Fresh'
  <2>1. \A e \in Holding' : e \in Holding /\ current'[e] = current[e]
    BY <1>1, <1>2 DEF Holding
  <2> QED BY <1>1, <1>4, <2>1 DEF AuthInv, Fresh
<1>7. Exclusive'
  <2>1. \A e \in Holding' : e \in Holding /\ e \notin Of(i) /\ current'[e] = current[e]
    BY <1>1, <1>2 DEF Holding
  <2> QED BY <1>1, <1>2, <2>1 DEF AuthInv, Exclusive, HoldsLock
<1>8. Unspent'
  <2>1. ASSUME Replacing PROVE Replacing' \/ stored.token \in excused'
    <3>1. PICK d \in Holding \ disturbed : caller[d] = "write" /\ current[d].token = stored.token
      BY <2>1 DEF Replacing
    <3>2. d \in Callers
      BY DEF Holding
    <3>3. CASE d \in Of(i)
      BY <1>1, <3>1, <3>3
    <3>4. CASE d \notin Of(i)
      BY <1>1, <1>2, <3>1, <3>2, <3>4 DEF Replacing
    <3> QED BY <3>3, <3>4
  <2> QED BY <1>1, <2>1 DEF AuthInv, Unspent
<1> QED BY <1>3, <1>5, <1>6, <1>7, <1>8 DEF AuthInv

\* A login with another provider, with the provider itself, and a logout.
LEMMA LoginKeeps == ASSUME AuthInv, NEW i \in Instances, Login(i) \/ Renew(i) \/ Logout(i) PROVE AuthInv'
<1>1. AuthTypes /\ stored.token \in Nat /\ stored.other \in Nat /\ stored.other <= logins
  BY CredentialParts DEF AuthInv, AuthTypes, Issued
<1>2. UNCHANGED <<locked, current, answer, caller, expired, spent, wasted, disturbed, excused>>
  BY DEF Login, Renew, Logout, SetToken, authCalls, authServer, authHistory
<1>3. CASE Login(i)
  <2> DEFINE o == logins + 1
  <2>1. o \in Nat /\ logins' = o /\ issued' = issued /\ logins <= logins' /\ o <= logins' /\ issued' \in Nat /\ issued <= issued'
    BY <1>1, <1>3 DEF Login, AuthTypes, authServer
  <2>2. stored' = stored \/ (locked = Free /\ stored' = [stored EXCEPT !.other = o])
    BY <1>3 DEF Login, Persist
  <2>3. stored' \in Credential /\ (stored' = stored \/ (locked = Free /\ stored'.token = stored.token /\ stored'.other = o))
    BY <1>1, <2>1, <2>2 DEF AuthTypes, Credential
  <2> HIDE DEF o
  <2> QED BY <1>1, <1>2, <2>1, <2>3, PersistKeeps
<1>4. CASE Renew(i) \/ Logout(i)
  <2>2. PICK u \in Nat : (u = 0 \/ (u = issued' /\ issued' = issued + 1)) /\ SetToken(i, u)
    <3>1. CASE Renew(i)
      BY <1>1, <3>1 DEF Renew, AuthTypes
    <3>2. CASE Logout(i)
      BY <3>2 DEF Logout
    <3> QED BY <1>4, <3>1, <3>2
  <2>3. logins' = logins /\ issued' \in Nat /\ issued <= issued' /\ logins' \in Nat /\ logins <= logins' /\ stored.other <= logins'
    BY <1>1, <1>4 DEF Renew, Logout, SetToken, AuthTypes
  <2>4. stored' = stored \/ (locked = Free /\ stored' = [stored EXCEPT !.token = u])
    BY <2>2 DEF SetToken, Persist
  <2>5. stored' \in Credential /\ (stored' = stored \/ (locked = Free /\ stored'.token = u /\ stored'.other = stored.other))
    BY <1>1, <2>4 DEF AuthTypes, Credential
  <2> QED BY <1>1, <1>2, <2>2, <2>3, <2>5, PersistKeeps
<1> QED BY <1>3, <1>4

LEMMA AuthStep == AuthInv /\ [AuthNext]_authVars => AuthInv'
<1> SUFFICES ASSUME AuthInv, [AuthNext]_authVars PROVE AuthInv'
  OBVIOUS
<1>t. AuthTypes /\ expired \in Nat /\ issued \in Nat /\ disturbed \subseteq Holding /\ DOMAIN caller = Callers
  BY DEF AuthInv, AuthTypes, Exclusive
<1>1. CASE Expire
  BY <1>1, <1>t, OthersHold DEF Expire, Holding, authCalls, authHistory
<1>2. CASE LockGoesStale
  <2>1. /\ UNCHANGED <<stored, logins, spent, current, answer, wasted, issued, expired, caller>>
        /\ disturbed' = disturbed \cup (Holding \cap {locked})
        /\ excused' = excused \cup {current[d].token : d \in Holding \cap {locked}}
    BY <1>2 DEF LockGoesStale, Disturb, authCalls, authServer
  <2>2. Holding' = Holding
    BY <2>1 DEF Holding
  <2> QED BY <1>t, <2>1, <2>2, OthersHold
<1>3. ASSUME NEW c \in Callers, GetApiKey(c) \/ LockFails(c) \/ NoticeCompromise(c) \/ ReloadAuth(c) PROVE AuthInv'
  <2>1. /\ UNCHANGED <<stored, logins, spent, current, answer, wasted, issued, expired, locked, disturbed, excused>>
        /\ \/ caller' = caller
           \/ caller[c] \in {"idle", "locking", "reload"} /\ \E x \in {"idle", "locking", "reload"} : caller' = [caller EXCEPT ![c] = x]
    BY <1>3 DEF GetApiKey, LockFails, NoticeCompromise, ReloadAuth, authCalls, authServer, authHistory
  <2>2. Holding' = Holding /\ DOMAIN caller' = Callers /\ \A d \in Holding : caller'[d] = caller[d]
    BY <1>t, <2>1 DEF Holding
  <2> QED BY <1>t, <2>1, <2>2, OthersHold
<1>4. ASSUME NEW c \in Callers, Lock(c) \/ Exchange(c) PROVE AuthInv'
  BY <1>4, LockKeeps, ExchangeKeeps
<1>5. ASSUME NEW c \in Callers, ExchangeFails(c) PROVE AuthInv'
  BY <1>5, EndKeeps DEF ExchangeFails, Holding, authServer
<1>6. ASSUME NEW c \in Callers, AnswerLost(c) PROVE AuthInv'
  BY <1>6, EndKeeps DEF AnswerLost, Holding
<1>7. ASSUME NEW c \in Callers, Store(c) PROVE AuthInv'
  BY <1>7, EndKeeps DEF Store, Holding, authServer
<1>8. ASSUME NEW c \in Callers, Discard(c) PROVE AuthInv'
  BY <1>8, EndKeeps DEF Discard, Holding, authServer
<1>9. ASSUME NEW i \in Instances, Login(i) \/ Renew(i) \/ Logout(i) PROVE AuthInv'
  BY <1>9, LoginKeeps
<1>10. ASSUME NEW i \in Instances, Restart(i) PROVE AuthInv'
  BY <1>10, RestartKeeps
<1>11. CASE UNCHANGED authVars
  BY <1>11, <1>t, OthersHold DEF authVars, authCalls, authServer, authHistory, Holding
<1> QED BY <1>1, <1>2, <1>3, <1>4, <1>5, <1>6, <1>7, <1>8, <1>9, <1>10, <1>11 DEF AuthNext

\* Only a refresh writes back an older credential of another provider, and one that was disturbed.
LEMMA OtherKept ==
  AuthInv /\ [AuthNext]_authVars =>
    [stored'.other < stored.other => \E c \in disturbed : caller[c] = "write" /\ caller'[c] = "idle"]_authVars
<1> SUFFICES ASSUME AuthInv, AuthNext, stored'.other < stored.other
             PROVE  \E c \in disturbed : caller[c] = "write" /\ caller'[c] = "idle"
  OBVIOUS
<1>1. stored \in Credential /\ stored.other \in Nat /\ stored.other <= logins /\ logins \in Nat /\ AuthTypes
  BY CredentialParts DEF AuthInv, AuthTypes, Issued
<1>2. stored' # stored
  BY <1>1
<1>3. ASSUME NEW i \in Instances, Login(i) PROVE FALSE
  <2>1. stored' = [stored EXCEPT !.other = logins + 1]
    BY <1>2, <1>3 DEF Login, Persist
  <2>2. stored'.other = logins + 1
    BY <1>1, <2>1, CredentialParts
  <2> QED BY <1>1, <2>2
<1>4. ASSUME NEW i \in Instances, NEW t, SetToken(i, t) PROVE FALSE
  <2>1. stored' = [stored EXCEPT !.token = t]
    BY <1>2, <1>4 DEF SetToken, Persist
  <2>2. stored'.other = stored.other
    BY <1>1, <2>1 DEF Credential
  <2> QED BY <1>1, <2>2
<1>5. PICK c \in Callers : Store(c)
  BY <1>2, <1>3, <1>4 DEF AuthNext, Expire, LockGoesStale, GetApiKey, Lock, LockFails, NoticeCompromise, Exchange,
    ExchangeFails, AnswerLost, Discard, ReloadAuth, Renew, Logout, Restart
<1>6. stored' = Renewed(c, answer[c]) /\ caller[c] = "write" /\ c \in Holding
  BY <1>5 DEF Store, Holding
<1>7. stored'.other = current[c].other
  BY <1>1, <1>6, CredentialParts DEF AuthTypes, Renewed
<1>8. c \in disturbed
  BY <1>1, <1>6, <1>7 DEF AuthInv, Exclusive, HoldsLock
<1>9. caller'[c] = "idle"
  BY <1>1, <1>5 DEF Store, EndCall, AuthTypes
<1> QED BY <1>6, <1>8, <1>9

\* For any number of processes and calls, whoever takes whose lock (withLockAsync, lockSync): a spent
\* refresh token is not sent again and does not stay in the file, but for one that was being sent when
\* the lock was taken or whose answer was not written; and a credential of another provider is not
\* written back by a call whose lock was not taken.
THEOREM TokensAreRefreshedOnce == AuthSpec => RefreshOnce
<1> DEFINE Excused == wasted \subseteq excused /\ (locked = Free /\ stored.token \in spent => stored.token \in excused)
<1>1. AuthSpec => []AuthInv
  BY AuthStart, AuthStep, PTL DEF AuthSpec
<1>2. AuthInv => Excused
  <2>1. AuthInv /\ locked = Free => ~Replacing
    BY AuthAssumption DEF AuthInv, Exclusive, HoldsLock, Replacing, Holding
  <2> QED BY <2>1 DEF AuthInv, Unspent
<1>3. AuthSpec => []Excused
  BY <1>1, <1>2, PTL
<1>4. AuthSpec => [][stored'.other < stored.other => \E c \in disturbed : caller[c] = "write" /\ caller'[c] = "idle"]_authVars
  BY <1>1, OtherKept, PTL DEF AuthSpec
<1> QED BY <1>3, <1>4 DEF RefreshOnce

(***************************************************************************)
(* MemoryStore.                                                            *)
(***************************************************************************)
Writing(c) == memoryCall[c] \in {"temp", "rename"}

MemoryTypes ==
  /\ memory \in [Targets -> SUBSET MemoryCalls] /\ working \in [MemoryCalls -> SUBSET MemoryCalls]
  /\ memoryCall \in [MemoryCalls -> {"new", "seen", "read", "temp", "rename", "report", "ok", "error", "threw"}]
  /\ clock \in Nat /\ stamp \in [MemoryCalls -> Nat] /\ \A x \in temps : x.entries \subseteq MemoryCalls

\* Entries that may be in the file of a target.
Fit(t, entries) == (\A c \in entries : TargetOf[c] = t) /\ Cardinality(entries) <= LimitOf[t]
FilesFit ==
  /\ \A t \in Targets : Fit(t, memory[t])
  /\ \A c \in MemoryCalls : Writing(c) => Fit(TargetOf[c], working[c])

\* The temporary file a call renames is its own.
OwnTemps ==
  /\ \A c, d \in MemoryCalls : c # d /\ memoryCall[c] = "rename" /\ memoryCall[d] = "rename" => stamp[c] # stamp[d]
  /\ \A c \in MemoryCalls : memoryCall[c] = "rename" =>
       \A x \in temps : x.stamp = stamp[c] => x.entries = working[c]

\* Calls that work on a target at once are known to overlap.
Overlaps == \A c, d \in MemoryCalls :
  c # d /\ TargetOf[c] = TargetOf[d] /\ Working(c) /\ Working(d) => TargetOf[c] \in overlapped

\* No file has the entry of c, and no other call is about to write it.
Absent(c) ==
  /\ \A t \in Targets : c \notin memory[t]
  /\ \A d \in MemoryCalls : d # c /\ Writing(d) => c \notin working[d]

\* The entry of a report is written by its own call, and taken back for good.
Accounted(c) ==
  /\ c \notin rollback /\ memoryCall[c] \in {"new", "seen", "read", "temp", "rename", "error"} => Absent(c)
  /\ c \in rollback /\ Writing(c) => c \notin working[c]
  /\ c \in rollback /\ memoryCall[c] = "error" /\ TargetOf[c] \notin overlapped => Absent(c)
  /\ KindOf[c] = "report" /\ memoryCall[c] = "ok" => c \in filed

MemoryInv ==
  /\ MemoryTypes /\ Overlaps
  /\ ~clashed => FilesFit /\ OwnTemps /\ \A c \in MemoryCalls : Accounted(c)

\* An operation adds the entry of its call at most, and a rollback removes it.
LEMMA ResultsOf ==
  ASSUME NEW c \in MemoryCalls, NEW entries, NEW new \in Results(c, entries)
  PROVE  new \subseteq entries \cup {c} /\ (c \in rollback => c \notin new)
<1>1. CASE c \in rollback
  BY <1>1 DEF Results
<1>2. CASE c \notin rollback /\ KindOf[c] = "replace"
  BY <1>2 DEF Results
<1>3. CASE c \notin rollback /\ KindOf[c] = "compact"
  BY <1>3 DEF Results
<1>4. CASE c \notin rollback /\ KindOf[c] \notin {"replace", "compact"}
  BY <1>4 DEF Results
<1> QED BY <1>1, <1>2, <1>3, <1>4

LEMMA MemoryStart == MemoryInit => MemoryInv
<1> SUFFICES ASSUME MemoryInit PROVE MemoryInv
  OBVIOUS
<1>1. \A t \in Targets : Fit(t, {})
  BY FS_EmptySet, MemoryAssumption DEF Fit
<1> QED BY <1>1 DEF MemoryInit, MemoryInv, MemoryTypes, Overlaps, FilesFit, OwnTemps, Accounted, Absent, Writing, Working

\* Files hold sets of calls.
LEMMA MemoryTypesStep == MemoryTypes /\ [MemoryNext]_memoryVars => MemoryTypes'
<1> SUFFICES ASSUME MemoryTypes, [MemoryNext]_memoryVars PROVE MemoryTypes'
  OBVIOUS
<1>1. ASSUME NEW e \in MemoryCalls, Observe(e) PROVE MemoryTypes'
  BY <1>1, MemoryAssumption DEF Observe, MemoryGoto, MemoryTypes
<1>2. ASSUME NEW e \in MemoryCalls, Call(e) PROVE MemoryTypes'
  BY <1>2, MemoryAssumption DEF Call, MemoryGoto, MemoryTypes
<1>3. ASSUME NEW e \in MemoryCalls, ReadEntries(e) PROVE MemoryTypes'
  <2>1. working' \in [MemoryCalls -> SUBSET MemoryCalls]
    <3>1. memory[TargetOf[e]] \subseteq MemoryCalls
      BY MemoryAssumption DEF MemoryTypes
    <3>2. \A entries \in {memory[TargetOf[e]], {}} : \A new \in Results(e, entries) : new \subseteq MemoryCalls
      BY <3>1, ResultsOf
    <3>3. \/ UNCHANGED working
          \/ \E entries \in {memory[TargetOf[e]], {}} : \E new \in Results(e, entries) :
               working' = [working EXCEPT ![e] = new]
      BY <1>3 DEF ReadEntries
    <3> QED BY <3>2, <3>3 DEF MemoryTypes
  <2>2. memoryCall' \in [MemoryCalls -> {"new", "seen", "read", "temp", "rename", "report", "ok", "error", "threw"}]
    BY <1>3 DEF ReadEntries, MemoryGoto, MemoryTypes
  <2> QED BY <1>3, <2>1, <2>2 DEF ReadEntries, MemoryTypes
<1>4. ASSUME NEW e \in MemoryCalls, WriteTemp(e) PROVE MemoryTypes'
  BY <1>4, MemoryAssumption DEF WriteTemp, Named, StampNow, MemoryGoto, MemoryTypes
<1>5. ASSUME NEW e \in MemoryCalls, Rename(e) PROVE MemoryTypes'
  BY <1>5, MemoryAssumption DEF Rename, AfterRename, MemoryGoto, MemoryTypes
<1>6. ASSUME NEW e \in MemoryCalls, FileReport(e) PROVE MemoryTypes'
  BY <1>6, MemoryAssumption DEF FileReport, MemoryGoto, MemoryTypes
<1>7. ASSUME NEW e \in MemoryCalls, ReportFails(e) PROVE MemoryTypes'
  BY <1>7, MemoryAssumption DEF ReportFails, MemoryGoto, MemoryTypes
<1>8. CASE UNCHANGED memoryVars
  BY <1>8 DEF memoryVars, MemoryTypes
<1> QED
  BY <1>1, <1>2, <1>3, <1>4, <1>5, <1>6, <1>7, <1>8 DEF MemoryNext

\* A call that starts while another works on its target is known to overlap.
LEMMA OverlapsStep == MemoryTypes /\ Overlaps /\ [MemoryNext]_memoryVars => Overlaps'
<1> SUFFICES ASSUME MemoryTypes, Overlaps, [MemoryNext]_memoryVars PROVE Overlaps'
  OBVIOUS
<1>1. ASSUME NEW e \in MemoryCalls, Observe(e) PROVE Overlaps'
  BY <1>1, MemoryAssumption DEF Observe, MemoryGoto, MemoryTypes, Overlaps, Working
<1>2. ASSUME NEW e \in MemoryCalls, Call(e) PROVE Overlaps'
  BY <1>2, MemoryAssumption DEF Call, MemoryGoto, MemoryTypes, Overlaps, Working
<1>3. ASSUME NEW e \in MemoryCalls, ReadEntries(e) PROVE Overlaps'
  BY <1>3, MemoryAssumption DEF ReadEntries, MemoryGoto, MemoryTypes, Overlaps, Working
<1>4. ASSUME NEW e \in MemoryCalls, WriteTemp(e) PROVE Overlaps'
  BY <1>4, MemoryAssumption DEF WriteTemp, Named, StampNow, MemoryGoto, MemoryTypes, Overlaps, Working
<1>5. ASSUME NEW e \in MemoryCalls, Rename(e) PROVE Overlaps'
  BY <1>5, MemoryAssumption DEF Rename, AfterRename, MemoryGoto, MemoryTypes, Overlaps, Working
<1>6. ASSUME NEW e \in MemoryCalls, FileReport(e) PROVE Overlaps'
  BY <1>6, MemoryAssumption DEF FileReport, MemoryGoto, MemoryTypes, Overlaps, Working
<1>7. ASSUME NEW e \in MemoryCalls, ReportFails(e) PROVE Overlaps'
  BY <1>7, MemoryAssumption DEF ReportFails, MemoryGoto, MemoryTypes, Overlaps, Working
<1>8. CASE UNCHANGED memoryVars
  BY <1>8, MemoryAssumption DEF memoryVars, MemoryTypes, Overlaps, Working
<1> QED
  BY <1>1, <1>2, <1>3, <1>4, <1>5, <1>6, <1>7, <1>8 DEF MemoryNext

\* A clash is remembered.
LEMMA ClashStays == [MemoryNext]_memoryVars /\ ~clashed' => ~clashed
  BY DEF MemoryNext, Observe, Call, ReadEntries, WriteTemp, Named, Rename, FileReport, ReportFails, memoryVars

\* What is written was checked against the limit of its target.
LEMMA FilesFitStep == MemoryInv /\ ~clashed' /\ [MemoryNext]_memoryVars => FilesFit'
<1> SUFFICES ASSUME MemoryInv, ~clashed', [MemoryNext]_memoryVars PROVE FilesFit'
  OBVIOUS
<1>a. ~clashed
  BY ClashStays
<1> MemoryTypes /\ Overlaps /\ FilesFit /\ OwnTemps /\ \A c \in MemoryCalls : Accounted(c)
  BY <1>a DEF MemoryInv
<1>1. ASSUME NEW e \in MemoryCalls, Observe(e) PROVE FilesFit'
  <2>1. UNCHANGED <<memory, working>> /\ \A c \in MemoryCalls : Writing(c)' => Writing(c)
    BY <1>1 DEF Observe, MemoryGoto, Writing, MemoryTypes
  <2> QED BY <2>1 DEF FilesFit, Fit
<1>2. ASSUME NEW e \in MemoryCalls, Call(e) PROVE FilesFit'
  <2>1. UNCHANGED <<memory, working>> /\ \A c \in MemoryCalls : Writing(c)' => Writing(c)
    BY <1>2 DEF Call, MemoryGoto, Writing, MemoryTypes
  <2> QED BY <2>1 DEF FilesFit, Fit
<1>3. ASSUME NEW e \in MemoryCalls, ReadEntries(e) PROVE FilesFit'
  <2>1. UNCHANGED memory
    BY <1>3 DEF ReadEntries
  <2>2. ASSUME NEW entries \in {memory[TargetOf[e]], {}}, NEW new \in Results(e, entries), Fits(e, new)
        PROVE  Fit(TargetOf[e], new)
    <3>1. TargetOf[e] \in Targets /\ \A c \in entries : TargetOf[c] = TargetOf[e]
      BY <2>2, MemoryAssumption DEF FilesFit, Fit
    <3>2. new \subseteq entries \cup {e}
      BY ResultsOf
    <3> QED BY <2>2, <3>1, <3>2 DEF Fits, Fit
  <2>3. \/ UNCHANGED working /\ memoryCall'[e] \in {"threw", "error"}
        \/ \E entries \in {memory[TargetOf[e]], {}} : \E new \in Results(e, entries) :
             Fits(e, new) /\ working' = [working EXCEPT ![e] = new]
    BY <1>3 DEF ReadEntries, MemoryGoto, MemoryTypes
  <2>4. \A c \in MemoryCalls : c # e => memoryCall'[c] = memoryCall[c]
    BY <1>3 DEF ReadEntries, MemoryGoto, MemoryTypes
  <2>5. ASSUME NEW c \in MemoryCalls, Writing(c)' PROVE Fit(TargetOf[c], working'[c])
    BY <2>2, <2>3, <2>4, <2>5 DEF FilesFit, Writing, MemoryTypes
  <2> QED BY <2>1, <2>5 DEF FilesFit, Fit
<1>4. ASSUME NEW e \in MemoryCalls, WriteTemp(e) PROVE FilesFit'
  <2>1. UNCHANGED <<memory, working>> /\ \A c \in MemoryCalls : Writing(c)' => Writing(c)
    BY <1>4 DEF WriteTemp, Named, StampNow, MemoryGoto, Writing, MemoryTypes
  <2> QED BY <2>1 DEF FilesFit, Fit
<1>5. ASSUME NEW e \in MemoryCalls, Rename(e) PROVE FilesFit'
  <2>1. \/ memory' = memory
        \/ memory' = [memory EXCEPT ![TargetOf[e]] = working[e]] /\ Writing(e)
    BY <1>5 DEF Rename, OwnTemps, Writing
  <2>2. \A c \in MemoryCalls : Writing(c)' => Writing(c)
    BY <1>5 DEF Rename, AfterRename, MemoryGoto, Writing, MemoryTypes
  <2> QED BY <1>5, <2>1, <2>2 DEF FilesFit, Fit, Rename, MemoryTypes
<1>6. ASSUME NEW e \in MemoryCalls, FileReport(e) PROVE FilesFit'
  <2>1. UNCHANGED <<memory, working>> /\ \A c \in MemoryCalls : Writing(c)' => Writing(c)
    BY <1>6 DEF FileReport, MemoryGoto, Writing, MemoryTypes
  <2> QED BY <2>1 DEF FilesFit, Fit
<1>7. ASSUME NEW e \in MemoryCalls, ReportFails(e) PROVE FilesFit'
  <2>1. UNCHANGED <<memory, working>> /\ \A c \in MemoryCalls : Writing(c)' => Writing(c)
    BY <1>7 DEF ReportFails, MemoryGoto, Writing, MemoryTypes
  <2> QED BY <2>1 DEF FilesFit, Fit
<1>8. CASE UNCHANGED memoryVars
  BY <1>8 DEF memoryVars, FilesFit, Fit, Writing
<1> QED
  BY <1>1, <1>2, <1>3, <1>4, <1>5, <1>6, <1>7, <1>8 DEF MemoryNext

\* Two calls that hold a temporary file hold different ones.
LEMMA OwnTempsStep == MemoryInv /\ ~clashed' /\ [MemoryNext]_memoryVars => OwnTemps'
<1> SUFFICES ASSUME MemoryInv, ~clashed', [MemoryNext]_memoryVars PROVE OwnTemps'
  OBVIOUS
<1>a. ~clashed
  BY ClashStays
<1> MemoryTypes /\ Overlaps /\ FilesFit /\ OwnTemps /\ \A c \in MemoryCalls : Accounted(c)
  BY <1>a DEF MemoryInv
<1>1. ASSUME NEW e \in MemoryCalls, Observe(e) PROVE OwnTemps'
  <2>1. UNCHANGED <<temps, stamp, working>> /\ \A c \in MemoryCalls : memoryCall'[c] = "rename" => memoryCall[c] = "rename"
    BY <1>1 DEF Observe, MemoryGoto, MemoryTypes
  <2> QED BY <2>1 DEF OwnTemps
<1>2. ASSUME NEW e \in MemoryCalls, Call(e) PROVE OwnTemps'
  <2>1. UNCHANGED <<temps, stamp, working>> /\ \A c \in MemoryCalls : memoryCall'[c] = "rename" => memoryCall[c] = "rename"
    BY <1>2 DEF Call, MemoryGoto, MemoryTypes
  <2> QED BY <2>1 DEF OwnTemps
<1>3. ASSUME NEW e \in MemoryCalls, ReadEntries(e) PROVE OwnTemps'
  <2>1. UNCHANGED <<temps, stamp>> /\ \A c \in MemoryCalls : memoryCall'[c] = "rename" => memoryCall[c] = "rename" /\ working'[c] = working[c]
    BY <1>3 DEF ReadEntries, MemoryGoto, MemoryTypes
  <2> QED BY <2>1 DEF OwnTemps
<1>4. ASSUME NEW e \in MemoryCalls, WriteTemp(e) PROVE OwnTemps'
  <2>1. \A d \in MemoryCalls : memoryCall[d] = "rename" => stamp[d] # clock'
    BY <1>4 DEF WriteTemp, Named
  <2>2. stamp' = [stamp EXCEPT ![e] = clock'] /\ UNCHANGED working
    BY <1>4 DEF WriteTemp, Named, StampNow
  <2>3. \/ /\ temps' = {x \in temps : x.stamp # clock'} \cup {[stamp |-> clock', entries |-> working[e]]}
           /\ memoryCall' = [memoryCall EXCEPT ![e] = "rename"]
        \/ temps' = {x \in temps : x.stamp # clock'} /\ memoryCall' = [memoryCall EXCEPT ![e] = "threw"]
    BY <1>4 DEF WriteTemp, StampNow, MemoryGoto
  <2>a. \A c \in MemoryCalls : c # e => memoryCall'[c] = memoryCall[c]
    BY <2>3 DEF MemoryTypes
  <2>b. \A c \in MemoryCalls : stamp'[c] = IF c = e THEN clock' ELSE stamp[c]
    BY <2>2 DEF MemoryTypes
  <2>4. \A c \in MemoryCalls : memoryCall'[c] = "rename" =>
          IF c = e THEN stamp'[c] = clock' ELSE memoryCall[c] = "rename" /\ stamp'[c] = stamp[c]
    BY <2>a, <2>b
  <2>5. ASSUME NEW c \in MemoryCalls, memoryCall'[c] = "rename", NEW x \in temps', x.stamp = stamp'[c] PROVE x.entries = working'[c]
    <3>1. CASE c = e
      BY <2>2, <2>3, <2>4, <2>5, <3>1 DEF MemoryTypes
    <3>2. CASE c # e
      <4>1. stamp[c] # clock' /\ x.stamp = stamp[c] /\ memoryCall[c] = "rename"
        BY <2>1, <2>4, <2>5, <3>2
      <4>2. x \in temps
        BY <2>3, <4>1
      <4> QED BY <2>2, <4>1, <4>2 DEF OwnTemps
    <3> QED BY <3>1, <3>2
  <2>6. ASSUME NEW c \in MemoryCalls, NEW d \in MemoryCalls, c # d, memoryCall'[c] = "rename", memoryCall'[d] = "rename"
        PROVE  stamp'[c] # stamp'[d]
    BY <2>1, <2>4, <2>6 DEF OwnTemps
  <2> QED BY <2>5, <2>6 DEF OwnTemps
<1>5. ASSUME NEW e \in MemoryCalls, Rename(e) PROVE OwnTemps'
  <2>1. temps' \subseteq temps /\ UNCHANGED <<stamp, working>>
    BY <1>5 DEF Rename
  <2>2. \A c \in MemoryCalls : memoryCall'[c] = "rename" => memoryCall[c] = "rename"
    BY <1>5 DEF Rename, AfterRename, MemoryGoto, MemoryTypes
  <2> QED BY <2>1, <2>2 DEF OwnTemps
<1>6. ASSUME NEW e \in MemoryCalls, FileReport(e) PROVE OwnTemps'
  <2>1. UNCHANGED <<temps, stamp, working>> /\ \A c \in MemoryCalls : memoryCall'[c] = "rename" => memoryCall[c] = "rename"
    BY <1>6 DEF FileReport, MemoryGoto, MemoryTypes
  <2> QED BY <2>1 DEF OwnTemps
<1>7. ASSUME NEW e \in MemoryCalls, ReportFails(e) PROVE OwnTemps'
  <2>1. UNCHANGED <<temps, stamp, working>> /\ \A c \in MemoryCalls : memoryCall'[c] = "rename" => memoryCall[c] = "rename"
    BY <1>7 DEF ReportFails, MemoryGoto, MemoryTypes
  <2> QED BY <2>1 DEF OwnTemps
<1>8. CASE UNCHANGED memoryVars
  BY <1>8 DEF memoryVars, OwnTemps
<1> QED
  BY <1>1, <1>2, <1>3, <1>4, <1>5, <1>6, <1>7, <1>8 DEF MemoryNext

\* A step that spreads no entry of c leaves it absent.
LEMMA AbsentStays ==
  ASSUME NEW c \in MemoryCalls, Absent(c), \A t \in Targets : c \in memory'[t] => c \in memory[t],
         \A d \in MemoryCalls : d # c /\ Writing(d)' /\ c \in working'[d] => Writing(d) /\ c \in working[d]
  PROVE  Absent(c)'
  BY DEF Absent

\* Only the call of an entry writes it, and a rollback leaves nothing of it behind.
LEMMA AccountedStep == MemoryInv /\ ~clashed' /\ [MemoryNext]_memoryVars => (\A c \in MemoryCalls : Accounted(c))'
<1> SUFFICES ASSUME MemoryInv, ~clashed', [MemoryNext]_memoryVars PROVE (\A c \in MemoryCalls : Accounted(c))'
  OBVIOUS
<1>a. ~clashed
  BY ClashStays
<1> MemoryTypes /\ Overlaps /\ FilesFit /\ OwnTemps /\ \A c \in MemoryCalls : Accounted(c)
  BY <1>a DEF MemoryInv
<1>1. ASSUME NEW e \in MemoryCalls, Observe(e) PROVE (\A c \in MemoryCalls : Accounted(c))'
  <2> SUFFICES ASSUME NEW c \in MemoryCalls PROVE Accounted(c)'
    OBVIOUS
  <2>1. UNCHANGED <<memory, working>> /\ \A d \in MemoryCalls : Writing(d)' => Writing(d)
    BY <1>1 DEF Observe, MemoryGoto, Writing, MemoryTypes
  <2>2. Absent(c) => Absent(c)'
    BY <2>1, AbsentStays
  <2> QED BY <1>1, <2>1, <2>2 DEF Observe, MemoryGoto, Accounted, Writing, MemoryTypes
<1>2. ASSUME NEW e \in MemoryCalls, Call(e) PROVE (\A c \in MemoryCalls : Accounted(c))'
  <2> SUFFICES ASSUME NEW c \in MemoryCalls PROVE Accounted(c)'
    OBVIOUS
  <2>1. UNCHANGED <<memory, working>> /\ \A d \in MemoryCalls : Writing(d)' => Writing(d)
    BY <1>2 DEF Call, MemoryGoto, Writing, MemoryTypes
  <2>2. Absent(c) => Absent(c)'
    BY <2>1, AbsentStays
  <2> QED BY <1>2, <2>1, <2>2 DEF Call, MemoryGoto, Accounted, Writing, MemoryTypes
<1>3. ASSUME NEW e \in MemoryCalls, ReadEntries(e) PROVE (\A c \in MemoryCalls : Accounted(c))'
  <2> SUFFICES ASSUME NEW c \in MemoryCalls PROVE Accounted(c)'
    OBVIOUS
  <2>1. /\ UNCHANGED <<memory, rollback, filed, overlapped>> /\ memoryCall[e] = "read"
        /\ \A d \in MemoryCalls : d # e => memoryCall'[d] = memoryCall[d]
        /\ memoryCall'[e] \in {"threw", "error", "temp"} /\ (e \in rollback => memoryCall'[e] # "error")
    BY <1>3 DEF ReadEntries, MemoryGoto, MemoryTypes
  <2>2. \/ UNCHANGED working /\ memoryCall'[e] # "temp"
        \/ \E entries \in {memory[TargetOf[e]], {}} : \E new \in Results(e, entries) :
             working' = [working EXCEPT ![e] = new]
    BY <1>3 DEF ReadEntries, MemoryGoto, MemoryTypes
  <2>3. memoryCall'[e] = "temp" => working'[e] \subseteq memory[TargetOf[e]] \cup {e} /\ (e \in rollback => e \notin working'[e])
    BY <2>2, ResultsOf DEF MemoryTypes
  <2>4. \A d \in MemoryCalls : d # e => working'[d] = working[d]
    BY <2>2 DEF MemoryTypes
  <2>5. Absent(c) => Absent(c)'
    BY <2>1, <2>3, <2>4, MemoryAssumption DEF Absent, Writing
  <2> QED BY <2>1, <2>3, <2>4, <2>5 DEF Accounted, Writing
<1>4. ASSUME NEW e \in MemoryCalls, WriteTemp(e) PROVE (\A c \in MemoryCalls : Accounted(c))'
  <2> SUFFICES ASSUME NEW c \in MemoryCalls PROVE Accounted(c)'
    OBVIOUS
  <2>1. UNCHANGED <<memory, working>> /\ \A d \in MemoryCalls : Writing(d)' => Writing(d)
    BY <1>4 DEF WriteTemp, Named, StampNow, MemoryGoto, Writing, MemoryTypes
  <2>2. Absent(c) => Absent(c)'
    BY <2>1, AbsentStays
  <2> QED BY <1>4, <2>1, <2>2 DEF WriteTemp, Named, StampNow, MemoryGoto, Accounted, Writing, MemoryTypes
<1>5. ASSUME NEW e \in MemoryCalls, Rename(e) PROVE (\A c \in MemoryCalls : Accounted(c))'
  <2> SUFFICES ASSUME NEW c \in MemoryCalls PROVE Accounted(c)'
    OBVIOUS
  <2>1. /\ UNCHANGED <<working, rollback, filed, overlapped>> /\ memoryCall[e] = "rename"
        /\ \A d \in MemoryCalls : d # e => memoryCall'[d] = memoryCall[d]
        /\ memoryCall'[e] \in {"threw", AfterRename(e)}
    BY <1>5 DEF Rename, MemoryGoto, MemoryTypes
  <2>2. \/ memory' = memory /\ memoryCall'[e] = "threw"
        \/ memory' = [memory EXCEPT ![TargetOf[e]] = working[e]]
    BY <1>5 DEF Rename, OwnTemps, MemoryGoto, MemoryTypes
  <2>3. \A d \in MemoryCalls : Writing(d)' => Writing(d)
    BY <2>1 DEF Writing, AfterRename
  <2>4. CASE c # e
    <3>1. Absent(c) => c \notin working[e]
      BY <2>1, <2>4 DEF Absent, Writing
    <3>2. Absent(c) => Absent(c)'
      BY <2>1, <2>2, <2>3, <3>1, MemoryAssumption DEF Absent, MemoryTypes
    <3> QED BY <2>1, <2>3, <2>4, <3>2 DEF Accounted, Writing
  <2>5. CASE c = e
    <3>1. CASE e \notin rollback
      <4>1. memoryCall'[e] \in {"threw", "report", "ok"} /\ (KindOf[e] = "report" => memoryCall'[e] # "ok")
        BY <2>1, <3>1 DEF AfterRename
      <4> QED BY <2>1, <2>5, <3>1, <4>1 DEF Accounted, Writing
    <3>2. CASE e \in rollback
      <4>1. memoryCall'[e] \in {"threw", "error"} /\ e \notin working[e]
        BY <2>1, <3>2 DEF AfterRename, Accounted, Writing
      <4>2. ASSUME memoryCall'[e] = "error", TargetOf[e] \notin overlapped PROVE Absent(e)'
        <5>1. memory' = [memory EXCEPT ![TargetOf[e]] = working[e]]
          BY <2>2, <4>2
        <5>2. \A t \in Targets : e \notin memory'[t]
          BY <4>1, <5>1 DEF FilesFit, Fit, MemoryTypes
        <5>3. ASSUME NEW d \in MemoryCalls, d # e, Writing(d) PROVE e \notin working[d]
          BY <2>1, <4>2, <5>3 DEF FilesFit, Fit, Overlaps, Writing, Working
        <5> QED BY <2>1, <2>3, <5>2, <5>3 DEF Absent
      <4> QED BY <2>1, <2>5, <3>2, <4>1, <4>2 DEF Accounted, Writing
    <3> QED BY <3>1, <3>2
  <2> QED BY <2>4, <2>5
<1>6. ASSUME NEW e \in MemoryCalls, FileReport(e) PROVE (\A c \in MemoryCalls : Accounted(c))'
  <2> SUFFICES ASSUME NEW c \in MemoryCalls PROVE Accounted(c)'
    OBVIOUS
  <2>1. UNCHANGED <<memory, working>> /\ \A d \in MemoryCalls : Writing(d)' => Writing(d)
    BY <1>6 DEF FileReport, MemoryGoto, Writing, MemoryTypes
  <2>2. Absent(c) => Absent(c)'
    BY <2>1, AbsentStays
  <2> QED BY <1>6, <2>1, <2>2 DEF FileReport, MemoryGoto, Accounted, Writing, MemoryTypes
<1>7. ASSUME NEW e \in MemoryCalls, ReportFails(e) PROVE (\A c \in MemoryCalls : Accounted(c))'
  <2> SUFFICES ASSUME NEW c \in MemoryCalls PROVE Accounted(c)'
    OBVIOUS
  <2>1. UNCHANGED <<memory, working>> /\ \A d \in MemoryCalls : Writing(d)' => Writing(d)
    BY <1>7 DEF ReportFails, MemoryGoto, Writing, MemoryTypes
  <2>2. Absent(c) => Absent(c)'
    BY <2>1, AbsentStays
  <2> QED BY <1>7, <2>1, <2>2 DEF ReportFails, MemoryGoto, Accounted, Writing, MemoryTypes
<1>8. CASE UNCHANGED memoryVars
  <2> SUFFICES ASSUME NEW c \in MemoryCalls PROVE Accounted(c)'
    OBVIOUS
  <2> QED BY <1>8 DEF memoryVars, Accounted, Absent, Writing
<1> QED
  BY <1>1, <1>2, <1>3, <1>4, <1>5, <1>6, <1>7, <1>8 DEF MemoryNext

LEMMA MemoryStep == MemoryInv /\ [MemoryNext]_memoryVars => MemoryInv'
<1> SUFFICES ASSUME MemoryInv, [MemoryNext]_memoryVars PROVE MemoryInv'
  OBVIOUS
<1>1. MemoryTypes' /\ Overlaps'
  BY MemoryTypesStep, OverlapsStep DEF MemoryInv
<1>2. ASSUME ~clashed' PROVE FilesFit' /\ OwnTemps' /\ (\A c \in MemoryCalls : Accounted(c))'
  BY <1>2, FilesFitStep, OwnTempsStep, AccountedStep
<1> QED BY <1>1, <1>2 DEF MemoryInv

\* For any number of calls and targets, and whatever limits: a file holds entries of its own target
\* within the limit, and a report the memory names is filed unless calls overlapped on its target -
\* as long as no two temporary files are made in the same millisecond.
THEOREM MemoryStaysWhole == MemorySpec => []MemoryIsWhole
<1>1. MemoryInv => MemoryIsWhole
  <2> SUFFICES ASSUME MemoryInv, ~clashed PROVE MemoryIsWhole
    BY DEF MemoryIsWhole
  <2>1. \A t \in Targets : Fit(t, memory[t])
    BY DEF MemoryInv, FilesFit
  <2>2. ASSUME NEW c \in MemoryCalls PROVE ReportIsFiled(c)
    <3>1. Accounted(c) /\ TargetOf[c] \in Targets
      BY MemoryAssumption DEF MemoryInv
    <3> QED BY <3>1 DEF Accounted, ReportIsFiled, Absent
  <2> QED BY <2>1, <2>2 DEF Fit, MemoryIsWhole
<1> QED BY <1>1, MemoryStart, MemoryStep, PTL DEF MemorySpec

(***************************************************************************)
(* SettingsManager.                                                        *)
(***************************************************************************)
Values == [Fields -> Nat]
WriteRecord == [scope : Scopes, snapshot : Values, fields : SUBSET Fields]

SettingsTypes ==
  /\ sets \in Nat
  /\ settings \in [Processes -> Values] /\ contents \in Values
  /\ writes \in [Processes -> Seq(WriteRecord)]
  /\ modified \in [Processes -> SUBSET Fields]
  /\ DOMAIN loadErrors = Processes /\ DOMAIN trusted = Processes
  /\ DOMAIN draft = Processes /\ DOMAIN made = Processes

\* What a process marks it was given itself.
Marked(p) == \A f \in modified[p] : settings[p][f] \in made[p]

\* The j-th queued write holds the value of the field that is in memory.
Holds(p, j, f) == f \in writes[p][j].fields /\ writes[p][j].snapshot[f] = settings[p][f]

\* A queued write holds fields of its scope with values given to its process.  It, or one behind it,
\* holds what is marked in its scope: the marks it will clear are of values that are written by then.
Queued(p) == \A i \in 1..Len(writes[p]) :
  /\ writes[p][i].fields \subseteq In(writes[p][i].scope)
  /\ \A f \in writes[p][i].fields : writes[p][i].snapshot[f] \in made[p]
  /\ \A f \in modified[p] \cap In(writes[p][i].scope) :
       ScopeOf[f] \in loadErrors[p] \/ \E j \in i..Len(writes[p]) : Holds(p, j, f)

\* What a file is about to be created with is the first write over no settings.
Drafted(p) == draft[p] # <<>> =>
  /\ writes[p] # <<>>
  /\ draft[p] = <<Merged(Head(writes[p]), NoSettings)>>
  /\ Head(writes[p]).scope = "project" => trusted[p]

\* A value that is not saved is known not to be, in whatever state the queue is.
Known(p, f) ==
  \/ settings[p][f] \in saved \cup dropped \cup {0}
  \/ f \in modified[p] \/ ScopeOf[f] \in loadErrors[p]
  \/ \E j \in 1..Len(writes[p]) : Holds(p, j, f)

ProcessInv(p) == Marked(p) /\ Queued(p) /\ Drafted(p) /\ \A f \in Fields : Known(p, f)
FilesInv == \A f \in Fields : contents[f] \in saved \cup {0}

SettingsInv == SettingsTypes /\ FilesInv /\ \A p \in Processes : ProcessInv(p)

LEMMA NothingSet == NoSettings \in Values /\ \A f \in Fields : NoSettings[f] = 0
  BY DEF NoSettings, Values

\* A write changes the fields it holds and no other.
LEMMA MergedIs ==
  ASSUME NEW w \in WriteRecord, NEW old \in Values
  PROVE  /\ Merged(w, old) \in Values
         /\ \A f \in Fields : Merged(w, old)[f] = IF f \in w.fields THEN w.snapshot[f] ELSE old[f]
  BY DEF Merged, WriteRecord, Values

LEMMA TailOf ==
  ASSUME NEW S, NEW s \in Seq(S), s # <<>>
  PROVE  /\ Head(s) = s[1] /\ Head(s) \in S /\ Len(s) \in Nat /\ Len(s) >= 1
         /\ Tail(s) \in Seq(S) /\ Tail(s) # s /\ Len(Tail(s)) = Len(s) - 1
         /\ \A i \in 1..Len(Tail(s)) : Tail(s)[i] = s[i + 1] /\ i + 1 \in 1..Len(s)
<1>1. Head(s) = s[1] /\ Head(s) \in S /\ Len(s) \in Nat /\ Len(s) >= 1
  OBVIOUS
<1>2. Tail(s) \in Seq(S) /\ Len(Tail(s)) = Len(s) - 1 /\ \A i \in 1..Len(Tail(s)) : Tail(s)[i] = s[i + 1]
  OBVIOUS
<1>3. \A i \in 1..Len(Tail(s)) : i + 1 \in 1..Len(s)
  BY <1>1, <1>2
<1>4. Tail(s) # s
  <2>1. Len(s) - 1 # Len(s)
    BY <1>1
  <2> QED BY <1>2, <2>1
<1> QED BY <1>1, <1>2, <1>3, <1>4

LEMMA SettingsStart == SettingsInit => SettingsInv
<1> SUFFICES ASSUME SettingsInit PROVE SettingsInv
  OBVIOUS
<1>1. SettingsTypes
  BY NothingSet DEF SettingsInit, SettingsTypes
<1>2. FilesInv
  BY NothingSet DEF SettingsInit, FilesInv
<1>3. ASSUME NEW p \in Processes PROVE ProcessInv(p)
  BY NothingSet DEF SettingsInit, ProcessInv, Marked, Queued, Drafted, Known
<1> QED BY <1>1, <1>2, <1>3 DEF SettingsInv

\* A step leaves alone the processes that take no part in it.
LEMMA OthersKeep ==
  ASSUME NEW p \in Processes, ProcessInv(p),
         settings'[p] = settings[p], modified'[p] = modified[p], loadErrors'[p] = loadErrors[p],
         trusted'[p] = trusted[p], writes'[p] = writes[p], draft'[p] = draft[p], made'[p] = made[p],
         saved \subseteq saved', dropped \subseteq dropped'
  PROVE  ProcessInv(p)'
<1>1. Marked(p)' /\ Drafted(p)'
  BY DEF ProcessInv, Marked, Drafted, Merged
<1>2. \A j, f : Holds(p, j, f)' = Holds(p, j, f)
  BY DEF Holds
<1>3. Queued(p)'
  BY <1>2 DEF ProcessInv, Queued
<1>4. \A f \in Fields : Known(p, f)'
  BY <1>2 DEF ProcessInv, Known
<1> QED BY <1>1, <1>3, <1>4 DEF ProcessInv

\* A setter of any process marks the field and queues everything marked in its scope.
LEMMA SetKeeps == ASSUME SettingsInv, NEW p \in Processes, NEW f \in Fields, Set(p, f) PROVE SettingsInv'
<1> DEFINE now == [settings[p] EXCEPT ![f] = sets + 1]
           w == [scope |-> ScopeOf[f], snapshot |-> now, fields |-> (modified[p] \cup {f}) \cap In(ScopeOf[f])]
<1>1. SettingsTypes /\ ProcessInv(p)
  BY DEF SettingsInv
<1>2. sets' = sets + 1 /\ sets' \in Nat /\ made'[p] = made[p] \cup {sets'} /\ DOMAIN made' = Processes
  BY <1>1 DEF Set, SettingsTypes
<1>3. now \in Values /\ now[f] = sets' /\ \A g \in Fields : g # f => now[g] = settings[p][g]
  BY <1>1, <1>2 DEF SettingsTypes, Values
<1>4. settings' = [settings EXCEPT ![p] = now] /\ settings'[p] = now
  BY <1>1 DEF Set, SettingsTypes
<1>5. modified' = [modified EXCEPT ![p] = modified[p] \cup {f}] /\ modified'[p] = modified[p] \cup {f}
  BY <1>1 DEF Set, SettingsTypes
<1>6. w \in WriteRecord
  BY <1>1, <1>3, SettingsAssumption DEF SettingsTypes, WriteRecord, In
<1>w. w.fields = modified'[p] \cap In(w.scope) /\ w.snapshot = settings'[p] /\ w.scope = ScopeOf[f]
  BY <1>4, <1>5
<1>7. writes' = [writes EXCEPT ![p] = IF ScopeOf[f] \in loadErrors[p] THEN writes[p] ELSE Append(writes[p], w)]
  BY <1>1 DEF Set, SettingsTypes
<1>u. UNCHANGED <<loadErrors, trusted, draft, contents, saved, dropped>> /\ draft[p] = <<>>
  BY DEF Set, settingsFiles
<1> HIDE DEF w, now
<1>s. Append(writes[p], w) \in Seq(WriteRecord)
  BY <1>1, <1>6 DEF SettingsTypes
<1>8. SettingsTypes'
  BY <1>1, <1>2, <1>3, <1>4, <1>5, <1>7, <1>s, <1>u DEF SettingsTypes
<1>9. FilesInv'
  BY <1>u DEF SettingsInv, FilesInv
<1>10. ASSUME NEW q \in Processes, q # p PROVE ProcessInv(q)'
  BY <1>10, <1>1, <1>4, <1>5, <1>7, <1>u, OthersKeep DEF Set, SettingsInv, SettingsTypes
<1>11. ProcessInv(p)'
  <2>1. Marked(p)'
    BY <1>1, <1>2, <1>3, <1>4, <1>5 DEF SettingsTypes, ProcessInv, Marked
  <2>2. Drafted(p)'
    BY <1>u DEF Drafted
  <2>3. CASE ScopeOf[f] \in loadErrors[p]
    <3>1. writes'[p] = writes[p]
      BY <1>1, <1>7, <2>3 DEF SettingsTypes
    <3>2. \A j, g : g \in Fields /\ g # f /\ Holds(p, j, g) => Holds(p, j, g)'
      BY <1>3, <1>4, <3>1 DEF Holds
    <3>3. Queued(p)'
      BY <1>1, <1>2, <1>5, <1>u, <2>3, <3>1, <3>2 DEF SettingsTypes, ProcessInv, Queued
    <3>4. \A g \in Fields : Known(p, g)'
      BY <1>1, <1>3, <1>4, <1>5, <1>u, <2>3, <3>1, <3>2 DEF ProcessInv, Known
    <3> QED BY <2>1, <2>2, <3>3, <3>4 DEF ProcessInv
  <2>4. CASE ScopeOf[f] \notin loadErrors[p]
    <3>1. PICK n \in Nat : n = Len(writes[p])
      BY <1>1 DEF SettingsTypes
    <3>2. writes'[p] = Append(writes[p], w)
      BY <1>1, <1>7, <2>4 DEF SettingsTypes
    <3>3. Len(writes'[p]) = n + 1 /\ writes'[p][n + 1] = w /\ \A j \in 1..n : writes'[p][j] = writes[p][j]
      BY <1>1, <1>6, <3>1, <3>2 DEF SettingsTypes
    <3>4. \A j \in 1..n, g \in Fields : g # f /\ Holds(p, j, g) => Holds(p, j, g)'
      BY <1>3, <1>4, <3>3 DEF Holds
    <3>5. \A g \in modified'[p] \cap In(w.scope) : Holds(p, n + 1, g)'
      BY <1>w, <3>3 DEF Holds
    <3>6. Queued(p)'
      <4> SUFFICES ASSUME NEW i \in 1..n + 1
                   PROVE  /\ writes'[p][i].fields \subseteq In(writes'[p][i].scope)
                          /\ \A g \in writes'[p][i].fields : writes'[p][i].snapshot[g] \in made'[p]
                          /\ \A g \in modified'[p] \cap In(writes'[p][i].scope) :
                               ScopeOf[g] \in loadErrors'[p] \/ \E j \in i..n + 1 : Holds(p, j, g)'
        BY <3>3 DEF Queued, In
      <4>1. ASSUME NEW g \in modified'[p] \cap In(writes'[p][i].scope), ScopeOf[g] \notin loadErrors[p]
            PROVE  \E j \in i..n + 1 : Holds(p, j, g)'
        <5>1. CASE ScopeOf[g] = ScopeOf[f]
          BY <1>w, <3>5, <4>1, <5>1 DEF In
        <5>2. CASE ScopeOf[g] # ScopeOf[f]
          <6>1. i \in 1..n /\ g \in modified[p] /\ g # f /\ g \in Fields
            BY <1>5, <1>w, <3>3, <4>1, <5>2 DEF In
          <6>2. g \in modified[p] \cap In(writes[p][i].scope)
            BY <3>3, <4>1, <6>1
          <6>3. PICK j \in i..n : Holds(p, j, g)
            BY <1>1, <3>1, <4>1, <6>1, <6>2 DEF ProcessInv, Queued
          <6>4. j \in 1..n /\ j \in i..n + 1
            BY <6>1
          <6> QED BY <3>4, <6>1, <6>3, <6>4
        <5> QED BY <5>1, <5>2
      <4>2. CASE i = n + 1
        <5>1. writes'[p][i].fields \subseteq In(writes'[p][i].scope)
          BY <1>w, <3>3, <4>2
        <5>2. \A g \in writes'[p][i].fields : writes'[p][i].snapshot[g] \in made'[p]
          BY <1>w, <2>1, <3>3, <4>2 DEF Marked
        <5> QED BY <1>u, <4>1, <5>1, <5>2
      <4>3. CASE i # n + 1
        <5>1. i \in 1..n
          BY <4>3
        <5>2. /\ writes[p][i].fields \subseteq In(writes[p][i].scope)
              /\ \A g \in writes[p][i].fields : writes[p][i].snapshot[g] \in made[p]
          BY <1>1, <3>1, <5>1 DEF ProcessInv, Queued
        <5> QED BY <1>2, <1>u, <3>3, <4>1, <5>1, <5>2
      <4> QED BY <4>2, <4>3
    <3>7. \A g \in Fields : Known(p, g)'
      <4> SUFFICES ASSUME NEW g \in Fields, g # f PROVE Known(p, g)'
        BY <1>5 DEF Known
      <4>1. settings'[p][g] = settings[p][g] /\ modified[p] \subseteq modified'[p]
        BY <1>3, <1>4, <1>5
      <4>2. \A j \in 1..n : j \in 1..n + 1
        OBVIOUS
      <4> QED BY <1>1, <1>u, <3>1, <3>3, <3>4, <4>1, <4>2 DEF ProcessInv, Known
    <3> QED BY <2>1, <2>2, <3>6, <3>7 DEF ProcessInv
  <2> QED BY <2>3, <2>4
<1> QED BY <1>8, <1>9, <1>10, <1>11 DEF SettingsInv

\* What a write does to its queue.
LEMMA DoneIs ==
  ASSUME SettingsInv, NEW p \in Processes, writes[p] # <<>>, Done(p)
  PROVE  /\ Head(writes[p]) = writes[p][1] /\ Head(writes[p]) \in WriteRecord /\ Len(writes[p]) \in Nat
         /\ writes'[p] # writes[p] /\ writes' \in [Processes -> Seq(WriteRecord)]
         /\ Len(writes'[p]) = Len(writes[p]) - 1 /\ 1 \in 1..Len(writes[p])
         /\ \A i \in 1..Len(writes'[p]) : writes'[p][i] = writes[p][i + 1] /\ i + 1 \in 1..Len(writes[p])
         /\ \A q \in Processes : q # p => writes'[q] = writes[q]
<1>1. writes[p] \in Seq(WriteRecord) /\ writes \in [Processes -> Seq(WriteRecord)]
  BY DEF SettingsInv, SettingsTypes
<1>2. writes' = [writes EXCEPT ![p] = Tail(writes[p])]
  BY <1>1 DEF Done
<1>3. /\ Head(writes[p]) = writes[p][1] /\ Head(writes[p]) \in WriteRecord
      /\ Len(writes[p]) \in Nat /\ Len(writes[p]) >= 1
      /\ Tail(writes[p]) \in Seq(WriteRecord) /\ Tail(writes[p]) # writes[p] /\ Len(Tail(writes[p])) = Len(writes[p]) - 1
      /\ \A i \in 1..Len(Tail(writes[p])) : Tail(writes[p])[i] = writes[p][i + 1] /\ i + 1 \in 1..Len(writes[p])
  BY <1>1, TailOf
<1>4. writes'[p] = Tail(writes[p]) /\ \A q \in Processes : q # p => writes'[q] = writes[q]
  BY <1>1, <1>2
<1>5. writes' \in [Processes -> Seq(WriteRecord)]
  BY <1>1, <1>2, <1>3
<1>6. 1 \in 1..Len(writes[p])
  BY <1>3
<1>7. /\ Len(writes'[p]) = Len(writes[p]) - 1 /\ writes'[p] # writes[p]
      /\ \A i \in 1..Len(writes'[p]) : writes'[p][i] = writes[p][i + 1] /\ i + 1 \in 1..Len(writes[p])
  BY <1>3, <1>4
<1> QED BY <1>3, <1>4, <1>5, <1>6, <1>7

\* What a process keeps when its first write is over, saved or not: the writes behind it are in order
\* if the marks it has left were there before, and a value is known unless only that write held it.
LEMMA DoneKeeps ==
  ASSUME SettingsInv, NEW p \in Processes, writes[p] # <<>>, Done(p),
         UNCHANGED <<settings, loadErrors, made>>, draft'[p] = <<>>,
         modified'[p] \subseteq modified[p], saved \subseteq saved', dropped \subseteq dropped',
         \A f \in Fields : Holds(p, 1, f) \/ (f \in modified[p] /\ f \notin modified'[p])
                           => Known(p, f)'
  PROVE  ProcessInv(p)'
<1> DEFINE n == Len(writes[p])
<1>1. ProcessInv(p) /\ n \in Nat /\ Len(writes'[p]) = n - 1
      /\ \A i \in 1..n - 1 : writes'[p][i] = writes[p][i + 1] /\ i + 1 \in 1..n
  BY DoneIs DEF SettingsInv
<1> HIDE DEF n
<1>2. Marked(p)' /\ Drafted(p)'
  BY <1>1 DEF ProcessInv, Marked, Drafted
<1>3. \A i \in 1..n - 1, f \in Fields : Holds(p, i + 1, f) => Holds(p, i, f)'
  BY <1>1 DEF Holds
<1>4. Queued(p)'
  <2> SUFFICES ASSUME NEW i \in 1..n - 1
               PROVE  /\ writes'[p][i].fields \subseteq In(writes'[p][i].scope)
                      /\ \A f \in writes'[p][i].fields : writes'[p][i].snapshot[f] \in made'[p]
                      /\ \A f \in modified'[p] \cap In(writes'[p][i].scope) :
                           ScopeOf[f] \in loadErrors'[p] \/ \E j \in i..n - 1 : Holds(p, j, f)'
    BY <1>1 DEF Queued, In
  <2>1. /\ writes[p][i + 1].fields \subseteq In(writes[p][i + 1].scope)
        /\ \A f \in writes[p][i + 1].fields : writes[p][i + 1].snapshot[f] \in made[p]
        /\ \A f \in modified[p] \cap In(writes[p][i + 1].scope) :
             ScopeOf[f] \in loadErrors[p] \/ \E j \in i + 1..n : Holds(p, j, f)
    BY <1>1 DEF ProcessInv, Queued, n
  <2>2. ASSUME NEW f \in Fields, NEW j \in i + 1..n, Holds(p, j, f) PROVE \E k \in i..n - 1 : Holds(p, k, f)'
    <3>1. j - 1 \in i..n - 1 /\ j - 1 \in 1..n - 1 /\ (j - 1) + 1 = j
      BY <1>1
    <3> QED BY <1>3, <2>2, <3>1
  <2> QED BY <1>1, <2>1, <2>2 DEF In
<1>5. ASSUME NEW f \in Fields PROVE Known(p, f)'
  <2>1. CASE Holds(p, 1, f) \/ (f \in modified[p] /\ f \notin modified'[p])
    BY <2>1
  <2>2. CASE ~Holds(p, 1, f) /\ ~(f \in modified[p] /\ f \notin modified'[p])
    <3>1. CASE \E j \in 1..n : Holds(p, j, f)
      <4>1. PICK j \in 1..n : Holds(p, j, f)
        BY <3>1
      <4>2. j # 1
        BY <2>2, <4>1
      <4>3. j - 1 \in 1..n - 1 /\ (j - 1) + 1 = j
        BY <1>1, <4>2
      <4> QED BY <1>1, <1>3, <4>1, <4>3 DEF Known
    <3>2. CASE ~\E j \in 1..n : Holds(p, j, f)
      BY <1>1, <2>2, <3>2 DEF ProcessInv, Known, n
    <3> QED BY <3>1, <3>2
  <2> QED BY <2>1, <2>2
<1> QED BY <1>2, <1>4, <1>5 DEF ProcessInv

\* What a write that succeeds does to the files: it changes the fields it holds, and if it creates the
\* file it may empty the others.
LEMMA WrittenIs ==
  ASSUME SettingsInv, NEW p \in Processes, WriteExisting(p) \/ Create(p),
         NEW w, w = Head(writes[p])
  PROVE  /\ writes[p] # <<>> /\ Cleared(p, w)
         /\ contents' \in Values /\ saved' = saved \cup {contents'[f] : f \in Fields}
         /\ \A f \in Fields : contents'[f] = IF f \in w.fields THEN w.snapshot[f]
                                             ELSE IF Create(p) /\ f \in In(w.scope) THEN 0 ELSE contents[f]
         /\ UNCHANGED <<settings, loadErrors, trusted, made, dropped, sets>> /\ draft'[p] = <<>>
         /\ \A q \in Processes : q # p => draft'[q] = draft[q]
         /\ DOMAIN draft' = Processes
<1>1. SettingsTypes /\ Drafted(p) /\ Queued(p)
  BY DEF SettingsInv, ProcessInv
<1>2. writes[p] # <<>>
  BY <1>1 DEF WriteExisting, Create, Drafted
<1>3. w \in WriteRecord /\ w = writes[p][1] /\ 1 \in 1..Len(writes[p])
  <2>1. writes[p] \in Seq(WriteRecord)
    BY <1>1 DEF SettingsTypes
  <2>2. Head(writes[p]) = writes[p][1] /\ Head(writes[p]) \in WriteRecord /\ Len(writes[p]) \in Nat /\ Len(writes[p]) >= 1
    BY <1>2, <2>1, TailOf
  <2> QED BY <2>2
<1>4. w.fields \subseteq In(w.scope)
  BY <1>1, <1>3 DEF Queued
<1>5. CASE WriteExisting(p) /\ ~Create(p)
  <2>1. contents' = Merged(w, contents) /\ saved' = saved \cup {contents'[f] : f \in Fields} /\ draft' = draft /\ draft[p] = <<>>
    BY <1>5 DEF WriteExisting, Puts, Permitted
  <2>2. contents' \in Values /\ \A f \in Fields : contents'[f] = IF f \in w.fields THEN w.snapshot[f] ELSE contents[f]
    BY <2>1, <1>1, <1>3, MergedIs DEF SettingsTypes
  <2>3. Cleared(p, w) /\ UNCHANGED <<settings, loadErrors, trusted, made, dropped, sets>>
    BY <1>5 DEF WriteExisting
  <2> QED BY <1>1, <1>2, <1>5, <2>1, <2>2, <2>3 DEF SettingsTypes
<1>6. CASE Create(p)
  <2>1. draft[p] = <<Merged(w, NoSettings)>>
    BY <1>1, <1>6 DEF Create, Drafted
  <2>2. draft[p][1] = Merged(w, NoSettings)
    BY <2>1
  <2>3. Merged(w, NoSettings) \in Values /\ \A f \in Fields : Merged(w, NoSettings)[f] = IF f \in w.fields THEN w.snapshot[f] ELSE 0
    BY <1>3, NothingSet, MergedIs
  <2>4. contents' = [f \in Fields |-> IF f \in In(w.scope) THEN draft[p][1][f] ELSE contents[f]]
        /\ saved' = saved \cup {contents'[f] : f \in Fields}
    BY <1>6 DEF Create, Puts
  <2>5. contents' \in Values
    BY <1>1, <2>2, <2>3, <2>4 DEF SettingsTypes, Values
  <2>6. \A f \in Fields : contents'[f] = IF f \in w.fields THEN w.snapshot[f]
                                         ELSE IF f \in In(w.scope) THEN 0 ELSE contents[f]
    BY <1>4, <2>2, <2>3, <2>4
  <2>7. Cleared(p, w) /\ UNCHANGED <<settings, loadErrors, trusted, made, dropped, sets>>
        /\ draft' = [draft EXCEPT ![p] = <<>>]
    BY <1>6 DEF Create
  <2> QED BY <1>1, <1>2, <1>6, <2>4, <2>5, <2>6, <2>7 DEF SettingsTypes
<1> QED BY <1>5, <1>6

\* The values of a write that succeeds are in the file, those of the marks it clears too.
LEMMA WritesKeep ==
  ASSUME SettingsInv, NEW p \in Processes, WriteExisting(p) \/ Create(p)
  PROVE  SettingsInv'
<1> DEFINE w == Head(writes[p])
<1>1. /\ writes[p] # <<>> /\ Cleared(p, w)
      /\ contents' \in Values /\ saved' = saved \cup {contents'[f] : f \in Fields}
      /\ \A f \in Fields : contents'[f] = IF f \in w.fields THEN w.snapshot[f]
                                          ELSE IF Create(p) /\ f \in In(w.scope) THEN 0 ELSE contents[f]
      /\ UNCHANGED <<settings, loadErrors, trusted, made, dropped, sets>> /\ draft'[p] = <<>>
      /\ \A q \in Processes : q # p => draft'[q] = draft[q]
      /\ DOMAIN draft' = Processes
  BY WrittenIs
<1>2. Done(p) /\ modified' = [modified EXCEPT ![p] = modified[p] \ In(w.scope)]
  BY <1>1 DEF Cleared, SettingsInv, SettingsTypes
<1>3. SettingsTypes /\ ProcessInv(p)
  BY DEF SettingsInv
<1>4. modified'[p] = modified[p] \ In(w.scope)
  BY <1>2, <1>3 DEF SettingsTypes
<1>5. /\ w = writes[p][1] /\ w \in WriteRecord /\ writes' \in [Processes -> Seq(WriteRecord)]
      /\ Len(writes[p]) \in Nat /\ Len(writes'[p]) = Len(writes[p]) - 1 /\ 1 \in 1..Len(writes[p])
      /\ \A i \in 1..Len(writes'[p]) : writes'[p][i] = writes[p][i + 1] /\ i + 1 \in 1..Len(writes[p])
      /\ \A q \in Processes : q # p => writes'[q] = writes[q]
  BY <1>1, <1>2, DoneIs
<1> HIDE DEF w
<1>6. SettingsTypes'
  BY <1>1, <1>2, <1>3, <1>5 DEF SettingsTypes
<1>7. FilesInv'
  BY <1>1 DEF FilesInv
<1>8. ASSUME NEW q \in Processes, q # p PROVE ProcessInv(q)'
  BY <1>8, <1>1, <1>2, <1>3, <1>5, OthersKeep DEF SettingsInv, SettingsTypes
<1>9. ASSUME NEW f \in Fields, Holds(p, 1, f) PROVE Known(p, f)'
  <2>1. contents'[f] = settings'[p][f]
    BY <1>1, <1>5, <1>9 DEF Holds
  <2> QED BY <1>1, <2>1 DEF Known
<1>10. ASSUME NEW f \in Fields, f \in modified[p], f \notin modified'[p] PROVE Known(p, f)'
  <2>1. f \in In(w.scope)
    BY <1>4, <1>10
  <2>2. CASE ScopeOf[f] \in loadErrors[p]
    BY <1>1, <2>2 DEF Known
  <2>3. CASE ScopeOf[f] \notin loadErrors[p]
    <3>1. PICK j \in 1..Len(writes[p]) : Holds(p, j, f)
      BY <1>3, <1>5, <1>10, <2>1, <2>3 DEF ProcessInv, Queued
    <3>2. CASE j = 1
      BY <1>9, <3>1, <3>2
    <3>3. CASE j # 1
      <4>1. j - 1 \in 1..Len(writes'[p]) /\ (j - 1) + 1 = j
        BY <1>5, <3>3
      <4>2. Holds(p, j - 1, f)'
        BY <1>1, <1>5, <3>1, <4>1 DEF Holds
      <4> QED BY <4>1, <4>2 DEF Known
    <3> QED BY <3>2, <3>3
  <2> QED BY <2>2, <2>3
<1>11. ProcessInv(p)'
  BY <1>1, <1>2, <1>4, <1>9, <1>10, DoneKeeps
<1> QED BY <1>6, <1>7, <1>8, <1>11 DEF SettingsInv

\* A write that fails leaves its marks; what it held without one is dropped.
LEMMA FailureKeeps == ASSUME SettingsInv, NEW p \in Processes, WriteFails(p) PROVE SettingsInv'
<1> DEFINE w == Head(writes[p])
<1>1. /\ writes[p] # <<>> /\ Done(p) /\ dropped' = dropped \cup Unmarked(p, w)
      /\ draft' = [draft EXCEPT ![p] = <<>>]
      /\ UNCHANGED <<settings, modified, loadErrors, trusted, contents, sets, made, saved>>
  BY DEF WriteFails, settingsFiles
<1>2. SettingsTypes /\ ProcessInv(p)
  BY DEF SettingsInv
<1>3. /\ w = writes[p][1] /\ writes' \in [Processes -> Seq(WriteRecord)]
      /\ \A q \in Processes : q # p => writes'[q] = writes[q]
  BY <1>1, DoneIs
<1>4. draft'[p] = <<>> /\ DOMAIN draft' = Processes /\ \A q \in Processes : q # p => draft'[q] = draft[q]
  BY <1>1, <1>2 DEF SettingsTypes
<1> HIDE DEF w
<1>5. SettingsTypes'
  BY <1>1, <1>2, <1>3, <1>4 DEF SettingsTypes
<1>6. FilesInv'
  BY <1>1 DEF SettingsInv, FilesInv
<1>7. ASSUME NEW q \in Processes, q # p PROVE ProcessInv(q)'
  BY <1>7, <1>1, <1>3, <1>4, OthersKeep DEF SettingsInv
<1>8. ASSUME NEW f \in Fields, Holds(p, 1, f) PROVE Known(p, f)'
  <2>1. f \in w.fields /\ w.snapshot[f] = settings'[p][f]
    BY <1>1, <1>3, <1>8 DEF Holds
  <2>2. CASE f \in modified[p]
    BY <1>1, <2>2 DEF Known
  <2>3. CASE f \notin modified[p]
    BY <1>1, <2>1, <2>3 DEF Known, Unmarked
  <2> QED BY <2>2, <2>3
<1>9. ProcessInv(p)'
  BY <1>1, <1>4, <1>8, DoneKeeps
<1> QED BY <1>5, <1>6, <1>7, <1>9 DEF SettingsInv

\* A load replaces values by those of a file, or keeps those it could not load, and unmarks both.
LEMMA LoadKeeps ==
  ASSUME SettingsInv, NEW p \in Processes, NEW scopes, draft[p] = <<>>,
         UNCHANGED <<writes, draft, contents, sets, made, saved, dropped>>,
         settings' \in [Processes -> Values], modified' \in [Processes -> SUBSET Fields],
         DOMAIN loadErrors' = Processes, DOMAIN trusted' = Processes,
         modified'[p] = {f \in modified[p] : ScopeOf[f] \notin scopes},
         \A f \in Fields : ScopeOf[f] \in scopes =>
           settings'[p][f] \in {contents[f], 0} \/ ScopeOf[f] \in loadErrors'[p],
         \A f \in Fields : ScopeOf[f] \notin scopes => settings'[p][f] = settings[p][f]
                           /\ (ScopeOf[f] \in loadErrors[p] => ScopeOf[f] \in loadErrors'[p]),
         \A q \in Processes : q # p => /\ settings'[q] = settings[q] /\ modified'[q] = modified[q]
                                       /\ loadErrors'[q] = loadErrors[q] /\ trusted'[q] = trusted[q]
  PROVE  SettingsInv'
<1>1. SettingsTypes' /\ FilesInv'
  BY DEF SettingsInv, SettingsTypes, FilesInv
<1>2. ASSUME NEW q \in Processes, q # p PROVE ProcessInv(q)'
  BY <1>2, OthersKeep DEF SettingsInv
<1>3. ProcessInv(p) /\ modified[p] \subseteq Fields
  BY DEF SettingsInv, SettingsTypes
<1>4. \A j : \A f \in Fields : ScopeOf[f] \notin scopes /\ Holds(p, j, f) => Holds(p, j, f)'
  BY DEF Holds
<1>5. Marked(p)' /\ Drafted(p)'
  BY <1>3 DEF ProcessInv, Marked, Drafted
<1>6. Queued(p)'
  <2> SUFFICES ASSUME NEW i \in 1..Len(writes[p]),
                      NEW f \in modified'[p] \cap In(writes[p][i].scope), ScopeOf[f] \notin loadErrors'[p]
               PROVE  \E j \in i..Len(writes[p]) : Holds(p, j, f)'
    BY <1>3 DEF ProcessInv, Queued
  <2>1. f \in Fields /\ f \in modified[p] /\ ScopeOf[f] \notin scopes /\ ScopeOf[f] \notin loadErrors[p]
    BY <1>3
  <2>2. PICK j \in i..Len(writes[p]) : Holds(p, j, f)
    BY <1>3, <2>1 DEF ProcessInv, Queued
  <2> QED BY <1>4, <2>1, <2>2
<1>7. ASSUME NEW f \in Fields PROVE Known(p, f)'
  <2>1. CASE ScopeOf[f] \in scopes
    BY <2>1 DEF SettingsInv, FilesInv, Known
  <2>2. CASE ScopeOf[f] \notin scopes
    BY <1>3, <1>4, <2>2 DEF ProcessInv, Known
  <2> QED BY <2>1, <2>2
<1> QED BY <1>1, <1>2, <1>3, <1>5, <1>6, <1>7 DEF ProcessInv, SettingsInv

LEMMA ReloadedKeeps == ASSUME SettingsInv, NEW p \in Processes, Reloaded(p) PROVE SettingsInv'
<1>1. SettingsTypes
  BY DEF SettingsInv
<1>2. PICK busy \in SUBSET (Scopes \ missing) :
        /\ settings' = [settings EXCEPT ![p] = [f \in Fields |->
             IF ScopeOf[f] \in Unread(trusted[p], busy) THEN settings[p][f] ELSE Loaded(f, trusted[p])]]
        /\ loadErrors' = [loadErrors EXCEPT ![p] = Unread(trusted[p], busy)]
  BY <1>1 DEF Reloaded, SettingsTypes
<1>3. modified' = [modified EXCEPT ![p] = {}] /\ draft[p] = <<>>
      /\ UNCHANGED <<trusted, writes, draft, contents, sets, made, saved, dropped>>
  BY DEF Reloaded, settingsFiles, settingsHistory
<1>4. \A f \in Fields : Loaded(f, trusted[p]) \in {contents[f], 0} /\ contents[f] \in Nat
  BY <1>1 DEF Loaded, SettingsTypes, Values
<1>t. modified' \in [Processes -> SUBSET Fields] /\ DOMAIN loadErrors' = Processes /\ DOMAIN trusted' = Processes
  BY <1>1, <1>2, <1>3 DEF SettingsTypes
<1>5. settings' \in [Processes -> Values]
  <2>1. settings \in [Processes -> Values] /\ \A f \in Fields : settings[p][f] \in Nat
    BY <1>1 DEF SettingsTypes, Values
  <2>2. \A v \in Values : [settings EXCEPT ![p] = v] \in [Processes -> Values]
    BY <2>1
  <2>3. \A g : (\A f \in Fields : g[f] \in Nat) => [f \in Fields |-> g[f]] \in Values
    BY DEF Values
  <2> QED BY <1>2, <1>4, <2>1, <2>2, <2>3 DEF Values
<1>6. /\ modified'[p] = {f \in modified[p] : ScopeOf[f] \notin Scopes}
      /\ \A f \in Fields : ScopeOf[f] \in Scopes
  BY <1>1, <1>3, SettingsAssumption DEF SettingsTypes
<1>7. \A f \in Fields : settings'[p][f] \in {contents[f], 0} \/ ScopeOf[f] \in loadErrors'[p]
  BY <1>1, <1>2, <1>4 DEF SettingsTypes
<1>8. \A q \in Processes : q # p => /\ settings'[q] = settings[q] /\ modified'[q] = modified[q]
                                    /\ loadErrors'[q] = loadErrors[q] /\ trusted'[q] = trusted[q]
  BY <1>1, <1>2, <1>3 DEF SettingsTypes
<1> QED BY <1>3, <1>t, <1>5, <1>6, <1>7, <1>8, LoadKeeps

LEMMA TrustKeeps ==
  ASSUME SettingsInv, NEW p \in Processes, NEW trust \in BOOLEAN, SetProjectTrusted(p, trust)
  PROVE  SettingsInv'
<1> DEFINE scopes == {"project"}
<1>1. SettingsTypes
  BY DEF SettingsInv
<1>2. PICK busy \in SUBSET ({"project"} \ missing) :
        /\ settings' = [settings EXCEPT ![p] = [f \in Fields |->
             IF f \notin In("project") THEN settings[p][f]
             ELSE IF Unread(trust, busy) \cap {"project"} # {} THEN 0 ELSE Loaded(f, trust)]]
        /\ loadErrors' = [loadErrors EXCEPT ![p] = (loadErrors[p] \ {"project"}) \cup (Unread(trust, busy) \cap {"project"})]
  BY <1>1 DEF SetProjectTrusted, SettingsTypes
<1>3. modified' = [modified EXCEPT ![p] = modified[p] \ In("project")] /\ draft[p] = <<>>
      /\ trusted' = [trusted EXCEPT ![p] = trust]
      /\ UNCHANGED <<writes, draft, contents, sets, made, saved, dropped>>
  BY <1>1 DEF SetProjectTrusted, settingsFiles, settingsHistory, SettingsTypes
<1>4. \A f \in Fields : Loaded(f, trust) \in {contents[f], 0} /\ contents[f] \in Nat /\ settings[p][f] \in Nat
  BY <1>1 DEF Loaded, SettingsTypes, Values
<1>t. modified' \in [Processes -> SUBSET Fields] /\ DOMAIN loadErrors' = Processes /\ DOMAIN trusted' = Processes
  BY <1>1, <1>2, <1>3 DEF SettingsTypes
<1>5. settings' \in [Processes -> Values]
  <2>1. settings \in [Processes -> Values] /\ \A f \in Fields : settings[p][f] \in Nat
    BY <1>1 DEF SettingsTypes, Values
  <2>2. \A v \in Values : [settings EXCEPT ![p] = v] \in [Processes -> Values]
    BY <2>1
  <2>3. \A g : (\A f \in Fields : g[f] \in Nat) => [f \in Fields |-> g[f]] \in Values
    BY DEF Values
  <2> QED BY <1>2, <1>4, <2>1, <2>2, <2>3 DEF Values
<1>6. modified'[p] = {f \in modified[p] : ScopeOf[f] \notin scopes}
  BY <1>1, <1>3 DEF SettingsTypes, In
<1>7. \A f \in Fields : ScopeOf[f] \in scopes => settings'[p][f] \in {contents[f], 0}
  BY <1>1, <1>2, <1>4 DEF SettingsTypes, In
<1>8. \A f \in Fields : ScopeOf[f] \notin scopes => settings'[p][f] = settings[p][f]
                        /\ (ScopeOf[f] \in loadErrors[p] => ScopeOf[f] \in loadErrors'[p])
  BY <1>1, <1>2 DEF SettingsTypes, In
<1>9. \A q \in Processes : q # p => /\ settings'[q] = settings[q] /\ modified'[q] = modified[q]
                                    /\ loadErrors'[q] = loadErrors[q] /\ trusted'[q] = trusted[q]
  BY <1>1, <1>2, <1>3 DEF SettingsTypes
<1> HIDE DEF scopes
<1> QED BY <1>3, <1>t, <1>5, <1>6, <1>7, <1>8, <1>9, LoadKeeps

\* What starts a write or a reload, and what is done to a file by hand, changes no value and no mark.
LEMMA QuietKeeps ==
  ASSUME SettingsInv,
         UNCHANGED <<settings, modified, loadErrors, trusted, writes, contents, sets, made, saved, dropped>>,
         DOMAIN draft' = Processes,
         \A p \in Processes : draft'[p] = draft[p] \/ Drafted(p)'
  PROVE  SettingsInv'
<1>1. SettingsTypes' /\ FilesInv'
  BY DEF SettingsInv, SettingsTypes, FilesInv
<1>2. ASSUME NEW p \in Processes PROVE ProcessInv(p)'
  <2>1. ProcessInv(p)
    BY DEF SettingsInv
  <2>2. CASE draft'[p] = draft[p]
    BY <2>1, <2>2, OthersKeep
  <2>3. CASE Drafted(p)'
    <3>1. \A j, f : Holds(p, j, f)' = Holds(p, j, f)
      BY DEF Holds
    <3>2. Marked(p)' /\ Queued(p)' /\ \A f \in Fields : Known(p, f)'
      BY <2>1, <3>1 DEF ProcessInv, Marked, Queued, Known
    <3> QED BY <2>3, <3>2 DEF ProcessInv
  <2> QED BY <2>2, <2>3
<1> QED BY <1>1, <1>2 DEF SettingsInv

LEMMA SettingsStep == SettingsInv /\ [SettingsNext]_settingsVars => SettingsInv'
<1> SUFFICES ASSUME SettingsInv, [SettingsNext]_settingsVars PROVE SettingsInv'
  OBVIOUS
<1>1. SettingsTypes
  BY DEF SettingsInv
<1>2. ASSUME NEW p \in Processes, NEW f \in Fields, Set(p, f) PROVE SettingsInv'
  BY <1>2, SetKeeps
<1>3. ASSUME NEW p \in Processes, WriteExisting(p) \/ Create(p) PROVE SettingsInv'
  BY <1>3, WritesKeep
<1>4. ASSUME NEW p \in Processes, FindNone(p) PROVE SettingsInv'
  <2>1. UNCHANGED <<settings, modified, loadErrors, trusted, writes, contents, sets, made, saved, dropped>>
    BY <1>4 DEF FindNone, settingsFiles, settingsHistory
  <2>2. draft' = [draft EXCEPT ![p] = <<Merged(Head(writes[p]), NoSettings)>>]
    BY <1>4 DEF FindNone
  <2>3. DOMAIN draft' = Processes /\ draft'[p] = <<Merged(Head(writes[p]), NoSettings)>>
        /\ \A q \in Processes : q # p => draft'[q] = draft[q]
    BY <1>1, <2>2 DEF SettingsTypes
  <2>4. Drafted(p)'
    BY <1>4, <2>1, <2>3 DEF FindNone, Permitted, Drafted, Merged
  <2> QED BY <2>1, <2>3, <2>4, QuietKeeps
<1>5. ASSUME NEW p \in Processes, WriteFails(p) PROVE SettingsInv'
  BY <1>5, FailureKeeps
<1>6. ASSUME NEW p \in Processes, Reload(p) PROVE SettingsInv'
  BY <1>1, <1>6, QuietKeeps DEF Reload, settingsFiles, settingsHistory, SettingsTypes
<1>7. ASSUME NEW p \in Processes, Reloaded(p) PROVE SettingsInv'
  BY <1>7, ReloadedKeeps
<1>8. ASSUME NEW p \in Processes, NEW trust \in BOOLEAN, SetProjectTrusted(p, trust) PROVE SettingsInv'
  BY <1>8, TrustKeeps
<1>9. ASSUME NEW s \in Scopes, Break(s) \/ Repair(s) PROVE SettingsInv'
  BY <1>1, <1>9, QuietKeeps DEF Break, Repair, settingsHistory, SettingsTypes
<1>10. CASE UNCHANGED settingsVars
  BY <1>1, <1>10, QuietKeeps DEF settingsVars, settingsFiles, settingsHistory, SettingsTypes
<1> QED BY <1>2, <1>3, <1>4, <1>5, <1>6, <1>7, <1>8, <1>9, <1>10 DEF SettingsNext

\* A value in the memory of a process with nothing left to write is in the file or was, or its field
\* is marked, whichever process sets which field (markModified, enqueueWrite, persistScopedSettings,
\* clearModifiedScope and reload).
THEOREM UnsavedStaysMarked == SettingsSpec => []UnsavedIsMarked
<1>1. SettingsSpec => []SettingsInv
  BY SettingsStart, SettingsStep, PTL DEF SettingsSpec
<1>2. SettingsInv => UnsavedIsMarked
  BY DEF SettingsInv, ProcessInv, Known, UnsavedIsMarked
<1> QED BY <1>1, <1>2, PTL

\* A step that changes a file is a write its process may make (assertProjectTrustedForWrite, withLock)
\* of values given to that process, or the creation of the file, which empties what it does not hold.
LEMMA TrustedStep ==
  SettingsInv /\ [SettingsNext]_settingsVars =>
    [\A f \in Fields : contents'[f] # contents[f] =>
       \E p \in Processes :
         /\ writes'[p] # writes[p]
         /\ ScopeOf[f] = "project" => trusted[p]
         /\ ScopeOf[f] \in broken => draft[p] # <<>>
         /\ contents'[f] \in made[p] \/ (contents'[f] = 0 /\ draft[p] # <<>>)]_settingsVars
<1> SUFFICES ASSUME SettingsInv, SettingsNext, NEW f \in Fields, contents'[f] # contents[f]
             PROVE  \E p \in Processes :
                      /\ writes'[p] # writes[p]
                      /\ ScopeOf[f] = "project" => trusted[p]
                      /\ ScopeOf[f] \in broken => draft[p] # <<>>
                      /\ contents'[f] \in made[p] \/ (contents'[f] = 0 /\ draft[p] # <<>>)
  OBVIOUS
<1>1. PICK p \in Processes : WriteExisting(p) \/ Create(p)
  BY DEF SettingsNext, Set, FindNone, WriteFails, Reload, Reloaded, SetProjectTrusted, Break, Repair, settingsFiles
<1> DEFINE w == Head(writes[p])
<1>2. /\ writes[p] # <<>> /\ Cleared(p, w)
      /\ contents'[f] = IF f \in w.fields THEN w.snapshot[f]
                        ELSE IF Create(p) /\ f \in In(w.scope) THEN 0 ELSE contents[f]
  BY <1>1, WrittenIs
<1>3. writes'[p] # writes[p] /\ w = writes[p][1] /\ 1 \in 1..Len(writes[p])
  BY <1>2, DoneIs DEF Cleared
<1>4. ProcessInv(p)
  BY DEF SettingsInv
<1>5. w.fields \subseteq In(w.scope) /\ \A g \in w.fields : w.snapshot[g] \in made[p]
  BY <1>3, <1>4 DEF ProcessInv, Queued
<1>6. w.scope = ScopeOf[f] /\ (contents'[f] \in made[p] \/ (contents'[f] = 0 /\ Create(p)))
  BY <1>2, <1>5 DEF In
<1>7. ScopeOf[f] = "project" => trusted[p]
  BY <1>1, <1>4, <1>6 DEF WriteExisting, Permitted, Create, ProcessInv, Drafted
<1>8. ScopeOf[f] \in broken => draft[p] # <<>>
  BY <1>1, <1>6 DEF WriteExisting, Readable, Create
<1>9. Create(p) => draft[p] # <<>>
  BY DEF Create
<1> QED BY <1>3, <1>6, <1>7, <1>8, <1>9

\* The files change by trusted writes of a process's own values only, and one that is not JSON at the
\* moment is never written over by a process that could have read it.
THEOREM WritesAreTrusted == SettingsSpec => TrustedWrites
<1>1. SettingsSpec => []SettingsInv
  BY SettingsStart, SettingsStep, PTL DEF SettingsSpec
<1> QED BY <1>1, TrustedStep, PTL DEF SettingsSpec, TrustedWrites

(***************************************************************************)
(* FileMutationQueue.  The chains of fileMutationQueues are shown to be    *)
(* what they stand for: before[c] is the last call of c's key ahead of it  *)
(* that was not over when c registered.                                    *)
(***************************************************************************)
Awaits == {"new", "asked", "keyed", "queued", "running", "written", "done", "rejected"}

MutationTypes ==
  /\ asked \in Seq(Mutations) /\ registered \in Nat /\ registered <= Len(asked)
  /\ mutation \in [Mutations -> Awaits] /\ key \in [Mutations -> Paths]
  /\ before \in [Mutations -> Mutations \cup {Nobody}]
  /\ tails \in [Paths -> Mutations \cup {Nobody}]
  /\ Present \subseteq files

\* A call stands in asked once, and has registered or been rejected when its turn is over.
Queue ==
  /\ \A i, j \in DOMAIN asked : asked[i] = asked[j] => i = j
  /\ \A i \in DOMAIN asked : mutation[asked[i]] # "new"
  /\ \A i \in DOMAIN asked : (mutation[asked[i]] \in {"asked", "keyed"}) = (i > registered)
  /\ \A c \in Mutations : mutation[c] = "keyed" => registered < Len(asked) /\ asked[registered + 1] = c
  /\ \A c \in Mutations : mutation[c] # "new" => \E i \in DOMAIN asked : asked[i] = c

Chain == {"queued", "running", "written", "done"}
InChain(c) == mutation[c] \in Chain

\* Where no new file is behind a link, the key of a file is its real path.
Keys == Straight =>
  \A c \in Mutations : mutation[c] = "keyed" \/ InChain(c) => key[c] = File(c)

\* The last chain of a key is that of the last call, unless all of them are over.
Tails == \A p \in Paths :
  /\ tails[p] # Nobody =>
       /\ InChain(tails[p]) /\ mutation[tails[p]] # "done" /\ key[tails[p]] = p
       /\ \A i, j \in DOMAIN asked : asked[i] = tails[p] /\ InChain(asked[j]) /\ key[asked[j]] = p => j <= i
  /\ tails[p] = Nobody => \A c \in Mutations : InChain(c) /\ key[c] = p => mutation[c] = "done"

\* Two calls of one key, of which i was asked for first.
Behind(i, j) == i < j /\ InChain(asked[i]) /\ InChain(asked[j]) /\ key[asked[i]] = key[asked[j]]

\* A call waits for the last call ahead of it that is not over.
Chained == \A i, j \in DOMAIN asked : Behind(i, j) =>
  \/ mutation[asked[i]] = "done"
  \/ \E k \in DOMAIN asked :
       i <= k /\ k < j /\ asked[k] = before[asked[j]] /\ InChain(asked[k]) /\ key[asked[k]] = key[asked[j]]

Turns == \A i, j \in DOMAIN asked :
  Behind(i, j) /\ mutation[asked[j]] \in {"running", "written", "done"} => mutation[asked[i]] = "done"

MutationInv == MutationTypes /\ Queue /\ Keys /\ Tails /\ Chained /\ Turns

USE DEF InChain, Behind

LEMMA MutationStart == MutationInit => MutationInv
<1>1. ASSUME MutationInit PROVE MutationInv
  BY <1>1, MutationAssumption
  DEF MutationInit, MutationInv, MutationTypes, Queue, Keys, Tails, Chained, Turns, Awaits, Chain
<1>2. QED BY <1>1

LEMMA AskKeeps == ASSUME MutationInv, NEW c \in Mutations, Ask(c) PROVE MutationInv'
<1>. USE DEF MutationInv, Ask
<1>1. /\ DOMAIN asked' = 1..(Len(asked) + 1) /\ DOMAIN asked = 1..Len(asked)
      /\ Len(asked') = Len(asked) + 1 /\ asked'[Len(asked) + 1] = c
      /\ \A i \in DOMAIN asked : asked'[i] = asked[i]
  BY DEF MutationTypes
<1>2. MutationTypes' BY DEF MutationTypes, Awaits
<1>3. \A i \in DOMAIN asked : asked[i] # c
  BY DEF Queue
<1>4. \A d \in Mutations : d # c => mutation'[d] = mutation[d]
  BY DEF MutationTypes
<1>5. mutation'[c] = "asked" BY DEF MutationTypes
<1>6. \A i \in DOMAIN asked : asked[i] \in Mutations BY DEF MutationTypes
<1>7. Queue' BY <1>1, <1>3, <1>4, <1>5, <1>6 DEF Queue, MutationTypes
<1>8. \A d \in Mutations : (mutation'[d] \in Chain) = InChain(d) BY <1>4, <1>5 DEF Chain
<1>9. Keys' BY <1>4, <1>5, <1>8 DEF Keys, File
<1>10. ~InChain(c) BY DEF Chain
<1>11. \A d \in Mutations : InChain(d) => mutation'[d] = mutation[d] BY <1>4, <1>10
<1>12. Tails' BY <1>1, <1>6, <1>8, <1>10, <1>11 DEF Tails, MutationTypes
<1>13. \A i, j \in DOMAIN asked' : Behind(i, j)' => i \in DOMAIN asked /\ j \in DOMAIN asked /\ Behind(i, j)
  BY <1>1, <1>6, <1>8, <1>10
<1>14. Chained'
  <2>. SUFFICES ASSUME NEW i \in DOMAIN asked', NEW j \in DOMAIN asked', Behind(i, j)',
                       mutation'[asked'[i]] # "done"
                PROVE \E k \in DOMAIN asked' : i <= k /\ k < j /\ asked'[k] = before'[asked'[j]]
                                               /\ mutation'[asked'[k]] \in Chain /\ key'[asked'[k]] = key'[asked'[j]]
    <3>. HIDE DEF MutationInv, Ask
    <3>. QED BY DEF Chained
  <2>1. i \in DOMAIN asked /\ j \in DOMAIN asked /\ Behind(i, j) BY <1>13
  <2>2. mutation[asked[i]] # "done" BY <1>1, <1>6, <1>11, <2>1
  <2>3. PICK k \in DOMAIN asked : i <= k /\ k < j /\ asked[k] = before[asked[j]] /\ InChain(asked[k])
                                  /\ key[asked[k]] = key[asked[j]]
    BY <2>1, <2>2 DEF Chained
  <2>4. QED BY <1>1, <1>6, <1>8, <2>1, <2>3
<1>15. Turns' BY <1>1, <1>6, <1>11, <1>13 DEF Turns
<1>16. QED BY <1>2, <1>7, <1>9, <1>12, <1>14, <1>15

\* A step of a call that neither joins nor leaves a chain, nor begins to run, changes no chain.
LEMMA ChainsStay ==
  ASSUME MutationInv, NEW c \in Mutations, ~InChain(c), ~mutation'[c] \in Chain, asked' = asked, before' = before, tails' = tails,
         \A d \in Mutations : d # c => mutation'[d] = mutation[d] /\ key'[d] = key[d]
  PROVE Tails' /\ Chained' /\ Turns'
<1>1. \A d \in Mutations : (mutation'[d] \in Chain) = InChain(d) BY DEF Chain
<1>2. \A d \in Mutations : InChain(d) => mutation'[d] = mutation[d] /\ key'[d] = key[d] OBVIOUS
<1>3. \A i \in DOMAIN asked : asked[i] \in Mutations BY DEF MutationInv, MutationTypes
<1>4. Tails' BY <1>1, <1>2, <1>3 DEF MutationInv, MutationTypes, Tails
<1>5. \A i, j \in DOMAIN asked : Behind(i, j)' = Behind(i, j) BY <1>1, <1>2, <1>3
<1>6. Chained' BY <1>1, <1>2, <1>3, <1>5 DEF MutationInv, Chained
<1>7. Turns' BY <1>1, <1>2, <1>3, <1>5 DEF MutationInv, Turns
<1>8. QED BY <1>4, <1>6, <1>7

LEMMA FindKeyKeeps == ASSUME MutationInv, NEW c \in Mutations, FindKey(c) PROVE MutationInv'
<1>. USE DEF MutationInv, FindKey, IsNext
<1>1. MutationTypes' BY MutationAssumption DEF MutationTypes, Awaits, File
<1>2. /\ mutation'[c] = "keyed" /\ mutation[c] = "asked"
      /\ \A d \in Mutations : d # c => mutation'[d] = mutation[d] /\ key'[d] = key[d]
  BY DEF MutationTypes
<1>3. Queue' BY <1>2 DEF Queue, MutationTypes
<1>4. Keys'
  <2>. SUFFICES ASSUME Straight, NEW d \in Mutations, mutation'[d] \in Chain \cup {"keyed"} PROVE key'[d] = File(d)
    BY DEF Keys, File
  <2>1. CASE d = c
    <3>1. key'[c] = IF File(c) \in files THEN File(c) ELSE PathOf[c] BY DEF MutationTypes
    <3>2. Real[PathOf[c]] = PathOf[c] \/ Real[PathOf[c]] \in files
      BY MutationAssumption DEF Straight, MutationTypes
    <3>3. QED BY <2>1, <3>1, <3>2 DEF File
  <2>2. CASE d # c BY <1>2, <2>2 DEF Keys, Chain
  <2>3. QED BY <2>1, <2>2
<1>5. ~InChain(c) /\ ~mutation'[c] \in Chain BY <1>2 DEF Chain
<1>6. Tails' /\ Chained' /\ Turns' BY <1>2, <1>5, ChainsStay
<1>7. QED BY <1>1, <1>3, <1>4, <1>6

LEMMA KeyRejectedKeeps == ASSUME MutationInv, NEW c \in Mutations, KeyRejected(c) PROVE MutationInv'
<1>. USE DEF MutationInv, KeyRejected, IsNext
<1>1. MutationTypes' BY DEF MutationTypes, Awaits
<1>2. /\ mutation'[c] = "rejected" /\ mutation[c] = "asked"
      /\ \A d \in Mutations : d # c => mutation'[d] = mutation[d] /\ key'[d] = key[d]
  BY DEF MutationTypes
<1>3. Queue'
  <2>1. registered' = registered + 1 /\ registered \in Nat /\ asked' = asked BY DEF MutationTypes
  <2>2. \A i \in DOMAIN asked : i \in Nat /\ asked[i] \in Mutations BY DEF MutationTypes
  <2>3. asked[registered + 1] = c OBVIOUS
  <2>4. \A i \in DOMAIN asked : asked[i] = c => i = registered + 1 BY <2>3 DEF Queue, MutationTypes
  <2>5. \A i \in DOMAIN asked : (mutation'[asked[i]] \in {"asked", "keyed"}) = (i > registered')
    BY <1>2, <2>1, <2>2, <2>3, <2>4 DEF Queue
  <2>6. \A d \in Mutations : mutation'[d] # "keyed" BY <1>2, <2>3 DEF Queue
  <2>7. QED BY <1>2, <2>1, <2>2, <2>5, <2>6 DEF Queue
<1>4. Keys' BY <1>2 DEF Keys, Chain, File
<1>5. ~InChain(c) /\ ~mutation'[c] \in Chain BY <1>2 DEF Chain
<1>6. Tails' /\ Chained' /\ Turns' BY <1>2, <1>5, ChainsStay
<1>7. QED BY <1>1, <1>3, <1>4, <1>6

LEMMA RegisterKeeps == ASSUME MutationInv, NEW c \in Mutations, Register(c) PROVE MutationInv'
<1>. USE DEF MutationInv, Register
<1>1. MutationTypes' BY DEF MutationTypes, Awaits, Queue
<1>2. /\ mutation'[c] = "queued" /\ mutation[c] = "keyed" /\ before'[c] = tails[key[c]] /\ tails'[key[c]] = c
      /\ \A d \in Mutations : d # c => mutation'[d] = mutation[d] /\ before'[d] = before[d]
      /\ \A p \in Paths : p # key[c] => tails'[p] = tails[p]
      /\ asked' = asked /\ key' = key /\ registered' = registered + 1
  BY DEF MutationTypes
<1>3. registered + 1 \in DOMAIN asked /\ asked[registered + 1] = c BY DEF Queue, MutationTypes
<1>4. \A i \in DOMAIN asked : i \in Nat /\ asked[i] \in Mutations BY DEF MutationTypes
<1>5. \A i \in DOMAIN asked : asked[i] = c => i = registered + 1 BY <1>3 DEF Queue
<1>6. Queue'
  <2>1. registered \in Nat BY DEF MutationTypes
  <2>2. \A i \in DOMAIN asked : (mutation'[asked[i]] \in {"asked", "keyed"}) = (i > registered')
    BY <1>2, <1>3, <1>4, <1>5, <2>1 DEF Queue
  <2>3. \A d \in Mutations : mutation'[d] # "keyed" BY <1>2, <1>3 DEF Queue
  <2>4. QED BY <1>2, <1>4, <2>2, <2>3 DEF Queue
<1>7. Keys' BY <1>2 DEF Keys, Chain, File
<1>8. \A d \in Mutations : (mutation'[d] \in Chain) = (InChain(d) \/ d = c) BY <1>2 DEF Chain
<1>9. \A i \in DOMAIN asked : InChain(asked[i]) => i <= registered
  BY <1>4 DEF Queue, Chain, MutationTypes
<1>10. Tails'
  <2>. SUFFICES ASSUME NEW p \in Paths
       PROVE /\ tails'[p] # Nobody =>
                  /\ mutation'[tails'[p]] \in Chain /\ mutation'[tails'[p]] # "done" /\ key[tails'[p]] = p
                  /\ \A i, j \in DOMAIN asked :
                       asked[i] = tails'[p] /\ mutation'[asked[j]] \in Chain /\ key[asked[j]] = p => j <= i
             /\ tails'[p] = Nobody => \A d \in Mutations : mutation'[d] \in Chain /\ key[d] = p => mutation'[d] = "done"
    BY <1>2 DEF Tails
  <2>1. CASE p = key[c]
    <3>1. \A j \in DOMAIN asked : mutation'[asked[j]] \in Chain => j <= registered + 1
      BY <1>4, <1>5, <1>8, <1>9 DEF MutationTypes
    <3>2. tails'[p] = c /\ c # Nobody BY <1>2, <2>1, MutationAssumption
    <3>3. QED BY <1>2, <1>5, <1>8, <2>1, <3>1, <3>2
  <2>2. CASE p # key[c]
    <3>1. tails'[p] = tails[p] /\ tails[p] \in Mutations \cup {Nobody} BY <1>2, <2>2 DEF MutationTypes
    <3>2. \A d \in Mutations : mutation'[d] \in Chain /\ key[d] = p => InChain(d) /\ d # c BY <1>8, <2>2
    <3>3. CASE tails[p] # Nobody
      <4>1. InChain(tails[p]) /\ tails[p] # c BY <3>1, <3>3, <1>2 DEF Tails, Chain
      <4>2. QED BY <1>2, <1>4, <1>8, <3>1, <3>2, <3>3, <4>1 DEF Tails
    <3>4. CASE tails[p] = Nobody BY <1>2, <3>1, <3>2, <3>4 DEF Tails
    <3>5. QED BY <3>3, <3>4
  <2>3. QED BY <2>1, <2>2
<1>11. Chained'
  <2>. SUFFICES ASSUME NEW i \in DOMAIN asked, NEW j \in DOMAIN asked, Behind(i, j)',
                       mutation'[asked[i]] # "done"
                PROVE \E k \in DOMAIN asked : i <= k /\ k < j /\ asked[k] = before'[asked[j]]
                                              /\ mutation'[asked[k]] \in Chain /\ key[asked[k]] = key[asked[j]]
    BY <1>2 DEF Chained
  <2>1. i < j /\ mutation'[asked[i]] \in Chain /\ mutation'[asked[j]] \in Chain /\ key[asked[i]] = key[asked[j]]
    BY <1>2
  <2>2. CASE asked[j] = c
    <3>1. j = registered + 1 BY <1>5, <2>2
    <3>2. asked[i] # c /\ InChain(asked[i]) BY <1>4, <1>5, <1>8, <2>1, <3>1
    <3>3. mutation[asked[i]] # "done" BY <1>2, <1>4, <3>2
    <3>4. tails[key[c]] # Nobody BY <1>4, <2>1, <2>2, <3>2, <3>3 DEF Tails, MutationTypes
    <3>5. tails[key[c]] \in Mutations /\ InChain(tails[key[c]]) /\ key[tails[key[c]]] = key[c]
      BY <3>4 DEF Tails, MutationTypes
    <3>6. PICK k \in DOMAIN asked : asked[k] = tails[key[c]] BY <3>5 DEF Queue, Chain
    <3>7. i <= k BY <1>4, <2>1, <2>2, <3>2, <3>4, <3>6 DEF Tails, MutationTypes
    <3>8. k < j BY <1>4, <1>9, <3>1, <3>5, <3>6 DEF MutationTypes
    <3>9. QED BY <1>2, <1>8, <2>2, <3>5, <3>6, <3>7, <3>8
  <2>3. CASE asked[j] # c
    <3>1. InChain(asked[j]) /\ j <= registered BY <1>4, <1>8, <1>9, <2>1, <2>3
    <3>2. asked[i] # c /\ InChain(asked[i]) BY <1>4, <1>5, <1>8, <2>1, <3>1 DEF MutationTypes
    <3>3. Behind(i, j) /\ mutation[asked[i]] # "done" BY <1>2, <1>4, <2>1, <3>1, <3>2
    <3>4. PICK k \in DOMAIN asked : i <= k /\ k < j /\ asked[k] = before[asked[j]] /\ InChain(asked[k])
                                    /\ key[asked[k]] = key[asked[j]]
      BY <3>3 DEF Chained
    <3>5. QED BY <1>2, <1>4, <1>8, <2>3, <3>4
  <2>4. QED BY <2>2, <2>3
<1>12. Turns'
  <2>. SUFFICES ASSUME NEW i \in DOMAIN asked, NEW j \in DOMAIN asked, Behind(i, j)',
                       mutation'[asked[j]] \in {"running", "written", "done"}
                PROVE mutation'[asked[i]] = "done"
    BY <1>2 DEF Turns
  <2>1. asked[j] # c /\ InChain(asked[j]) /\ j <= registered
    BY <1>2, <1>4, <1>8, <1>9
  <2>2. asked[i] # c /\ InChain(asked[i]) BY <1>4, <1>5, <1>8, <2>1 DEF MutationTypes
  <2>3. Behind(i, j) BY <1>2, <2>1, <2>2
  <2>4. QED BY <1>2, <1>4, <2>1, <2>2, <2>3 DEF Turns
<1>13. QED BY <1>1, <1>6, <1>7, <1>10, <1>11, <1>12

\* Steps within the chains, which change neither keys nor what waits for what.
LEMMA ChainsMove ==
  ASSUME MutationInv, NEW c \in Mutations, InChain(c), mutation'[c] \in Chain, mutation[c] # "done",
         asked' = asked, key' = key, before' = before,
         \A d \in Mutations : d # c => mutation'[d] = mutation[d]
  PROVE Chained'
<1>1. \A d \in Mutations : (mutation'[d] \in Chain) = InChain(d) BY DEF Chain
<1>2. \A i \in DOMAIN asked : asked[i] \in Mutations BY DEF MutationInv, MutationTypes
<1>3. \A i, j \in DOMAIN asked : Behind(i, j)' = Behind(i, j) BY <1>1, <1>2
<1>4. \A d \in Mutations : mutation[d] = "done" => mutation'[d] = "done" OBVIOUS
<1>. QED BY <1>1, <1>2, <1>3, <1>4 DEF MutationInv, Chained

LEMMA RunKeeps == ASSUME MutationInv, NEW c \in Mutations, Run(c) PROVE MutationInv'
<1>. USE DEF MutationInv, Run
<1>1. MutationTypes' BY DEF MutationTypes, Awaits
<1>2. /\ mutation'[c] = "running" /\ mutation[c] = "queued"
      /\ \A d \in Mutations : d # c => mutation'[d] = mutation[d]
      /\ asked' = asked /\ key' = key /\ before' = before /\ tails' = tails /\ registered' = registered
  BY DEF MutationTypes
<1>3. \A i \in DOMAIN asked : asked[i] \in Mutations BY DEF MutationTypes
<1>4. Queue' BY <1>2, <1>3 DEF Queue
<1>5. \A d \in Mutations : (mutation'[d] \in Chain) = InChain(d) BY <1>2 DEF Chain
<1>6. Keys' BY <1>2, <1>5 DEF Keys, File
<1>7. Tails' BY <1>2, <1>3, <1>5 DEF Tails, MutationTypes
<1>8. Chained' BY <1>2, ChainsMove DEF Chain
<1>9. Turns'
  <2>. SUFFICES ASSUME NEW i \in DOMAIN asked, NEW j \in DOMAIN asked, Behind(i, j),
                       mutation'[asked[j]] \in {"running", "written", "done"}
                PROVE mutation'[asked[i]] = "done"
    BY <1>2, <1>3, <1>5 DEF Turns
  <2>1. mutation[asked[i]] = "done"
    <3>1. CASE asked[j] # c BY <1>2, <1>3, <3>1 DEF Turns
    <3>2. CASE asked[j] = c /\ mutation[asked[i]] # "done"
      <4>1. PICK k \in DOMAIN asked : i <= k /\ k < j /\ asked[k] = before[c] /\ InChain(asked[k])
                                      /\ key[asked[k]] = key[c]
        BY <3>2 DEF Chained
      <4>2. mutation[asked[k]] = "done" BY <1>3, <4>1
      <4>3. i < k BY <3>2, <4>1, <4>2 DEF MutationTypes
      <4>4. Behind(i, k) BY <3>2, <4>1, <4>3
      <4>5. QED BY <4>2, <4>4 DEF Turns
    <3>3. QED BY <3>1, <3>2
  <2>2. QED BY <1>2, <1>3, <2>1
<1>10. QED BY <1>1, <1>4, <1>6, <1>7, <1>8, <1>9

LEMMA WriteKeeps == ASSUME MutationInv, NEW c \in Mutations, Write(c) PROVE MutationInv'
<1>. USE DEF MutationInv, Write
<1>1. MutationTypes' BY DEF MutationTypes, Awaits
<1>2. /\ mutation'[c] = "written" /\ mutation[c] = "running"
      /\ \A d \in Mutations : d # c => mutation'[d] = mutation[d]
      /\ asked' = asked /\ key' = key /\ before' = before /\ tails' = tails /\ registered' = registered
  BY DEF MutationTypes
<1>3. \A i \in DOMAIN asked : asked[i] \in Mutations BY DEF MutationTypes
<1>4. Queue' BY <1>2, <1>3 DEF Queue
<1>5. \A d \in Mutations : (mutation'[d] \in Chain) = InChain(d) BY <1>2 DEF Chain
<1>6. Keys' BY <1>2, <1>5 DEF Keys, File
<1>7. Tails' BY <1>2, <1>3, <1>5 DEF Tails, MutationTypes
<1>8. Chained' BY <1>2, ChainsMove DEF Chain
<1>9. Turns' BY <1>2, <1>3, <1>5 DEF Turns
<1>10. QED BY <1>1, <1>4, <1>6, <1>7, <1>8, <1>9

LEMMA FinishKeeps == ASSUME MutationInv, NEW c \in Mutations, Leave(c) PROVE MutationInv'
<1>. USE DEF MutationInv, Leave, Released
<1>1. MutationTypes' BY MutationAssumption DEF MutationTypes, Awaits
<1>2. /\ mutation'[c] = "done" /\ mutation[c] \in {"running", "written"}
      /\ \A d \in Mutations : d # c => mutation'[d] = mutation[d]
      /\ \A p \in Paths : p # key[c] => tails'[p] = tails[p]
      /\ tails'[key[c]] = (IF tails[key[c]] = c THEN Nobody ELSE tails[key[c]])
      /\ asked' = asked /\ key' = key /\ before' = before /\ registered' = registered
  BY DEF MutationTypes
<1>3. \A i \in DOMAIN asked : asked[i] \in Mutations BY DEF MutationTypes
<1>4. Queue' BY <1>2, <1>3 DEF Queue
<1>5. \A d \in Mutations : (mutation'[d] \in Chain) = InChain(d) BY <1>2 DEF Chain
<1>6. Keys' BY <1>2, <1>5 DEF Keys, File
<1>7. PICK n \in DOMAIN asked : asked[n] = c BY <1>2 DEF Queue
<1>8. Tails'
  <2>0. \A p \in Paths : tails'[p] \in Mutations \cup {Nobody} BY <1>1 DEF MutationTypes
  <2>. SUFFICES ASSUME NEW p \in Paths
       PROVE /\ tails'[p] # Nobody =>
                  /\ InChain(tails'[p]) /\ mutation'[tails'[p]] # "done" /\ key[tails'[p]] = p
                  /\ \A i, j \in DOMAIN asked :
                       asked[i] = tails'[p] /\ InChain(asked[j]) /\ key[asked[j]] = p => j <= i
             /\ tails'[p] = Nobody => \A d \in Mutations : InChain(d) /\ key[d] = p => mutation'[d] = "done"
    BY <1>2, <1>3, <1>5, <2>0 DEF Tails
  <2>1. CASE tails[p] = c
    <3>1. p = key[c] /\ tails'[p] = Nobody BY <1>2, <2>1, MutationAssumption DEF Tails
    <3>2. \A j \in DOMAIN asked : InChain(asked[j]) /\ key[asked[j]] = p => j <= n
      BY <1>7, <2>1, MutationAssumption DEF Tails
    <3>3. ASSUME NEW d \in Mutations, InChain(d), key[d] = p, d # c PROVE mutation[d] = "done"
      <4>1. PICK m \in DOMAIN asked : asked[m] = d BY <3>3 DEF Queue, Chain
      <4>2. m < n BY <1>7, <3>2, <3>3, <4>1 DEF MutationTypes
      <4>3. Behind(m, n) BY <1>2, <1>7, <3>1, <3>3, <4>1, <4>2 DEF Chain
      <4>4. QED BY <1>2, <1>7, <4>1, <4>3 DEF Turns
    <3>4. QED BY <1>2, <3>1, <3>3
  <2>2. CASE tails[p] # c
    <3>1. tails'[p] = tails[p] /\ tails[p] \in Mutations \cup {Nobody} BY <1>2, <2>2 DEF MutationTypes
    <3>2. QED BY <1>2, <2>2, <3>1 DEF Tails
  <2>3. QED BY <2>1, <2>2
<1>9. Chained' BY <1>2, ChainsMove DEF Chain
<1>10. Turns'
  <2>1. \A d \in Mutations : mutation[d] = "done" => mutation'[d] = "done" BY <1>2
  <2>2. \A d \in Mutations : mutation'[d] \in {"running", "written", "done"}
                             => mutation[d] \in {"running", "written", "done"} BY <1>2
  <2>3. \A i, j \in DOMAIN asked : Behind(i, j)' = Behind(i, j) BY <1>2, <1>3, <1>5
  <2>4. QED BY <1>2, <1>3, <2>1, <2>2, <2>3 DEF Turns
<1>11. QED BY <1>1, <1>4, <1>6, <1>8, <1>9, <1>10

LEMMA MutationInvStep == MutationInv /\ [MutationNext]_mutationVars => MutationInv'
<1>. SUFFICES ASSUME MutationInv, [MutationNext]_mutationVars PROVE MutationInv' OBVIOUS
<1>1. ASSUME NEW c \in Mutations, Ask(c) \/ MutationStep(c) \/ Write(c) PROVE MutationInv'
  BY <1>1, AskKeeps, FindKeyKeeps, KeyRejectedKeeps, RegisterKeeps, RunKeeps, WriteKeeps, FinishKeeps
  DEF MutationStep
<1>2. CASE UNCHANGED mutationVars
  BY <1>2 DEF mutationVars, MutationInv, MutationTypes, Queue, Keys, Tails, Chained, Turns, Chain, File
<1>3. QED BY <1>1, <1>2 DEF MutationNext

LEMMA ChainsGiveTurns == MutationInv => InTurn
<1>. SUFFICES ASSUME MutationInv, Straight, NEW i \in DOMAIN asked, NEW j \in DOMAIN asked, i < j,
                     File(asked[i]) = File(asked[j]), mutation[asked[j]] \in {"running", "written", "done"}
              PROVE Ended(asked[i])
  BY DEF InTurn
<1>1. asked[i] \in Mutations /\ asked[j] \in Mutations BY DEF MutationInv, MutationTypes
<1>2. j <= registered BY DEF MutationInv, Queue, MutationTypes
<1>3. mutation[asked[i]] \in Awaits \ {"new", "asked", "keyed"} BY <1>1, <1>2 DEF MutationInv, Queue, MutationTypes
<1>4. CASE mutation[asked[i]] = "rejected" BY <1>4 DEF Ended
<1>5. CASE mutation[asked[i]] # "rejected"
  <2>1. InChain(asked[i]) /\ InChain(asked[j]) BY <1>3, <1>5 DEF Chain, Awaits
  <2>2. Behind(i, j) BY <1>1, <2>1 DEF MutationInv, Keys
  <2>3. QED BY <2>2 DEF MutationInv, Turns, Ended
<1>6. QED BY <1>4, <1>5

\* Mutations of one file run one at a time and in the order in which they were asked for
\* (withFileMutationQueue), for any number of calls on any paths.
THEOREM MutationsInTurn == MutationSpec => []InTurn
<1>1. MutationSpec => []MutationInv BY MutationStart, MutationInvStep, PTL DEF MutationSpec
<1>2. QED BY <1>1, ChainsGiveTurns, PTL

\* fileMutationQueues never holds a chain that is over, so that it does not grow without end.
THEOREM QueuesNeverLeak == MutationSpec => []NothingLeaks
<1>1. MutationSpec => []MutationInv BY MutationStart, MutationInvStep, PTL DEF MutationSpec
<1>2. MutationInv => NothingLeaks BY DEF MutationInv, Tails, NothingLeaks, Ended, Chain
<1>3. QED BY <1>1, <1>2, PTL
=============================================================================
