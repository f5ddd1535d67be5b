--------------------------- MODULE BackOfficeProofs ---------------------------
(***************************************************************************)
(* Proofs about the parts of the back office, one after the other: each    *)
(* shares nothing with the rest but the requests in flight, and its        *)
(* theorem is about its own specification (SessionsSpec, ResetCodesSpec,   *)
(* ...), for any number of workers and rows.  The handlers of a part       *)
(* check, await and write; what is inductive is what a request may rely on *)
(* between its awaits while nobody crosses it, and that whoever crossed it *)
(* is in the history.  The last section is about the specification of the  *)
(* runs, where any part may be the one that runs.                          *)
(***************************************************************************)
EXTENDS MCBackOffice, FiniteSetTheorems, FunctionTheorems, WellFoundedInduction, TLAPS

-----------------------------------------------------------------------------
(* What is used in several parts *)

\* The identifier that is taken is one of those that are free.
LEMMA AnyOfIn ==
  ASSUME NEW ids, ids # {}
  PROVE  AnyOf(ids) \in ids
  BY DEF AnyOf

\* A set whose members are equal has one at most.
LEMMA AtMostOne ==
  ASSUME NEW S, \A x, y \in S : x = y
  PROVE  Cardinality(S) \in {0, 1} /\ (S = {} => Cardinality(S) = 0)
<1>1. CASE S = {}
  BY <1>1, FS_EmptySet
<1>2. ASSUME NEW x \in S PROVE Cardinality(S) = 1
  <2>1. S = {x}
    OBVIOUS
  <2> QED
    BY <2>1, FS_Singleton
<1> QED
  BY <1>1, <1>2

\* A set of numbers that is not empty has a least one.
LEMMA LeastNat ==
  ASSUME NEW T \in SUBSET Nat, T # {}
  PROVE  \E x \in T : \A y \in T : x <= y
<1> DEFINE R == OpToRel(<, Nat)
<1>1. IsWellFoundedOn(R, Nat)
  BY NatLessThanWellFounded, Zenon
<1>2. \A x, y \in Nat : y < x => <<y, x>> \in R
  BY DEF OpToRel
<1> HIDE DEF R
<1>3. PICK x \in T : \A y \in T : ~ (<<y, x>> \in R)
  BY <1>1, WFMin
<1>4. \A y \in T : ~ (y < x)
  BY <1>2, <1>3
<1>5. \A y \in T : x <= y
  BY <1>4, SMT
<1> QED
  BY <1>5

-----------------------------------------------------------------------------
(* Reset codes *)

\* A request that found the code it was given to be the stored one.
Confirmed(w, c) ==
    /\ req[w] # NoRequest /\ req[w].op = "verify" /\ req[w].step \in {"delete", "reset"}
    /\ req[w].otp = c

\* Codes that were not issued are nobody's.
UnsentCodes ==
    /\ \A c \in Codes : c > issued => resets[c] = 0 /\ compared[c] = 0
    /\ \A w \in Workers : req[w] # NoRequest => req[w].otp <= issued

\* The code in the store: the only request in flight has it, it has been used for no reset, and
\* the counter has seen every comparison with it.
StoredCode ==
    otp # NoCode /\ otp \notin overtaken =>
        /\ \A v, w \in Workers : req[v] # NoRequest /\ req[w] # NoRequest => v = w
        /\ resets[otp] = 0 /\ compared[otp] <= attempts
        /\ \A w \in Workers : req[w] # NoRequest =>
              /\ req[w].op = "save" => compared[otp] = 0
              /\ req[w].op = "verify" => req[w].step # "reset"
              /\ req[w].op = "verify" /\ req[w].step = "get" =>
                    compared[otp] < attempts /\ attempts <= MaxAttempts

\* A code is compared as often as the limit allows; one request at most finds it right, and none
\* any more once it has reset the counter.
SpentCodes ==
    \A c \in Codes \ overtaken :
        /\ resets[c] <= 1 /\ compared[c] <= MaxAttempts
        /\ \A v, w \in Workers : Confirmed(v, c) /\ Confirmed(w, c) => v = w
        /\ resets[c] = 1 => \A w \in Workers : ~Confirmed(w, c)

\* A request that saves a code has the counter of attempts to reset.
SavesReset == \A w \in Workers : req[w] # NoRequest /\ req[w].op = "save" => req[w].step = "reset"

\* The inductive invariant of ResetCodes.
CodesInv == ResetCodesTypeOK /\ UnsentCodes /\ StoredCode /\ SpentCodes /\ SavesReset

\* No code and no request at the start.
LEMMA CodesBegin == ResetCodesInit => CodesInv
  BY ResetCodesAssumption, SMT DEF ResetCodesInit, CodesInv, ResetCodesTypeOK, UnsentCodes, StoredCode,
     SpentCodes, SavesReset, Idle, Codes, NoCode, Confirmed

\* Every step keeps the types.
LEMMA CodesTyped ==
  ASSUME ResetCodesTypeOK, [ResetCodesNext]_resetCodesVars
  PROVE  ResetCodesTypeOK'
<1> USE ResetCodesAssumption DEF ResetCodesTypeOK, Codes, NoCode
<1>1. ASSUME NEW w \in Workers, forgotPassword(w) PROVE ResetCodesTypeOK'
  BY <1>1 DEF forgotPassword, Begin, Crossing
<1>2. ASSUME NEW w \in Workers, NEW code \in 0..issued, BeginVerify(w, code) PROVE ResetCodesTypeOK'
  <2>1. attempts' \in 0..(MaxAttempts + 1)
    BY <1>2 DEF BeginVerify
  <2>2. code \in 0..MaxCodes /\ overtaken' \subseteq 0..MaxCodes
    BY <1>2 DEF BeginVerify, Crossing
  <2> QED
    BY <1>2, <2>1, <2>2, SMTT(60) DEF BeginVerify, Begin
<1>3. ASSUME NEW w \in Workers, Compare(w) PROVE ResetCodesTypeOK'
  <2>1. compared' \in [Codes -> Nat]
    BY <1>3 DEF Compare
  <2> QED
    BY <1>3, <2>1, ZenonT(60) DEF Compare, At, Goto, Done
<1>4. ASSUME NEW w \in Workers, DeleteCode(w) PROVE ResetCodesTypeOK'
  <2>1. /\ req' = [req EXCEPT ![w].step = "reset"] /\ req[w] # NoRequest /\ otp' = 0
        /\ UNCHANGED <<issued, attempts, resets, compared, overtaken>>
    BY <1>4 DEF DeleteCode, At, Goto
  <2>2. otp' \in 0..issued'
    BY <2>1, SMT
  <2> QED
    BY <2>1, <2>2
<1>5. ASSUME NEW w \in Workers, ResetAttempts(w) PROVE ResetCodesTypeOK'
  <2>1. resets' \in [Codes -> Nat]
    BY <1>5 DEF ResetAttempts
  <2> QED
    BY <1>5, <2>1 DEF ResetAttempts, Done
<1>6. ASSUME NEW w \in Workers, LoseCodeRequest(w) PROVE ResetCodesTypeOK'
  BY <1>6 DEF LoseCodeRequest, Done
<1>7. CASE CodeExpires \/ AttemptsExpire \/ UNCHANGED resetCodesVars
  <2>1. otp' \in {0, otp} /\ attempts' \in {0, attempts} /\ UNCHANGED <<req, issued, resets, compared, overtaken>>
    BY <1>7 DEF CodeExpires, AttemptsExpire, resetCodesVars
  <2>2. otp' \in 0..issued' /\ attempts' \in 0..(MaxAttempts + 1)
    BY <2>1, SMT
  <2> QED
    BY <2>1, <2>2
<1> QED
  BY <1>1, <1>2, <1>3, <1>4, <1>5, <1>6, <1>7 DEF ResetCodesNext

\* Every step keeps the invariant: what a request knows of the stored code stays true unless
\* another request crosses it, and then the code is in overtaken.
LEMMA CodesStep ==
  ASSUME CodesInv, [ResetCodesNext]_resetCodesVars
  PROVE  CodesInv'
<1> DEFINE Rest == UnsentCodes /\ StoredCode /\ SpentCodes /\ SavesReset
<1>0. ResetCodesTypeOK /\ ResetCodesTypeOK' /\ Rest
  BY CodesTyped DEF CodesInv
<1>t. /\ MaxAttempts \in Nat /\ issued \in Nat /\ otp \in Nat /\ attempts \in Nat
      /\ otp = 0 \/ otp \in Codes
      /\ \A c \in Codes : c \in Nat /\ c # 0 /\ resets[c] \in Nat /\ compared[c] \in Nat
      /\ \A v \in Workers : req[v] # NoRequest =>
            req[v].op \in {"save", "verify"} /\ req[v].step \in {"get", "delete", "reset"} /\ req[v].otp \in Nat
      /\ DOMAIN req = Workers /\ issued' \in Nat /\ (issued' = issued \/ issued' = issued + 1)
      /\ otp' = 0 \/ otp' \in Codes
  <2>1. MaxAttempts \in Nat /\ issued \in Nat /\ otp \in Nat /\ attempts \in Nat /\ (otp = 0 \/ otp \in Codes)
        /\ issued' \in Nat /\ (otp' = 0 \/ otp' \in Codes)
    <3>1. MaxAttempts \in Nat /\ MaxCodes \in Nat
      BY ResetCodesAssumption
    <3>2. issued \in 0..MaxCodes /\ otp \in 0..issued /\ attempts \in 0..(MaxAttempts + 1)
          /\ issued' \in 0..MaxCodes /\ otp' \in 0..issued'
      BY <1>0 DEF ResetCodesTypeOK
    <3> QED
      BY <3>1, <3>2, SMT DEF Codes
  <2>2. \A c \in Codes : c \in Nat /\ c # 0 /\ resets[c] \in Nat /\ compared[c] \in Nat
    BY <1>0, ResetCodesAssumption, SMT DEF ResetCodesTypeOK, Codes
  <2>3. \A v \in Workers : req[v] # NoRequest =>
            req[v].op \in {"save", "verify"} /\ req[v].step \in {"get", "delete", "reset"} /\ req[v].otp \in Nat
    BY <1>0, ResetCodesAssumption, SMT DEF ResetCodesTypeOK, Codes, NoCode
  <2>4. DOMAIN req = Workers
    BY <1>0 DEF ResetCodesTypeOK
  <2>5. issued' = issued \/ issued' = issued + 1
    BY DEF ResetCodesNext, forgotPassword, BeginVerify, Compare, DeleteCode, ResetAttempts,
       LoseCodeRequest, CodeExpires, AttemptsExpire, resetCodesVars
  <2> QED
    BY <2>1, <2>2, <2>3, <2>4, <2>5
<1> USE DEF NoCode
<1>1. ASSUME NEW w \in Workers, forgotPassword(w) PROVE Rest'
  <2>1. /\ req[w] = NoRequest /\ issued' = issued + 1 /\ otp' = issued + 1
        /\ overtaken' = IF req = Idle THEN overtaken ELSE overtaken \cup {otp, issued + 1}
        /\ UNCHANGED <<attempts, resets, compared>> /\ issued + 1 \in Codes
    BY <1>1, <1>0, SMT DEF forgotPassword, Begin, Crossing, ResetCodesTypeOK, Codes
  <2>2. \A v \in Workers :
           req'[v] = IF v = w THEN [op |-> "save", step |-> "reset", otp |-> issued + 1] ELSE req[v]
    BY <1>1, <1>t DEF forgotPassword, Begin
  <2>3. UnsentCodes'
    BY <1>0, <1>t, <2>1, <2>2, SMT DEF UnsentCodes
  <2>4. StoredCode'
    <3> SUFFICES ASSUME issued + 1 \notin overtaken' PROVE StoredCode'
      BY <2>1 DEF StoredCode
    <3>1. \A v \in Workers : req[v] = NoRequest
      BY <2>1 DEF Idle
    <3>2. resets[issued + 1] = 0 /\ compared[issued + 1] = 0
      BY <1>0, <1>t, <2>1, SMT DEF UnsentCodes
    <3> QED
      BY <1>t, <2>1, <2>2, <3>1, <3>2, SMT DEF StoredCode
  <2>5. SpentCodes'
    BY <1>0, <1>t, <2>1, <2>2, SMT DEF SpentCodes, Confirmed
  <2>6. SavesReset'
    BY <1>0, <2>2, SMT DEF SavesReset
  <2> QED
    BY <2>3, <2>4, <2>5, <2>6
<1>2. ASSUME NEW w \in Workers, NEW code \in 0..issued, BeginVerify(w, code) PROVE Rest'
  <2>1. /\ UNCHANGED <<issued, otp, resets, compared>> /\ req[w] = NoRequest
        /\ overtaken' = IF req = Idle THEN overtaken ELSE overtaken \cup {otp}
        /\ attempts' = IF attempts > MaxAttempts THEN attempts ELSE attempts + 1
    BY <1>2 DEF BeginVerify, Begin, Crossing
  <2>2. \/ req' = req
        \/ /\ attempts' <= MaxAttempts
           /\ \A v \in Workers :
                req'[v] = IF v = w THEN [op |-> "verify", step |-> "get", otp |-> code] ELSE req[v]
    <3>1. attempts' \in Nat
      BY <1>t, <2>1
    <3> QED
      BY <1>2, <1>t, <3>1, SMT DEF BeginVerify, Begin
  <2>3. UnsentCodes'
    BY <1>0, <1>t, <2>1, <2>2, SMT DEF UnsentCodes
  <2>4. StoredCode'
    <3> SUFFICES ASSUME otp # NoCode, otp \notin overtaken' PROVE StoredCode'
      BY <2>1 DEF StoredCode
    <3>1. otp \notin overtaken /\ \A v \in Workers : req[v] = NoRequest
      BY <2>1 DEF Idle
    <3> QED
      BY <1>0, <1>t, <2>1, <2>2, <3>1, SMT DEF StoredCode
  <2>5. SpentCodes'
    <3>1. overtaken \subseteq overtaken'
      BY <2>1
    <3>2. \A v \in Workers, c \in Codes : Confirmed(v, c)' => Confirmed(v, c)
      BY <2>2 DEF Confirmed
    <3> QED
      BY <1>0, <1>t, <2>1, <3>1, <3>2 DEF SpentCodes
  <2>6. SavesReset'
    BY <1>0, <2>2, SMT DEF SavesReset
  <2> QED
    BY <2>3, <2>4, <2>5, <2>6
<1>3. ASSUME NEW w \in Workers, Compare(w) PROVE Rest'
  <2>1. /\ req[w] # NoRequest /\ req[w].op = "verify" /\ req[w].step = "get"
        /\ UNCHANGED <<issued, otp, attempts, resets, overtaken>>
        /\ \A c \in Codes : compared'[c] = IF c = otp THEN compared[c] + 1 ELSE compared[c]
    BY <1>3 DEF Compare, At
  <2>2. \/ /\ req[w].otp = otp
           /\ \A v \in Workers : req'[v] = IF v = w THEN [req[w] EXCEPT !.step = "delete"] ELSE req[v]
        \/ \A v \in Workers : req'[v] = IF v = w THEN NoRequest ELSE req[v]
    BY <1>3, <1>t DEF Compare, At, Goto, Done
  <2>3. \A v \in Workers : req'[v] # NoRequest =>
           /\ req[v] # NoRequest /\ req'[v].op = req[v].op /\ req'[v].otp = req[v].otp
           /\ IF v = w THEN req'[v].step = "delete" /\ req[w].otp = otp ELSE req'[v].step = req[v].step
    BY <1>0, <2>1, <2>2, SMT DEF ResetCodesTypeOK
  <2>4. UnsentCodes'
    <3>1. ASSUME NEW c \in Codes, c > issued PROVE c # otp
      BY <1>0, <3>1, SMT DEF ResetCodesTypeOK, Codes
    <3> QED
      BY <1>0, <1>t, <2>1, <2>3, <3>1 DEF UnsentCodes
  <2>5. otp # NoCode /\ otp \notin overtaken =>
           /\ compared[otp] < attempts /\ attempts <= MaxAttempts
           /\ resets[otp] = 0 /\ compared'[otp] = compared[otp] + 1
           /\ \A v \in Workers : req[v] # NoRequest => v = w
    BY <1>0, <1>t, <2>1 DEF StoredCode
  <2>6. StoredCode'
    <3> SUFFICES ASSUME otp # NoCode, otp \notin overtaken PROVE StoredCode'
      BY <2>1 DEF StoredCode
    <3>1. compared'[otp] <= attempts
      BY <1>t, <2>5, SMT
    <3>2. \A v \in Workers : req'[v] # NoRequest => v = w /\ req'[v].op = "verify" /\ req'[v].step \notin {"get", "reset"}
      BY <2>1, <2>2, <2>3, <2>5
    <3> QED
      BY <1>t, <2>1, <2>5, <3>1, <3>2 DEF StoredCode
  <2>7. SpentCodes'
    <3> SUFFICES ASSUME NEW c \in Codes, c \notin overtaken
                 PROVE  /\ resets[c] <= 1 /\ compared'[c] <= MaxAttempts
                        /\ \A v, x \in Workers : Confirmed(v, c)' /\ Confirmed(x, c)' => v = x
                        /\ resets[c] = 1 => \A v \in Workers : ~Confirmed(v, c)'
      BY <2>1 DEF SpentCodes
    <3>1. CASE c = otp
      <4>1. \A v \in Workers : Confirmed(v, c)' => v = w
        BY <1>t, <2>3, <2>5, <3>1 DEF Confirmed
      <4> QED
        BY <1>t, <2>5, <3>1, <4>1, SMT
    <3>2. CASE c # otp
      <4>1. \A v \in Workers : Confirmed(v, c)' => Confirmed(v, c)
        BY <2>3, <3>2 DEF Confirmed
      <4> QED
        BY <1>0, <1>t, <2>1, <3>2, <4>1 DEF SpentCodes
    <3> QED
      BY <3>1, <3>2
  <2>8. SavesReset'
    BY <1>0, <2>1, <2>3 DEF SavesReset
  <2> QED
    BY <2>4, <2>6, <2>7, <2>8
<1>4. ASSUME NEW w \in Workers, DeleteCode(w) PROVE Rest'
  <2>1. /\ req[w] # NoRequest /\ req[w].op = "verify" /\ req[w].step = "delete" /\ otp' = 0
        /\ UNCHANGED <<issued, attempts, resets, compared, overtaken>>
        /\ \A v \in Workers : req'[v] = IF v = w THEN [req[w] EXCEPT !.step = "reset"] ELSE req[v]
    BY <1>4, <1>t DEF DeleteCode, At, Goto
  <2>2. \A v \in Workers : req'[v] # NoRequest =>
           /\ req[v] # NoRequest /\ req'[v].op = req[v].op /\ req'[v].otp = req[v].otp
           /\ (req'[v].step = req[v].step \/ (v = w /\ req'[v].step = "reset"))
    BY <1>0, <2>1, SMT DEF ResetCodesTypeOK
  <2>3. \A v \in Workers, c \in Codes : Confirmed(v, c)' => Confirmed(v, c)
    BY <2>1, <2>2 DEF Confirmed
  <2> QED
    BY <1>0, <2>1, <2>2, <2>3, SMT DEF UnsentCodes, StoredCode, SpentCodes, SavesReset
<1>5. ASSUME NEW w \in Workers, ResetAttempts(w) PROVE Rest'
  <2>1. /\ req[w] # NoRequest /\ req[w].op \in {"save", "verify"} /\ req[w].step = "reset"
        /\ UNCHANGED <<issued, otp, compared, overtaken>> /\ attempts' = 0
        /\ \A c \in Codes : resets'[c] = IF req[w].op = "verify" /\ c = req[w].otp THEN resets[c] + 1 ELSE resets[c]
        /\ \A v \in Workers : req'[v] = IF v = w THEN NoRequest ELSE req[v]
    BY <1>5, <1>t DEF ResetAttempts, At, Done
  <2>2. UnsentCodes' /\ SavesReset'
    BY <1>0, <1>t, <2>1, SMT DEF UnsentCodes, SavesReset
  <2>3. StoredCode'
    <3> SUFFICES ASSUME otp # NoCode, otp \notin overtaken PROVE StoredCode'
      BY <2>1 DEF StoredCode
    <3>1. /\ \A v \in Workers : req[v] # NoRequest => v = w
          /\ req[w].op = "save" /\ compared[otp] = 0 /\ resets[otp] = 0
      BY <1>0, <1>t, <2>1 DEF StoredCode
    <3> QED
      BY <1>t, <2>1, <3>1 DEF StoredCode
  <2>4. SpentCodes'
    <3> SUFFICES ASSUME NEW c \in Codes, c \notin overtaken
                 PROVE  /\ resets'[c] <= 1 /\ compared[c] <= MaxAttempts
                        /\ \A v, x \in Workers : Confirmed(v, c)' /\ Confirmed(x, c)' => v = x
                        /\ resets'[c] = 1 => \A v \in Workers : ~Confirmed(v, c)'
      BY <2>1 DEF SpentCodes
    <3>1. \A v \in Workers : Confirmed(v, c)' => Confirmed(v, c) /\ v # w
      BY <2>1 DEF Confirmed
    <3>2. CASE Confirmed(w, c)
      <4>1. resets[c] = 0 /\ \A v \in Workers : ~Confirmed(v, c)'
        BY <1>0, <1>t, <3>1, <3>2, SMT DEF SpentCodes
      <4> QED
        BY <1>0, <1>t, <2>1, <4>1, SMT DEF SpentCodes
    <3>3. CASE ~Confirmed(w, c)
      <4>1. resets'[c] = resets[c]
        BY <2>1, <3>3 DEF Confirmed
      <4> QED
        BY <1>0, <3>1, <4>1 DEF SpentCodes
    <3> QED
      BY <3>2, <3>3
  <2> QED
    BY <2>2, <2>3, <2>4
<1>6. ASSUME NEW w \in Workers, LoseCodeRequest(w) PROVE Rest'
  <2>1. /\ UNCHANGED <<issued, otp, attempts, resets, compared, overtaken>>
        /\ \A v \in Workers : req'[v] = IF v = w THEN NoRequest ELSE req[v]
    BY <1>6, <1>t DEF LoseCodeRequest, Done
  <2> QED
    BY <1>0, <1>t, <2>1, SMT DEF UnsentCodes, SavesReset, StoredCode, SpentCodes, Confirmed
<1>7. ASSUME CodeExpires \/ AttemptsExpire \/ UNCHANGED resetCodesVars PROVE Rest'
  <2>1. /\ otp' \in {0, otp} /\ UNCHANGED <<req, issued, resets, compared, overtaken>>
        /\ otp' = otp /\ otp # 0 => attempts' = attempts
    BY <1>7 DEF CodeExpires, AttemptsExpire, resetCodesVars
  <2>2. UnsentCodes' /\ SavesReset' /\ SpentCodes'
    BY <1>0, <2>1 DEF UnsentCodes, SavesReset, SpentCodes, Confirmed
  <2>3. StoredCode'
    BY <1>0, <2>1 DEF StoredCode
  <2> QED
    BY <2>2, <2>3
<1> QED
  BY <1>0, <1>1, <1>2, <1>3, <1>4, <1>5, <1>6, <1>7 DEF ResetCodesNext, CodesInv

\* A code resets the password at most once, and is compared with a guess at most MaxAttempts times,
\* unless requests overtook each other (forgotPassword and verifyOtp of the authentication).
THEOREM CodesOnce == ResetCodesSpec => []CodesUsedOnce
<1>1. CodesInv => CodesUsedOnce
  BY DEF CodesInv, SpentCodes, CodesUsedOnce
<1> QED
  BY <1>1, CodesBegin, CodesStep, PTL DEF ResetCodesSpec

-----------------------------------------------------------------------------
(* Sessions *)

\* A foundation's user in a school, also one who impersonates, is there for that foundation.
InNetwork(sc) ==
    LET actor == IF sc.impersonator # Nobody THEN sc.impersonator ELSE sc.user
    IN sc.school # Nobody /\ actor \in Networks => sc.network = actor /\ ~sc.super

\* The school that a foundation's user is in has that foundation as its parent.
Current(parents, sc) ==
    LET actor == IF sc.impersonator # Nobody THEN sc.impersonator ELSE sc.user
    IN sc.school # Nobody /\ actor \in Networks => parents[sc.school] = actor

\* A scope that a sign-in of this kind may give.
SoundScope(sc) ==
    /\ sc \in Scope
    /\ InNetwork(sc)
    /\ sc.platform => /\ sc.user \in PlatformUsers /\ sc.impersonator = Nobody
                      /\ sc.super = (sc.user = "superadmin")
                      /\ sc.network = NetworkOfUser(sc.user)

\* A session is one chain: one token, or one request that has taken it and saves the next; and
\* none once it has ended.
ChainsKept ==
    \A s \in SessionIds \ crossed :
        /\ \A t, u \in TokensOf(s) : t = u
        /\ \A v, w \in Refreshing(s) : v = w
        /\ \A w \in Refreshing(s) :
              TokensOf(s) \subseteq IF req[w].step = "save" THEN {} ELSE {req[w].token}
        /\ s \in ended => TokensOf(s) = {} /\ Refreshing(s) = {}

\* The tokens and the refreshes of a session have the scope it began with.
ScopesKept ==
    \A s \in SessionIds :
        /\ \A t \in TokensOf(s) : refreshToken[t].scope = scopeOf[s]
        /\ \A w \in Refreshing(s) : req[w].scope = scopeOf[s]
        /\ scopeOf[s] = Nobody => TokensOf(s) = {} /\ Refreshing(s) = {} /\ s \notin ended
        /\ scopeOf[s] # Nobody => SoundScope(scopeOf[s])

\* The scopes of sessions, and of sign-ins whose school was looked up, are those of the school's
\* present parent, unless the school has changed it since.
ScopesCurrent ==
    /\ \A s \in SessionIds \ outdated : scopeOf[s] # Nobody => Current(networkOf, scopeOf[s])
    /\ \A w \in Workers : Pending(w, "enter") =>
          SoundScope(req[w].scope) /\ (req[w].outdated \/ Current(networkOf, req[w].scope))

\* The inductive invariant of Sessions.
SessionsInv == SessionsTypeOK /\ ChainsKept /\ ScopesKept /\ ScopesCurrent

\* What is current stays so while no parent changes and nobody is let in.
LEMMA CurrentKept ==
  ASSUME ScopesCurrent, UNCHANGED networkOf,
         \A s \in SessionIds \ outdated' :
            scopeOf'[s] # Nobody => s \notin outdated /\ scopeOf'[s] = scopeOf[s],
         \A w \in Workers : Pending(w, "enter")' => Pending(w, "enter") /\ req'[w] = req[w]
  PROVE  ScopesCurrent'
  BY DEF ScopesCurrent, Current, Pending

\* Chains stay chains while no token changes.
LEMMA ChainsUntouched ==
  ASSUME ChainsKept, ScopesKept, UNCHANGED <<refreshToken, scopeOf, ended, crossed>>,
         \A w \in Workers : Pending(w, "refresh")' => Pending(w, "refresh") /\ req'[w] = req[w]
  PROVE  ChainsKept' /\ ScopesKept'
<1>1. /\ \A s \in SessionIds : Refreshing(s)' \subseteq Refreshing(s)
      /\ \A s \in SessionIds : \A v \in Refreshing(s)' : req'[v] = req[v]
  BY DEF Refreshing
<1>2. \A s \in SessionIds : TokensOf(s)' = TokensOf(s)
  BY DEF TokensOf, Unused, Of
<1>3. ChainsKept'
  BY <1>1, <1>2 DEF ChainsKept
<1>4. ScopesKept'
  BY <1>1, <1>2 DEF ScopesKept, SoundScope, InNetwork
<1> QED
  BY <1>3, <1>4

\* The scopes that the sign-ins give are sound.
LEMMA SignInScopes ==
  /\ \A school \in Schools : SoundScope(staffScope(school))
  /\ \A pu \in PlatformUsers : SoundScope(platformScope(pu))
  /\ \A pu \in PlatformUsers, school \in Schools :
        mayEnter(pu, school) => /\ SoundScope(schoolScope(pu, school))
                                /\ Current(networkOf, schoolScope(pu, school))
  /\ \A school \in Schools : Current(networkOf, staffScope(school))
  /\ \A pu \in PlatformUsers : Current(networkOf, platformScope(pu))
<1> USE SessionsAssumption DEF SoundScope, InNetwork, Scope, PlatformUsers, NetworkOfUser
<1>1. ASSUME NEW school \in Schools PROVE SoundScope(staffScope(school))
  BY SMT DEF staffScope
<1>2. ASSUME NEW pu \in PlatformUsers PROVE SoundScope(platformScope(pu))
  BY SMT DEF platformScope
<1>3. ASSUME NEW pu \in PlatformUsers, NEW school \in Schools, mayEnter(pu, school)
      PROVE  SoundScope(schoolScope(pu, school)) /\ Current(networkOf, schoolScope(pu, school))
  <2>1. PICK r \in Scope : r = platformScope(pu)
    BY <1>2 DEF platformScope
  <2>2. pu # "superadmin" => pu \in Networks /\ networkOf[school] = pu
    BY <1>3 DEF mayEnter
  <2>3. "superadmin" \notin Networks
    OBVIOUS
  <2> DEFINE sc == schoolScope(pu, school)
  <2>4. /\ sc.user = pu /\ sc.school = school /\ sc.platform = TRUE /\ sc.super = (pu = "superadmin")
        /\ sc.network = NetworkOfUser(pu) /\ sc.impersonator = Nobody
    <3>1. /\ r.user = pu /\ r.platform = TRUE /\ r.super = (pu = "superadmin")
          /\ r.network = NetworkOfUser(pu) /\ r.impersonator = Nobody
      BY <2>1 DEF platformScope
    <3>2. sc = [r EXCEPT !.school = school]
      BY <2>1 DEF schoolScope
    <3> QED
      BY <3>1, <3>2
  <2>5. sc \in Scope
    BY <2>1, SMT DEF schoolScope
  <2>6. InNetwork(sc)
    <3>1. CASE pu = "superadmin"
      BY <2>3, <2>4, <3>1
    <3>2. CASE pu # "superadmin"
      BY <2>2, <2>4, <3>2
    <3> QED
      BY <3>1, <3>2
  <2>7. Current(networkOf, sc)
    BY <2>2, <2>3, <2>4 DEF Current
  <2> QED
    BY <2>4, <2>5, <2>6, <2>7
<1>4. ASSUME NEW school \in Schools PROVE Current(networkOf, staffScope(school))
  BY DEF Current, staffScope
<1>5. ASSUME NEW pu \in PlatformUsers PROVE Current(networkOf, platformScope(pu))
  BY DEF Current, platformScope
<1> QED
  BY <1>1, <1>2, <1>3, <1>4, <1>5

\* Whoever may impersonate in a school gets a sound scope there.
LEMMA ImpersonatedScopes ==
  ASSUME NEW sc, SoundScope(sc), NEW school \in Schools, mayImpersonate(sc, school)
  PROVE  SoundScope(impersonatedScope(sc.user, school)) /\ Current(networkOf, impersonatedScope(sc.user, school))
<1>1. /\ sc.platform /\ sc.user \in PlatformUsers /\ sc.super = (sc.user = "superadmin")
      /\ sc.network = NetworkOfUser(sc.user)
      /\ sc.super \/ (networkOf[school] # Nobody /\ networkOf[school] = sc.network)
  BY DEF mayImpersonate, SoundScope
<1> DEFINE im == impersonatedScope(sc.user, school)
<1>2. PICK r \in Scope : r = staffScope(school)
  BY SessionsAssumption DEF staffScope, Scope
<1>3. im = [r EXCEPT !.network = NetworkOfUser(sc.user), !.impersonator = sc.user]
  BY <1>2 DEF impersonatedScope
<1>4. "superadmin" \notin Networks /\ "staff" \notin Networks
  BY SessionsAssumption
<1>5. sc.user # "superadmin" => sc.user \in Networks /\ networkOf[school] = sc.user
  BY <1>1 DEF PlatformUsers, NetworkOfUser
<1>6. /\ im.user = "staff" /\ im.school = school /\ im.platform = FALSE /\ im.super = FALSE
      /\ im.network = NetworkOfUser(sc.user) /\ im.impersonator = sc.user
      /\ im \in Scope
  <2>1. /\ r.user = "staff" /\ r.school = school /\ r.platform = FALSE /\ r.super = FALSE
    BY <1>2 DEF staffScope
  <2>2. PICK n \in Networks \cup {Nobody}, u \in PlatformUsers : n = NetworkOfUser(sc.user) /\ u = sc.user
    BY <1>1 DEF PlatformUsers, NetworkOfUser
  <2>3. im = [r EXCEPT !.network = n, !.impersonator = u]
    BY <1>3, <2>2
  <2> HIDE DEF im
  <2>4. /\ im.user = r.user /\ im.school = r.school /\ im.platform = r.platform /\ im.super = r.super
        /\ im.network = n /\ im.impersonator = u
    BY <2>3 DEF Scope
  <2>5. im \in Scope
    <3>1. [r EXCEPT !.network = n] \in Scope
      BY DEF Scope
    <3>2. im = [[r EXCEPT !.network = n] EXCEPT !.impersonator = u]
      BY <2>3
    <3> QED
      BY <3>1, <3>2 DEF Scope
  <2> QED
    BY <2>1, <2>2, <2>4, <2>5
<1> HIDE DEF im
<1>7. InNetwork(im)
  BY <1>4, <1>5, <1>6 DEF InNetwork, NetworkOfUser
<1>8. Current(networkOf, im)
  BY <1>4, <1>5, <1>6 DEF Current
<1> QED
  BY <1>6, <1>7, <1>8 DEF SoundScope, im

\* No session at the start.
LEMMA SessionsBegin == SessionsInit => SessionsInv
  BY SMT DEF SessionsInit, SessionsInv, SessionsTypeOK, ChainsKept, ScopesKept, ScopesCurrent, Idle,
     TokensOf, Refreshing, Unused, Of, Pending

\* A session that begins with a sound scope.
LEMMA IssueKeeps ==
  ASSUME SessionsInv, NEW sc, SoundScope(sc), NEW stale \in BOOLEAN, Issue(sc, stale),
         stale \/ Current(networkOf, sc),
         req' \in [Workers -> RefreshRequest \cup EntryRequest \cup {NoRequest}],
         \A v \in Workers : Pending(v, "refresh")' \/ Pending(v, "refresh") => req'[v] = req[v],
         \A v \in Workers : Pending(v, "enter")' => Pending(v, "enter") /\ req'[v] = req[v]
  PROVE  SessionsInv'
<1> DEFINE new == FreshTokens(Workers)
           begun == {s \in SessionIds : scopeOf[s] # Nobody}
<1>1. PICK s0 \in SessionIds, t0 \in Tokens :
         /\ scopeOf[s0] = Nobody /\ refreshToken[t0] = Nobody
         /\ refreshToken' = [refreshToken EXCEPT ![t0] = [session |-> s0, scope |-> sc]]
         /\ scopeOf' = [scopeOf EXCEPT ![s0] = sc]
         /\ outdated' = IF stale THEN outdated \cup {s0} ELSE outdated
         /\ UNCHANGED <<networkOf, ended, crossed>>
  <2>1. SessionIds \ begun # {} /\ new # {}
    BY DEF Issue
  <2>2. AnyOf(SessionIds \ begun) \in SessionIds \ begun /\ AnyOf(new) \in new
    BY <2>1, AnyOfIn
  <2>3. /\ refreshToken' = [refreshToken EXCEPT ![AnyOf(new)] = [session |-> AnyOf(SessionIds \ begun), scope |-> sc]]
        /\ scopeOf' = [scopeOf EXCEPT ![AnyOf(SessionIds \ begun)] = sc]
        /\ outdated' = IF stale THEN outdated \cup {AnyOf(SessionIds \ begun)} ELSE outdated
        /\ UNCHANGED <<networkOf, ended, crossed>>
    BY DEF Issue
  <2> QED
    BY <2>2, <2>3 DEF Unused, FreshTokens
<1> USE DEF SessionsInv
<1>2. SessionsTypeOK'
  BY <1>1 DEF SessionsTypeOK, SoundScope
<1>3. \A s \in SessionIds : /\ Refreshing(s)' = Refreshing(s)
                            /\ \A v \in Refreshing(s) : req'[v] = req[v]
  BY Zenon DEF Refreshing, Pending
<1>4. TokensOf(s0) = {} /\ Refreshing(s0) = {} /\ s0 \notin ended
  BY <1>1 DEF ScopesKept
<1>5. /\ TokensOf(s0)' \subseteq {t0}
      /\ \A s \in SessionIds : s # s0 => TokensOf(s)' = TokensOf(s)
      /\ \A s \in SessionIds : \A t \in TokensOf(s) : refreshToken'[t] = refreshToken[t]
      /\ refreshToken'[t0].scope = sc
  BY <1>1, <1>4, SMT DEF TokensOf, Unused, Of, SessionsTypeOK
<1>6. scopeOf'[s0] = sc /\ sc # Nobody /\ \A s \in SessionIds : s # s0 => scopeOf'[s] = scopeOf[s]
  BY <1>1, SessionsAssumption DEF SessionsTypeOK, SoundScope
<1>7. ChainsKept'
  BY <1>1, <1>3, <1>4, <1>5 DEF ChainsKept
<1>8. ScopesKept'
  BY <1>1, <1>3, <1>4, <1>5, <1>6 DEF ScopesKept
<1>9. ScopesCurrent'
  BY <1>1, <1>6 DEF ScopesCurrent, Current
<1> QED
  BY <1>2, <1>7, <1>8, <1>9

\* The sign-ins that depend on no parent.
LEMMA SignInsKeep ==
  ASSUME SessionsInv,
         loginAsTenant \/ loginAsPlatformUser \/ \E from \in SessionIds : stopImpersonation(from)
  PROVE  SessionsInv'
<1>1. ASSUME NEW sc, SoundScope(sc), Current(networkOf, sc), SignIn(sc) PROVE SessionsInv'
  <2>1. req' = req /\ Issue(sc, FALSE)
    BY <1>1 DEF SignIn
  <2>2. req' \in [Workers -> RefreshRequest \cup EntryRequest \cup {NoRequest}]
    BY <2>1 DEF SessionsInv, SessionsTypeOK
  <2> QED
    BY <1>1, <2>1, <2>2, IssueKeeps DEF Pending
<1>2. CASE loginAsTenant
  BY <1>1, <1>2, SignInScopes DEF loginAsTenant
<1>3. CASE loginAsPlatformUser
  BY <1>1, <1>3, SignInScopes DEF loginAsPlatformUser
<1>4. ASSUME NEW from \in SessionIds, stopImpersonation(from) PROVE SessionsInv'
  <2>1. scopeOf[from].impersonator \in PlatformUsers
    BY <1>4 DEF stopImpersonation, SessionsInv, SessionsTypeOK, Scope
  <2> QED
    BY <1>1, <1>4, <2>1, SignInScopes DEF stopImpersonation
<1> QED
  BY <1>2, <1>3, <1>4

\* A school that is entered: first its parent is read, then the session begins with what was read.
LEMMA EntriesKeep ==
  ASSUME SessionsInv, NEW w \in Workers,
         \/ \E pu \in PlatformUsers, school \in Schools : loginNetworkAdminIntoSchool(w, pu, school)
         \/ \E from \in SessionIds, school \in Schools : impersonate(w, from, school)
         \/ StoreEntry(w)
  PROVE  SessionsInv'
<1>1. ASSUME NEW sc, SoundScope(sc), Current(networkOf, sc), BeginEntry(w, sc) PROVE SessionsInv'
  <2> USE DEF SessionsInv
  <2> DEFINE q == [op |-> "enter", scope |-> sc, outdated |-> FALSE]
  <2>1. /\ req[w] = NoRequest /\ req' = [req EXCEPT ![w] = q]
        /\ UNCHANGED <<networkOf, refreshToken, scopeOf, ended, crossed, outdated>>
    BY <1>1 DEF BeginEntry, Begin
  <2>2. q \in EntryRequest
    BY <1>1 DEF SoundScope, EntryRequest
  <2>3. SessionsTypeOK'
    BY <2>1, <2>2 DEF SessionsTypeOK
  <2>4. \A v \in Workers : req'[v] = IF v = w THEN q ELSE req[v]
    BY <2>1 DEF SessionsTypeOK
  <2>5. \A v \in Workers : Pending(v, "refresh")' => Pending(v, "refresh") /\ req'[v] = req[v]
    BY <2>4 DEF Pending
  <2>6. ChainsKept' /\ ScopesKept'
    BY <2>1, <2>5, ChainsUntouched
  <2>7. ScopesCurrent'
    BY <1>1, <2>1, <2>4 DEF ScopesCurrent, Current, Pending
  <2> QED
    BY <2>3, <2>6, <2>7
<1>2. ASSUME NEW pu \in PlatformUsers, NEW school \in Schools, loginNetworkAdminIntoSchool(w, pu, school)
      PROVE  SessionsInv'
  BY <1>1, <1>2, SignInScopes DEF loginNetworkAdminIntoSchool
<1>3. ASSUME NEW from \in SessionIds, NEW school \in Schools, impersonate(w, from, school)
      PROVE  SessionsInv'
  <2>1. SoundScope(scopeOf[from]) /\ mayImpersonate(scopeOf[from], school)
    BY <1>3 DEF impersonate, SessionsInv, ScopesKept
  <2> QED
    BY <1>1, <1>3, <2>1, ImpersonatedScopes DEF impersonate
<1>4. CASE StoreEntry(w)
  <2> DEFINE sc == req[w].scope
             stale == req[w].outdated
  <2>1. Pending(w, "enter") /\ Issue(sc, stale) /\ req' = [req EXCEPT ![w] = NoRequest]
    BY <1>4 DEF StoreEntry, Done
  <2>2. SoundScope(sc) /\ (stale \/ Current(networkOf, sc))
    BY <2>1 DEF SessionsInv, ScopesCurrent
  <2>3. stale \in BOOLEAN
    BY <2>1 DEF Pending, SessionsInv, SessionsTypeOK, RefreshRequest, EntryRequest
  <2>4. /\ req' \in [Workers -> RefreshRequest \cup EntryRequest \cup {NoRequest}]
        /\ \A v \in Workers : req'[v] = IF v = w THEN NoRequest ELSE req[v]
    BY <2>1 DEF SessionsInv, SessionsTypeOK
  <2>5. /\ \A v \in Workers : Pending(v, "refresh")' \/ Pending(v, "refresh") => req'[v] = req[v]
        /\ \A v \in Workers : Pending(v, "enter")' => Pending(v, "enter") /\ req'[v] = req[v]
    BY <2>1, <2>4 DEF Pending
  <2> HIDE DEF sc, stale
  <2> QED
    BY <2>1, <2>2, <2>3, <2>4, <2>5, IssueKeeps
<1> QED
  BY <1>2, <1>3, <1>4

\* A school that changes its parent makes outdated what depends on it.
LEMMA MovesKeep ==
  ASSUME SessionsInv, NEW school \in Schools, NEW parent \in Networks \cup {Nobody},
         moveSchool(school, parent)
  PROVE  SessionsInv'
<1> USE DEF SessionsInv
<1> DEFINE Touches(sc) == sc.school = school /\ sc.network # Nobody
<1>1. /\ networkOf' = [networkOf EXCEPT ![school] = parent]
      /\ outdated' = outdated \cup {s \in SessionIds : scopeOf[s] # Nobody /\ Touches(scopeOf[s])}
      /\ req' = [w \in Workers |-> IF Pending(w, "enter") /\ Touches(req[w].scope)
                                   THEN [req[w] EXCEPT !.outdated = TRUE] ELSE req[w]]
      /\ UNCHANGED <<refreshToken, scopeOf, ended, crossed>>
  BY DEF moveSchool
<1>2. \A w \in Workers : Pending(w, "enter") => req[w] \in EntryRequest
  BY DEF Pending, SessionsTypeOK, RefreshRequest
<1>3. \A w \in Workers : req'[w] \in RefreshRequest \cup EntryRequest \cup {NoRequest}
  BY <1>1, <1>2 DEF SessionsTypeOK, EntryRequest
<1>4. SessionsTypeOK'
  BY <1>1, <1>3 DEF SessionsTypeOK
<1>5. \A w \in Workers : Pending(w, "refresh") \/ Pending(w, "refresh")' => req'[w] = req[w]
  BY <1>1, <1>2 DEF Pending, EntryRequest
<1>6. \A w \in Workers : Pending(w, "enter")' =>
         /\ Pending(w, "enter") /\ req'[w].scope = req[w].scope
         /\ req'[w].outdated = (req[w].outdated \/ Touches(req[w].scope))
  <2> TAKE w \in Workers
  <2>1. CASE Pending(w, "enter") /\ Touches(req[w].scope)
    <3>1. req[w] \in EntryRequest /\ req'[w] = [req[w] EXCEPT !.outdated = TRUE]
      BY <1>1, <1>2, <2>1
    <3> QED
      BY <2>1, <3>1 DEF EntryRequest
  <2>2. CASE ~(Pending(w, "enter") /\ Touches(req[w].scope))
    <3>1. req'[w] = req[w]
      BY <1>1, <2>2
    <3>2. Pending(w, "enter")' => req[w].outdated \in BOOLEAN /\ Pending(w, "enter")
      BY <1>2, <3>1 DEF Pending, EntryRequest
    <3> QED
      BY <2>2, <3>1, <3>2, Zenon
  <2> QED
    BY <2>1, <2>2
<1>7. \A w \in Workers : Pending(w, "refresh")' => Pending(w, "refresh")
  BY <1>5 DEF Pending
<1>8. ChainsKept' /\ ScopesKept'
  BY <1>1, <1>5, <1>7, ChainsUntouched
<1>9. ASSUME NEW sc, SoundScope(sc), Current(networkOf, sc), ~Touches(sc) PROVE Current(networkOf', sc)
  <2> DEFINE actor == IF sc.impersonator # Nobody THEN sc.impersonator ELSE sc.user
  <2>1. SUFFICES ASSUME sc.school # Nobody, actor \in Networks PROVE networkOf'[sc.school] = actor
    BY DEF Current
  <2>2. sc.network # Nobody
    BY <1>9, <2>1, SessionsAssumption DEF SoundScope, InNetwork
  <2>3. sc.school # school
    BY <1>9, <2>2
  <2>4. sc.school \in Schools
    BY <1>9, <2>1 DEF SoundScope, Scope
  <2>5. networkOf'[sc.school] = networkOf[sc.school]
    BY <1>1, <2>3, <2>4 DEF SessionsTypeOK
  <2> QED
    BY <1>9, <2>1, <2>5 DEF Current
<1> HIDE DEF Touches
<1>10. ScopesCurrent'
  <2>1. ASSUME NEW s \in SessionIds, s \notin outdated', scopeOf'[s] # Nobody PROVE Current(networkOf', scopeOf'[s])
    <3>1. scopeOf'[s] = scopeOf[s] /\ s \notin outdated /\ ~Touches(scopeOf[s])
      BY <1>1, <2>1
    <3>2. SoundScope(scopeOf[s]) /\ Current(networkOf, scopeOf[s])
      BY <2>1, <3>1 DEF ScopesKept, ScopesCurrent
    <3>3. Current(networkOf', scopeOf[s])
      BY <1>1, <1>9, <3>1, <3>2 DEF Current
    <3> QED
      BY <3>1, <3>3 DEF Current
  <2>2. ASSUME NEW w \in Workers, Pending(w, "enter")'
        PROVE  SoundScope(req'[w].scope) /\ (req'[w].outdated \/ Current(networkOf', req'[w].scope))
    <3> DEFINE sc == req[w].scope
    <3>1. SoundScope(sc) /\ (req[w].outdated \/ Current(networkOf, sc)) /\ req'[w].scope = sc
          /\ (req'[w].outdated = (req[w].outdated \/ Touches(sc)))
      BY <1>6, <2>2 DEF ScopesCurrent
    <3> HIDE DEF sc
    <3>2. req'[w].outdated \/ Current(networkOf', sc)
      BY <1>9, <3>1
    <3> QED
      BY <3>1, <3>2 DEF Current, SoundScope, InNetwork
  <2> QED
    BY <2>1, <2>2 DEF ScopesCurrent, SoundScope, InNetwork, Current
<1> QED
  BY <1>4, <1>8, <1>10

\* A refresh reads the token, deletes it and saves another with the same scope: two that read one
\* token have crossed.
LEMMA RefreshesKeep ==
  ASSUME SessionsInv, NEW w \in Workers,
         (\E t \in Tokens : BeginRefresh(w, t)) \/ DeleteToken(w) \/ SaveToken(w) \/ LoseSignIn(w)
  PROVE  SessionsInv'
<1> USE DEF SessionsInv
<1>t. /\ \A v \in Workers : Pending(v, "refresh") =>
            /\ req[v] \in RefreshRequest /\ req[v].step \in {"delete", "save"}
            /\ req[v].token \in Tokens /\ req[v].session \in SessionIds
      /\ \A t \in Tokens : ~Unused(t) => Of(t) \in SessionIds
      /\ DOMAIN req = Workers /\ DOMAIN refreshToken = Tokens
  BY SMT DEF SessionsTypeOK, RefreshRequest, EntryRequest, Unused, Of, Pending
<1>1. ASSUME NEW t \in Tokens, BeginRefresh(w, t) PROVE SessionsInv'
  <2> DEFINE q == [op |-> "refresh", step |-> "delete", token |-> t, session |-> Of(t),
                   scope |-> refreshToken[t].scope]
  <2>1. /\ ~Unused(t) /\ req[w] = NoRequest /\ req' = [req EXCEPT ![w] = q]
        /\ crossed' = IF Refreshing(Of(t)) = {} THEN crossed ELSE crossed \cup {Of(t)}
        /\ UNCHANGED <<networkOf, refreshToken, scopeOf, ended, outdated>>
    BY <1>1 DEF BeginRefresh, Begin
  <2>2. refreshToken[t] \in [session: SessionIds, scope: Scope]
    BY <2>1 DEF SessionsTypeOK, Unused
  <2>3a. q \in RefreshRequest
    BY <2>2 DEF RefreshRequest, Of
  <2>3. SessionsTypeOK'
    BY <1>t, <2>1, <2>3a DEF SessionsTypeOK
  <2>4. PICK s0 \in SessionIds : s0 = Of(t)
    BY <1>t, <2>1
  <2>5. t \in TokensOf(s0) /\ refreshToken[t].scope = scopeOf[s0] /\ scopeOf[s0] # Nobody
    BY <2>1, <2>4 DEF TokensOf, ScopesKept
  <2>6. \A v \in Workers : req'[v] = IF v = w THEN q ELSE req[v]
    BY <1>t, <2>1
  <2>7. /\ \A s \in SessionIds : TokensOf(s)' = TokensOf(s)
        /\ \A s \in SessionIds : s # s0 => Refreshing(s)' = Refreshing(s)
        /\ Refreshing(s0)' \subseteq Refreshing(s0) \cup {w}
        /\ \A s \in SessionIds : \A v \in Refreshing(s) : v # w /\ req'[v] = req[v]
    BY <2>1, <2>4, <2>6 DEF TokensOf, Unused, Of, Refreshing, Pending
  <2>8. req'[w].step = "delete" /\ req'[w].token = t /\ req'[w].scope = refreshToken[t].scope
    BY <2>6
  <2>9. crossed' = IF Refreshing(s0) = {} THEN crossed ELSE crossed \cup {s0}
    BY <2>1, <2>4
  <2>10. ChainsKept'
    <3> SUFFICES ASSUME NEW s \in SessionIds, s \notin crossed'
                 PROVE  /\ \A x, u \in TokensOf(s) : x = u
                        /\ \A v, x \in Refreshing(s)' : v = x
                        /\ \A v \in Refreshing(s)' :
                              TokensOf(s) \subseteq IF req'[v].step = "save" THEN {} ELSE {req'[v].token}
                        /\ s \in ended => TokensOf(s) = {} /\ Refreshing(s)' = {}
      BY <2>1, <2>7 DEF ChainsKept
    <3>1. CASE s = s0
      <4>1. Refreshing(s)' \subseteq {w} /\ s \notin crossed
        BY <2>7, <2>9, <3>1
      <4>2. (\A x, u \in TokensOf(s) : x = u) /\ s \notin ended
        BY <2>5, <3>1, <4>1 DEF ChainsKept
      <4> QED
        BY <2>5, <2>8, <3>1, <4>1, <4>2
    <3>2. CASE s # s0
      BY <2>7, <2>9, <3>2 DEF ChainsKept
    <3> QED
      BY <3>1, <3>2
  <2>11. ScopesKept'
    BY <2>1, <2>5, <2>7, <2>8 DEF ScopesKept
  <2>12. \A v \in Workers : Pending(v, "enter")' => Pending(v, "enter") /\ req'[v] = req[v]
    BY <2>6 DEF Pending
  <2>13. ScopesCurrent'
    BY <2>1, <2>12, CurrentKept
  <2> QED
    BY <2>3, <2>10, <2>11, <2>13
<1>2. ASSUME DeleteToken(w) PROVE SessionsInv'
  <2>1. /\ Pending(w, "refresh") /\ req[w].step = "delete"
        /\ refreshToken' = [refreshToken EXCEPT ![req[w].token] = Nobody]
        /\ req' = [req EXCEPT ![w].step = "save"]
        /\ UNCHANGED <<networkOf, scopeOf, ended, crossed, outdated>>
    BY <1>2 DEF DeleteToken, At, Goto, Pending
  <2>2a. [req[w] EXCEPT !.step = "save"] \in RefreshRequest
    BY <1>t, <2>1 DEF RefreshRequest
  <2>2. SessionsTypeOK'
    BY <1>t, <2>1, <2>2a DEF SessionsTypeOK
  <2>e. \A v \in Workers : req'[v] = IF v = w THEN [req[w] EXCEPT !.step = "save"] ELSE req[v]
    BY <1>t, <2>1
  <2>3. \A v \in Workers : Pending(v, "refresh") =>
           /\ req'[v].op = req[v].op /\ req'[v].session = req[v].session /\ req'[v].scope = req[v].scope
           /\ req'[v].token = req[v].token
           /\ IF v = w THEN req'[v].step = "save" ELSE req'[v].step = req[v].step
    BY <1>t, <2>1, <2>e, SMT DEF RefreshRequest
  <2>4. /\ \A v \in Workers : Pending(v, "refresh")' => Pending(v, "refresh")
        /\ \A v \in Workers : Pending(v, "enter")' => Pending(v, "enter") /\ req'[v] = req[v]
    <3>1. [req[w] EXCEPT !.step = "save"].op = "refresh"
      BY <1>t, <2>1 DEF RefreshRequest
    <3> QED
      BY <2>1, <2>e, <3>1 DEF Pending
  <2>5. /\ \A s \in SessionIds : TokensOf(s)' \subseteq TokensOf(s) \ {req[w].token}
        /\ \A t \in Tokens : t # req[w].token => refreshToken'[t] = refreshToken[t]
    BY <1>t, <2>1 DEF TokensOf, Unused, Of
  <2>6. \A s \in SessionIds : Refreshing(s)' \subseteq Refreshing(s)
    BY <2>3, <2>4 DEF Refreshing
  <2>7. ASSUME NEW s \in SessionIds, NEW v \in Refreshing(s)'
        PROVE  v \in Refreshing(s) /\ req'[v].token = req[v].token /\ req'[v].scope = req[v].scope
               /\ IF v = w THEN req'[v].step = "save" ELSE req'[v].step = req[v].step
    BY <2>3, <2>4, <2>6 DEF Refreshing
  <2>8. ChainsKept'
    <3> SUFFICES ASSUME NEW s \in SessionIds, s \notin crossed
                 PROVE  /\ \A x, u \in TokensOf(s)' : x = u
                        /\ \A v, x \in Refreshing(s)' : v = x
                        /\ \A v \in Refreshing(s)' :
                              TokensOf(s)' \subseteq IF req'[v].step = "save" THEN {} ELSE {req'[v].token}
                        /\ s \in ended => TokensOf(s)' = {} /\ Refreshing(s)' = {}
      BY <2>1 DEF ChainsKept
    <3>1. ASSUME NEW v \in Refreshing(s)'
          PROVE  TokensOf(s)' \subseteq IF req'[v].step = "save" THEN {} ELSE {req'[v].token}
      <4>1. TokensOf(s) \subseteq IF req[v].step = "save" THEN {} ELSE {req[v].token}
        BY <2>7 DEF ChainsKept
      <4> QED
        BY <2>1, <2>5, <2>7, <4>1
    <3> QED
      BY <2>5, <2>6, <3>1 DEF ChainsKept
  <2>9. ScopesKept'
    <3> SUFFICES ASSUME NEW s \in SessionIds
                 PROVE  /\ \A t \in TokensOf(s)' : refreshToken'[t].scope = scopeOf[s]
                        /\ \A v \in Refreshing(s)' : req'[v].scope = scopeOf[s]
                        /\ scopeOf[s] = Nobody => TokensOf(s)' = {} /\ Refreshing(s)' = {} /\ s \notin ended
                        /\ scopeOf[s] # Nobody => SoundScope(scopeOf[s])
      BY <2>1 DEF ScopesKept
    <3>1. \A t \in TokensOf(s)' : t \in TokensOf(s) /\ refreshToken'[t] = refreshToken[t]
      BY <2>5 DEF TokensOf
    <3> QED
      BY <2>5, <2>6, <2>7, <3>1 DEF ScopesKept
  <2>10. ScopesCurrent'
    BY <2>1, <2>4, CurrentKept
  <2> QED
    BY <2>2, <2>8, <2>9, <2>10
<1>3. ASSUME SaveToken(w) PROVE SessionsInv'
  <2>1. PICK t0 \in Tokens, s0 \in SessionIds :
           /\ refreshToken[t0] = Nobody /\ s0 = req[w].session
           /\ req[w] # NoRequest /\ req[w].op = "refresh" /\ req[w].step = "save"
           /\ refreshToken' = [refreshToken EXCEPT ![t0] = [session |-> s0, scope |-> req[w].scope]]
           /\ req' = [req EXCEPT ![w] = NoRequest]
           /\ UNCHANGED <<networkOf, scopeOf, ended, crossed, outdated>>
    <3> DEFINE new == FreshTokens(Others(w))
    <3>1. /\ new # {} /\ req[w] # NoRequest /\ req[w].op = "refresh" /\ req[w].step = "save"
          /\ refreshToken' = [refreshToken EXCEPT ![AnyOf(new)] = [session |-> req[w].session, scope |-> req[w].scope]]
          /\ req' = [req EXCEPT ![w] = NoRequest]
          /\ UNCHANGED <<networkOf, scopeOf, ended, crossed, outdated>>
      BY <1>3 DEF SaveToken, At, Done
    <3>2. AnyOf(new) \in new
      BY <3>1, AnyOfIn
    <3> QED
      BY <1>t, <3>1, <3>2 DEF Unused, FreshTokens, Pending
  <2>2. SessionsTypeOK'
    <3>1. [session |-> s0, scope |-> req[w].scope] \in [session: SessionIds, scope: Scope]
      BY <1>t, <2>1 DEF Pending, RefreshRequest
    <3> QED
      BY <2>1, <3>1 DEF SessionsTypeOK
  <2>3. w \in Refreshing(s0)
    BY <2>1 DEF Refreshing, Pending
  <2>4. /\ \A s \in SessionIds : Refreshing(s)' \subseteq Refreshing(s) \ {w}
        /\ \A s \in SessionIds : \A v \in Refreshing(s)' : req'[v] = req[v]
    BY <1>t, <2>1 DEF Refreshing, Pending
  <2>5. /\ \A s \in SessionIds : s # s0 => TokensOf(s)' \subseteq TokensOf(s)
        /\ TokensOf(s0)' \subseteq TokensOf(s0) \cup {t0}
        /\ \A s \in SessionIds : \A t \in TokensOf(s)' : t # t0 => t \in TokensOf(s) /\ refreshToken'[t] = refreshToken[t]
        /\ refreshToken'[t0].scope = req[w].scope
        /\ \A s \in SessionIds : t0 \notin TokensOf(s)
    BY <1>t, <2>1 DEF TokensOf, Unused, Of
  <2>6. ChainsKept'
    <3> SUFFICES ASSUME NEW s \in SessionIds, s \notin crossed
                 PROVE  /\ \A x, u \in TokensOf(s)' : x = u
                        /\ \A v, x \in Refreshing(s)' : v = x
                        /\ \A v \in Refreshing(s)' :
                              TokensOf(s)' \subseteq IF req'[v].step = "save" THEN {} ELSE {req'[v].token}
                        /\ s \in ended => TokensOf(s)' = {} /\ Refreshing(s)' = {}
      BY <2>1 DEF ChainsKept
    <3>1. CASE s = s0
      BY <2>1, <2>3, <2>4, <2>5, <3>1 DEF ChainsKept
    <3>2. CASE s # s0
      BY <2>4, <2>5, <3>2 DEF ChainsKept
    <3> QED
      BY <3>1, <3>2
  <2>7. ScopesKept'
    <3>1. scopeOf[s0] # Nobody /\ req[w].scope = scopeOf[s0]
      BY <2>3 DEF ScopesKept
    <3>2. \A s \in SessionIds : \A t \in TokensOf(s)' : refreshToken'[t].scope = scopeOf[s]
      BY <2>1, <2>5, <3>1 DEF ScopesKept
    <3> QED
      BY <2>1, <2>4, <2>5, <3>1, <3>2 DEF ScopesKept
  <2>8. \A v \in Workers : Pending(v, "enter")' => Pending(v, "enter") /\ req'[v] = req[v]
    BY <1>t, <2>1 DEF Pending
  <2>9. ScopesCurrent'
    BY <2>1, <2>8, CurrentKept
  <2> QED
    BY <2>2, <2>6, <2>7, <2>9
<1>4. ASSUME LoseSignIn(w) PROVE SessionsInv'
  <2>1. req' = [req EXCEPT ![w] = NoRequest]
        /\ UNCHANGED <<networkOf, refreshToken, scopeOf, ended, crossed, outdated>>
    BY <1>4 DEF LoseSignIn, Done
  <2>2. SessionsTypeOK'
    BY <2>1 DEF SessionsTypeOK
  <2>3. \A op : \A v \in Workers : Pending(v, op)' => Pending(v, op) /\ req'[v] = req[v]
    BY <1>t, <2>1 DEF Pending
  <2>4. ChainsKept' /\ ScopesKept'
    BY <2>1, <2>3, ChainsUntouched
  <2>5. ScopesCurrent'
    BY <2>1, <2>3, CurrentKept
  <2> QED
    BY <2>2, <2>4, <2>5
<1> QED
  BY <1>1, <1>2, <1>3, <1>4

\* Tokens that are deleted, expire, or belong to a session that was forgotten.
LEMMA EndsKeep ==
  ASSUME SessionsInv,
         \/ \E t \in Tokens : logout(t) \/ Expire(t)
         \/ \E s \in SessionIds : Forget(s)
         \/ UNCHANGED sessionsVars
  PROVE  SessionsInv'
<1> USE DEF SessionsInv
<1>1. ASSUME NEW t \in Tokens, logout(t) \/ Expire(t) PROVE SessionsInv'
  <2>1. PICK s0 \in SessionIds : ~Unused(t) /\ s0 = Of(t)
    BY <1>1 DEF logout, Expire, SessionsTypeOK, Unused, Of
  <2>2. /\ refreshToken' = [refreshToken EXCEPT ![t] = Nobody] /\ UNCHANGED <<req, networkOf, scopeOf, outdated>>
        /\ \/ ended' = ended /\ crossed' = crossed
           \/ /\ ended' = ended \cup {s0}
              /\ crossed' = IF Refreshing(s0) = {} THEN crossed ELSE crossed \cup {s0}
    BY <1>1, <2>1 DEF logout, Expire
  <2>3. SessionsTypeOK'
    BY <2>2 DEF SessionsTypeOK
  <2>4. /\ \A s \in SessionIds : TokensOf(s)' = TokensOf(s) \ {t} /\ Refreshing(s)' = Refreshing(s)
        /\ \A x \in Tokens : x # t => refreshToken'[x] = refreshToken[x]
        /\ t \in TokensOf(s0)
    BY <2>1, <2>2 DEF TokensOf, Unused, Of, Refreshing, Pending, SessionsTypeOK
  <2>5. scopeOf[s0] # Nobody
    BY <2>4 DEF ScopesKept
  <2>6. ChainsKept'
    BY <2>2, <2>4 DEF ChainsKept
  <2>7. ScopesKept'
    <3>1. \A s \in SessionIds : \A x \in TokensOf(s)' : x \in TokensOf(s) /\ refreshToken'[x] = refreshToken[x]
      BY <2>4 DEF TokensOf
    <3> QED
      BY <2>2, <2>4, <2>5, <3>1 DEF ScopesKept
  <2>8. ScopesCurrent'
    BY <2>2, CurrentKept DEF Pending
  <2> QED
    BY <2>3, <2>6, <2>7, <2>8
<1>2. ASSUME NEW s0 \in SessionIds, Forget(s0) PROVE SessionsInv'
  <2>1. /\ scopeOf' = [scopeOf EXCEPT ![s0] = Nobody]
        /\ ended' = ended \ {s0} /\ crossed' = crossed \ {s0} /\ outdated' = outdated \ {s0}
        /\ UNCHANGED <<req, networkOf, refreshToken>>
        /\ TokensOf(s0) = {} /\ Refreshing(s0) = {}
    BY <1>2 DEF Forget, TokensOf
  <2>2. SessionsTypeOK'
    BY <2>1 DEF SessionsTypeOK
  <2>3. \A s \in SessionIds : TokensOf(s)' = TokensOf(s) /\ Refreshing(s)' = Refreshing(s)
    BY <2>1 DEF TokensOf, Unused, Of, Refreshing, Pending
  <2>4. \A s \in SessionIds : scopeOf'[s] = IF s = s0 THEN Nobody ELSE scopeOf[s]
    BY <2>1 DEF SessionsTypeOK
  <2>5. ChainsKept'
    BY <2>1, <2>3 DEF ChainsKept
  <2>6. ScopesKept'
    BY <2>1, <2>3, <2>4 DEF ScopesKept
  <2>7. ScopesCurrent'
    BY <2>1, <2>4, CurrentKept DEF Pending
  <2> QED
    BY <2>2, <2>5, <2>6, <2>7
<1>3. CASE UNCHANGED sessionsVars
  <2>1. UNCHANGED <<req, networkOf, refreshToken, scopeOf, ended, crossed, outdated>>
    BY <1>3 DEF sessionsVars
  <2>2. SessionsTypeOK'
    BY <2>1 DEF SessionsTypeOK
  <2>3. \A op : \A v \in Workers : Pending(v, op)' => Pending(v, op) /\ req'[v] = req[v]
    BY <2>1 DEF Pending
  <2>4. ChainsKept' /\ ScopesKept'
    BY <2>1, <2>3, ChainsUntouched
  <2>5. ScopesCurrent'
    BY <2>1, <2>3, CurrentKept
  <2> QED
    BY <2>2, <2>4, <2>5
<1> QED
  BY <1>1, <1>2, <1>3

\* What the invariant says of chains and scopes is what SessionsSound says.
LEMMA SessionsImply ==
  ASSUME SessionsInv
  PROVE  SessionsSound
<1>1. ASSUME NEW s \in SessionIds, s \notin crossed
      PROVE  Cardinality(TokensOf(s)) + Cardinality({w \in Refreshing(s) : req[w].step = "save"}) <= 1
  <2> DEFINE saving == {w \in Refreshing(s) : req[w].step = "save"}
  <2>1. Cardinality(TokensOf(s)) \in {0, 1} /\ (TokensOf(s) = {} => Cardinality(TokensOf(s)) = 0)
    <3>1. \A t, u \in TokensOf(s) : t = u
      BY <1>1 DEF SessionsInv, ChainsKept
    <3> QED
      BY <3>1, AtMostOne
  <2>2. Cardinality(saving) \in {0, 1} /\ (saving = {} => Cardinality(saving) = 0)
    <3>1. \A v, w \in saving : v = w
      BY <1>1 DEF SessionsInv, ChainsKept
    <3> QED
      BY <3>1, AtMostOne
  <2>3. saving = {} \/ TokensOf(s) = {}
    BY <1>1 DEF SessionsInv, ChainsKept
  <2> HIDE DEF saving
  <2>4. Cardinality(TokensOf(s)) + Cardinality(saving) <= 1
    BY <2>1, <2>2, <2>3, SMT
  <2> QED
    BY <2>4 DEF saving
<1>2. SessionsRotate
  BY <1>1 DEF SessionsInv, SessionsRotate, ChainsKept, ScopesKept
<1>3. ScopesStayInNetwork
  <2> SUFFICES ASSUME NEW t \in Tokens, ~Unused(t)
               PROVE  /\ InNetwork(refreshToken[t].scope)
                      /\ Of(t) \in outdated \/ Current(networkOf, refreshToken[t].scope)
    BY DEF ScopesStayInNetwork, InNetwork, Current
  <2>1. PICK s \in SessionIds : t \in TokensOf(s) /\ s = Of(t)
    BY DEF SessionsInv, SessionsTypeOK, TokensOf, Unused, Of
  <2>2. refreshToken[t].scope = scopeOf[s] /\ SoundScope(scopeOf[s])
    BY <2>1 DEF SessionsInv, ScopesKept
  <2>3. scopeOf[s] # Nobody
    BY <2>1 DEF SessionsInv, ScopesKept
  <2> QED
    BY <2>1, <2>2, <2>3 DEF SoundScope, SessionsInv, ScopesCurrent
<1> QED
  BY <1>2, <1>3 DEF SessionsSound

\* Every step keeps the invariant.
LEMMA SessionsStep ==
  ASSUME SessionsInv, [SessionsNext]_sessionsVars
  PROVE  SessionsInv'
  BY SignInsKeep, EntriesKeep, MovesKeep, RefreshesKeep, EndsKeep DEF SessionsNext

\* A session has one live token, unless two requests refreshed it at once, and keeps its scope: a
\* foundation's user is in a school whose parent is that foundation, or was when it was entered.
THEOREM SessionsStaySound == SessionsSpec => []SessionsSound
  BY SessionsImply, SessionsBegin, SessionsStep, PTL DEF SessionsSpec

-----------------------------------------------------------------------------
(* Database clients *)

\* The clients that are connected, or will be at their first query, are those of the map; one
\* that a request holds is its schema's, or was given up.
ClientsHeld ==
    /\ IsFiniteSet(Cached) /\ Cardinality(Cached) <= MaxClients
    /\ \A s, x \in Cached : clients[s] = clients[x] => s = x
    /\ \A s \in Cached : pool[clients[s]] \in {"idle", "open"}
    /\ \A c \in ClientIds : pool[c] \in {"idle", "open"} => \E s \in Cached : clients[s] = c
    /\ \A w \in Workers : req[w] # NoRequest =>
          clients[req[w].schema] = req[w].client \/ pool[req[w].client] \in {"closing", "closed", "late"}

\* The inductive invariant of Clients.
ClientsInv == ClientsTypeOK /\ ClientsHeld

\* No client at the start.
LEMMA ClientsBegin == ClientsInit => ClientsInv
<1> SUFFICES ASSUME ClientsInit PROVE ClientsInv
  OBVIOUS
<1> USE ClientsAssumption
<1>1. ClientsTypeOK
  BY DEF ClientsInit, ClientsTypeOK, Idle
<1>2. Cached = {}
  BY DEF ClientsInit, Cached
<1>3. IsFiniteSet(Cached) /\ Cardinality(Cached) <= MaxClients
  BY <1>2, FS_EmptySet
<1> QED
  BY <1>1, <1>2, <1>3 DEF ClientsInv, ClientsHeld, ClientsInit, Idle

\* Every step keeps the invariant: a client is made only once there is room for it in the map, and
\* what is evicted is disconnected.
LEMMA ClientsStep ==
  ASSUME ClientsInv, [ClientsNext]_clientsVars
  PROVE  ClientsInv'
<1> USE DEF ClientsInv
<1>t. /\ DOMAIN req = Workers
      /\ \A v \in Workers : req[v] # NoRequest =>
            req[v].op = "query" /\ req[v].schema \in Schemas /\ req[v].client \in ClientIds
      /\ \A s \in Schemas : s \in Cached <=> clients[s] # NoClient
      /\ \A s \in Cached : s \in Schemas /\ clients[s] \in ClientIds
      /\ NoClient \notin ClientIds /\ MaxClients \in Nat \ {0}
  BY ClientsAssumption DEF ClientsTypeOK, Cached
<1>b. ASSUME NEW w \in Workers, NEW s \in Schemas, NEW c \in ClientIds,
             Begin(w, [op |-> "query", schema |-> s, client |-> c])
      PROVE  /\ req[w] = NoRequest
             /\ \A v \in Workers : req'[v] = IF v = w THEN [op |-> "query", schema |-> s, client |-> c] ELSE req[v]
             /\ req' \in [Workers -> [op: {"query"}, schema: Schemas, client: ClientIds] \cup {NoRequest}]
  BY <1>b, <1>t DEF Begin, ClientsTypeOK
<1>1. ASSUME NEW w \in Workers, NEW s \in Schemas, Hit(w, s) PROVE ClientsInv'
  <2>1. /\ s \in Cached /\ lastAccess' = [lastAccess EXCEPT ![s] = now]
        /\ Begin(w, [op |-> "query", schema |-> s, client |-> clients[s]])
        /\ UNCHANGED <<clients, pool, now>>
    BY <1>1 DEF Hit
  <2>2. ClientsTypeOK'
    BY <1>t, <1>b, <2>1 DEF ClientsTypeOK
  <2>3. Cached' = Cached
    BY <2>1 DEF Cached
  <2>4. \A v \in Workers : req'[v] = IF v = w THEN [op |-> "query", schema |-> s, client |-> clients[s]] ELSE req[v]
    BY <1>t, <1>b, <2>1
  <2>5. ClientsHeld'
    BY <2>1, <2>3, <2>4 DEF ClientsHeld
  <2> QED
    BY <2>2, <2>5
<1>2. ASSUME NEW w \in Workers, NEW s \in Schemas, Miss(w, s) PROVE ClientsInv'
  <2>0. PICK c \in ClientIds : pool[c] = "unused" /\ c = AnyOf(UnusedClients)
    BY <1>2, AnyOfIn DEF Miss, UnusedClients
  <2>1. /\ s \notin Cached /\ lastAccess' = [lastAccess EXCEPT ![s] = now]
        /\ Begin(w, [op |-> "query", schema |-> s, client |-> c])
        /\ now' = now
    BY <1>2, <2>0 DEF Miss
  <2>2. PICK v \in (IF Victims = {} THEN {s} ELSE Victims) :
           /\ clients' = [clients EXCEPT ![v] = NoClient, ![s] = c]
           /\ pool' = [(IF v = s THEN pool ELSE Evicted(clients[v])) EXCEPT ![c] = "idle"]
    BY <1>2, <2>0 DEF Miss
  <2>3. /\ \A x \in Workers : req'[x] = IF x = w THEN [op |-> "query", schema |-> s, client |-> c] ELSE req[x]
        /\ req' \in [Workers -> [op: {"query"}, schema: Schemas, client: ClientIds] \cup {NoRequest}]
    BY <1>b, <2>0, <2>1
  <2>4. (v = s /\ Victims = {}) \/ (v \in Cached /\ v # s)
    <3>1. CASE Victims = {}
      BY <2>2, <3>1
    <3>2. CASE Victims # {}
      <4>1. v \in Victims
        BY <2>2, <3>2
      <4> QED
        BY <2>1, <4>1 DEF Victims, LeastRecent
    <3> QED
      BY <3>1, <3>2
  <2>5. v \in Schemas
    BY <1>t, <2>4
  <2>6. /\ \A x \in Schemas : clients'[x] = IF x = s THEN c ELSE IF x = v THEN NoClient ELSE clients[x]
        /\ clients' \in [Schemas -> ClientIds \cup {NoClient}]
    BY <2>0, <2>2, <2>5 DEF ClientsTypeOK
  <2>7. /\ pool' \in [ClientIds -> {"unused", "idle", "open", "closing", "closed", "late"}]
        /\ \A d \in ClientIds : pool'[d] =
              IF d = c THEN "idle"
              ELSE IF v # s /\ d = clients[v] THEN (IF pool[d] = "open" THEN "closing" ELSE "closed")
              ELSE pool[d]
    <3>1. CASE v = s
      BY <2>0, <2>2, <3>1 DEF ClientsTypeOK
    <3>2. CASE v # s
      BY <1>t, <2>0, <2>2, <2>4, <3>2 DEF ClientsTypeOK, Evicted
    <3> QED
      BY <3>1, <3>2
  <2>8. Cached' = (Cached \ {v}) \cup {s}
    BY <1>t, <2>0, <2>1, <2>4, <2>6 DEF Cached
  <2>9. IsFiniteSet(Cached)' /\ (Cardinality(Cached) <= MaxClients)'
    <3>1. IsFiniteSet(Cached) /\ Cardinality(Cached) <= MaxClients /\ Cardinality(Cached) \in Nat
      BY FS_CardinalityType DEF ClientsHeld
    <3>2. CASE v \in Cached
      <4>1. IsFiniteSet(Cached \ {v}) /\ Cardinality(Cached \ {v}) = Cardinality(Cached) - 1
        BY <3>1, <3>2, FS_RemoveElement
      <4>2. s \notin Cached \ {v}
        BY <2>1
      <4>3. /\ IsFiniteSet((Cached \ {v}) \cup {s})
            /\ Cardinality((Cached \ {v}) \cup {s}) = Cardinality(Cached \ {v}) + 1
        BY <4>1, <4>2, FS_AddElement
      <4>4. Cardinality((Cached \ {v}) \cup {s}) = Cardinality(Cached)
        BY <3>1, <4>1, <4>3
      <4> QED
        BY <2>8, <3>1, <4>3, <4>4
    <3>3. CASE v \notin Cached
      <4>1. Victims = {} /\ v = s
        BY <2>4, <3>3
      <4>2. Cardinality(Cached) < MaxClients
        <5> SUFFICES ASSUME Cardinality(Cached) >= MaxClients PROVE FALSE
          BY <1>t, <3>1
        <5>1. LeastRecent = {}
          BY <4>1 DEF Victims
        <5>2. Cached # {}
          BY <1>t, FS_EmptySet
        <5> DEFINE times == {lastAccess[x] : x \in Cached}
        <5>3. times \in SUBSET Nat /\ times # {}
          BY <1>t, <5>2, ClientsAssumption DEF ClientsTypeOK
        <5>4. PICK m \in times : \A n \in times : m <= n
          BY <5>3, LeastNat
        <5>5. PICK x \in Cached : lastAccess[x] = m
          BY <5>4
        <5>6. x \in LeastRecent
          BY <5>4, <5>5 DEF LeastRecent
        <5> QED
          BY <5>1, <5>6
      <4>3. Cached' = Cached \cup {s}
        BY <2>1, <2>8, <4>1
      <4>4. IsFiniteSet(Cached \cup {s}) /\ Cardinality(Cached \cup {s}) = Cardinality(Cached) + 1
        BY <2>1, <3>1, FS_AddElement
      <4> QED
        BY <1>t, <3>1, <4>2, <4>3, <4>4
    <3> QED
      BY <3>2, <3>3
  <2>10. ClientsTypeOK'
    BY <2>1, <2>3, <2>6, <2>7 DEF ClientsTypeOK
  <2>11. \A x \in Cached : clients[x] # c
    BY <1>t, <2>0 DEF ClientsHeld
  <2>12. \A x, y \in Cached' : clients'[x] = clients'[y] => x = y
    BY <1>t, <2>6, <2>8, <2>11 DEF ClientsHeld
  <2>13. \A x \in Cached' : pool'[clients'[x]] \in {"idle", "open"}
    <3> SUFFICES ASSUME NEW x \in Cached, x # v PROVE pool'[clients[x]] \in {"idle", "open"}
      BY <1>t, <2>0, <2>1, <2>6, <2>7, <2>8
    <3>1. v # s => clients[x] # clients[v]
      BY <2>4 DEF ClientsHeld
    <3> QED
      BY <1>t, <2>7, <3>1 DEF ClientsHeld
  <2>14. \A d \in ClientIds : pool'[d] \in {"idle", "open"} => \E x \in Cached' : clients'[x] = d
    <3> SUFFICES ASSUME NEW d \in ClientIds, d # c, pool'[d] \in {"idle", "open"}
                 PROVE  \E x \in Cached' : clients'[x] = d
      BY <2>6, <2>8
    <3>1. pool[d] \in {"idle", "open"} /\ (v # s => d # clients[v])
      BY <2>7
    <3>2. PICK x \in Cached : clients[x] = d
      BY <3>1 DEF ClientsHeld
    <3>3. x # s /\ x # v
      BY <2>1, <2>4, <3>1, <3>2
    <3> QED
      BY <1>t, <2>6, <2>8, <3>2, <3>3
  <2>15. \A x \in Workers : req'[x] # NoRequest =>
            clients'[req'[x].schema] = req'[x].client \/ pool'[req'[x].client] \in {"closing", "closed", "late"}
    <3> SUFFICES ASSUME NEW x \in Workers, x # w, req[x] # NoRequest
                 PROVE  \/ clients'[req[x].schema] = req[x].client
                        \/ pool'[req[x].client] \in {"closing", "closed", "late"}
      BY <2>3, <2>6
    <3>1. clients[req[x].schema] = req[x].client \/ pool[req[x].client] \in {"closing", "closed", "late"}
      BY DEF ClientsHeld
    <3>2. req[x].schema \in Schemas /\ req[x].client \in ClientIds
      BY <1>t
    <3>3. CASE pool[req[x].client] \in {"closing", "closed", "late"}
      BY <2>0, <2>7, <3>2, <3>3
    <3>4. CASE clients[req[x].schema] = req[x].client
      <4>1. req[x].schema # s
        BY <1>t, <2>1, <3>2, <3>4
      <4>2. req[x].client # c
        BY <1>t, <2>11, <3>2, <3>4
      <4>3. CASE req[x].schema = v
        BY <2>7, <3>2, <3>4, <4>1, <4>2, <4>3
      <4>4. CASE req[x].schema # v
        BY <2>6, <3>2, <3>4, <4>1, <4>4
      <4> QED
        BY <4>3, <4>4
    <3> QED
      BY <3>1, <3>3, <3>4
  <2> QED
    BY <2>9, <2>10, <2>12, <2>13, <2>14, <2>15 DEF ClientsHeld
<1>3. ASSUME NEW w \in Workers, Query(w) PROVE ClientsInv'
  <2>1. PICK c \in ClientIds, s \in Schemas : req[w] # NoRequest /\ c = req[w].client /\ s = req[w].schema
    BY <1>3, <1>t DEF Query, Pending
  <2>2. /\ pool' = [pool EXCEPT ![c] = IF clients[s] = c THEN "open" ELSE "late"]
        /\ UNCHANGED <<req, clients, lastAccess, now>>
    BY <1>3, <2>1 DEF Query
  <2>3. /\ ClientsTypeOK'
        /\ \A d \in ClientIds : pool'[d] = IF d = c THEN (IF clients[s] = c THEN "open" ELSE "late") ELSE pool[d]
    BY <2>2 DEF ClientsTypeOK
  <2>4. Cached' = Cached
    BY <2>2 DEF Cached
  <2>5. clients[s] # c => \A x \in Cached : clients[x] # c
    <3> SUFFICES ASSUME clients[s] # c, NEW x \in Cached, clients[x] = c PROVE FALSE
      OBVIOUS
    <3>1. pool[c] \in {"closing", "closed", "late"}
      BY <2>1 DEF ClientsHeld
    <3> QED
      BY <3>1 DEF ClientsHeld
  <2>6. ClientsHeld'
    <3>1. \A x \in Cached : pool'[clients[x]] \in {"idle", "open"}
      BY <1>t, <2>3, <2>5 DEF ClientsHeld
    <3>2. \A d \in ClientIds : pool'[d] \in {"idle", "open"} => \E x \in Cached : clients[x] = d
      BY <1>t, <2>3, <2>5 DEF ClientsHeld
    <3>3. \A v \in Workers : req[v] # NoRequest =>
             clients[req[v].schema] = req[v].client \/ pool'[req[v].client] \in {"closing", "closed", "late"}
      <4> SUFFICES ASSUME NEW v \in Workers, req[v] # NoRequest, clients[req[v].schema] # req[v].client
                   PROVE  pool'[req[v].client] \in {"closing", "closed", "late"}
        OBVIOUS
      <4>1. pool[req[v].client] \in {"closing", "closed", "late"} /\ req[v].client \in ClientIds
        BY <1>t DEF ClientsHeld
      <4>2. clients[s] = c => pool[c] \in {"idle", "open"}
        BY <1>t DEF ClientsHeld
      <4> QED
        BY <2>3, <4>1, <4>2
    <3> QED
      BY <2>2, <2>4, <3>1, <3>2, <3>3 DEF ClientsHeld
  <2> QED
    BY <2>3, <2>6
<1>4. ASSUME NEW w \in Workers, EndQueries(w) PROVE ClientsInv'
  <2>1. req' = [req EXCEPT ![w] = NoRequest] /\ UNCHANGED <<clients, lastAccess, pool, now>>
    BY <1>4 DEF EndQueries, Done
  <2>2. ClientsTypeOK' /\ \A v \in Workers : req'[v] = IF v = w THEN NoRequest ELSE req[v]
    BY <2>1 DEF ClientsTypeOK
  <2>3. Cached' = Cached
    BY <2>1 DEF Cached
  <2> QED
    BY <2>1, <2>2, <2>3 DEF ClientsHeld
<1>5. ASSUME NEW c \in ClientIds, Disconnected(c) \/ Collect(c) PROVE ClientsInv'
  <2>1. PICK st \in {"closed", "unused"} :
           /\ pool[c] \in {"closing", "closed"} /\ pool' = [pool EXCEPT ![c] = st]
           /\ st = "unused" => c \notin Held
           /\ UNCHANGED <<req, clients, lastAccess, now>>
    BY <1>5 DEF Disconnected, Collect
  <2>2. ClientsTypeOK' /\ \A d \in ClientIds : pool'[d] = IF d = c THEN st ELSE pool[d]
    BY <2>1 DEF ClientsTypeOK
  <2>3. Cached' = Cached
    BY <2>1 DEF Cached
  <2>4. \A v \in Workers : req[v] # NoRequest /\ req[v].client = c => st = "closed"
    BY <2>1 DEF Held
  <2>5. \A x \in Cached : clients[x] # c
    BY <2>1 DEF ClientsHeld
  <2>6. ClientsHeld'
    BY <1>t, <2>1, <2>2, <2>3, <2>4, <2>5 DEF ClientsHeld
  <2> QED
    BY <2>2, <2>6
<1>6. CASE Tick
  <2>1. now' \in 0..MaxTime /\ UNCHANGED <<req, clients, lastAccess, pool>>
    BY <1>6, ClientsAssumption DEF Tick, ClientsTypeOK
  <2>2. ClientsTypeOK' /\ Cached' = Cached
    BY <2>1 DEF ClientsTypeOK, Cached
  <2> QED
    BY <2>1, <2>2 DEF ClientsHeld
<1>7. CASE UNCHANGED clientsVars
  <2>1. UNCHANGED <<req, clients, lastAccess, pool, now>>
    BY <1>7 DEF clientsVars
  <2>2. ClientsTypeOK' /\ Cached' = Cached
    BY <2>1 DEF ClientsTypeOK, Cached
  <2> QED
    BY <2>1, <2>2 DEF ClientsHeld
<1> QED
  BY <1>1, <1>2, <1>3, <1>4, <1>5, <1>6, <1>7 DEF ClientsNext

\* No more tenants are connected than the pool allows, each by one client, but for those that a
\* request has kept while they were evicted (TenantClientService of src/src/tenant).
THEOREM ClientsStayBounded == ClientsSpec => []ClientsBounded
<1>1. ASSUME ClientsInv PROVE ClientsBounded
  <2>1. {c \in ClientIds : pool[c] \in {"idle", "open"}} = {clients[s] : s \in Cached}
    BY <1>1 DEF ClientsInv, ClientsHeld, ClientsTypeOK, Cached
  <2> QED
    BY <1>1, <2>1 DEF ClientsInv, ClientsHeld, ClientsBounded
<1> QED
  BY <1>1, ClientsBegin, ClientsStep, PTL DEF ClientsSpec

-----------------------------------------------------------------------------
(* Records and imports *)

\* A service that looks among the removed records too, or that removes none, has seen every holder.
RecordsKept ==
    /\ \A r, x \in RecordIds :
          StoredRecord(r) /\ StoredRecord(x) /\ record[r].key = record[x].key => r = x
    /\ kind \notin {"users", "rooms"} =>
          /\ "removed" \notin refused
          /\ \A w \in Workers : Pending(w, "create") \/ Pending(w, "update") => req[w].there = {}
    /\ kind = "superadmins" => \A r \in RecordIds : StoredRecord(r) => LiveRecord(r)
    /\ \A w \in Workers : Pending(w, "import") =>
          /\ req[w].created + req[w].skipped + req[w].errors + 1 = req[w].row
          /\ req[w].step = "insert" => req[w].row <= Len(req[w].file)

\* The inductive invariant of Records.
RecordsInv == RecordsTypeOK /\ RecordsKept

\* No record at the start.
LEMMA RecordsBegin == RecordsInit => RecordsInv
<1> SUFFICES ASSUME RecordsInit PROVE RecordsInv
  OBVIOUS
<1>1. RecordsTypeOK
  BY DEF RecordsInit, RecordsTypeOK, Idle
<1>2. RecordsKept
  BY DEF RecordsInit, RecordsKept, Idle, Pending, StoredRecord
<1> QED
  BY <1>1, <1>2 DEF RecordsInv

\* The index: a record whose key no other has keeps the keys apart.
LEMMA IndexKeeps ==
  ASSUME RecordsInv, NEW r \in RecordIds, NEW k \in Keys, NEW rem \in BOOLEAN, UniqueKey(k, r),
         record' = [record EXCEPT ![r] = [key |-> k, removed |-> rem]]
  PROVE  /\ record' \in [RecordIds -> [key: Keys, removed: BOOLEAN] \cup {NoRecord}]
         /\ \A x, y \in RecordIds :
              StoredRecord(x)' /\ StoredRecord(y)' /\ record'[x].key = record'[y].key => x = y
         /\ \A x \in RecordIds : record'[x] = IF x = r THEN [key |-> k, removed |-> rem] ELSE record[x]
<1>1. record \in [RecordIds -> [key: Keys, removed: BOOLEAN] \cup {NoRecord}]
  BY DEF RecordsInv, RecordsTypeOK
<1>2. \A x \in RecordIds \ {r} : StoredRecord(x) => record[x].key # k
  BY DEF UniqueKey, Holders
<1> QED
  BY <1>1, <1>2 DEF RecordsInv, RecordsKept, StoredRecord

\* Every step keeps the invariant: what a request has found of a key may be out of date, but the
\* index is not.
LEMMA RecordsStep ==
  ASSUME RecordsInv, [RecordsNext]_recordsVars
  PROVE  RecordsInv'
<1> USE DEF RecordsInv
<1> DEFINE RecordRequest == CreateRequest \cup UpdateRequest \cup ImportRequest
<1>t. /\ req \in [Workers -> RecordRequest \cup {NoRequest}]
      /\ record \in [RecordIds -> [key: Keys, removed: BOOLEAN] \cup {NoRecord}]
      /\ refused \subseteq {"overtaken", "removed"}
      /\ NoRecord \notin RecordIds /\ ImportFiles \subseteq Seq(Keys)
  BY RecordsAssumption DEF RecordsTypeOK
<1>c. \A w \in Workers : Pending(w, "create") => req[w] \in CreateRequest
  BY <1>t DEF Pending, CreateRequest, UpdateRequest, ImportRequest
<1>u. \A w \in Workers : Pending(w, "update") => req[w] \in UpdateRequest
  BY <1>t DEF Pending, CreateRequest, UpdateRequest, ImportRequest
<1>i. \A w \in Workers : Pending(w, "import") => req[w] \in ImportRequest
  BY <1>t DEF Pending, CreateRequest, UpdateRequest, ImportRequest
<1> HIDE DEF RecordRequest
<1>l. Services = [users |-> [create |-> "all", update |-> "live", keeps |-> TRUE],
                  networkAdmins |-> [create |-> "all", update |-> "none", keeps |-> TRUE],
                  superadmins |-> [create |-> "live", update |-> "none", keeps |-> TRUE],
                  students |-> [create |-> "all", update |-> "all", keeps |-> FALSE],
                  teachers |-> [create |-> "all", update |-> "all", keeps |-> TRUE],
                  rooms |-> [create |-> "live", update |-> "live", keeps |-> TRUE],
                  unavailability |-> [create |-> "all", update |-> "none", keeps |-> FALSE]]
  BY DEF Services, Service, UsersService, createNetworkAdmin, createSuperadmin, StudentProfilesService,
         TeacherProfilesService, RoomsService, TeacherUnavailabilityService
<1>k. kind \in {"users", "networkAdmins", "superadmins", "students", "teachers", "rooms", "unavailability"}
  BY <1>l DEF RecordsTypeOK
<1>s. /\ kind \notin {"users", "rooms", "superadmins"} => Services[kind].create = "all"
      /\ kind \notin {"users", "rooms"} => Services[kind].update \in {"all", "none"}
  BY <1>k, <1>l
\* What a fresh request of these services has found there: nothing.
<1>h. ASSUME NEW k \in Keys, NEW r, NEW among \in {"all", "live"}, Holders(among, k, r) = {},
             kind = "superadmins" \/ among = "all"
      PROVE  Holders("all", k, r) = {}
  BY <1>h DEF Holders, RecordsKept
\* A request that ends, with the records as they are or one of them written.
<1>e. ASSUME NEW w \in Workers, Done(w), kind' = kind, refused' \subseteq {"overtaken", "removed"},
             kind \notin {"users", "rooms"} => "removed" \notin refused',
             record' \in [RecordIds -> [key: Keys, removed: BOOLEAN] \cup {NoRecord}],
             \A x, y \in RecordIds :
                StoredRecord(x)' /\ StoredRecord(y)' /\ record'[x].key = record'[y].key => x = y,
             kind = "superadmins" => \A r \in RecordIds : StoredRecord(r)' => LiveRecord(r)'
      PROVE  RecordsInv'
  <2>1. \A v \in Workers : req'[v] = IF v = w THEN NoRequest ELSE req[v]
    BY <1>e, <1>t DEF Done
  <2>2. RecordsTypeOK'
    BY <1>e DEF Done, RecordsTypeOK
  <2>3. \A v \in Workers : \A op : Pending(v, op)' => Pending(v, op) /\ req'[v] = req[v]
    BY <2>1 DEF Pending
  <2>4. RecordsKept'
    BY <1>e, <2>3 DEF RecordsKept
  <2> QED
    BY <2>2, <2>4
<1>r. ASSUME NEW w \in Workers, NEW k \in Keys, NEW r, Pending(w, "create") \/ Pending(w, "update"),
             kind \notin {"users", "rooms"}
      PROVE  "removed" \notin refused \cup Reasons(w, k, r)
  <2>1. req[w].there = {} /\ "removed" \notin refused
    BY <1>r DEF RecordsKept
  <2> QED
    BY <2>1 DEF Reasons
<1>1. ASSUME NEW w \in Workers, NEW k \in Keys, BeginCreateRecord(w, k) PROVE RecordsInv'
  <2> DEFINE q == [op |-> "create", key |-> k, there |-> Holders("all", k, NoRecord)]
  <2>1. /\ Holders(Services[kind].create, k, NoRecord) = {}
        /\ req' = [req EXCEPT ![w] = q] /\ UNCHANGED <<kind, record, refused>>
    BY <1>1 DEF BeginCreateRecord, Begin
  <2>2. q \in CreateRequest /\ q.op = "create" /\ q.there = Holders("all", k, NoRecord)
    BY DEF CreateRequest, Holders
  <2>3. kind \notin {"users", "rooms"} => q.there = {}
    <3> SUFFICES ASSUME kind \notin {"users", "rooms"} PROVE Holders("all", k, NoRecord) = {}
      BY <2>2
    <3>1. CASE kind = "superadmins"
      <4>1. Services[kind].create = "live"
        BY <1>l, <3>1
      <4> QED
        BY <1>h, <2>1, <3>1, <4>1
    <3>2. CASE kind # "superadmins"
      BY <1>s, <2>1, <3>2
    <3> QED
      BY <3>1, <3>2
  <2> HIDE DEF q
  <2>4. \A v \in Workers : req'[v] = IF v = w THEN q ELSE req[v]
    BY <1>t, <2>1
  <2>5. RecordsTypeOK'
    BY <2>1, <2>2 DEF RecordsTypeOK
  <2>6. \A v \in Workers : \A op : Pending(v, op)' => (v = w /\ op = "create") \/ (Pending(v, op) /\ req'[v] = req[v])
    BY <2>2, <2>4 DEF Pending
  <2>7. RecordsKept'
    BY <2>1, <2>3, <2>4, <2>6 DEF RecordsKept, StoredRecord, LiveRecord
  <2> QED
    BY <2>5, <2>7
<1>2. ASSUME NEW w \in Workers, NEW k \in Keys, NEW r \in RecordIds, BeginUpdateRecord(w, r, k)
      PROVE  RecordsInv'
  <2> DEFINE q == [op |-> "update", record |-> r, key |-> k, there |-> Holders("all", k, r)]
  <2>1. /\ Services[kind].update # "none" /\ Holders(Services[kind].update, k, r) = {}
        /\ req' = [req EXCEPT ![w] = q] /\ UNCHANGED <<kind, record, refused>>
    BY <1>2 DEF BeginUpdateRecord, Begin
  <2>2. q \in UpdateRequest /\ q.op = "update" /\ q.there = Holders("all", k, r)
    BY DEF UpdateRequest, Holders
  <2>3. kind \notin {"users", "rooms"} => q.there = {}
    BY <1>s, <2>1, <2>2
  <2> HIDE DEF q
  <2>4. \A v \in Workers : req'[v] = IF v = w THEN q ELSE req[v]
    BY <1>t, <2>1
  <2>5. RecordsTypeOK'
    BY <2>1, <2>2 DEF RecordsTypeOK
  <2>6. \A v \in Workers : \A op : Pending(v, op)' => (v = w /\ op = "update") \/ (Pending(v, op) /\ req'[v] = req[v])
    BY <2>2, <2>4 DEF Pending
  <2>7. RecordsKept'
    BY <2>1, <2>3, <2>4, <2>6 DEF RecordsKept, StoredRecord, LiveRecord
  <2> QED
    BY <2>5, <2>7
<1>3. ASSUME NEW w \in Workers, CommitCreateRecord(w) PROVE RecordsInv'
  <2>1. PICK k \in Keys, r \in RecordIds : k = req[w].key /\ r = AnyOf(NewRecords) /\ ~StoredRecord(r)
    BY <1>3, <1>c, AnyOfIn DEF CommitCreateRecord, NewRecords, CreateRequest
  <2>2. /\ Pending(w, "create") /\ Done(w) /\ kind' = kind
        /\ \/ /\ UniqueKey(k, NoRecord) /\ refused' = refused
              /\ record' = [record EXCEPT ![r] = [key |-> k, removed |-> FALSE]]
           \/ refused' = refused \cup Reasons(w, k, NoRecord) /\ record' = record
    BY <1>3, <2>1 DEF CommitCreateRecord
  <2>3. CASE /\ UniqueKey(k, NoRecord) /\ refused' = refused
             /\ record' = [record EXCEPT ![r] = [key |-> k, removed |-> FALSE]]
    <3>1. UniqueKey(k, r)
      BY <1>t, <2>1, <2>3 DEF UniqueKey, Holders
    <3>2. \A x \in RecordIds : record'[x] = IF x = r THEN [key |-> k, removed |-> FALSE] ELSE record[x]
      BY <1>t, <2>3
    <3>3. kind = "superadmins" => \A x \in RecordIds : StoredRecord(x)' => LiveRecord(x)'
      BY <3>2 DEF RecordsKept, StoredRecord, LiveRecord
    <3>4. kind \notin {"users", "rooms"} => "removed" \notin refused'
      BY <2>3 DEF RecordsKept
    <3> QED
      BY <1>e, <1>t, <2>2, <2>3, <3>1, <3>3, <3>4, IndexKeeps
  <2>4. CASE refused' = refused \cup Reasons(w, k, NoRecord) /\ record' = record
    <3>1. kind \notin {"users", "rooms"} => "removed" \notin refused'
      BY <1>r, <2>2, <2>4
    <3>2. refused' \subseteq {"overtaken", "removed"}
      BY <1>t, <2>4 DEF Reasons
    <3> QED
      BY <1>e, <1>t, <2>2, <2>4, <3>1, <3>2 DEF RecordsKept, StoredRecord, LiveRecord
  <2> QED
    BY <2>2, <2>3, <2>4
<1>4. ASSUME NEW w \in Workers, CommitUpdateRecord(w) PROVE RecordsInv'
  <2>1. PICK k \in Keys, r \in RecordIds : k = req[w].key /\ r = req[w].record /\ StoredRecord(r)
    BY <1>4, <1>u DEF CommitUpdateRecord, UpdateRequest
  <2>2. /\ Pending(w, "update") /\ Done(w) /\ kind' = kind
        /\ \/ UniqueKey(k, r) /\ record' = [record EXCEPT ![r].key = k] /\ refused' = refused
           \/ refused' = refused \cup Reasons(w, k, r) /\ record' = record
    BY <1>4, <2>1 DEF CommitUpdateRecord
  <2>3. CASE UniqueKey(k, r) /\ record' = [record EXCEPT ![r].key = k] /\ refused' = refused
    <3>1. PICK rem \in BOOLEAN : rem = record[r].removed /\ record[r] \in [key: Keys, removed: BOOLEAN]
      BY <1>t, <2>1 DEF StoredRecord
    <3>2. record' = [record EXCEPT ![r] = [key |-> k, removed |-> rem]]
      <4>1. [record[r] EXCEPT !.key = k] = [key |-> k, removed |-> rem]
        BY <3>1
      <4> QED
        BY <2>3, <4>1
    <3>3. \A x \in RecordIds : record'[x] = IF x = r THEN [key |-> k, removed |-> rem] ELSE record[x]
      BY <1>t, <3>2
    <3>4. kind = "superadmins" => \A x \in RecordIds : StoredRecord(x)' => LiveRecord(x)'
      BY <2>1, <3>1, <3>3 DEF RecordsKept, StoredRecord, LiveRecord
    <3>5. kind \notin {"users", "rooms"} => "removed" \notin refused'
      BY <2>3 DEF RecordsKept
    <3> QED
      BY <1>e, <1>t, <2>2, <2>3, <3>2, <3>4, <3>5, IndexKeeps
  <2>4. CASE refused' = refused \cup Reasons(w, k, r) /\ record' = record
    <3>1. kind \notin {"users", "rooms"} => "removed" \notin refused'
      BY <1>r, <2>2, <2>4
    <3>2. refused' \subseteq {"overtaken", "removed"}
      BY <1>t, <2>4 DEF Reasons
    <3> QED
      BY <1>e, <1>t, <2>2, <2>4, <3>1, <3>2 DEF RecordsKept, StoredRecord, LiveRecord
  <2> QED
    BY <2>2, <2>3, <2>4
<1>5. ASSUME NEW w \in Workers, LoseRecordRequest(w) PROVE RecordsInv'
  BY <1>5, <1>e, <1>t DEF LoseRecordRequest, RecordsKept, StoredRecord, LiveRecord
<1>6. ASSUME NEW r \in RecordIds, removeRecord(r) PROVE RecordsInv'
  <2>1. /\ LiveRecord(r) /\ kind \notin {"networkAdmins", "superadmins"} /\ UNCHANGED <<req, kind, refused>>
        /\ \/ record' = [record EXCEPT ![r] = [@ EXCEPT !.removed = TRUE]]
           \/ record' = [record EXCEPT ![r] = NoRecord]
    BY <1>6 DEF removeRecord
  <2>2. PICK k \in Keys : record[r] = [key |-> k, removed |-> FALSE] /\ record[r] # NoRecord
    BY <1>t, <2>1 DEF LiveRecord, StoredRecord
  <2>3. \A x \in RecordIds :
           \/ x # r /\ record'[x] = record[x]
           \/ x = r /\ record'[x] \in {NoRecord, [key |-> k, removed |-> TRUE]}
    BY <1>t, <2>1, <2>2
  <2>4. RecordsTypeOK'
    <3>1. record' \in [RecordIds -> [key: Keys, removed: BOOLEAN] \cup {NoRecord}]
      BY <1>t, <2>1, <2>2
    <3> QED
      BY <2>1, <3>1 DEF RecordsTypeOK
  <2>5. \A x \in RecordIds : StoredRecord(x)' => StoredRecord(x) /\ record'[x].key = record[x].key
    BY <2>2, <2>3 DEF StoredRecord
  <2>6. \A v \in Workers : \A op : Pending(v, op)' <=> Pending(v, op)
    BY <2>1 DEF Pending
  <2>7. RecordsKept'
    BY <2>1, <2>5, <2>6 DEF RecordsKept
  <2> QED
    BY <2>4, <2>7
\* An import that goes on, with its rows accounted for.
<1>m. ASSUME NEW w \in Workers, NEW q \in ImportRequest, req' = [req EXCEPT ![w] = q],
             UNCHANGED <<kind, refused>>,
             record' \in [RecordIds -> [key: Keys, removed: BOOLEAN] \cup {NoRecord}],
             \A x, y \in RecordIds :
                StoredRecord(x)' /\ StoredRecord(y)' /\ record'[x].key = record'[y].key => x = y,
             kind = "superadmins" => \A r \in RecordIds : StoredRecord(r)' => LiveRecord(r)',
             q.created + q.skipped + q.errors + 1 = q.row,
             q.step = "insert" => q.row <= Len(q.file)
      PROVE  RecordsInv'
  <2>1. \A v \in Workers : req'[v] = IF v = w THEN q ELSE req[v]
    BY <1>m, <1>t
  <2>2. RecordsTypeOK'
    BY <1>m DEF RecordsTypeOK
  <2>3. \A v \in Workers : \A op : Pending(v, op)' => (v = w /\ op = "import") \/ (Pending(v, op) /\ req'[v] = req[v])
    BY <2>1 DEF Pending, ImportRequest
  <2>4. RecordsKept'
    BY <1>m, <2>1, <2>3 DEF RecordsKept
  <2> QED
    BY <2>2, <2>4
<1>n. /\ \A x, y \in RecordIds : StoredRecord(x) /\ StoredRecord(y) /\ record[x].key = record[y].key => x = y
      /\ kind = "superadmins" => \A r \in RecordIds : StoredRecord(r) => LiveRecord(r)
  BY DEF RecordsKept
\* The next row, counted.
<1>x. ASSUME NEW w \in Workers, Pending(w, "import"), CreatedRow(w) \/ SkipRow(w) \/ RowInError(w)
      PROVE  \E q \in ImportRequest : /\ req' = [req EXCEPT ![w] = q] /\ q.step = "look"
                                      /\ q.created + q.skipped + q.errors + 1 = q.row
  <2>1. PICK o \in ImportRequest : o = req[w] /\ o.created + o.skipped + o.errors + 1 = o.row
    BY <1>x, <1>i DEF RecordsKept
  <2>2. o.created \in Nat /\ o.skipped \in Nat /\ o.errors \in Nat /\ o.row \in Nat
    BY <2>1 DEF ImportRequest
  <2>3. PICK c \in ImportRequest :
           /\ req' = [req EXCEPT ![w] = [c EXCEPT !.step = "look", !.row = c.row + 1]]
           /\ c.created + c.skipped + c.errors = c.row
    <3>1. CASE CreatedRow(w)
      <4> DEFINE c == [o EXCEPT !.created = o.created + 1]
      <4>1. c \in ImportRequest /\ c.created = o.created + 1 /\ c.skipped = o.skipped /\ c.errors = o.errors /\ c.row = o.row
        BY <2>1, <2>2 DEF ImportRequest
      <4>2. req' = [req EXCEPT ![w] = [c EXCEPT !.step = "look", !.row = c.row + 1]]
        BY <2>1, <3>1 DEF CreatedRow, NextRow
      <4> HIDE DEF c
      <4>3. c.created + c.skipped + c.errors = c.row
        BY <2>1, <2>2, <4>1
      <4> QED
        BY <4>1, <4>2, <4>3
    <3>2. CASE SkipRow(w)
      <4> DEFINE c == [o EXCEPT !.skipped = o.skipped + 1]
      <4>1. c \in ImportRequest /\ c.created = o.created /\ c.skipped = o.skipped + 1 /\ c.errors = o.errors /\ c.row = o.row
        BY <2>1, <2>2 DEF ImportRequest
      <4>2. req' = [req EXCEPT ![w] = [c EXCEPT !.step = "look", !.row = c.row + 1]]
        BY <2>1, <3>2 DEF SkipRow, NextRow
      <4> HIDE DEF c
      <4>3. c.created + c.skipped + c.errors = c.row
        BY <2>1, <2>2, <4>1
      <4> QED
        BY <4>1, <4>2, <4>3
    <3>3. CASE RowInError(w)
      <4> DEFINE c == [o EXCEPT !.errors = o.errors + 1]
      <4>1. c \in ImportRequest /\ c.created = o.created /\ c.skipped = o.skipped /\ c.errors = o.errors + 1 /\ c.row = o.row
        BY <2>1, <2>2 DEF ImportRequest
      <4>2. req' = [req EXCEPT ![w] = [c EXCEPT !.step = "look", !.row = c.row + 1]]
        BY <2>1, <3>3 DEF RowInError, NextRow
      <4> HIDE DEF c
      <4>3. c.created + c.skipped + c.errors = c.row
        BY <2>1, <2>2, <4>1
      <4> QED
        BY <4>1, <4>2, <4>3
    <3> QED
      BY <1>x, <3>1, <3>2, <3>3
  <2>4. c.row \in Nat /\ c.created \in Nat /\ c.skipped \in Nat /\ c.errors \in Nat
    BY DEF ImportRequest
  <2> DEFINE d == [c EXCEPT !.step = "look"]
             q == [d EXCEPT !.row = c.row + 1]
  <2>5. /\ d \in ImportRequest /\ d.step = "look"
        /\ d.created = c.created /\ d.skipped = c.skipped /\ d.errors = c.errors
    BY DEF ImportRequest
  <2>6. [c EXCEPT !.step = "look", !.row = c.row + 1] = q
    BY DEF ImportRequest
  <2> HIDE DEF d
  <2>7. /\ q \in ImportRequest /\ q.step = d.step /\ q.row = c.row + 1
        /\ q.created = d.created /\ q.skipped = d.skipped /\ q.errors = d.errors
    BY <2>4, <2>5 DEF ImportRequest
  <2> HIDE DEF q
  <2>8. q.created + q.skipped + q.errors + 1 = q.row
    BY <2>3, <2>4, <2>5, <2>7
  <2> QED
    BY <2>3, <2>5, <2>6, <2>7, <2>8
<1>7. ASSUME NEW w \in Workers, NEW f \in ImportFiles, importFromFile(w, f) PROVE RecordsInv'
  <2> DEFINE q == [op |-> "import", step |-> "look", file |-> f, row |-> 1,
                   created |-> 0, skipped |-> 0, errors |-> 0]
  <2>1. req' = [req EXCEPT ![w] = q] /\ UNCHANGED <<kind, record, refused>>
    BY <1>7 DEF importFromFile, Begin
  <2>2. q \in ImportRequest /\ q.step = "look" /\ q.created + q.skipped + q.errors + 1 = q.row
    BY DEF ImportRequest
  <2> HIDE DEF q
  <2> QED
    BY <1>m, <1>n, <1>t, <2>1, <2>2 DEF StoredRecord, LiveRecord
<1>8. ASSUME NEW w \in Workers, LookRow(w) PROVE RecordsInv'
  <2>1. PICK o \in ImportRequest : o = req[w] /\ o.row <= Len(o.file) /\ o.created + o.skipped + o.errors + 1 = o.row
    BY <1>8, <1>i DEF LookRow, At, Pending, RecordsKept
  <2>2. /\ Pending(w, "import") /\ UNCHANGED <<kind, record, refused>>
        /\ SkipRow(w) \/ Goto(w, "insert")
    BY <1>8 DEF LookRow, At, Pending
  <2>3. CASE SkipRow(w)
    BY <1>m, <1>n, <1>t, <1>x, <2>2, <2>3 DEF StoredRecord, LiveRecord
  <2>4. CASE Goto(w, "insert")
    <3> DEFINE q == [o EXCEPT !.step = "insert"]
    <3>1. req' = [req EXCEPT ![w] = q]
      BY <1>t, <2>1, <2>4 DEF Goto
    <3>2. q \in ImportRequest /\ q.row <= Len(q.file) /\ q.created + q.skipped + q.errors + 1 = q.row
      BY <2>1 DEF ImportRequest
    <3> HIDE DEF q
    <3> QED
      BY <1>m, <1>n, <1>t, <2>2, <3>1, <3>2 DEF StoredRecord, LiveRecord
  <2> QED
    BY <2>2, <2>3, <2>4
<1>9. ASSUME NEW w \in Workers, InsertRow(w) PROVE RecordsInv'
  <2>0. Pending(w, "import") /\ UNCHANGED <<kind, refused>>
    BY <1>9 DEF InsertRow, At, Pending
  <2>1. PICK k \in Keys, r \in RecordIds : k = req[w].file[req[w].row] /\ r = AnyOf(NewRecords) /\ ~StoredRecord(r)
    <3>1. PICK o \in ImportRequest : o = req[w] /\ o.row <= Len(o.file) /\ o.created + o.skipped + o.errors + 1 = o.row
      BY <1>9, <1>i, <2>0 DEF InsertRow, At, RecordsKept
    <3>2. o.file \in Seq(Keys) /\ o.row \in Nat /\ o.created \in Nat /\ o.skipped \in Nat /\ o.errors \in Nat
      BY <1>t, <3>1 DEF ImportRequest
    <3>3. o.row \in 1..Len(o.file)
      BY <3>1, <3>2
    <3>4. o.file[o.row] \in Keys
      BY <3>2, <3>3
    <3>5. AnyOf(NewRecords) \in NewRecords
      BY <1>9, AnyOfIn DEF InsertRow
    <3> QED
      BY <3>1, <3>4, <3>5 DEF NewRecords
  <2>2. \/ /\ UniqueKey(k, NoRecord) /\ CreatedRow(w)
           /\ record' = [record EXCEPT ![r] = [key |-> k, removed |-> FALSE]]
        \/ RowInError(w) /\ record' = record
    BY <1>9, <2>1 DEF InsertRow
  <2>3. CASE /\ UniqueKey(k, NoRecord) /\ CreatedRow(w)
             /\ record' = [record EXCEPT ![r] = [key |-> k, removed |-> FALSE]]
    <3>1. UniqueKey(k, r)
      BY <1>t, <2>1, <2>3 DEF UniqueKey, Holders
    <3>2. \A x \in RecordIds : record'[x] = IF x = r THEN [key |-> k, removed |-> FALSE] ELSE record[x]
      BY <1>t, <2>3
    <3>3. kind = "superadmins" => \A x \in RecordIds : StoredRecord(x)' => LiveRecord(x)'
      BY <1>n, <3>2 DEF StoredRecord, LiveRecord
    <3> QED
      BY <1>m, <1>x, <2>0, <2>3, <3>1, <3>3, IndexKeeps
  <2>4. CASE RowInError(w) /\ record' = record
    BY <1>m, <1>n, <1>t, <1>x, <2>0, <2>4 DEF StoredRecord, LiveRecord
  <2> QED
    BY <2>2, <2>3, <2>4
<1>10. ASSUME NEW w \in Workers, FailRow(w) PROVE RecordsInv'
  <2>1. Pending(w, "import") /\ RowInError(w) /\ UNCHANGED <<kind, record, refused>>
    BY <1>10 DEF FailRow, At, Pending
  <2> QED
    BY <1>m, <1>n, <1>t, <1>x, <2>1 DEF StoredRecord, LiveRecord
<1>11. CASE UNCHANGED recordsVars
  BY <1>11 DEF recordsVars, RecordsTypeOK, RecordsKept, StoredRecord, LiveRecord, Pending
<1> QED
  BY <1>1, <1>2, <1>3, <1>4, <1>5, <1>6, <1>7, <1>8, <1>9, <1>10, <1>11 DEF RecordsNext

\* No two records have one key, removed ones included; a create that is refused is refused for a
\* holder it can see, and an import counts every row of its file once.
THEOREM RecordsStayAnswered == RecordsSpec => []RecordsAnswered
<1>1. RecordsInv => RecordsAnswered
  BY DEF RecordsInv, RecordsKept, RecordsAnswered
<1> QED
  BY <1>1, RecordsBegin, RecordsStep, PTL DEF RecordsSpec

-----------------------------------------------------------------------------
(* Guardians *)

\* A request that has a student's primary guardian to set.
PrimaryToSet(w, s) ==
    /\ req[w] # NoRequest /\ req[w].student = s /\ req[w].primary = TRUE /\ req[w].step = "write"

\* What requests hold; and a student who is not disputed has one primary guardian, the one that a
\* request is about to set, or none that was ever chosen or has not been taken away.
PrimaryKept ==
    /\ \A w \in Workers : req[w] # NoRequest =>
          /\ req[w].step = "clear" => req[w].primary = TRUE
          /\ req[w].op = "add" => req[w].guardian = NoGuardian
          /\ req[w].op = "change" => req[w].guardian \in GuardianIds
          /\ req[w].op = "change" /\ guardian[req[w].guardian] # NoGuardian =>
                guardian[req[w].guardian].student = req[w].student
    /\ \A s \in Students \ disputed :
          /\ \A g, h \in PrimariesOf(s) : g = h
          /\ \A w \in Workers : PrimaryToSet(w, s) => PrimariesOf(s) \subseteq {req[w].guardian}
          /\ PrimariesOf(s) # {} \/ s \in unset \/ \E w \in Workers : PrimaryToSet(w, s)

\* The inductive invariant of Guardians.
GuardiansInv == GuardiansTypeOK /\ PrimaryKept

\* No guardian at the start.
LEMMA GuardiansBegin == GuardiansInit => GuardiansInv
  BY DEF GuardiansInit, GuardiansInv, GuardiansTypeOK, PrimaryKept, Idle, PrimariesOf, GuardiansOf, PrimaryToSet

\* Every step keeps the invariant: clearing the others and setting the one are two awaits, and a
\* request that finds another at work on the student makes the student disputed.
LEMMA GuardiansStep ==
  ASSUME GuardiansInv, [GuardiansNext]_guardiansVars
  PROVE  GuardiansInv'
<1> USE DEF GuardiansInv
<1>t. /\ DOMAIN req = Workers
      /\ \A v \in Workers : req[v] # NoRequest =>
            /\ req[v].op \in {"add", "change"} /\ req[v].step \in {"clear", "write"}
            /\ req[v].student \in Students /\ req[v].guardian \in GuardianIds \cup {NoGuardian}
            /\ req[v].primary \in BOOLEAN
      /\ \A g \in GuardianIds : guardian[g] # NoGuardian =>
            guardian[g].student \in Students /\ guardian[g].primary \in BOOLEAN
      /\ NoGuardian \notin GuardianIds
  BY GuardiansAssumption DEF GuardiansTypeOK, GuardianRequest
<1>p. \A s, g : g \in PrimariesOf(s) <=>
         g \in GuardianIds /\ guardian[g] # NoGuardian /\ guardian[g].student = s /\ guardian[g].primary = TRUE
  BY <1>t DEF PrimariesOf, GuardiansOf
<1>b. ASSUME NEW w \in Workers, NEW q \in GuardianRequest, req[w] = NoRequest, req' = [req EXCEPT ![w] = q],
             UNCHANGED <<guardian, disputed, unset>>,
             q.step = IF q.primary THEN "clear" ELSE "write",
             q.op = "add" => q.guardian = NoGuardian,
             q.op = "change" => q.guardian \in GuardianIds /\ guardian[q.guardian].student = q.student
      PROVE  GuardiansInv'
  <2>1. \A v \in Workers : req'[v] = IF v = w THEN q ELSE req[v]
    BY <1>b, <1>t
  <2>2. GuardiansTypeOK'
    BY <1>b DEF GuardiansTypeOK, GuardianRequest
  <2>3. \A v \in Workers, s \in Students : PrimaryToSet(v, s)' <=> PrimaryToSet(v, s)
    BY <1>b, <2>1 DEF PrimaryToSet, GuardianRequest
  <2>4. \A s \in Students : PrimariesOf(s)' = PrimariesOf(s)
    BY <1>b DEF PrimariesOf, GuardiansOf
  <2>5. \A v \in Workers, s \in Students : PrimaryToSet(v, s) => req'[v].guardian = req[v].guardian
    BY <1>b, <2>1 DEF PrimaryToSet
  <2>6. PrimaryKept'
    BY <1>b, <2>1, <2>3, <2>4, <2>5 DEF PrimaryKept, GuardianRequest
  <2> QED
    BY <2>2, <2>6
<1>1. ASSUME NEW w \in Workers, NEW primary \in BOOLEAN, NEW s \in Students, BeginAdd(w, s, primary)
      PROVE  GuardiansInv'
  <2> DEFINE q == [op |-> "add", step |-> IF primary THEN "clear" ELSE "write",
                   student |-> s, guardian |-> NoGuardian, primary |-> primary]
  <2>1. /\ req[w] = NoRequest /\ req' = [req EXCEPT ![w] = q] /\ UNCHANGED <<guardian, disputed, unset>>
    BY <1>1 DEF BeginAdd, Begin
  <2>2. /\ q \in GuardianRequest /\ q.step = (IF q.primary THEN "clear" ELSE "write")
        /\ q.op = "add" /\ q.guardian = NoGuardian
    BY DEF GuardianRequest
  <2> HIDE DEF q
  <2> QED
    BY <2>1, <2>2, <1>b
<1>2. ASSUME NEW w \in Workers, NEW primary \in BOOLEAN, NEW g \in GuardianIds, BeginChange(w, g, primary)
      PROVE  GuardiansInv'
  <2> DEFINE q == [op |-> "change", step |-> IF primary THEN "clear" ELSE "write",
                   student |-> guardian[g].student, guardian |-> g, primary |-> primary]
  <2>1. /\ guardian[g] # NoGuardian
        /\ req[w] = NoRequest /\ req' = [req EXCEPT ![w] = q] /\ UNCHANGED <<guardian, disputed, unset>>
    BY <1>2 DEF BeginChange, Begin
  <2>2. /\ q \in GuardianRequest /\ q.step = (IF q.primary THEN "clear" ELSE "write")
        /\ q.op = "change" /\ q.guardian = g /\ guardian[q.guardian].student = q.student
    BY <1>t, <2>1 DEF GuardianRequest
  <2> HIDE DEF q
  <2> QED
    BY <2>1, <2>2, <1>b
<1>3. ASSUME NEW w \in Workers, ClearOthers(w) PROVE GuardiansInv'
  <2>0. PICK s0 \in Students : s0 = req[w].student
    BY <1>3, <1>t DEF ClearOthers, At
  <2>1. /\ req[w] # NoRequest /\ req[w].step = "clear" /\ req' = [req EXCEPT ![w].step = "write"]
        /\ guardian' = [g \in GuardianIds |->
              IF g \in GuardiansOf(s0) \ {req[w].guardian}
              THEN [guardian[g] EXCEPT !.primary = FALSE] ELSE guardian[g]]
        /\ disputed' = IF Choosing(w, s0) = {} THEN disputed ELSE disputed \cup {s0}
        /\ unset' = unset
    BY <1>3, <2>0 DEF ClearOthers, At, Goto
  <2>2. s0 \in Students /\ req[w].primary = TRUE /\ s0 = req[w].student
    BY <1>t, <2>0, <2>1 DEF PrimaryKept
  <2>3. \A g \in GuardianIds :
           /\ guardian[g] = NoGuardian => guardian'[g] = NoGuardian
           /\ guardian'[g] # NoGuardian =>
                 guardian[g] # NoGuardian /\ guardian'[g].student = guardian[g].student
           /\ guardian'[g] = guardian[g]
              \/ (guardian[g] # NoGuardian /\ guardian[g].student = s0 /\ g # req[w].guardian /\ guardian'[g].primary = FALSE)
           /\ guardian[g] # NoGuardian /\ guardian[g].student = s0 /\ g # req[w].guardian =>
                 guardian'[g].primary = FALSE
           /\ guardian'[g] \in [student: Students, primary: BOOLEAN] \cup {NoGuardian}
    <3> TAKE g \in GuardianIds
    <3>1. CASE g \in GuardiansOf(s0) \ {req[w].guardian}
      <4>1. /\ guardian[g] # NoGuardian /\ guardian[g].student = s0 /\ g # req[w].guardian
            /\ guardian'[g] = [guardian[g] EXCEPT !.primary = FALSE]
        BY <2>1, <3>1 DEF GuardiansOf
      <4>2. guardian[g] \in [student: Students, primary: BOOLEAN]
        BY <4>1 DEF GuardiansTypeOK
      <4> QED
        BY <4>1, <4>2
    <3>2. CASE g \notin GuardiansOf(s0) \ {req[w].guardian}
      BY <2>1, <3>2 DEF GuardiansTypeOK, GuardiansOf
    <3> QED
      BY <3>1, <3>2
  <2>4. GuardiansTypeOK'
    <3>1. req' \in [Workers -> GuardianRequest \cup {NoRequest}]
      BY <2>1 DEF GuardiansTypeOK, GuardianRequest
    <3>2. guardian' \in [GuardianIds -> [student: Students, primary: BOOLEAN] \cup {NoGuardian}]
      BY <2>1, <2>3
    <3> QED
      BY <2>1, <2>2, <3>1, <3>2 DEF GuardiansTypeOK, GuardianRequest
  <2>5. /\ \A v \in Workers : v # w => req'[v] = req[v]
        /\ req'[w] # NoRequest => /\ req'[w].student = s0 /\ req'[w].guardian = req[w].guardian
                                  /\ req'[w].primary = TRUE /\ req'[w].step = "write" /\ req'[w].op = req[w].op
    BY <2>1, <2>2 DEF GuardiansTypeOK, GuardianRequest
  <2>6. \A s, g : g \in PrimariesOf(s)' <=>
         g \in GuardianIds /\ guardian'[g] # NoGuardian /\ guardian'[g].student = s /\ guardian'[g].primary = TRUE
    BY <2>4 DEF PrimariesOf, GuardiansOf, GuardiansTypeOK
  <2>7. /\ \A s \in Students : PrimariesOf(s)' \subseteq PrimariesOf(s)
        /\ \A s \in Students : s # s0 => PrimariesOf(s)' = PrimariesOf(s)
        /\ PrimariesOf(s0)' \subseteq {req[w].guardian}
    <3>1. \A s \in Students, g \in GuardianIds : g \in PrimariesOf(s)' => g \in PrimariesOf(s)
      BY <1>p, <2>3, <2>6
    <3>2. \A s \in Students, g \in GuardianIds : s # s0 /\ g \in PrimariesOf(s) => g \in PrimariesOf(s)'
      BY <1>p, <2>3, <2>6
    <3>3. \A g \in GuardianIds : g \in PrimariesOf(s0)' => g = req[w].guardian
      BY <1>p, <2>3, <2>6
    <3>4. \A s, g : g \in PrimariesOf(s) \/ g \in PrimariesOf(s)' => g \in GuardianIds
      BY <1>p, <2>6
    <3> QED
      BY <3>1, <3>2, <3>3, <3>4
  <2>8. PrimaryToSet(w, s0)'
    <3>1. req'[w] # NoRequest
      <4>1. req[w] \in GuardianRequest
        BY <2>1 DEF GuardiansTypeOK, GuardianRequest
      <4>2. [req[w] EXCEPT !.step = "write"] \in GuardianRequest
        BY <4>1 DEF GuardianRequest
      <4> QED
        BY <1>t, <2>1, <4>2, GuardiansAssumption DEF GuardianRequest
    <3> QED
      BY <2>5, <3>1 DEF PrimaryToSet
  <2>9. \A v \in Workers, s \in Students : v # w => (PrimaryToSet(v, s)' <=> PrimaryToSet(v, s))
    BY <2>5 DEF PrimaryToSet
  <2>10. PrimaryKept'
    <3>1. \A v \in Workers : req'[v] # NoRequest =>
             /\ req'[v].step = "clear" => req'[v].primary = TRUE
             /\ req'[v].op = "add" => req'[v].guardian = NoGuardian
             /\ req'[v].op = "change" => req'[v].guardian \in GuardianIds
             /\ req'[v].op = "change" /\ guardian'[req'[v].guardian] # NoGuardian =>
                   guardian'[req'[v].guardian].student = req'[v].student
      BY <2>1, <2>2, <2>3, <2>5 DEF PrimaryKept
    <3>2. ASSUME NEW s \in Students, s \notin disputed', NEW v \in Workers, PrimaryToSet(v, s)'
          PROVE  PrimariesOf(s)' \subseteq {req'[v].guardian}
      <4>1. CASE v = w
        <5>1. s = s0 /\ req'[w].guardian = req[w].guardian
          BY <2>5, <3>2, <4>1 DEF PrimaryToSet
        <5> QED
          BY <2>7, <4>1, <5>1
      <4>2. CASE v # w /\ s = s0
        <5>1. v \in Choosing(w, s0)
          BY <2>5, <3>2, <4>2 DEF Choosing, Others, PrimaryToSet
        <5> QED
          BY <2>1, <3>2, <4>2, <5>1
      <4>3. CASE v # w /\ s # s0
        BY <2>1, <2>5, <2>7, <2>9, <3>2, <4>3 DEF PrimaryKept
      <4> QED
        BY <4>1, <4>2, <4>3
    <3>3. ASSUME NEW s \in Students, s \notin disputed'
          PROVE  /\ \A g, h \in PrimariesOf(s)' : g = h
                 /\ PrimariesOf(s)' # {} \/ s \in unset' \/ \E v \in Workers : PrimaryToSet(v, s)'
      <4>1. s \notin disputed
        BY <2>1, <3>3
      <4>2. ASSUME NEW v \in Workers, PrimaryToSet(v, s) PROVE PrimaryToSet(v, s)'
        BY <2>1, <2>9, <4>2 DEF PrimaryToSet
      <4>3. CASE s = s0
        BY <2>2, <2>7, <2>8, <4>3
      <4>4. CASE s # s0
        BY <2>1, <2>7, <4>1, <4>2, <4>4 DEF PrimaryKept
      <4> QED
        BY <4>3, <4>4
    <3> QED
      BY <3>1, <3>2, <3>3 DEF PrimaryKept
  <2> QED
    BY <2>4, <2>10
<1>w. ASSUME NEW w \in Workers, NEW g \in GuardianIds, NEW row \in [student: Students, primary: BOOLEAN],
             req[w] # NoRequest, req[w].step = "write", req[w].student = row.student, req[w].primary = row.primary,
             req' = [req EXCEPT ![w] = NoRequest],
             guardian' = [guardian EXCEPT ![g] = row],
             guardian[g] # NoGuardian => guardian[g].student = row.student,
             guardian[g] = NoGuardian => \A v \in Workers : req[v] # NoRequest => req[v].guardian # g,
             req[w].primary = TRUE => req[w].guardian \in {g, NoGuardian},
             disputed' = IF row.primary /\ Choosing(w, row.student) # {}
                         THEN disputed \cup {row.student} ELSE disputed,
             unset' = IF row.primary THEN unset \ {row.student}
                      ELSE IF guardian[g] # NoGuardian /\ guardian[g].primary
                           THEN unset \cup {row.student} ELSE unset
      PROVE  GuardiansInv'
  <2>1. PICK s0 \in Students, pr \in BOOLEAN : s0 = row.student /\ pr = row.primary
    OBVIOUS
  <2>2. GuardiansTypeOK'
    BY <1>w, <2>1 DEF GuardiansTypeOK
  <2>3. /\ \A v \in Workers : req'[v] = IF v = w THEN NoRequest ELSE req[v]
        /\ \A x \in GuardianIds : guardian'[x] = IF x = g THEN row ELSE guardian[x]
        /\ row # NoGuardian
    BY <1>w, <1>t, GuardiansAssumption DEF GuardiansTypeOK
  <2>4. \A s, x : x \in PrimariesOf(s)' <=>
         x \in GuardianIds /\ guardian'[x] # NoGuardian /\ guardian'[x].student = s /\ guardian'[x].primary = TRUE
    BY <2>2 DEF PrimariesOf, GuardiansOf, GuardiansTypeOK
  <2>5. /\ \A s \in Students : s # s0 => PrimariesOf(s)' = PrimariesOf(s)
        /\ pr = TRUE => PrimariesOf(s0)' = PrimariesOf(s0) \cup {g}
        /\ pr = FALSE => PrimariesOf(s0)' = PrimariesOf(s0) \ {g}
    <3>1. \A s \in Students : s # s0 => PrimariesOf(s)' = PrimariesOf(s)
      <4>1. \A s \in Students, x \in GuardianIds : s # s0 => (x \in PrimariesOf(s)' <=> x \in PrimariesOf(s))
        BY <1>w, <1>p, <2>1, <2>3, <2>4
      <4>2. \A s, x : x \in PrimariesOf(s) \/ x \in PrimariesOf(s)' => x \in GuardianIds
        BY <1>p, <2>4
      <4> QED
        BY <4>1, <4>2
    <3>2. ASSUME pr = TRUE PROVE PrimariesOf(s0)' = PrimariesOf(s0) \cup {g}
      BY <1>w, <1>p, <2>1, <2>3, <2>4, <3>2
    <3>3. ASSUME pr = FALSE PROVE PrimariesOf(s0)' = PrimariesOf(s0) \ {g}
      BY <1>w, <1>p, <2>1, <2>3, <2>4, <3>3
    <3> QED
      BY <3>1, <3>2, <3>3
  <2>6. \A v \in Workers, s \in Students : PrimaryToSet(v, s)' <=> PrimaryToSet(v, s) /\ v # w
    BY <2>3 DEF PrimaryToSet
  <2>7. ASSUME NEW v \in Workers, v # w, pr = TRUE, PrimaryToSet(v, s0) PROVE s0 \in disputed'
    <3>1. v \in Choosing(w, s0)
      BY <2>7 DEF Choosing, Others, PrimaryToSet
    <3> QED
      BY <1>w, <2>1, <2>7, <3>1
  <2>8. PrimaryKept'
    <3>1. \A v \in Workers : req'[v] # NoRequest =>
             /\ req'[v].step = "clear" => req'[v].primary = TRUE
             /\ req'[v].op = "add" => req'[v].guardian = NoGuardian
             /\ req'[v].op = "change" => req'[v].guardian \in GuardianIds
             /\ req'[v].op = "change" /\ guardian'[req'[v].guardian] # NoGuardian =>
                   guardian'[req'[v].guardian].student = req'[v].student
      <4> SUFFICES ASSUME NEW v \in Workers, v # w, req[v] # NoRequest
                   PROVE  /\ req[v].step = "clear" => req[v].primary = TRUE
                          /\ req[v].op = "add" => req[v].guardian = NoGuardian
                          /\ req[v].op = "change" => req[v].guardian \in GuardianIds
                          /\ req[v].op = "change" /\ guardian'[req[v].guardian] # NoGuardian =>
                                guardian'[req[v].guardian].student = req[v].student
        BY <2>3
      <4>1. CASE req[v].guardian = g
        BY <1>w, <2>3, <4>1 DEF PrimaryKept
      <4>2. CASE req[v].guardian # g
        BY <2>3, <4>2 DEF PrimaryKept
      <4> QED
        BY <4>1, <4>2
    <3>2. ASSUME NEW s \in Students, s \notin disputed'
          PROVE  /\ \A x, y \in PrimariesOf(s)' : x = y
                 /\ \A v \in Workers : PrimaryToSet(v, s)' => PrimariesOf(s)' \subseteq {req'[v].guardian}
                 /\ PrimariesOf(s)' # {} \/ s \in unset' \/ \E v \in Workers : PrimaryToSet(v, s)'
      <4>1. s \notin disputed
        BY <1>w, <3>2
      <4>2. /\ \A x, y \in PrimariesOf(s) : x = y
            /\ \A v \in Workers : PrimaryToSet(v, s) => PrimariesOf(s) \subseteq {req[v].guardian}
            /\ PrimariesOf(s) # {} \/ s \in unset \/ \E v \in Workers : PrimaryToSet(v, s)
        BY <4>1 DEF PrimaryKept
      <4>3. CASE s # s0
        <5>1. s \in unset => s \in unset'
          BY <1>w, <2>1, <4>3
        <5>2. ~PrimaryToSet(w, s)
          BY <1>w, <2>1, <4>3 DEF PrimaryToSet
        <5> QED
          BY <2>3, <2>5, <2>6, <4>2, <4>3, <5>1, <5>2
      <4>4. CASE s = s0 /\ pr = TRUE
        <5>1. PrimaryToSet(w, s0)
          BY <1>w, <2>1, <4>4 DEF PrimaryToSet
        <5>2. PrimariesOf(s0) \subseteq {g}
          BY <1>w, <1>p, <1>t, <2>1, <4>2, <4>4, <5>1
        <5>3. \A v \in Workers : ~PrimaryToSet(v, s0)'
          BY <2>6, <2>7, <3>2, <4>4
        <5> QED
          BY <2>5, <4>4, <5>2, <5>3
      <4>5. CASE s = s0 /\ pr = FALSE
        <5>1. ~PrimaryToSet(w, s0)
          BY <1>w, <2>1, <4>5 DEF PrimaryToSet
        <5>2. unset' = IF g \in PrimariesOf(s0) THEN unset \cup {s0} ELSE unset
          BY <1>w, <1>p, <2>1, <4>5
        <5> QED
          BY <2>3, <2>5, <2>6, <4>2, <4>5, <5>1, <5>2
      <4> QED
        BY <2>1, <4>3, <4>4, <4>5
    <3> QED
      BY <3>1, <3>2 DEF PrimaryKept
  <2> QED
    BY <2>2, <2>8
<1>4. ASSUME NEW w \in Workers, AddGuardian(w) PROVE GuardiansInv'
  <2> DEFINE g == AnyOf(UnknownGuardians)
             row == [student |-> req[w].student, primary |-> req[w].primary]
  <2>1. /\ req[w] # NoRequest /\ req[w].op = "add" /\ req[w].step = "write" /\ g \in UnknownGuardians
        /\ guardian' = [guardian EXCEPT ![g] = row] /\ req' = [req EXCEPT ![w] = NoRequest]
        /\ disputed' = IF req[w].primary /\ Choosing(w, req[w].student) # {}
                       THEN disputed \cup {req[w].student} ELSE disputed
        /\ unset' = IF req[w].primary THEN unset \ {req[w].student} ELSE unset
    BY <1>4, AnyOfIn DEF AddGuardian, At, Done
  <2>2. /\ g \in GuardianIds /\ guardian[g] = NoGuardian
        /\ \A v \in Workers : req[v] # NoRequest => req[v].guardian # g
    BY <2>1 DEF UnknownGuardians
  <2>3. row \in [student: Students, primary: BOOLEAN] /\ row.student = req[w].student /\ row.primary = req[w].primary
    BY <1>t, <2>1
  <2>4. req[w].guardian = NoGuardian
    BY <2>1 DEF PrimaryKept
  <2> HIDE DEF g, row
  <2> QED
    BY <2>1, <2>2, <2>3, <2>4, <1>w
<1>5. ASSUME NEW w \in Workers, ChangeGuardian(w) PROVE GuardiansInv'
  <2> DEFINE g == req[w].guardian
             row == [guardian[g] EXCEPT !.primary = req[w].primary]
  <2>1. /\ req[w] # NoRequest /\ req[w].op = "change" /\ req[w].step = "write" /\ guardian[g] # NoGuardian
        /\ guardian' = [guardian EXCEPT ![g].primary = req[w].primary] /\ req' = [req EXCEPT ![w] = NoRequest]
        /\ disputed' = IF req[w].primary /\ Choosing(w, req[w].student) # {}
                       THEN disputed \cup {req[w].student} ELSE disputed
        /\ unset' = IF req[w].primary THEN unset \ {req[w].student}
                    ELSE IF guardian[g].primary THEN unset \cup {req[w].student} ELSE unset
    BY <1>5 DEF ChangeGuardian, At, Done
  <2>2. g \in GuardianIds /\ guardian[g].student = req[w].student
    BY <2>1 DEF PrimaryKept
  <2>3. row \in [student: Students, primary: BOOLEAN] /\ row.student = req[w].student /\ row.primary = req[w].primary
    <3>1. guardian[g] \in [student: Students, primary: BOOLEAN] /\ req[w].primary \in BOOLEAN
      BY <1>t, <2>1, <2>2 DEF GuardiansTypeOK
    <3> QED
      BY <2>2, <3>1
  <2>4. /\ guardian' = [guardian EXCEPT ![g] = row]
        /\ req[w].student = row.student /\ req[w].primary = row.primary /\ guardian[g].student = row.student
        /\ req[w].guardian = g
        /\ disputed' = IF row.primary /\ Choosing(w, row.student) # {}
                       THEN disputed \cup {row.student} ELSE disputed
        /\ unset' = IF row.primary THEN unset \ {row.student}
                    ELSE IF guardian[g] # NoGuardian /\ guardian[g].primary
                         THEN unset \cup {row.student} ELSE unset
    BY <2>1, <2>2, <2>3
  <2>5. g \in GuardianIds /\ guardian[g] # NoGuardian /\ row \in [student: Students, primary: BOOLEAN]
    BY <2>1, <2>2, <2>3
  <2>6. req[w] # NoRequest /\ req[w].step = "write" /\ req' = [req EXCEPT ![w] = NoRequest]
    BY <2>1
  <2> HIDE DEF g, row
  <2> QED
    BY <2>4, <2>5, <2>6, <1>w
<1>6. ASSUME NEW g \in GuardianIds, removeGuardian(g) PROVE GuardiansInv'
  <2>1. /\ guardian[g] # NoGuardian /\ guardian' = [guardian EXCEPT ![g] = NoGuardian]
        /\ unset' = IF guardian[g].primary THEN unset \cup {guardian[g].student} ELSE unset
        /\ UNCHANGED <<req, disputed>>
    BY <1>6 DEF removeGuardian
  <2>2. GuardiansTypeOK'
    BY <1>t, <2>1 DEF GuardiansTypeOK
  <2>3. \A x \in GuardianIds : guardian'[x] = IF x = g THEN NoGuardian ELSE guardian[x]
    BY <2>1 DEF GuardiansTypeOK
  <2>4. \A s : PrimariesOf(s)' = PrimariesOf(s) \ {g}
    BY <2>3 DEF PrimariesOf, GuardiansOf
  <2>5. \A s \in Students : g \in PrimariesOf(s) => s \in unset'
    BY <1>p, <2>1
  <2>6. \A v \in Workers, s \in Students : PrimaryToSet(v, s)' <=> PrimaryToSet(v, s)
    BY <2>1 DEF PrimaryToSet
  <2>7. PrimaryKept'
    <3>1. unset \subseteq unset'
      BY <2>1
    <3> QED
      BY <2>1, <2>3, <2>4, <2>5, <2>6, <3>1 DEF PrimaryKept
  <2> QED
    BY <2>2, <2>7
<1>7. ASSUME NEW w \in Workers, LoseGuardianRequest(w) PROVE GuardiansInv'
  <2>1. /\ req[w] # NoRequest /\ req' = [req EXCEPT ![w] = NoRequest]
        /\ unset' = IF req[w].primary /\ req[w].step = "write" THEN unset \cup {req[w].student} ELSE unset
        /\ UNCHANGED <<guardian, disputed>>
    BY <1>7 DEF LoseGuardianRequest, Done
  <2>2. GuardiansTypeOK'
    BY <1>t, <2>1 DEF GuardiansTypeOK
  <2>3. \A v \in Workers : req'[v] = IF v = w THEN NoRequest ELSE req[v]
    BY <1>t, <2>1
  <2>4. \A s : PrimariesOf(s)' = PrimariesOf(s)
    BY <2>1 DEF PrimariesOf, GuardiansOf
  <2>5. \A v \in Workers, s \in Students : PrimaryToSet(v, s)' <=> PrimaryToSet(v, s) /\ v # w
    BY <2>3 DEF PrimaryToSet
  <2>6. unset \subseteq unset' /\ \A s \in Students : PrimaryToSet(w, s) => s \in unset'
    BY <2>1 DEF PrimaryToSet
  <2>7. PrimaryKept'
    BY <2>1, <2>3, <2>4, <2>5, <2>6 DEF PrimaryKept
  <2> QED
    BY <2>2, <2>7
<1>8. CASE UNCHANGED guardiansVars
  BY <1>8 DEF guardiansVars, GuardiansTypeOK, PrimaryKept, PrimariesOf, GuardiansOf, PrimaryToSet
<1> QED
  BY <1>1, <1>2, <1>3, <1>4, <1>5, <1>6, <1>7, <1>8 DEF GuardiansNext

\* With it, two primary guardians of a student are those of a student disputed.
LEMMA GuardiansImply ==
  ASSUME GuardiansInv
  PROVE  OnePrimaryGuardian
<1> SUFFICES ASSUME NEW s \in Students, s \notin disputed
             PROVE  /\ Cardinality(PrimariesOf(s)) <= 1
                    /\ \/ PrimariesOf(s) # {} \/ s \in unset
                       \/ \E w \in Workers : /\ req[w] # NoRequest /\ req[w].student = s
                                             /\ req[w].primary /\ req[w].step = "write"
  BY DEF OnePrimaryGuardian
<1>1. \A g, h \in PrimariesOf(s) : g = h
  BY DEF GuardiansInv, PrimaryKept
<1>2. Cardinality(PrimariesOf(s)) \in {0, 1}
  BY <1>1, AtMostOne
<1>3. PrimariesOf(s) # {} \/ s \in unset \/ \E w \in Workers : PrimaryToSet(w, s)
  BY DEF GuardiansInv, PrimaryKept
<1> QED
  BY <1>2, <1>3 DEF PrimaryToSet

\* A student has at most one primary guardian and keeps one that was chosen, unless two requests
\* chose at once (addGuardian and updateGuardian of the students).
THEOREM OnePrimaryStays == GuardiansSpec => []OnePrimaryGuardian
  BY GuardiansImply, GuardiansBegin, GuardiansStep, PTL DEF GuardiansSpec

-----------------------------------------------------------------------------
(* Category proofs *)

\* The requests that have decided a proof and have the category still to write.
Resolving(w) == req[w] # NoRequest /\ req[w].step = "category"

\* The requests between the decision and the category: while nothing went astray there is one, and
\* it has the last decision to write. Without one the category is that of the last decision.
CategoryRead ==
    /\ \A w \in Workers : req[w] # NoRequest => proof[req[w].proof] # "none"
    /\ \A w \in Workers : Resolving(w) =>
          /\ last # NoProof
          /\ ~astray => /\ req[w].proof = last /\ req[w].decision = proof[last]
                        /\ \A v \in Workers : Resolving(v) => v = w
    /\ last # NoProof => proof[last] # "none"
    /\ last # NoProof /\ ~astray /\ (\A w \in Workers : ~Resolving(w)) =>
          category = categoryFor(proof[last]) /\ source = "manual_verified"
    /\ last = NoProof => source # "manual_verified"
    /\ source = "manual_verified" => \E p \in Proofs : proof[p] # "none"

\* The inductive invariant of CategoryProofs.
CategoryInv == ProofsTypeOK /\ CategoryRead

\* No proof and no request at the start.
LEMMA CategoryBegin == ProofsInit => CategoryInv
  BY CategoryProofsAssumption
     DEF ProofsInit, CategoryInv, ProofsTypeOK, DecisionRequest, CategoryRead, Resolving, Idle, Categories

\* Every step keeps the invariant: a decision overtakes what is undecided, one that is lost before
\* its category goes astray.
LEMMA CategoryStep ==
  ASSUME CategoryInv, [ProofsNext]_proofsVars
  PROVE  CategoryInv'
<1> USE DEF CategoryInv
<1>t. /\ DOMAIN req = Workers /\ DOMAIN proof = Proofs
      /\ \A v \in Workers : req[v] # NoRequest =>
            /\ req[v].op = "verify" /\ req[v].step \in {"document", "category"}
            /\ req[v].proof \in Proofs /\ req[v].decision \in Decisions
      /\ last \in Proofs \cup {NoProof} /\ NoProof \notin Proofs /\ "none" \notin Decisions
      /\ astray \in BOOLEAN
  BY CategoryProofsAssumption DEF ProofsTypeOK, DecisionRequest, Decisions
<1>1. ASSUME NEW p \in Proofs, addDocument(p) PROVE CategoryInv'
  <2>1. /\ proof[p] = "none" /\ proof' = [proof EXCEPT ![p] = "pending"]
        /\ UNCHANGED <<req, category, source, last, astray>>
    BY <1>1 DEF addDocument
  <2>2. \A x \in Proofs : proof'[x] # "none" \/ x # p
    BY <1>t, <2>1
  <2>3. \A x \in Proofs : proof[x] # "none" => proof'[x] = proof[x]
    BY <1>t, <2>1
  <2>4. ProofsTypeOK'
    BY <2>1 DEF ProofsTypeOK, DecisionRequest, Decisions
  <2>5. CategoryRead'
    BY <1>t, <2>1, <2>3 DEF CategoryRead, Resolving
  <2> QED
    BY <2>4, <2>5
<1>2. ASSUME NEW p \in Proofs, NEW w \in Workers, NEW decision \in Decisions, BeginDecision(w, p, decision)
      PROVE  CategoryInv'
  <2> DEFINE q == [op |-> "verify", step |-> "document", proof |-> p, decision |-> decision]
  <2>1. /\ proof[p] # "none" /\ req[w] = NoRequest /\ req' = [req EXCEPT ![w] = q]
        /\ UNCHANGED <<proof, category, source, last, astray>>
    BY <1>2 DEF BeginDecision, Begin
  <2>2. \A v \in Workers : req'[v] = IF v = w THEN q ELSE req[v]
    BY <1>t, <2>1
  <2>3. ProofsTypeOK'
    BY <2>1 DEF ProofsTypeOK, DecisionRequest
  <2>4. \A v \in Workers : Resolving(v)' <=> Resolving(v)
    BY <2>1, <2>2 DEF Resolving
  <2>5. \A v \in Workers : Resolving(v) => req'[v] = req[v]
    BY <2>1, <2>2 DEF Resolving
  <2>6. CategoryRead'
    BY <2>1, <2>2, <2>4, <2>5 DEF CategoryRead
  <2> QED
    BY <2>3, <2>6
<1>3. ASSUME NEW w \in Workers, WriteDecision(w) PROVE CategoryInv'
  <2>1. /\ req[w] # NoRequest
        /\ proof' = [proof EXCEPT ![req[w].proof] = req[w].decision]
        /\ last' = req[w].proof
        /\ req' = [req EXCEPT ![w].step = "category"]
        /\ UNCHANGED <<category, source>>
    BY <1>3 DEF WriteDecision, At, Goto
  <2>2. astray' = (\E v \in Workers : v # w /\ Resolving(v))
    BY <1>3 DEF WriteDecision, Others, Resolving
  <2>3. ProofsTypeOK'
    BY <2>1, <2>2 DEF ProofsTypeOK, DecisionRequest
  <2>4. /\ req'[w].proof = req[w].proof /\ req'[w].decision = req[w].decision
        /\ \A v \in Workers : v # w => req'[v] = req[v]
        /\ proof'[req[w].proof] = req[w].decision
        /\ \A x \in Proofs : proof[x] # "none" => proof'[x] # "none"
    BY <1>t, <2>1 DEF ProofsTypeOK, DecisionRequest
  <2>5. /\ \A v \in Workers : v # w => (Resolving(v)' <=> Resolving(v))
        /\ req'[w] # NoRequest => Resolving(w)'
    BY <1>t, <2>1, <2>4 DEF Resolving, ProofsTypeOK, DecisionRequest
  <2>6. CategoryRead'
    <3>1. \A v \in Workers : req'[v] # NoRequest => proof'[req'[v].proof] # "none"
      BY <1>t, <2>1, <2>4 DEF CategoryRead
    <3>2. ASSUME NEW v \in Workers, Resolving(v)', ~astray'
          PROVE  v = w
      BY <2>2, <2>5, <3>2
    <3>3. last' # NoProof /\ proof'[last'] # "none" /\ last' \in Proofs
      BY <1>t, <2>1, <2>4 
    <3>4. req'[w] # NoRequest
      <4>1. req[w] \in DecisionRequest
        BY <2>1 DEF ProofsTypeOK
      <4>2. [req[w] EXCEPT !.step = "category"] \in DecisionRequest
        BY <4>1 DEF DecisionRequest
      <4> QED
        BY <1>t, <2>1, <4>2, CategoryProofsAssumption
    <3> QED
      BY <1>t, <2>1, <2>4, <2>5, <3>1, <3>2, <3>3, <3>4 DEF CategoryRead
  <2> QED
    BY <2>3, <2>6
<1>4. ASSUME NEW w \in Workers, ResolveCategory(w) PROVE CategoryInv'
  <2>1. /\ req[w] # NoRequest /\ req[w].step = "category"
        /\ category' = categoryFor(req[w].decision) /\ source' = "manual_verified"
        /\ req' = [req EXCEPT ![w] = NoRequest] /\ UNCHANGED <<proof, last, astray>>
    BY <1>4 DEF ResolveCategory, At, Done
  <2>2. ProofsTypeOK'
    BY <2>1 DEF ProofsTypeOK, DecisionRequest, categoryFor, Categories
  <2>3. \A v \in Workers : req'[v] = IF v = w THEN NoRequest ELSE req[v]
    BY <1>t, <2>1
  <2>4. /\ Resolving(w) /\ ~Resolving(w)'
        /\ \A v \in Workers : v # w => (Resolving(v)' <=> Resolving(v))
    BY <2>1, <2>3 DEF Resolving
  <2>5. CategoryRead'
    BY <1>t, <2>1, <2>3, <2>4 DEF CategoryRead
  <2> QED
    BY <2>2, <2>5
<1>5. ASSUME NEW w \in Workers, LoseDecision(w) PROVE CategoryInv'
  <2>1. /\ req[w] # NoRequest /\ req' = [req EXCEPT ![w] = NoRequest]
        /\ astray' = (astray \/ Resolving(w)) /\ UNCHANGED <<proof, category, source, last>>
    BY <1>5 DEF LoseDecision, Done, Resolving
  <2>2. ProofsTypeOK'
    BY <2>1 DEF ProofsTypeOK, DecisionRequest
  <2>3. \A v \in Workers : req'[v] = IF v = w THEN NoRequest ELSE req[v]
    BY <1>t, <2>1
  <2>4. /\ ~Resolving(w)'
        /\ \A v \in Workers : v # w => (Resolving(v)' <=> Resolving(v))
    BY <2>1, <2>3 DEF Resolving
  <2>5. CategoryRead'
    BY <1>t, <2>1, <2>3, <2>4 DEF CategoryRead
  <2> QED
    BY <2>2, <2>5
<1>6. ASSUME NEW c \in Categories, setCategory(c) PROVE CategoryInv'
  BY <1>6 DEF setCategory, ProofsTypeOK, DecisionRequest, CategoryRead, Resolving
<1>7. CASE UNCHANGED proofsVars
  BY <1>7 DEF proofsVars, ProofsTypeOK, DecisionRequest, CategoryRead, Resolving
<1> QED
  BY <1>1, <1>2, <1>3, <1>4, <1>5, <1>6, <1>7 DEF ProofsNext

\* With it, a category that nobody is about to write is that of the last decision.
LEMMA CategoryImplies ==
  ASSUME CategoryInv
  PROVE  CategoryFollowsProof
<1>1. \A w \in Workers : At(w, {"verify"}, "category") <=> Resolving(w)
  BY DEF At, Resolving, CategoryInv, ProofsTypeOK, DecisionRequest
<1> QED
  BY <1>1 DEF CategoryInv, CategoryRead, CategoryFollowsProof, needsKfProof

\* Once its decision is over, an applicant's category is that of the proof decided last, unless a
\* decision was crossed or lost between its two writes (the proofs of the admissions).
THEOREM CategoryFollows == ProofsSpec => []CategoryFollowsProof
  BY CategoryImplies, CategoryBegin, CategoryStep, PTL DEF ProofsSpec

-----------------------------------------------------------------------------
(* Timetable news *)

\* The worker has a status to change.
Busy(w) == req[w] # NoRequest

\* The worker has published the timetable and tells the class next.
Telling(w) == req[w] # NoRequest /\ req[w].step = "notify"

\* What the request at work may rely on while it has not met another.
StatusRead ==
    /\ \A v, w \in Workers : Busy(v) /\ Busy(w) /\ v # w => req[v].met = TRUE
    /\ \A w \in Workers : Busy(w) /\ req[w].met = TRUE => atOnce
    /\ \A w \in Workers : Busy(w) /\ req[w].met = FALSE /\ req[w].step = "write" =>
          req[w].was = status /\ ~archived
    /\ status = "none" => ~archived /\ \A w \in Workers : ~Busy(w)

\* A class that was published has been told, or whoever joined since, or a request is about to;
\* nobody twice: while the changes of its status came one after the other.
Announced ==
    ~atOnce =>
       /\ status = "published" /\ ~silent /\ (\A w \in Workers : ~Telling(w)) =>
             members \subseteq told \cup joined
       /\ toldTwice = {}
       /\ status = "published" => ~archived
       /\ \A w \in Workers : Telling(w) => status = "published" /\ told = {} /\ ~silent
       /\ silent => told = {}

\* The inductive invariant of TimetableNews.
NewsInv == NewsTypeOK /\ StatusRead /\ Announced

\* No timetable and no request at the start.
LEMMA NewsBegin == NewsInit => NewsInv
  BY DEF NewsInit, NewsInv, NewsTypeOK, StatusRequest, StatusRead, Announced, Idle, Busy, Telling, Status

\* Every step keeps the invariant: a request that meets another is counted in atOnce.
LEMMA NewsStep ==
  ASSUME NewsInv, [NewsNext]_newsVars
  PROVE  NewsInv'
<1> USE DEF NewsInv
<1>t. /\ DOMAIN req = Workers
      /\ \A v \in Workers : Busy(v) =>
            /\ req[v].op = "status" /\ req[v].step \in {"write", "notify"} /\ req[v].met \in BOOLEAN
            /\ req[v].to \in Status
      /\ atOnce \in BOOLEAN /\ silent \in BOOLEAN /\ archived \in BOOLEAN
      /\ Status = {"draft", "published", "archived"}
  BY DEF NewsTypeOK, StatusRequest, Busy, Status
<1>m. /\ Met \in [Workers -> StatusRequest \cup {NoRequest}]
      /\ \A v \in Workers : req[v] = NoRequest => Met[v] = NoRequest
      /\ \A v \in Workers : Busy(v) => Met[v].met = TRUE /\ Met[v].step = req[v].step
  <2>1. \A v \in Workers : Met[v] = IF req[v] = NoRequest THEN NoRequest ELSE [req[v] EXCEPT !.met = TRUE]
    BY DEF Met
  <2>2. ASSUME NEW v \in Workers, Busy(v)
        PROVE  /\ Met[v] \in StatusRequest
               /\ Met[v].met = TRUE /\ Met[v].step = req[v].step
    BY <2>1, <2>2 DEF Busy, NewsTypeOK, StatusRequest
  <2> QED
    BY <2>1, <2>2 DEF Busy, Met
<1>1. ASSUME NEW to \in Status, createSchedule(to) PROVE NewsInv'
  <2>1. /\ status = "none" /\ status' = to /\ UNCHANGED <<req, archived, members>>
        /\ IF to = "published"
           THEN told' = {} /\ toldTwice' = {} /\ joined' = {} /\ silent' = TRUE /\ atOnce' = FALSE
           ELSE UNCHANGED <<told, toldTwice, joined, silent, atOnce>>
    BY <1>1 DEF createSchedule, Publicised
  <2>2. ~archived /\ \A w \in Workers : ~Busy(w)
    BY <2>1 DEF StatusRead
  <2>3. NewsTypeOK'
    BY <2>1 DEF NewsTypeOK, StatusRequest
  <2>4. StatusRead'
    BY <1>t, <2>1, <2>2 DEF StatusRead, Busy
  <2>5. Announced'
    BY <1>t, <2>1, <2>2 DEF Announced, Telling, Busy
  <2> QED
    BY <2>3, <2>4, <2>5
<1>2. ASSUME NEW w \in Workers, NEW to \in Status, BeginStatus(w, to) PROVE NewsInv'
  <2> DEFINE q == [op |-> "status", step |-> "write", to |-> to, was |-> status, met |-> Others(w) # {}]
  <2>1. /\ status # "none" /\ ~archived /\ req[w] = NoRequest /\ req' = [Met EXCEPT ![w] = q]
        /\ atOnce' = (atOnce \/ Others(w) # {})
        /\ UNCHANGED <<status, archived, members, told, toldTwice, joined, silent>>
    BY <1>2 DEF BeginStatus, findSchedule
  <2>2. q \in StatusRequest
    BY <2>1 DEF NewsTypeOK, StatusRequest
  <2>3. q.was = status /\ q.step = "write" /\ q.met = (Others(w) # {})
    OBVIOUS
  <2> HIDE DEF q
  <2>4. NewsTypeOK'
    BY <1>m, <2>1, <2>2 DEF NewsTypeOK, StatusRequest
  <2>5. \A v \in Workers : req'[v] = IF v = w THEN q ELSE Met[v]
    BY <1>m, <2>1
  <2>6. \A v \in Workers : v # w => (Busy(v)' => Busy(v)) /\ (Busy(v)' => req'[v].met = TRUE /\ req'[v].step = req[v].step)
    BY <1>m, <2>5 DEF Busy
  <2>7. \A v \in Workers : Busy(v) => Others(w) # {}
    BY <2>1 DEF Busy, Others
  <2>8. StatusRead'
    <3>1. \A v, x \in Workers : Busy(v)' /\ Busy(x)' /\ v # x => req'[v].met = TRUE
      BY <2>3, <2>5, <2>6, <2>7
    <3>2. \A v \in Workers : Busy(v)' /\ req'[v].met = TRUE => atOnce'
      BY <2>1, <2>3, <2>5, <2>6, <2>7
    <3>3. \A v \in Workers : Busy(v)' /\ req'[v].met = FALSE /\ req'[v].step = "write" =>
             req'[v].was = status /\ ~archived
      BY <2>1, <2>3, <2>5, <2>6
    <3> QED
      BY <2>1, <3>1, <3>2, <3>3 DEF StatusRead
  <2>9. Announced'
    <3> SUFFICES ASSUME ~atOnce' PROVE Announced'
      BY DEF Announced
    <3>1. ~atOnce /\ \A v \in Workers : ~Busy(v)
      BY <2>1, <2>7
    <3>2. \A v \in Workers : ~Telling(v) /\ ~Telling(v)'
      BY <2>3, <2>5, <2>6, <3>1 DEF Telling, Busy
    <3> QED
      BY <2>1, <3>1, <3>2 DEF Announced
  <2> QED
    BY <2>4, <2>8, <2>9
<1>3. ASSUME NEW w \in Workers, WriteStatus(w) PROVE NewsInv'
  <2>1. /\ req[w] # NoRequest /\ req[w].step = "write" /\ status' = req[w].to
        /\ IF req[w].to = "published" /\ status # "published"
           THEN told' = {} /\ toldTwice' = {} /\ joined' = {} /\ silent' = FALSE /\ atOnce' = req[w].met
           ELSE UNCHANGED <<told, toldTwice, joined, silent, atOnce>>
        /\ \/ /\ req[w].to = "published" /\ req[w].was # "published"
              /\ req' = [req EXCEPT ![w].step = "notify"]
           \/ ~(req[w].to = "published" /\ req[w].was # "published") /\ req' = [req EXCEPT ![w] = NoRequest]
        /\ UNCHANGED <<archived, members>>
    BY <1>3 DEF WriteStatus, At, Publicised, Tells, Goto, Done
  <2>2. req[w].to \in Status /\ req[w].met \in BOOLEAN
    BY <1>t, <2>1 DEF Busy
  <2>3. NewsTypeOK'
    <3>1. status' \in Status \cup {"none"} /\ atOnce' \in BOOLEAN /\ silent' \in BOOLEAN
          /\ members' \cup told' \cup toldTwice' \cup joined' \subseteq Readers /\ archived' \in BOOLEAN
      BY <1>t, <2>1, <2>2 DEF NewsTypeOK, StatusRequest
    <3>2. req' \in [Workers -> StatusRequest \cup {NoRequest}]
      BY <2>1 DEF NewsTypeOK, StatusRequest
    <3> QED
      BY <3>1, <3>2 DEF NewsTypeOK, StatusRequest
  <2>4. /\ \A v \in Workers : v # w => req'[v] = req[v]
        /\ req'[w] # NoRequest => /\ req'[w].met = req[w].met /\ req'[w].step = "notify"
                                  /\ req[w].to = "published" /\ req[w].was # "published"
    BY <2>1 DEF NewsTypeOK, StatusRequest
  <2>5. StatusRead'
    <3>1. \A v \in Workers : Busy(v)' => Busy(v) /\ req'[v].met = req[v].met
      BY <2>1, <2>4 DEF Busy
    <3>2. CASE req[w].met = FALSE
      BY <1>t, <2>1, <2>2, <2>4, <3>1, <3>2 DEF StatusRead, Busy
    <3>3. CASE req[w].met = TRUE
      <4>1. atOnce /\ atOnce'
        BY <1>t, <2>1, <3>3 DEF StatusRead, Busy
      <4>2. \A v \in Workers : v # w /\ Busy(v)' => req'[v].met = TRUE
        BY <2>1, <2>4, <3>1 DEF StatusRead, Busy
      <4> QED
        BY <1>t, <2>1, <2>2, <2>4, <3>1, <3>3, <4>1, <4>2 DEF StatusRead, Busy
    <3> QED
      BY <2>2, <3>2, <3>3
  <2>6. Announced'
    <3> SUFFICES ASSUME ~atOnce' PROVE Announced'
      BY DEF Announced
    <3>1. req[w].met = FALSE
      BY <1>t, <2>1, <2>2 DEF StatusRead, Busy
    <3>2. /\ \A v \in Workers : v # w => ~Busy(v) /\ ~Telling(v)'
          /\ req[w].was = status /\ ~archived /\ ~Telling(w)
      BY <2>1, <2>4, <3>1 DEF StatusRead, Busy, Telling
    <3>3. CASE req[w].to = "published" /\ status # "published"
      <4>1. Busy(w)' => Telling(w)'
        BY <2>4 DEF Busy, Telling
      <4>2. Telling(w)'
        <5>1. [req[w] EXCEPT !.step = "notify"] \in StatusRequest
          BY <2>1 DEF NewsTypeOK, StatusRequest
        <5> QED
          BY <1>t, <2>1, <2>4, <3>2, <3>3, <5>1, TimetableNewsAssumption DEF Telling
      <4> QED
        BY <2>1, <3>2, <3>3, <4>2 DEF Announced
    <3>4. CASE ~(req[w].to = "published" /\ status # "published")
      <4>1. ~Telling(w)'
        BY <2>4, <3>2, <3>4 DEF Telling
      <4>2. \A v \in Workers : ~Telling(v) /\ ~Telling(v)'
        BY <3>2, <4>1 DEF Telling, Busy
      <4> QED
        BY <2>1, <3>2, <3>4, <4>2 DEF Announced
    <3> QED
      BY <3>3, <3>4
  <2> QED
    BY <2>3, <2>5, <2>6
<1>4. ASSUME NEW w \in Workers, notifySchedulePublished(w) PROVE NewsInv'
  <2>1. /\ Telling(w) /\ told' = told \cup members /\ toldTwice' = toldTwice \cup (told \cap members)
        /\ req' = [req EXCEPT ![w] = NoRequest]
        /\ UNCHANGED <<status, archived, members, joined, silent, atOnce>>
    BY <1>4 DEF notifySchedulePublished, At, Done, Telling
  <2>2. NewsTypeOK'
    BY <2>1 DEF NewsTypeOK, StatusRequest
  <2>3. \A v \in Workers : req'[v] = IF v = w THEN NoRequest ELSE req[v]
    BY <1>t, <2>1
  <2>4. StatusRead'
    BY <1>t, <2>1, <2>3 DEF StatusRead, Busy
  <2>5. ASSUME ~atOnce, NEW v \in Workers PROVE ~Telling(v)'
    BY <2>1, <2>3, <2>5 DEF StatusRead, Telling, Busy
  <2>6. Announced'
    BY <2>1, <2>5 DEF Announced
  <2> QED
    BY <2>2, <2>4, <2>6
<1>5. ASSUME NEW w \in Workers, LoseStatusRequest(w) PROVE NewsInv'
  <2>1. /\ Busy(w) /\ silent' = (silent \/ Telling(w))
        /\ req' = [req EXCEPT ![w] = NoRequest]
        /\ UNCHANGED <<status, archived, members, told, toldTwice, joined, atOnce>>
    BY <1>5 DEF LoseStatusRequest, Done, Telling, Busy
  <2>2. NewsTypeOK'
    BY <2>1 DEF NewsTypeOK, StatusRequest
  <2>3. \A v \in Workers : req'[v] = IF v = w THEN NoRequest ELSE req[v]
    BY <1>t, <2>1
  <2>4. StatusRead'
    BY <1>t, <2>1, <2>3 DEF StatusRead, Busy
  <2>5. ASSUME ~atOnce, NEW v \in Workers PROVE ~Telling(v)'
    BY <2>1, <2>3, <2>5 DEF StatusRead, Telling, Busy
  <2>6. Announced'
    BY <1>t, <2>1, <2>3, <2>5 DEF Announced, Telling
  <2> QED
    BY <2>2, <2>4, <2>6
<1>6. CASE archiveSchedule
  <2>1. /\ status' = "archived" /\ archived' = TRUE /\ req' = Met
        /\ atOnce' = (atOnce \/ req # Idle)
        /\ UNCHANGED <<members, told, toldTwice, joined, silent>>
    BY <1>6 DEF archiveSchedule
  <2>2. NewsTypeOK'
    BY <1>m, <2>1 DEF NewsTypeOK, StatusRequest, Status
  <2>3. \A v \in Workers : Busy(v)' => Busy(v) /\ req'[v].met = TRUE
    BY <1>m, <2>1 DEF Busy
  <2>4. \A v \in Workers : Busy(v) => atOnce'
    BY <2>1 DEF Busy, Idle
  <2>5. StatusRead'
    BY <2>1, <2>3, <2>4 DEF StatusRead
  <2>6. Announced'
    BY <1>t, <2>1, <2>3, <2>4 DEF Announced, Telling, Busy
  <2> QED
    BY <2>2, <2>5, <2>6
<1>7. ASSUME NEW r \in Readers, ChangeMember(r) PROVE NewsInv'
  <2>1. /\ members' \subseteq Readers /\ joined' = joined \cup (members' \ members)
        /\ UNCHANGED <<req, status, archived, told, toldTwice, silent, atOnce>>
    BY <1>7 DEF ChangeMember, NewsTypeOK, StatusRequest
  <2>2. NewsTypeOK'
    BY <2>1 DEF NewsTypeOK, StatusRequest
  <2> QED
    BY <2>1, <2>2 DEF StatusRead, Announced, Busy, Telling
<1>8. CASE UNCHANGED newsVars
  BY <1>8 DEF newsVars, NewsTypeOK, StatusRequest, StatusRead, Announced, Busy, Telling
<1> QED
  BY <1>1, <1>2, <1>3, <1>4, <1>5, <1>6, <1>7, <1>8 DEF NewsNext

\* With it, a change of the status that nobody is about to tell of has been told.
LEMMA NewsImplies ==
  ASSUME NewsInv
  PROVE  TimetableAnnounced
<1>1. \A w \in Workers : At(w, {"status"}, "notify") <=> Telling(w)
  BY DEF At, Telling, NewsInv, NewsTypeOK, StatusRequest
<1> QED
  BY <1>1 DEF NewsInv, Announced, TimetableAnnounced, NewsTypeOK, StatusRequest

\* The members of a class are told, once, that its timetable is public when the request is over,
\* unless it was created public, the request was lost before it told, or another was at work.
THEOREM TimetablesAnnounced == NewsSpec => []TimetableAnnounced
  BY NewsImplies, NewsBegin, NewsStep, PTL DEF NewsSpec

-----------------------------------------------------------------------------
(* Branches of a foundation *)

\* What a request has read: the branch is its network's, or has left it since (slipped); and
\* only an update of a status that found the branch gone is logged without having been made.
ScopeRead ==
    \A w \in Workers : req[w] # NoRequest =>
        /\ req[w].op \in BranchChanges =>
              branchOf[req[w].on] = req[w].by \/ req[w].on \in slipped
        /\ req[w].op \in PolicyChanges => policyOf[req[w].on] \in {req[w].by, NoNetwork}
        /\ req[w].step = "log" /\ req[w].made = FALSE =>
              req[w].op = "update_branch_status" /\ req[w].on \in slipped

\* The inductive invariant of Branches.
BranchesInv == BranchesTypeOK /\ ScopeRead /\ NetworkChangesScoped

\* No change and no request at the start.
LEMMA BranchesBegin == BranchesInit => BranchesInv
  BY DEF BranchesInit, BranchesInv, BranchesTypeOK, ScopeRead, NetworkChangesScoped, Idle

\* Whoever's row it is by now, a write strays only from a branch that left, in an update.
LEMMA WriteKeeps ==
  ASSUME BranchesInv, NEW w \in Workers, NEW holder, NEW next \in {"name", "log"},
         req[w] # NoRequest, Write(w, holder, next),
         [req[w] EXCEPT !.step = next, !.made = TRUE] \in
            [op: BranchChanges, by: NetworkIds, on: BranchIds,
             step: {"settings", "name", "status", "log"}, made: BOOLEAN]
            \cup [op: PolicyChanges, by: NetworkIds, on: PolicyIds,
                  step: {"policy", "log"}, made: BOOLEAN],
         holder = req[w].by \/ (req[w].op = "update_branch" /\ req[w].on \in slipped),
         branchOf' = branchOf,
         policyOf' \in [PolicyIds -> NetworkIds \cup {NoNetwork}],
         \A p \in PolicyIds : policyOf'[p] \in {policyOf[p], NoNetwork}
  PROVE  BranchesInv'
<1> DEFINE q == [req[w] EXCEPT !.step = next, !.made = TRUE]
<1>1. /\ req' = [req EXCEPT ![w] = q]
      /\ strayed' = IF holder = req[w].by THEN strayed ELSE strayed \cup {Entry(w)}
      /\ UNCHANGED <<hollow, slipped>>
  BY DEF Write
<1>2. /\ q.op = req[w].op /\ q.by = req[w].by /\ q.on = req[w].on /\ q.made = TRUE
      /\ req[w].op = "update_branch" => Entry(w) \in NetworkChange
      /\ Entry(w).what = req[w].op /\ Entry(w).on = req[w].on
  BY DEF BranchesInv, BranchesTypeOK, Entry, NetworkChange, BranchChanges, PolicyChanges
<1> HIDE DEF q
<1>3. BranchesTypeOK'
  <2>1. req' \in [Workers ->
          [op: BranchChanges, by: NetworkIds, on: BranchIds,
           step: {"settings", "name", "status", "log"}, made: BOOLEAN]
            \cup [op: PolicyChanges, by: NetworkIds, on: PolicyIds,
                  step: {"policy", "log"}, made: BOOLEAN]
            \cup {NoRequest}]
    BY <1>1 DEF BranchesInv, BranchesTypeOK, q
  <2> QED
    BY <1>1, <1>2, <2>1 DEF BranchesInv, BranchesTypeOK
<1>4. \A v \in Workers : req'[v] = IF v = w THEN q ELSE req[v]
  BY <1>1 DEF BranchesInv, BranchesTypeOK
<1>5. ScopeRead'
  <2>1. ASSUME NEW v \in Workers, req'[v] # NoRequest
        PROVE  /\ req[v] # NoRequest /\ req'[v].op = req[v].op /\ req'[v].by = req[v].by
               /\ req'[v].on = req[v].on
               /\ req'[v].made = FALSE => req'[v] = req[v]
    BY <1>2, <1>4, <2>1
  <2>2. \A v \in Workers : req[v] # NoRequest /\ req[v].op \in PolicyChanges => req[v].on \in PolicyIds
    BY DEF BranchesInv, BranchesTypeOK, BranchChanges, PolicyChanges
  <2> SUFFICES ASSUME NEW v \in Workers, req'[v] # NoRequest
               PROVE  /\ req'[v].op \in BranchChanges =>
                            branchOf[req'[v].on] = req'[v].by \/ req'[v].on \in slipped
                      /\ req'[v].op \in PolicyChanges => policyOf'[req'[v].on] \in {req'[v].by, NoNetwork}
                      /\ req'[v].step = "log" /\ req'[v].made = FALSE =>
                            req'[v].op = "update_branch_status" /\ req'[v].on \in slipped
    BY <1>1 DEF ScopeRead
  <2>3. /\ req[v].op \in BranchChanges => branchOf[req[v].on] = req[v].by \/ req[v].on \in slipped
        /\ req[v].op \in PolicyChanges => policyOf[req[v].on] \in {req[v].by, NoNetwork}
        /\ req[v].step = "log" /\ req[v].made = FALSE =>
              req[v].op = "update_branch_status" /\ req[v].on \in slipped
    BY <2>1 DEF BranchesInv, ScopeRead
  <2>4. req[v].op \in PolicyChanges => policyOf'[req[v].on] \in {policyOf[req[v].on], NoNetwork}
    BY <2>1, <2>2
  <2> QED
    BY <2>1, <2>3, <2>4
<1>6. NetworkChangesScoped'
  BY <1>1, <1>2 DEF BranchesInv, NetworkChangesScoped
<1> QED
  BY <1>3, <1>5, <1>6 DEF BranchesInv

\* Every step keeps the invariant: a branch that changes its network under a request is slipped,
\* a policy never changes hands.
LEMMA BranchesStep ==
  ASSUME BranchesInv, [BranchesNext]_branchesVars
  PROVE  BranchesInv'
<1> USE DEF BranchesInv
<1>t. /\ DOMAIN req = Workers
      /\ \A v \in Workers : req[v] # NoRequest =>
            \/ req[v] \in [op: BranchChanges, by: NetworkIds, on: BranchIds,
                           step: {"settings", "name", "status", "log"}, made: BOOLEAN]
            \/ req[v] \in [op: PolicyChanges, by: NetworkIds, on: PolicyIds,
                           step: {"policy", "log"}, made: BOOLEAN]
  BY DEF BranchesTypeOK
<1>b. ASSUME NEW w \in Workers, NEW q, Begin(w, q),
             \/ q \in [op: BranchChanges, by: NetworkIds, on: BranchIds,
                       step: {"settings", "name", "status"}, made: {FALSE}]
                /\ branchOf[q.on] = q.by
             \/ q \in [op: PolicyChanges, by: NetworkIds, on: PolicyIds,
                       step: {"policy"}, made: {FALSE}]
                /\ policyOf[q.on] = q.by,
             UNCHANGED <<branchOf, policyOf, strayed, hollow, slipped>>
      PROVE  BranchesInv'
  <2>1. \A v \in Workers : req'[v] = IF v = w THEN q ELSE req[v]
    BY <1>b, <1>t DEF Begin
  <2>2. BranchesTypeOK'
    <3>1. q \in [op: BranchChanges, by: NetworkIds, on: BranchIds,
                 step: {"settings", "name", "status", "log"}, made: BOOLEAN]
                \cup [op: PolicyChanges, by: NetworkIds, on: PolicyIds,
                      step: {"policy", "log"}, made: BOOLEAN]
      BY <1>b
    <3> QED
      BY <1>b, <3>1 DEF BranchesTypeOK, Begin
  <2>3. q.step # "log" /\ (q.op \in BranchChanges => branchOf[q.on] = q.by)
        /\ (q.op \in PolicyChanges => policyOf[q.on] = q.by)
    BY <1>b DEF BranchChanges, PolicyChanges
  <2>4. ScopeRead'
    BY <1>b, <2>1, <2>3 DEF ScopeRead
  <2> QED
    BY <1>b, <2>2, <2>4 DEF NetworkChangesScoped
<1>1. ASSUME NEW w \in Workers, NEW n \in NetworkIds, NEW b \in BranchIds,
             \/ \E step \in {"settings", "name"} : BeginBranchUpdate(w, n, b, step)
             \/ BeginBranchStatus(w, n, b)
      PROVE  BranchesInv'
  BY <1>1, <1>b DEF BeginBranchUpdate, BeginBranchStatus, BeginNetworkRequest, findBranch, BranchChanges
<1>2. ASSUME NEW w \in Workers, NEW n \in NetworkIds, NEW p \in PolicyIds,
             NEW op \in {"update_policy", "delete_policy"}, BeginPolicyChange(w, n, p, op)
      PROVE  BranchesInv'
  BY <1>2, <1>b DEF BeginPolicyChange, BeginNetworkRequest, findPolicy, PolicyChanges
<1>3. ASSUME NEW w \in Workers, NEW n \in NetworkIds, NEW p \in PolicyIds, createPolicy(w, n, p)
      PROVE  BranchesInv'
  <2> DEFINE q == [op |-> "create_policy", step |-> "log", by |-> n, on |-> p, made |-> TRUE]
  <2>1. /\ req' = [req EXCEPT ![w] = q] /\ policyOf' = [policyOf EXCEPT ![p] = n]
        /\ \A v \in Workers : req[v] # NoRequest => req[v].on # p
        /\ UNCHANGED <<branchOf, strayed, hollow, slipped>>
    BY <1>3 DEF createPolicy, Begin
  <2>2. BranchesTypeOK'
    <3>1. q \in [op: PolicyChanges, by: NetworkIds, on: PolicyIds, step: {"policy", "log"}, made: BOOLEAN]
      BY DEF PolicyChanges
    <3> QED
      BY <2>1, <3>1 DEF BranchesTypeOK
  <2>3. /\ \A v \in Workers : req'[v] = IF v = w THEN q ELSE req[v]
        /\ policyOf'[p] = n /\ \A x \in PolicyIds : x # p => policyOf'[x] = policyOf[x]
    BY <1>t, <2>1 DEF BranchesTypeOK
  <2>4. q.op \in PolicyChanges /\ q.op \notin BranchChanges /\ q.on = p /\ q.by = n /\ q.made = TRUE
    BY DEF PolicyChanges, BranchChanges
  <2>5. \A v \in Workers : req[v] # NoRequest /\ req[v].op \in PolicyChanges => req[v].on \in PolicyIds
    BY <1>t DEF BranchChanges, PolicyChanges
  <2> HIDE DEF q
  <2>6. ScopeRead'
    BY <2>1, <2>3, <2>4, <2>5 DEF ScopeRead
  <2> QED
    BY <2>1, <2>2, <2>6 DEF NetworkChangesScoped
<1>4. ASSUME NEW w \in Workers, UpsertSettings(w) PROVE BranchesInv'
  <2>1. req[w] # NoRequest /\ req[w].op = "update_branch" /\ Write(w, branchOf[req[w].on], "name")
        /\ UNCHANGED <<branchOf, policyOf>>
    BY <1>4 DEF UpsertSettings, At
  <2>2. [req[w] EXCEPT !.step = "name", !.made = TRUE] \in
           [op: BranchChanges, by: NetworkIds, on: BranchIds,
            step: {"settings", "name", "status", "log"}, made: BOOLEAN]
    BY <1>t, <2>1 DEF BranchChanges, PolicyChanges
  <2>3. branchOf[req[w].on] = req[w].by \/ req[w].on \in slipped
    BY <2>1 DEF ScopeRead, BranchChanges
  <2> QED
    BY <2>1, <2>2, <2>3, WriteKeeps DEF BranchesTypeOK
<1>5. ASSUME NEW w \in Workers, UpdateName(w) PROVE BranchesInv'
  <2>1. req[w] # NoRequest /\ req[w].op = "update_branch" /\ Write(w, branchOf[req[w].on], "log")
        /\ UNCHANGED <<branchOf, policyOf>>
    BY <1>5 DEF UpdateName, At
  <2>2. [req[w] EXCEPT !.step = "log", !.made = TRUE] \in
           [op: BranchChanges, by: NetworkIds, on: BranchIds,
            step: {"settings", "name", "status", "log"}, made: BOOLEAN]
    BY <1>t, <2>1 DEF BranchChanges, PolicyChanges
  <2>3. branchOf[req[w].on] = req[w].by \/ req[w].on \in slipped
    BY <2>1 DEF ScopeRead, BranchChanges
  <2> QED
    BY <2>1, <2>2, <2>3, WriteKeeps DEF BranchesTypeOK
<1>6. ASSUME NEW w \in Workers, UpdateStatus(w) PROVE BranchesInv'
  <2>1. /\ req[w] # NoRequest /\ req[w].op = "update_branch_status" /\ req[w].step = "status"
        /\ UNCHANGED <<branchOf, policyOf>>
    BY <1>6 DEF UpdateStatus, At
  <2>2. req[w] \in [op: BranchChanges, by: NetworkIds, on: BranchIds,
                    step: {"settings", "name", "status", "log"}, made: BOOLEAN]
    BY <1>t, <2>1 DEF BranchChanges, PolicyChanges
  <2>3. CASE branchOf[req[w].on] = req[w].by
    <3>1. Write(w, branchOf[req[w].on], "log")
      BY <1>6, <2>3 DEF UpdateStatus
    <3>2. [req[w] EXCEPT !.step = "log", !.made = TRUE] \in
             [op: BranchChanges, by: NetworkIds, on: BranchIds,
              step: {"settings", "name", "status", "log"}, made: BOOLEAN]
      BY <2>2
    <3> QED
      BY <2>1, <2>3, <3>1, <3>2, WriteKeeps DEF BranchesTypeOK
  <2>4. CASE branchOf[req[w].on] # req[w].by
    <3>1. req' = [req EXCEPT ![w].step = "log"] /\ UNCHANGED <<strayed, hollow, slipped>>
      BY <1>6, <2>4 DEF UpdateStatus, Goto
    <3>2. PICK q \in [op: BranchChanges, by: NetworkIds, on: BranchIds,
                      step: {"settings", "name", "status", "log"}, made: BOOLEAN] :
             /\ q = [req[w] EXCEPT !.step = "log"]
             /\ q.op = "update_branch_status" /\ q.on = req[w].on /\ q.by = req[w].by
      <4>1. PICK r \in [op: BranchChanges, by: NetworkIds, on: BranchIds,
                         step: {"settings", "name", "status", "log"}, made: BOOLEAN] : r = req[w]
        BY <2>2
      <4> DEFINE q == [r EXCEPT !.step = "log"]
      <4>2. /\ q \in [op: BranchChanges, by: NetworkIds, on: BranchIds,
                       step: {"settings", "name", "status", "log"}, made: BOOLEAN]
            /\ q.op = r.op /\ q.on = r.on /\ q.by = r.by
        OBVIOUS
      <4> QED
        BY <2>1, <4>1, <4>2
    <3>3. req' = [req EXCEPT ![w] = q]
      BY <3>1, <3>2
    <3>4. \A v \in Workers : req'[v] = IF v = w THEN q ELSE req[v]
      BY <1>t, <3>3
    <3>5. BranchesTypeOK'
      BY <2>1, <3>1, <3>3 DEF BranchesTypeOK
    <3>6. req[w].on \in slipped
      BY <2>1, <2>4 DEF ScopeRead, BranchChanges
    <3>7. ScopeRead'
      BY <2>1, <3>1, <3>2, <3>4, <3>6 DEF ScopeRead, BranchChanges, PolicyChanges
    <3> QED
      BY <3>1, <3>5, <3>7 DEF NetworkChangesScoped
  <2> QED
    BY <2>3, <2>4
<1>7. ASSUME NEW w \in Workers, WritePolicy(w) PROVE BranchesInv'
  <2> DEFINE holder == IF policyOf[req[w].on] = NoNetwork THEN req[w].by ELSE policyOf[req[w].on]
  <2>1. /\ req[w] # NoRequest /\ req[w].op \in PolicyChanges /\ Write(w, holder, "log")
        /\ policyOf' = [policyOf EXCEPT ![req[w].on] = IF req[w].op = "delete_policy" THEN NoNetwork ELSE @]
        /\ branchOf' = branchOf
    BY <1>7 DEF WritePolicy, At
  <2>2. req[w] \in [op: PolicyChanges, by: NetworkIds, on: PolicyIds, step: {"policy", "log"}, made: BOOLEAN]
    BY <1>t, <2>1 DEF BranchChanges, PolicyChanges
  <2>3. [req[w] EXCEPT !.step = "log", !.made = TRUE] \in
           [op: PolicyChanges, by: NetworkIds, on: PolicyIds, step: {"policy", "log"}, made: BOOLEAN]
    BY <2>2
  <2>4. holder = req[w].by
    BY <2>1 DEF ScopeRead
  <2>5. /\ policyOf' \in [PolicyIds -> NetworkIds \cup {NoNetwork}]
        /\ \A p \in PolicyIds : policyOf'[p] \in {policyOf[p], NoNetwork}
    BY <2>1 DEF BranchesTypeOK
  <2> HIDE DEF holder
  <2> QED
    BY <2>1, <2>3, <2>4, <2>5, WriteKeeps
<1>8. ASSUME NEW w \in Workers, Log(w) PROVE BranchesInv'
  <2>1. /\ req[w] # NoRequest /\ req[w].step = "log" /\ req' = [req EXCEPT ![w] = NoRequest]
        /\ hollow' = IF req[w].made THEN hollow ELSE hollow \cup {Entry(w)}
        /\ UNCHANGED <<branchOf, policyOf, strayed, slipped>>
    BY <1>8 DEF Log, At, Done
  <2>2. req[w].made \in BOOLEAN /\ Entry(w) \in NetworkChange
        /\ Entry(w).what = req[w].op /\ Entry(w).on = req[w].on
    BY <1>t, <2>1 DEF Entry, NetworkChange
  <2>3. BranchesTypeOK'
    BY <2>1, <2>2 DEF BranchesTypeOK
  <2>4. ScopeRead'
    BY <1>t, <2>1 DEF ScopeRead
  <2>5. NetworkChangesScoped'
    BY <2>1, <2>2 DEF NetworkChangesScoped, ScopeRead
  <2> QED
    BY <2>3, <2>4, <2>5
<1>9. ASSUME NEW w \in Workers, LoseNetworkRequest(w) PROVE BranchesInv'
  BY <1>9 DEF LoseNetworkRequest, Done, BranchesTypeOK, ScopeRead, NetworkChangesScoped
<1>10. ASSUME NEW b \in BranchIds, NEW n \in NetworkIds \cup {NoNetwork}, MoveBranch(b, n)
       PROVE  BranchesInv'
  <2>1. /\ branchOf' = [branchOf EXCEPT ![b] = n]
        /\ slipped \subseteq slipped' /\ slipped' \subseteq slipped \cup {b}
        /\ \A w \in Workers : req[w] # NoRequest /\ req[w].on = b => b \in slipped'
        /\ UNCHANGED <<req, policyOf, strayed, hollow>>
    BY <1>10 DEF MoveBranch
  <2>2. BranchesTypeOK'
    BY <2>1 DEF BranchesTypeOK
  <2>3. \A x \in BranchIds : x # b => branchOf'[x] = branchOf[x]
    BY <2>1 DEF BranchesTypeOK
  <2>4. \A v \in Workers : req[v] # NoRequest /\ req[v].op \in BranchChanges => req[v].on \in BranchIds
    BY <1>t DEF BranchChanges, PolicyChanges
  <2>5. ScopeRead'
    BY <2>1, <2>3, <2>4 DEF ScopeRead
  <2> QED
    BY <2>1, <2>2, <2>5 DEF NetworkChangesScoped
<1>11. CASE UNCHANGED branchesVars
  BY <1>11 DEF branchesVars, BranchesTypeOK, ScopeRead, NetworkChangesScoped
<1> QED
  BY <1>1, <1>2, <1>3, <1>4, <1>5, <1>6, <1>7, <1>8, <1>9, <1>10, <1>11 DEF BranchesNext

\* A foundation changes only its own branches and policies, unless the branch left it during the
\* request; and what the audit log tells of was done, the same way (NetworksService).
THEOREM BranchesStayScoped == BranchesSpec => []NetworkChangesScoped
<1>1. BranchesInv => NetworkChangesScoped
  BY DEF BranchesInv
<1> QED
  BY <1>1, BranchesBegin, BranchesStep, PTL DEF BranchesSpec

-----------------------------------------------------------------------------
(* Tenants and their schemas *)

\* The request that has inserted the tenant's row and has not ended.
Making(w, s) ==
    /\ req[w] # NoRequest /\ req[w].op \in {"create", "register"}
    /\ req[w].step # "insert" /\ req[w].slug = s

\* A school has its schema, and a schema a tenant.
Matched(s) ==
    /\ owner[s] = "school" => schema[s] = "ready"
    /\ schema[s] # "none" => owner[s] # "none"

\* A tenant without a match is being made, or broken, by one request; that of a registration has
\* deleted the schema before it deletes the tenant.
SchemasKept ==
    /\ \A w \in Workers, s \in Slugs : Making(w, s) =>
          /\ owner[s] # "none"
          /\ \A v \in Workers : Making(v, s) => v = w
    /\ \A s \in Slugs \ broken :
          /\ Matched(s) \/ \E w \in Workers : Making(w, s)
          /\ \A w \in Workers : Making(w, s) /\ req[w].op = "register" =>
                /\ req[w].step = "delete" => schema[s] = "none"
                /\ req[w].step = "admin" /\ owner[s] = "school" => schema[s] = "ready"

\* The inductive invariant of Provisioning.
ProvisioningInv == ProvisioningTypeOK /\ SchemasKept

\* No tenant but those that were there before, with their schemas.
LEMMA ProvisioningBegins == ProvisioningInit => ProvisioningInv
<1> SUFFICES ASSUME ProvisioningInit PROVE ProvisioningInv
  OBVIOUS
<1>1. ProvisioningTypeOK
  BY DEF ProvisioningInit, ProvisioningTypeOK, Idle, Types, SchemaStates
<1>2. SchemasKept
  BY DEF ProvisioningInit, SchemasKept, Idle, Making, Matched
<1> QED
  BY <1>1, <1>2 DEF ProvisioningInv

\* Every step keeps the invariant: a request owns the slug from its insert to its end, and one that
\* is lost in between, or cannot undo what it made, leaves the slug broken.
LEMMA ProvisioningStep ==
  ASSUME ProvisioningInv, [ProvisioningNext]_provisioningVars
  PROVE  ProvisioningInv'
<1> USE DEF ProvisioningInv
<1>t. /\ req \in [Workers -> ProvisioningRequest \cup {NoRequest}]
      /\ owner \in [Slugs -> Types \cup {"none", "removed"}]
      /\ schema \in [Slugs -> SchemaStates]
      /\ broken \subseteq Slugs
      /\ NoRequest \notin ProvisioningRequest
      /\ DOMAIN req = Workers
  BY ProvisioningAssumption DEF ProvisioningTypeOK
<1>q. \A v \in Workers : req[v] # NoRequest =>
         req[v] \in ProvisioningRequest /\ req[v].slug \in Slugs /\ req[v].type \in Types
  BY <1>t DEF ProvisioningRequest
\* What becomes of the request of a worker.
<1>g. ASSUME NEW w \in Workers, req[w] # NoRequest,
             NEW step \in {"insert", "schema", "prepare", "record", "deploy", "admin", "drop", "delete"},
             Goto(w, step)
      PROVE  /\ req' \in [Workers -> ProvisioningRequest \cup {NoRequest}]
             /\ req'[w] # NoRequest /\ req'[w].step = step
             /\ req'[w].op = req[w].op /\ req'[w].slug = req[w].slug
             /\ \A v \in Workers \ {w} : req'[v] = req[v]
  <2>1. req' = [req EXCEPT ![w].step = step] /\ req[w] \in ProvisioningRequest
    BY <1>g, <1>q DEF Goto
  <2>2. /\ [req[w] EXCEPT !.step = step] \in ProvisioningRequest
        /\ [req[w] EXCEPT !.step = step].step = step
        /\ [req[w] EXCEPT !.step = step].op = req[w].op
        /\ [req[w] EXCEPT !.step = step].slug = req[w].slug
    BY <2>1 DEF ProvisioningRequest
  <2>3. req'[w] = [req[w] EXCEPT !.step = step] /\ \A v \in Workers \ {w} : req'[v] = req[v]
    BY <1>t, <2>1
  <2>4. req' \in [Workers -> ProvisioningRequest \cup {NoRequest}]
    BY <1>t, <2>1, <2>2
  <2> QED
    BY <1>t, <2>2, <2>3, <2>4
<1>d. ASSUME NEW w \in Workers, Done(w)
      PROVE  /\ req' \in [Workers -> ProvisioningRequest \cup {NoRequest}]
             /\ req'[w] = NoRequest
             /\ \A v \in Workers \ {w} : req'[v] = req[v]
  BY <1>d, <1>t DEF Done
<1>b. ASSUME NEW w \in Workers, NEW q \in ProvisioningRequest, req[w] = NoRequest,
             req' = [req EXCEPT ![w] = q], q.op = "migrate" \/ q.step = "insert",
             UNCHANGED <<owner, schema, broken>>
      PROVE  ProvisioningInv'
  <2>1. /\ req' \in [Workers -> ProvisioningRequest \cup {NoRequest}]
        /\ req'[w] = q /\ \A v \in Workers \ {w} : req'[v] = req[v]
    BY <1>b, <1>t
  <2>2. ProvisioningTypeOK'
    BY <1>b, <2>1 DEF ProvisioningTypeOK
  <2>3. \A v \in Workers, s \in Slugs : /\ Making(v, s)' <=> Making(v, s)
                                        /\ Making(v, s) => req'[v] = req[v]
    BY <1>b, <2>1 DEF Making
  <2>4. SchemasKept'
    BY <1>b, <2>3 DEF SchemasKept, Matched
  <2> QED
    BY <2>2, <2>4
<1>1. ASSUME NEW w \in Workers, NEW s \in Slugs, NEW op \in {"create", "register"}, NEW type \in Types,
             BeginCreate(w, op, s, type)
      PROVE  ProvisioningInv'
  <2> DEFINE q == [op |-> op, step |-> "insert", slug |-> s, type |-> type]
  <2>1. /\ req[w] = NoRequest /\ req' = [req EXCEPT ![w] = q] /\ UNCHANGED <<owner, schema, broken>>
    BY <1>1 DEF BeginCreate, Begin
  <2>2. q \in ProvisioningRequest /\ q.step = "insert"
    BY DEF ProvisioningRequest
  <2> HIDE DEF q
  <2> QED
    BY <1>b, <2>1, <2>2
<1>2. ASSUME NEW w \in Workers, NEW s \in Slugs, BeginMigrate(w, s) PROVE ProvisioningInv'
  <2> DEFINE q == [op |-> "migrate", step |-> "prepare", slug |-> s, type |-> owner[s]]
  <2>1. /\ req[w] = NoRequest /\ req' = [req EXCEPT ![w] = q] /\ UNCHANGED <<owner, schema, broken>>
        /\ owner[s] \in Types
    BY <1>2 DEF BeginMigrate, Begin
  <2>2. q \in ProvisioningRequest /\ q.op = "migrate"
    BY <2>1 DEF ProvisioningRequest
  <2> HIDE DEF q
  <2> QED
    BY <1>b, <2>1, <2>2
<1>3. ASSUME NEW w \in Workers, InsertTenant(w) PROVE ProvisioningInv'
  <2>1. PICK s \in Slugs, type \in Types : s = req[w].slug /\ type = req[w].type
    BY <1>3, <1>q DEF InsertTenant, At
  <2>2. /\ req[w] # NoRequest /\ req[w].op \in {"create", "register"} /\ req[w].step = "insert"
        /\ owner[s] = "none" /\ owner' = [owner EXCEPT ![s] = type]
        /\ UNCHANGED <<schema, broken>>
        /\ \/ type = "school" /\ Goto(w, "schema")
           \/ type = "network" /\ req[w].op = "register" /\ Goto(w, "admin")
           \/ type = "network" /\ Done(w)
    BY <1>3, <2>1 DEF InsertTenant, At, Types
  <2>3. \A v \in Workers : ~Making(v, s)
    BY <2>2 DEF SchemasKept
  <2>4. /\ req' \in [Workers -> ProvisioningRequest \cup {NoRequest}]
        /\ \A v \in Workers \ {w} : req'[v] = req[v]
        /\ \/ type = "school" /\ Making(w, s)' /\ req'[w].step = "schema"
           \/ type = "network" /\ Making(w, s)' /\ req'[w].step = "admin"
           \/ type = "network" /\ req'[w] = NoRequest
        /\ \A x \in Slugs \ {s} : ~Making(w, x)'
    BY <1>d, <1>g, <2>1, <2>2 DEF Making
  <2>5. /\ \A x \in Slugs : owner'[x] = IF x = s THEN type ELSE owner[x]
        /\ type # "none" /\ ProvisioningTypeOK'
    BY <1>t, <2>2, <2>4 DEF ProvisioningTypeOK, Types
  <2>6. \A v \in Workers, x \in Slugs : v # w => (Making(v, x)' <=> Making(v, x))
    BY <2>4 DEF Making
  <2>7. \A x \in Slugs : ~Making(w, x)
    BY <2>2 DEF Making
  <2>8. \A v \in Workers, x \in Slugs : Making(v, x)' =>
           \/ v = w /\ x = s
           \/ v # w /\ x # s /\ Making(v, x) /\ req'[v] = req[v]
    BY <2>3, <2>4, <2>6
  <2>9. \A x \in Slugs : Matched(x)' <=> IF x = s THEN type = "school" => schema[s] = "ready" ELSE Matched(x)
    BY <2>2, <2>5 DEF Matched
  <2>10. SchemasKept'
    <3>1. \A v \in Workers, x \in Slugs : Making(v, x)' =>
             /\ owner'[x] # "none"
             /\ \A u \in Workers : Making(u, x)' => u = v
      BY <2>5, <2>8 DEF SchemasKept
    <3>2. Matched(s)' \/ Making(w, s)'
      BY <2>4, <2>9
    <3>3. \A x \in Slugs \ broken : x # s => Matched(x)' \/ \E v \in Workers : Making(v, x)'
      BY <2>6, <2>7, <2>9 DEF SchemasKept
    <3>4. ASSUME NEW x \in Slugs \ broken, NEW v \in Workers, Making(v, x)', req'[v].op = "register"
          PROVE  /\ req'[v].step = "delete" => schema'[x] = "none"
                 /\ req'[v].step = "admin" /\ owner'[x] = "school" => schema'[x] = "ready"
      <4>1. CASE v = w /\ x = s
        <5>1. req'[v].step = "schema" \/ (req'[v].step = "admin" /\ owner'[x] = "network")
          BY <2>4, <2>5, <3>4, <4>1 DEF Making
        <5> QED
          BY <5>1
      <4>2. CASE x # s /\ Making(v, x) /\ req'[v] = req[v]
        BY <2>2, <2>5, <3>4, <4>2 DEF SchemasKept
      <4> QED
        BY <2>8, <3>4, <4>1, <4>2
    <3> QED
      BY <2>2, <3>1, <3>2, <3>3, <3>4 DEF SchemasKept
  <2> QED
    BY <2>5, <2>10
\* The steps of a request that leave the row alone.
<1>s. ASSUME NEW w \in Workers, NEW s \in Slugs, NEW st \in SchemaStates, s = req[w].slug, req[w] # NoRequest,
             req' \in [Workers -> ProvisioningRequest \cup {NoRequest}],
             \A v \in Workers \ {w} : req'[v] = req[v],
             owner' = owner, schema' = [schema EXCEPT ![s] = st], broken' \subseteq Slugs,
             broken \ {s} \subseteq broken',
             req'[w] # NoRequest => /\ req'[w].slug = s /\ req'[w].op = req[w].op
                                    /\ (req'[w].step = "insert") = (req[w].step = "insert"),
             \/ s \in broken'
             \/ /\ Matched(s)' \/ \E v \in Workers : Making(v, s)'
                /\ \A v \in Workers : Making(v, s)' /\ req'[v].op = "register" =>
                      /\ req'[v].step = "delete" => st = "none"
                      /\ req'[v].step = "admin" /\ owner[s] = "school" => st = "ready"
      PROVE  ProvisioningInv'
  <2>1. ProvisioningTypeOK'
    BY <1>s, <1>t DEF ProvisioningTypeOK
  <2>2. \A x \in Slugs : schema'[x] = IF x = s THEN st ELSE schema[x]
    BY <1>s, <1>t
  <2>3. \A v \in Workers, x \in Slugs : Making(v, x)' => Making(v, x) /\ (v = w => x = s) /\ (v # w => req'[v] = req[v])
    BY <1>s DEF Making
  <2>4. \A v \in Workers, x \in Slugs : x # s => /\ Making(v, x)' <=> Making(v, x)
                                                 /\ Making(v, x) => req'[v] = req[v]
    BY <1>s DEF Making
  <2>5. \A x \in Slugs : x # s => (Matched(x)' <=> Matched(x))
    BY <1>s, <2>2 DEF Matched
  <2>6. \A v \in Workers, x \in Slugs : Making(v, x)' =>
           /\ owner'[x] # "none"
           /\ \A u \in Workers : Making(u, x)' => u = v
    BY <1>s, <2>3 DEF SchemasKept
  <2>7. ASSUME NEW x \in Slugs \ broken', x # s
        PROVE  /\ Matched(x)' \/ \E v \in Workers : Making(v, x)'
               /\ \A v \in Workers : Making(v, x)' /\ req'[v].op = "register" =>
                     /\ req'[v].step = "delete" => schema'[x] = "none"
                     /\ req'[v].step = "admin" /\ owner'[x] = "school" => schema'[x] = "ready"
    <3>1. x \in Slugs \ broken
      BY <1>s, <2>7
    <3> QED
      BY <1>s, <2>2, <2>4, <2>5, <2>7, <3>1 DEF SchemasKept
  <2>8. SchemasKept'
    BY <1>s, <2>2, <2>6, <2>7 DEF SchemasKept
  <2> QED
    BY <2>1, <2>8
<1>m. \A w \in Workers, s \in Slugs : s \notin broken => Matched(s) \/ \E v \in Workers : Making(v, s)
  BY DEF SchemasKept
<1>4. ASSUME NEW w \in Workers, CreateSchema(w) PROVE ProvisioningInv'
  <2>1. PICK s \in Slugs : s = req[w].slug
    BY <1>4, <1>q DEF CreateSchema, At
  <2>2. PICK st \in SchemaStates : st = (IF schema[s] = "none" THEN "deployable" ELSE schema[s])
    BY <1>t DEF SchemaStates
  <2>3. /\ req[w] # NoRequest /\ req[w].op \in {"create", "register"} /\ req[w].step = "schema"
        /\ schema' = [schema EXCEPT ![s] = st] /\ Goto(w, "deploy")
        /\ UNCHANGED <<owner, broken>>
    BY <1>4, <2>1, <2>2 DEF CreateSchema, At
  <2>4. Making(w, s) /\ Making(w, s)' /\ req'[w].step = "deploy"
    BY <1>g, <2>1, <2>3 DEF Making
  <2>5. \A v \in Workers : Making(v, s)' => v = w
    BY <1>g, <2>3, <2>4 DEF SchemasKept, Making
  <2> QED
    BY <1>g, <1>s, <1>t, <2>1, <2>3, <2>4, <2>5
<1>5. ASSUME NEW w \in Workers, Deploy(w) PROVE ProvisioningInv'
  <2>1. PICK s \in Slugs : s = req[w].slug
    BY <1>5, <1>q DEF Deploy, At
  <2>2. /\ req[w] # NoRequest /\ req[w].op \in {"create", "register", "migrate"} /\ req[w].step = "deploy"
        /\ schema' = [schema EXCEPT ![s] = "ready"] /\ owner' = owner
        /\ broken' = (broken \ {s}) \cup Stray(w)
        /\ \/ req[w].op = "register" /\ Goto(w, "admin")
           \/ req[w].op # "register" /\ Done(w)
    BY <1>5, <2>1 DEF Deploy, At
  <2>3. Stray(w) \subseteq {s} /\ "ready" \in SchemaStates
    BY <2>1 DEF Stray, SchemaStates
  <2>4. /\ req' \in [Workers -> ProvisioningRequest \cup {NoRequest}]
        /\ \A v \in Workers \ {w} : req'[v] = req[v]
        /\ req'[w] # NoRequest => /\ req[w].op = "register" /\ req'[w].slug = s /\ req'[w].op = req[w].op
                                  /\ req'[w].step = "admin"
    BY <1>d, <1>g, <2>1, <2>2
  <2>5. schema'[s] = "ready"
    BY <1>t, <2>2
  <2>6. s \in broken' \/ /\ Matched(s)'
                         /\ \A v \in Workers : Making(v, s)' /\ req'[v].op = "register" => req'[v].step # "delete"
    <3>1. CASE req[w].op = "migrate"
      <4>1. s \in broken' \/ /\ owner[s] # "none"
                             /\ \A v \in Workers : At(v, {"register"}, "delete") => req[v].slug # s
        BY <2>1, <2>2, <3>1 DEF Stray
      <4> QED
        BY <2>2, <2>4, <2>5, <3>1, <4>1 DEF Matched, Making, At
    <3>2. CASE req[w].op # "migrate"
      <4>1. Making(w, s)
        BY <2>1, <2>2, <3>2 DEF Making
      <4>2. owner[s] # "none" /\ \A v \in Workers : Making(v, s) => v = w
        BY <4>1 DEF SchemasKept
      <4>3. \A v \in Workers : Making(v, s)' => v = w
        BY <2>4, <4>2 DEF Making
      <4> QED
        BY <2>2, <2>4, <2>5, <4>2, <4>3 DEF Matched, Making
    <3> QED
      BY <3>1, <3>2
  <2>7. broken' \subseteq Slugs /\ broken \ {s} \subseteq broken'
    BY <1>t, <2>2, <2>3
  <2> QED
    BY <1>s, <2>1, <2>2, <2>3, <2>4, <2>6, <2>7, ZenonT(60)
<1>6. ASSUME NEW w \in Workers, NEW outcome \in SchemaStates, DeployFails(w, outcome) PROVE ProvisioningInv'
  <2>1. PICK s \in Slugs : s = req[w].slug
    BY <1>6, <1>q DEF DeployFails, At
  <2>2. /\ req[w] # NoRequest /\ req[w].op \in {"create", "register", "migrate"}
        /\ req[w].step \in {"schema", "deploy"}
        /\ schema' = [schema EXCEPT ![s] = outcome] /\ owner' = owner
        /\ outcome = schema[s] \/ (schema[s] \in {"none", "deployable"} /\ outcome = "failed")
        /\ broken' = broken \cup Stray(w)
        /\ \/ req[w].op = "create" /\ Goto(w, "delete")
           \/ req[w].op = "register" /\ Goto(w, "drop")
           \/ req[w].op = "migrate" /\ Done(w)
    BY <1>6, <2>1 DEF DeployFails, At
  <2>3. Stray(w) \subseteq {s}
    BY <2>1 DEF Stray
  <2>4. /\ req' \in [Workers -> ProvisioningRequest \cup {NoRequest}]
        /\ \A v \in Workers \ {w} : req'[v] = req[v]
        /\ req[w].op = "migrate" => req'[w] = NoRequest
        /\ req[w].op # "migrate" => /\ req'[w] # NoRequest /\ req'[w].slug = s /\ req'[w].op = req[w].op
                                    /\ req'[w].step = IF req[w].op = "create" THEN "delete" ELSE "drop"
    BY <1>d, <1>g, <2>1, <2>2
  <2>5. schema'[s] = outcome
    BY <1>t, <2>2
  <2>6. \/ s \in broken'
        \/ /\ Matched(s)' \/ \E v \in Workers : Making(v, s)'
           /\ \A v \in Workers : Making(v, s)' /\ req'[v].op = "register" =>
                 /\ req'[v].step = "delete" => outcome = "none"
                 /\ req'[v].step = "admin" /\ owner[s] = "school" => outcome = "ready"
    <3>1. CASE req[w].op = "migrate"
      <4> SUFFICES ASSUME s \notin broken' PROVE
           /\ Matched(s)' \/ \E v \in Workers : Making(v, s)'
           /\ \A v \in Workers : Making(v, s)' /\ req'[v].op = "register" =>
                 /\ req'[v].step = "delete" => outcome = "none"
                 /\ req'[v].step = "admin" /\ owner[s] = "school" => outcome = "ready"
        OBVIOUS
      <4>1. /\ s \notin broken /\ owner[s] # "none"
            /\ \A v \in Workers : At(v, {"register"}, "delete") => req[v].slug # s
        BY <2>1, <2>2, <3>1 DEF Stray
      <4>2. \A v \in Workers : Making(v, s)' <=> Making(v, s)
        BY <2>2, <2>4, <3>1 DEF Making
      <4>3. \A v \in Workers : Making(v, s) => req'[v] = req[v]
        BY <2>2, <2>4, <3>1 DEF Making
      <4>4. schema[s] = "ready" => outcome = "ready"
        BY <2>2
      <4>5. Matched(s) => Matched(s)'
        BY <2>2, <2>5, <4>1, <4>4 DEF Matched
      <4>6. Matched(s) \/ \E v \in Workers : Making(v, s)
        BY <4>1 DEF SchemasKept
      <4>7. \A v \in Workers : Making(v, s) /\ req[v].op = "register" =>
               /\ req[v].step # "delete"
               /\ req[v].step = "admin" /\ owner[s] = "school" => outcome = "ready"
        BY <4>1, <4>4 DEF SchemasKept, Making, At
      <4> QED
        BY <4>2, <4>3, <4>5, <4>6, <4>7
    <3>2. CASE req[w].op # "migrate"
      <4>1. Making(w, s)
        BY <2>1, <2>2, <3>2 DEF Making
      <4>2. \A v \in Workers : Making(v, s) => v = w
        BY <4>1 DEF SchemasKept
      <4>3. Making(w, s)' /\ \A v \in Workers : Making(v, s)' => v = w
        BY <2>2, <2>4, <3>2, <4>2 DEF Making
      <4> QED
        BY <2>4, <3>2, <4>3
    <3> QED
      BY <3>1, <3>2
  <2>7. broken' \subseteq Slugs /\ broken \ {s} \subseteq broken'
    BY <1>t, <2>2, <2>3
  <2>8. req'[w] # NoRequest => /\ req'[w].slug = s /\ req'[w].op = req[w].op
                               /\ (req'[w].step = "insert") = (req[w].step = "insert")
    BY <2>2, <2>4
  <2> QED
    BY <1>s, <2>1, <2>2, <2>4, <2>6, <2>7, <2>8
<1>7. ASSUME NEW w \in Workers, CreateAdmin(w) PROVE ProvisioningInv'
  <2>1. PICK s \in Slugs : s = req[w].slug
    BY <1>7, <1>q DEF CreateAdmin, At
  <2>2. /\ req[w] # NoRequest /\ req[w].op = "register" /\ req[w].step = "admin"
        /\ UNCHANGED <<owner, schema, broken>>
        /\ Done(w) \/ Goto(w, "drop")
    BY <1>7 DEF CreateAdmin, At
  <2>3. schema' = [schema EXCEPT ![s] = schema[s]] /\ schema[s] \in SchemaStates
    BY <1>t, <2>2
  <2>4. /\ req' \in [Workers -> ProvisioningRequest \cup {NoRequest}]
        /\ \A v \in Workers \ {w} : req'[v] = req[v]
        /\ req'[w] # NoRequest => /\ req'[w].slug = s /\ req'[w].op = req[w].op /\ req'[w].step = "drop"
    BY <1>d, <1>g, <2>1, <2>2
  <2>5. Making(w, s)
    BY <2>1, <2>2 DEF Making
  <2>6. /\ owner[s] # "none" /\ \A v \in Workers : Making(v, s) => v = w
        /\ s \notin broken /\ owner[s] = "school" => schema[s] = "ready"
    BY <2>2, <2>5 DEF SchemasKept
  <2>7. \A v \in Workers : Making(v, s)' => v = w
    BY <2>4, <2>6 DEF Making
  <2>8. s \in broken' \/ Matched(s)'
    BY <2>2, <2>6 DEF Matched
  <2> QED
    <3>1. \A v \in Workers : Making(v, s)' => req'[v].step = "drop"
      BY <2>4, <2>7 DEF Making
    <3>2. broken' \subseteq Slugs /\ broken \ {s} \subseteq broken'
      BY <1>t, <2>2
    <3>3. req'[w] # NoRequest => (req'[w].step = "insert") = (req[w].step = "insert")
      BY <2>2, <2>4
    <3>4. Matched(s)' \/ s \in broken'
      BY <2>8
    <3> QED
      <4>1. \/ s \in broken'
            \/ /\ Matched(s)' \/ \E v \in Workers : Making(v, s)'
               /\ \A v \in Workers : Making(v, s)' /\ req'[v].op = "register" =>
                     /\ req'[v].step = "delete" => schema[s] = "none"
                     /\ req'[v].step = "admin" /\ owner[s] = "school" => schema[s] = "ready"
        BY <3>1, <3>4
      <4>2. owner' = owner /\ req[w] # NoRequest
        BY <2>2
      <4> QED
        BY <1>s, <2>1, <2>3, <2>4, <3>2, <3>3, <4>1, <4>2
<1>8. ASSUME NEW w \in Workers, DropSchema(w) PROVE ProvisioningInv'
  <2>1. PICK s \in Slugs : s = req[w].slug
    BY <1>8, <1>q DEF DropSchema, At
  <2>2. PICK st \in SchemaStates :
        /\ req[w] # NoRequest /\ req[w].op = "register" /\ req[w].step = "drop"
        /\ owner' = owner /\ schema' = [schema EXCEPT ![s] = st]
        /\ \/ st = "none" /\ broken' = broken
           \/ broken' = broken \cup {s}
        /\ Goto(w, "delete")
    <3>1. schema = [schema EXCEPT ![s] = schema[s]] /\ schema[s] \in SchemaStates /\ "none" \in SchemaStates
      BY <1>t DEF SchemaStates
    <3> QED
      BY <1>8, <2>1, <3>1 DEF DropSchema, At
  <2>4. /\ req' \in [Workers -> ProvisioningRequest \cup {NoRequest}]
        /\ \A v \in Workers \ {w} : req'[v] = req[v]
        /\ req'[w] # NoRequest /\ req'[w].slug = s /\ req'[w].op = req[w].op /\ req'[w].step = "delete"
    BY <1>g, <2>1, <2>2
  <2>5. Making(w, s) /\ Making(w, s)'
    BY <2>1, <2>2, <2>4 DEF Making
  <2>6. \A v \in Workers : Making(v, s) => v = w
    BY <2>5 DEF SchemasKept
  <2>7. \A v \in Workers : Making(v, s)' => v = w
    BY <2>4, <2>6 DEF Making
  <2>8. broken' \subseteq Slugs /\ broken \ {s} \subseteq broken'
    BY <1>t, <2>2
  <2> QED
    BY <1>s, <2>1, <2>2, <2>4, <2>5, <2>7, <2>8
<1>9. ASSUME NEW w \in Workers, DeleteTenant(w) PROVE ProvisioningInv'
  <2>1. PICK s \in Slugs : s = req[w].slug
    BY <1>9, <1>q DEF DeleteTenant, At
  <2>2. /\ req[w] # NoRequest /\ req[w].op \in {"create", "register"} /\ req[w].step = "delete"
        /\ schema' = schema /\ Done(w)
        /\ \/ owner' = [owner EXCEPT ![s] = "none"] /\ req[w].op = "register" /\ broken' = broken
           \/ owner' = [owner EXCEPT ![s] = "none"] /\ broken' = broken \cup {s}
           \/ owner' = owner /\ broken' = broken \cup {s}
    BY <1>9, <2>1 DEF DeleteTenant, At
  <2>3. Making(w, s)
    BY <2>1, <2>2 DEF Making
  <2>4. \A v \in Workers : Making(v, s) => v = w
    BY <2>3 DEF SchemasKept
  <2>5. \A v \in Workers, x \in Slugs : Making(v, x)' <=> Making(v, x) /\ v # w
    BY <1>d, <2>2 DEF Making
  <2>6. \A v \in Workers, x \in Slugs : Making(v, x)' => x # s /\ req'[v] = req[v]
    BY <1>d, <2>2, <2>4, <2>5
  <2>7. /\ \A x \in Slugs : x # s => owner'[x] = owner[x]
        /\ ProvisioningTypeOK'
    BY <1>d, <1>t, <2>2 DEF ProvisioningTypeOK
  <2>8. s \in broken' \/ Matched(s)'
    <3> SUFFICES ASSUME s \notin broken' PROVE owner'[s] = "none" /\ schema'[s] = "none"
      BY DEF Matched
    <3>1. owner' = [owner EXCEPT ![s] = "none"] /\ req[w].op = "register" /\ s \notin broken
      BY <2>2
    <3> QED
      BY <1>t, <2>2, <2>3, <3>1 DEF SchemasKept
  <2>9. \A x \in Slugs : x # s => /\ Matched(x)' <=> Matched(x)
                                  /\ \A v \in Workers : Making(v, x) => v # w
    BY <2>1, <2>2, <2>7 DEF Matched, Making
  <2>10. broken \subseteq broken'
    BY <2>2
  <2>11. SchemasKept'
    BY <2>2, <2>5, <2>6, <2>7, <2>8, <2>9, <2>10 DEF SchemasKept
  <2> QED
    BY <2>7, <2>11
\* A migration's own steps, on a slug whose tenant is there and stays.
<1>p. ASSUME NEW w \in Workers, NEW s \in Slugs, NEW st \in SchemaStates, s = req[w].slug, req[w] # NoRequest,
             req[w].op = "migrate", req[w].step # "insert", NEW step \in {"record", "deploy"}, Goto(w, step),
             schema' = [schema EXCEPT ![s] = st], owner' = owner, broken' = broken \/ broken' = broken \cup {s},
             s \notin broken' => /\ schema[s] = "ready" => st = "ready"
                                 /\ schema[s] = "none" /\ st # "none" =>
                                       /\ owner[s] # "none"
                                       /\ \A v \in Workers : At(v, {"register"}, "delete") => req[v].slug # s
      PROVE  ProvisioningInv'
  <2>1. /\ req' \in [Workers -> ProvisioningRequest \cup {NoRequest}]
        /\ \A v \in Workers \ {w} : req'[v] = req[v]
        /\ req'[w] # NoRequest /\ req'[w].slug = s /\ req'[w].op = "migrate"
        /\ req'[w].step # "insert"
    BY <1>g, <1>p
  <2>2. \A v \in Workers : /\ Making(v, s)' <=> Making(v, s)
                           /\ Making(v, s) => req'[v] = req[v]
    BY <1>p, <2>1 DEF Making
  <2>3. schema'[s] = st
    BY <1>p, <1>t
  <2>4. broken' \subseteq Slugs /\ broken \subseteq broken'
    BY <1>p, <1>t
  <2>5. \/ s \in broken'
        \/ /\ Matched(s)' \/ \E v \in Workers : Making(v, s)'
           /\ \A v \in Workers : Making(v, s)' /\ req'[v].op = "register" =>
                 /\ req'[v].step = "delete" => st = "none"
                 /\ req'[v].step = "admin" /\ owner[s] = "school" => st = "ready"
    <3> SUFFICES ASSUME s \notin broken' PROVE
           /\ Matched(s)' \/ \E v \in Workers : Making(v, s)'
           /\ \A v \in Workers : Making(v, s)' /\ req'[v].op = "register" =>
                 /\ req'[v].step = "delete" => st = "none"
                 /\ req'[v].step = "admin" /\ owner[s] = "school" => st = "ready"
      OBVIOUS
    <3>1. s \notin broken
      BY <2>4
    <3>2. Matched(s) \/ \E v \in Workers : Making(v, s)
      BY <3>1 DEF SchemasKept
    <3>3. Matched(s) => Matched(s)'
      BY <1>p, <2>3 DEF Matched
    <3>4. \A v \in Workers : Making(v, s) /\ req[v].op = "register" =>
             /\ req[v].step = "delete" => st = "none"
             /\ req[v].step = "admin" /\ owner[s] = "school" => st = "ready"
      <4> SUFFICES ASSUME NEW v \in Workers, Making(v, s), req[v].op = "register"
                   PROVE  /\ req[v].step = "delete" => st = "none"
                          /\ req[v].step = "admin" /\ owner[s] = "school" => st = "ready"
        OBVIOUS
      <4>1. /\ req[v].step = "delete" => schema[s] = "none"
            /\ req[v].step = "admin" /\ owner[s] = "school" => schema[s] = "ready"
        BY <3>1 DEF SchemasKept
      <4>2. req[v].step = "delete" => At(v, {"register"}, "delete") /\ req[v].slug = s
        BY DEF Making, At
      <4> QED
        BY <1>p, <4>1, <4>2
    <3> QED
      BY <2>2, <3>2, <3>3, <3>4
  <2>6. (req'[w].step = "insert") = (req[w].step = "insert")
    BY <1>p, <2>1
  <2> QED
    BY <1>p, <1>s, <2>1, <2>4, <2>5, <2>6
<1>10. ASSUME NEW w \in Workers, PrepareSchema(w) PROVE ProvisioningInv'
  <2>1. PICK s \in Slugs : s = req[w].slug
    BY <1>10, <1>q DEF PrepareSchema, At
  <2>2. PICK st \in SchemaStates : st = CASE schema[s] = "none" -> "deployable"
                                          [] schema[s] = "pushed" -> "half"
                                          [] OTHER -> schema[s]
    BY <1>t DEF SchemaStates
  <2>3. /\ req[w] # NoRequest /\ req[w].op = "migrate" /\ req[w].step # "insert"
        /\ schema' = [schema EXCEPT ![s] = st] /\ owner' = owner
        /\ broken' = broken \cup Stray(w)
        /\ \E step \in {"record", "deploy"} : Goto(w, step)
    BY <1>10, <2>1, <2>2 DEF PrepareSchema, At
  <2>4. Stray(w) = {} \/ Stray(w) = {s}
    BY <2>1 DEF Stray
  <2>5. s \notin broken' => /\ owner[s] # "none"
                            /\ \A v \in Workers : At(v, {"register"}, "delete") => req[v].slug # s
    BY <2>1, <2>3 DEF Stray
  <2>6. schema[s] = "ready" => st = "ready"
    BY <2>2
  <2> QED
    BY <1>p, <2>1, <2>3, <2>4, <2>5, <2>6
<1>11. ASSUME NEW w \in Workers, baselineInitMigration(w) PROVE ProvisioningInv'
  <2>1. PICK s \in Slugs : s = req[w].slug
    BY <1>11, <1>q DEF baselineInitMigration, At
  <2>2. PICK st \in SchemaStates : st = (IF schema[s] = "half" THEN "deployable" ELSE schema[s])
    BY <1>t DEF SchemaStates
  <2>3. /\ req[w] # NoRequest /\ req[w].op = "migrate" /\ req[w].step # "insert"
        /\ schema' = [schema EXCEPT ![s] = st] /\ owner' = owner
        /\ broken' = broken /\ Goto(w, "deploy")
    BY <1>11, <2>1, <2>2 DEF baselineInitMigration, At
  <2>4. (schema[s] = "ready" => st = "ready") /\ (schema[s] = "none" => st = "none")
    BY <2>2
  <2> QED
    BY <1>p, <2>1, <2>3, <2>4
<1>12. ASSUME NEW w \in Workers, EndProvisioning(w) PROVE ProvisioningInv'
  <2>1. PICK s \in Slugs : s = req[w].slug
    BY <1>12, <1>q DEF EndProvisioning
  <2>2. /\ req[w] # NoRequest /\ Done(w) /\ UNCHANGED <<owner, schema>>
        /\ \/ req[w].step = "insert" /\ broken' = broken
           \/ broken' = broken \cup {s}
    BY <1>12, <2>1 DEF EndProvisioning
  <2>3. \A v \in Workers, x \in Slugs : Making(v, x)' => Making(v, x) /\ req'[v] = req[v]
    BY <1>d, <2>2 DEF Making
  <2>4. \A v \in Workers, x \in Slugs \ broken' : Making(v, x) => Making(v, x)'
    BY <1>d, <2>1, <2>2 DEF Making
  <2>5. ProvisioningTypeOK'
    BY <1>d, <1>t, <2>2 DEF ProvisioningTypeOK
  <2>6. broken \subseteq broken' /\ \A x : Matched(x)' <=> Matched(x)
    BY <2>2 DEF Matched
  <2>7. SchemasKept'
    BY <2>2, <2>3, <2>4, <2>6 DEF SchemasKept
  <2> QED
    BY <2>5, <2>7
<1>13. ASSUME NEW s \in Slugs, (\E type \in Types : retype(s, type)) \/ removeOwner(s) PROVE ProvisioningInv'
  <2>1. PICK new \in Types \cup {"removed"} :
           /\ owner[s] \in Types /\ owner' = [owner EXCEPT ![s] = new]
           /\ new # "removed" => broken' = broken \cup {s}
           /\ new = "removed" => broken' = broken
           /\ UNCHANGED <<req, schema>>
    BY <1>13 DEF retype, removeOwner, Types
  <2>2. \A v \in Workers : \A x : Making(v, x)' <=> Making(v, x)
    BY <2>1 DEF Making
  <2>3. /\ ProvisioningTypeOK' /\ new # "none"
        /\ \A x \in Slugs : owner'[x] = IF x = s THEN new ELSE owner[x]
    BY <1>t, <2>1 DEF ProvisioningTypeOK, Types
  <2>4. \A x \in Slugs \ broken' : Matched(x) => Matched(x)'
    BY <2>1, <2>3 DEF Matched
  <2>5. SchemasKept'
    <3>1. \A v \in Workers, x \in Slugs : Making(v, x) => owner'[x] # "none"
      BY <2>3 DEF SchemasKept
    <3>2. \A x \in Slugs \ broken' : x \notin broken /\ (owner'[x] = "school" => owner[x] = "school")
      BY <2>1, <2>3
    <3> QED
      BY <2>1, <2>2, <2>4, <3>1, <3>2 DEF SchemasKept
  <2> QED
    BY <2>3, <2>5
<1>14. CASE UNCHANGED provisioningVars
  BY <1>14 DEF provisioningVars, ProvisioningTypeOK, SchemasKept, Making, Matched
<1> QED
  BY <1>1, <1>2, <1>3, <1>4, <1>5, <1>6, <1>7, <1>8, <1>9, <1>10, <1>11, <1>12, <1>13, <1>14 DEF ProvisioningNext

\* With it, schemas and schools match where no request is at work.
LEMMA ProvisioningImplies == ProvisioningInv => SchemasMatchSchools
  BY DEF ProvisioningInv, SchemasKept, SchemasMatchSchools, Making, Matched

\* A school has a schema that is ready, and a schema has a tenant, unless a request was lost half
\* way or could not undo what it had done (TenantsService and the registration).
THEOREM SchemasStayMatched == ProvisioningSpec => []SchemasMatchSchools
  BY ProvisioningBegins, ProvisioningStep, ProvisioningImplies, PTL DEF ProvisioningSpec

-----------------------------------------------------------------------------
(* Stored files *)

\* What a request knows between its awaits: the object it replaces is its row's own, and is deleted
\* before the row is written or after; an attachment's new object is nobody's yet.
HoldsFile(q) ==
    /\ q.op = "erase" <=> q.step \in {"deleteAll", "erase"}
    /\ q.op = "erase" => q.new = NoFile /\ fileKind = "attachment"
    /\ q.op # "erase" => q.owners # {}
    /\ q.step \in {"upload", "uploadNamed"} => q.new = NoFile
    /\ q.step = "uploadNamed" => fileKind \in {"letter", "document"}
    /\ q.step \in {"delete", "deleteLast"} => q.old # NoFile
    /\ q.old # NoFile =>
          /\ fileKind \notin {"letter", "document"}
          /\ (q.step = "write" \/ (q.step = "upload" /\ fileKind # "template")) => stored[q.old] = {}
    /\ fileKind = "attachment" =>
          /\ q.op # "erase" => \E o \in Owners : q.owners = {o}
          /\ q.new # NoFile => PointTo(q.new) = {}

\* Every request in flight knows so.
FileRead(w) == req[w] # NoRequest => HoldsFile(req[w])

\* No two attachments share an object, and no two requests have uploaded one.
AttachmentsApart ==
    fileKind = "attachment" =>
        /\ \A o, p \in Owners : file[o] = file[p] /\ file[o] # NoFile => o = p
        /\ \A v, w \in Workers :
              req[v] # NoRequest /\ req[w] # NoRequest /\ req[v].new = req[w].new /\ req[v].new # NoFile => v = w

\* The inductive invariant of StoredFiles.
FilesInv ==
    /\ FilesTypeOK /\ FilesKept /\ AttachmentsApart
    /\ \A w \in Workers : FileRead(w)

\* The fields of a request that stores or deletes a file.
LEMMA FileFields ==
  ASSUME FilesTypeOK, NEW w \in Workers, req[w] # NoRequest
  PROVE  /\ req[w] \in FileRequest /\ req[w].op \in FileOps
         /\ req[w].step \in
              {"upload", "uploadNamed", "delete", "deleteLast", "deleteAll", "write", "erase"}
         /\ req[w].owners \subseteq Owners
         /\ req[w].old \in Files \cup {NoFile} /\ req[w].new \in Files \cup {NoFile}
<1>1. req[w] \in FileRequest
  BY DEF FilesTypeOK
<1> QED
  BY <1>1 DEF FileRequest

\* Nothing is stored and nothing in flight at the start.
LEMMA FilesBegin == FilesInit => FilesInv
  BY DEF FilesInit, FilesInv, FileRead, FilesTypeOK, FilesKept, AttachmentsApart, Idle, PointTo

\* A request that begins with nothing stored.
LEMMA BeginFileKeeps ==
  ASSUME FilesInv, NEW w \in Workers, NEW op, NEW os \in SUBSET Owners, NEW old, NEW step,
         BeginFile(w, op, os, old, step),
         NEW q, q = [op |-> op, step |-> step, owners |-> os, old |-> old, new |-> NoFile],
         q \in FileRequest, HoldsFile(q)
  PROVE  FilesInv'
<1>1. /\ req[w] = NoRequest /\ req' = [req EXCEPT ![w] = q]
      /\ UNCHANGED <<fileKind, file, stored, open, removed, torn, leaked>>
  BY DEF BeginFile, Begin
<1>2. /\ req' \in [Workers -> FileRequest \cup {NoRequest}]
      /\ req'[w] = q /\ q # NoRequest /\ \A v \in Workers \ {w} : req'[v] = req[v]
  BY <1>1, StoredFilesAssumption DEF FilesInv, FilesTypeOK
<1>3. q.new = NoFile
  BY DEF FileRequest
<1>4. FilesTypeOK'
  BY <1>1, <1>2 DEF FilesInv, FilesTypeOK
<1>5. \A x : HoldsFile(x)' <=> HoldsFile(x)
  BY <1>1 DEF HoldsFile, PointTo
<1>6. \A v \in Workers : FileRead(v)'
  BY <1>2, <1>5 DEF FilesInv, FileRead
<1>7. AttachmentsApart'
  BY <1>1, <1>2, <1>3 DEF FilesInv, AttachmentsApart
<1>8. FilesKept'
  <2>1. \A o \in Owners : Writing(o) \subseteq Writing(o)'
    BY <1>1, <1>2 DEF Writing
  <2>2. \A f \in Files : (\E v \in Workers : req[v] # NoRequest /\ req[v].new = f) =>
           \E v \in Workers : req'[v] # NoRequest /\ req'[v].new = f
    BY <1>1, <1>2
  <2> QED
    BY <1>1, <2>1, <2>2 DEF FilesInv, FilesKept, PointTo
<1> QED
  BY <1>4, <1>6, <1>7, <1>8 DEF FilesInv

\* A request that stores a first file for its rows.
LEMMA StoresKeep ==
  ASSUME FilesInv, NEW w \in Workers, NEW os \in SUBSET Owners, os # {}, NEW step, Store(w, os, step),
         step = "upload" \/ (step = "uploadNamed" /\ fileKind = "document"),
         fileKind = "attachment" => \E o \in Owners : os = {o}
  PROVE  FilesInv'
<1> DEFINE q == [op |-> "store", step |-> step, owners |-> os, old |-> NoFile, new |-> NoFile]
<1>1. q \in FileRequest
  BY DEF FileRequest, FileOps
<1>2. HoldsFile(q)
  BY DEF HoldsFile
<1>3. BeginFile(w, "store", os, NoFile, step)
  BY DEF Store
<1> QED
  BY <1>1, <1>2, <1>3, BeginFileKeeps

\* A request that replaces or unsets the file of a row, each kind in its own order.
LEMMA ReplacesKeep ==
  ASSUME FilesInv, NEW w \in Workers, NEW o \in Owners,
         \/ ReplaceDeleting(w, o) /\ fileKind \in {"avatar", "photo", "note"}
         \/ updateTemplate(w, o)
         \/ issueLetter(w, o) \/ signDocument(w, o)
         \/ Unset(w, o) /\ fileKind \in {"note", "template", "attachment"}
  PROVE  FilesInv'
<1>0. file[o] \in Files \cup {NoFile}
  BY DEF FilesInv, FilesTypeOK
<1>1. CASE ReplaceDeleting(w, o) /\ fileKind \in {"avatar", "photo", "note"}
  <2>1. PICK step : step = IF file[o] = NoFile THEN "upload" ELSE "delete"
    OBVIOUS
  <2> DEFINE q == [op |-> "replace", step |-> step, owners |-> {o}, old |-> file[o], new |-> NoFile]
  <2>2. q \in FileRequest
    BY <1>0, <2>1 DEF FileRequest, FileOps
  <2>3. HoldsFile(q)
    BY <1>1, <2>1 DEF HoldsFile
  <2>4. BeginFile(w, "replace", {o}, file[o], step)
    BY <1>1, <2>1 DEF ReplaceDeleting
  <2> QED
    BY <2>2, <2>3, <2>4, BeginFileKeeps
<1>2. CASE updateTemplate(w, o)
  <2> DEFINE q == [op |-> "replace", step |-> "upload", owners |-> {o}, old |-> file[o], new |-> NoFile]
  <2>2. q \in FileRequest
    BY <1>0 DEF FileRequest, FileOps
  <2>3. HoldsFile(q)
    BY <1>2 DEF HoldsFile, updateTemplate
  <2>4. BeginFile(w, "replace", {o}, file[o], "upload")
    BY <1>2 DEF updateTemplate
  <2> QED
    BY <2>2, <2>3, <2>4, BeginFileKeeps
<1>3. CASE issueLetter(w, o) \/ signDocument(w, o)
  <2> DEFINE q == [op |-> "replace", step |-> "uploadNamed", owners |-> {o}, old |-> NoFile, new |-> NoFile]
  <2>2. q \in FileRequest
    BY DEF FileRequest, FileOps
  <2>3. HoldsFile(q)
    BY <1>3 DEF HoldsFile, issueLetter, signDocument
  <2>4. BeginFile(w, "replace", {o}, NoFile, "uploadNamed")
    BY <1>3 DEF issueLetter, signDocument
  <2> QED
    BY <2>2, <2>3, <2>4, BeginFileKeeps
<1>4. CASE Unset(w, o) /\ fileKind \in {"note", "template", "attachment"}
  <2>1. PICK step : step = IF file[o] = NoFile THEN "write" ELSE "deleteLast"
    OBVIOUS
  <2> DEFINE q == [op |-> "unset", step |-> step, owners |-> {o}, old |-> file[o], new |-> NoFile]
  <2>2. q \in FileRequest
    BY <1>0, <2>1 DEF FileRequest, FileOps
  <2>3. HoldsFile(q)
    BY <1>4, <2>1 DEF HoldsFile
  <2>4. BeginFile(w, "unset", {o}, file[o], step)
    BY <1>4, <2>1 DEF Unset
  <2> QED
    BY <2>2, <2>3, <2>4, BeginFileKeeps
<1> QED
  BY <1>1, <1>2, <1>3, <1>4

\* The removal of an entry begins, with the attachments it has then.
LEMMA EraseBeginKeeps ==
  ASSUME FilesInv, NEW w \in Workers, removeEntry(w)
  PROVE  FilesInv'
<1>1. PICK os \in SUBSET Owners : os = {o \in Owners : file[o] # NoFile}
  OBVIOUS
<1> DEFINE q == [op |-> "erase", step |-> "deleteAll", owners |-> os, old |-> NoFile, new |-> NoFile]
<1>2. q \in FileRequest
  BY DEF FileRequest, FileOps
<1>3. HoldsFile(q)
  BY DEF HoldsFile, removeEntry
<1>4. BeginFile(w, "erase", os, NoFile, "deleteAll")
  BY <1>1 DEF removeEntry
<1> QED
  BY <1>2, <1>3, <1>4, BeginFileKeeps

\* Every request that begins.
LEMMA BeginsKeep ==
  ASSUME FilesInv, NEW w \in Workers,
         \/ \E o \in Owners :
              \/ updateAvatar(w, o) \/ updatePhoto(w, o)
              \/ updateFile(w, o) \/ removeFile(w, o)
              \/ createTemplate(w, o) \/ updateTemplate(w, o) \/ removeTemplate(w, o)
              \/ createDocument(w, o) \/ createByUpload(w, o) \/ signDocument(w, o)
              \/ addDocumentFile(w, o) \/ issueLetter(w, o)
              \/ addAttachment(w, o) \/ removeAttachment(w, o)
         \/ \E os \in SUBSET Owners : createNotes(w, os)
         \/ removeEntry(w)
  PROVE  FilesInv'
<1>1. ASSUME NEW o \in Owners,
             \/ createTemplate(w, o) \/ createDocument(w, o) \/ createByUpload(w, o)
             \/ addDocumentFile(w, o) \/ addAttachment(w, o)
      PROVE  FilesInv'
  <2>1. PICK step : /\ Store(w, {o}, step)
                    /\ step = "upload" \/ (step = "uploadNamed" /\ fileKind = "document")
    BY <1>1 DEF createTemplate, createDocument, createByUpload, addDocumentFile, addAttachment
  <2>2. {o} \in SUBSET Owners /\ {o} # {} /\ \E x \in Owners : {o} = {x}
    OBVIOUS
  <2> QED
    BY <2>1, <2>2, StoresKeep
<1>2. ASSUME NEW o \in Owners,
             \/ updateAvatar(w, o) \/ updatePhoto(w, o) \/ updateFile(w, o) \/ removeFile(w, o)
             \/ updateTemplate(w, o) \/ removeTemplate(w, o) \/ issueLetter(w, o)
             \/ signDocument(w, o) \/ removeAttachment(w, o)
      PROVE  FilesInv'
  BY <1>2, ReplacesKeep DEF updateAvatar, updatePhoto, updateFile, removeFile, removeTemplate, removeAttachment
<1>3. ASSUME NEW os \in SUBSET Owners, createNotes(w, os) PROVE FilesInv'
  BY <1>3, StoresKeep DEF createNotes
<1> QED
  BY <1>1, <1>2, <1>3, EraseBeginKeeps

\* The object is uploaded before the row is written.
LEMMA UploadKeeps ==
  ASSUME FilesInv, NEW w \in Workers, NEW f \in Files, Upload(w, f)
  PROVE  FilesInv'
<1>1. PICK q : q = req[w]
  OBVIOUS
<1>2. /\ q # NoRequest /\ q \in FileRequest /\ q.owners \in SUBSET Owners /\ q.op \in FileOps
      /\ q.old \in Files \cup {NoFile} /\ q.step \in {"upload", "uploadNamed"} /\ HoldsFile(q)
  BY <1>1, FileFields DEF FilesInv, FileRead, Upload, At
<1>3. /\ Key(q, f)
      /\ stored' = [stored EXCEPT ![f] = q.owners]
      /\ torn' = torn \cup (PointTo(f) \ q.owners)
      /\ UNCHANGED <<fileKind, file, open, removed, leaked>>
  BY <1>1 DEF Upload
<1>4. PICK r : r = [q EXCEPT !.new = f, !.step =
                 IF fileKind = "template" /\ q.old # NoFile THEN "delete" ELSE "write"]
  OBVIOUS
<1>5. /\ r \in FileRequest /\ r # NoRequest /\ r.owners = q.owners /\ r.old = q.old /\ r.new = f /\ r.op = q.op
      /\ r.step = IF fileKind = "template" /\ q.old # NoFile THEN "delete" ELSE "write"
  BY <1>2, <1>4, StoredFilesAssumption DEF FileRequest
<1>6. req' = [req EXCEPT ![w] = r]
  BY <1>1, <1>2, <1>4 DEF Upload, FilesInv, FilesTypeOK
<1>7. /\ req' \in [Workers -> FileRequest \cup {NoRequest}]
      /\ req'[w] = r /\ \A v \in Workers \ {w} : req'[v] = req[v]
  BY <1>5, <1>6 DEF FilesInv, FilesTypeOK
<1>8. /\ stored' \in [Files -> SUBSET Owners] /\ stored'[f] = q.owners
      /\ \A g \in Files \ {f} : stored'[g] = stored[g]
  BY <1>2, <1>3 DEF FilesInv, FilesTypeOK
<1>9. FilesTypeOK'
  BY <1>3, <1>7, <1>8 DEF FilesInv, FilesTypeOK, PointTo
<1>10. fileKind \notin {"letter", "document"} =>
          /\ PointTo(f) = {}
          /\ \A v \in Workers : req[v] # NoRequest => f # req[v].new /\ f # req[v].old
  <2> SUFFICES ASSUME fileKind \notin {"letter", "document"} PROVE f \in NewKeys
    BY DEF NewKeys
  <2>1. NewKeys # {} /\ f = AnyOf(NewKeys)
    BY <1>2, <1>3 DEF Key, HoldsFile
  <2> QED
    BY <2>1, AnyOfIn
<1>11. PointTo(f)' = PointTo(f) /\ \A g : PointTo(g)' = PointTo(g)
  BY <1>3 DEF PointTo
<1>12. HoldsFile(r)'
  <2>1. q.op # "erase" /\ q.owners # {}
    BY <1>2 DEF HoldsFile
  <2>2. r.old # NoFile => fileKind \notin {"letter", "document"} /\ r.old # f
    BY <1>1, <1>2, <1>5, <1>10 DEF HoldsFile
  <2>3. r.old # NoFile /\ r.step = "write" => stored'[r.old] = {}
    BY <1>2, <1>5, <1>8, <2>2 DEF HoldsFile
  <2>4. fileKind = "attachment" => (\E o \in Owners : r.owners = {o}) /\ PointTo(r.new) = {}
    BY <1>2, <1>5, <1>10, <2>1 DEF HoldsFile
  <2>5. r.step \in {"delete", "write"} /\ (r.step = "delete" => r.old # NoFile)
    BY <1>5
  <2> QED
    BY <1>3, <1>5, <1>11, <2>1, <2>2, <2>3, <2>4, <2>5 DEF HoldsFile
<1>13. ASSUME NEW v \in Workers, v # w, req[v] # NoRequest, NEW x, x = req[v] PROVE HoldsFile(x)'
  <2>1. HoldsFile(x) /\ x.old \in Files \cup {NoFile}
    BY <1>13, FileFields DEF FilesInv, FileRead
  <2>2. x.old # NoFile => fileKind \notin {"letter", "document"} /\ x.old # f
    BY <1>10, <1>13, <2>1 DEF HoldsFile
  <2>3. x.old # NoFile => stored'[x.old] = stored[x.old]
    BY <1>8, <2>1, <2>2
  <2> QED
    BY <1>3, <1>11, <2>1, <2>3 DEF HoldsFile
<1>14. \A v \in Workers : FileRead(v)'
  BY <1>7, <1>12, <1>13 DEF FileRead
<1>15. AttachmentsApart'
  <2> SUFFICES ASSUME fileKind = "attachment" PROVE AttachmentsApart'
    BY <1>3 DEF AttachmentsApart
  <2>1. \A v \in Workers \ {w} : req'[v] # NoRequest => req'[v].new # f
    BY <1>7, <1>10
  <2> QED
    BY <1>3, <1>5, <1>7, <2>1 DEF AttachmentsApart, FilesInv
<1>16. FilesKept'
  <2>1. ASSUME NEW o \in Owners \ torn', file[o] # NoFile, Writing(o)' = {}
        PROVE  o \in stored'[file[o]]
    <3>1. o \notin q.owners
      BY <1>5, <1>7, <2>1 DEF Writing
    <3>2. file[o] # f
      BY <1>3, <2>1, <3>1 DEF PointTo
    <3>3. Writing(o) = {}
      <4> SUFFICES ASSUME NEW v \in Writing(o) PROVE FALSE
        OBVIOUS
      <4>1. v # w
        BY <1>1, <3>1 DEF Writing
      <4> QED
        BY <1>7, <2>1, <4>1 DEF Writing
    <3>4. o \in stored[file[o]] /\ file[o] \in Files
      BY <1>3, <2>1, <3>3 DEF FilesInv, FilesKept, FilesTypeOK
    <3> QED
      BY <1>8, <3>2, <3>4
  <2>2. ASSUME NEW g \in Files \ leaked, stored'[g] # {}
        PROVE  PointTo(g)' # {} \/ \E v \in Workers : req'[v] # NoRequest /\ req'[v].new = g
    <3>1. CASE g = f
      BY <1>5, <1>7, <3>1
    <3>2. CASE g # f
      <4>1. stored[g] # {}
        BY <1>8, <2>2, <3>2
      <4>2. PointTo(g) # {} \/ \E v \in Workers : req[v] # NoRequest /\ req[v].new = g
        BY <2>2, <4>1 DEF FilesInv, FilesKept
      <4>3. q.new # g
        BY <1>2, StoredFilesAssumption DEF HoldsFile
      <4> QED
        BY <1>1, <1>7, <1>11, <4>2, <4>3
    <3> QED
      BY <3>1, <3>2
  <2> QED
    BY <1>3, <2>1, <2>2 DEF FilesKept
<1> QED
  BY <1>9, <1>14, <1>15, <1>16 DEF FilesInv

\* The old object is deleted, before the row is written or after.
LEMMA DeleteKeeps ==
  ASSUME FilesInv, NEW w \in Workers, Delete(w)
  PROVE  FilesInv'
<1>1. PICK q : q = req[w]
  OBVIOUS
<1>2. /\ q # NoRequest /\ q \in FileRequest /\ q.owners \in SUBSET Owners /\ q.op \in FileOps
      /\ q.step \in {"delete", "deleteLast"} /\ HoldsFile(q) /\ q.new \in Files \cup {NoFile}
      /\ q.old \in Files
  <2>1. q # NoRequest /\ q.step \in {"delete", "deleteLast"}
    BY <1>1 DEF Delete, At
  <2> QED
    BY <1>1, <2>1, FileFields DEF FilesInv, FileRead, HoldsFile
<1>3. /\ stored' = [stored EXCEPT ![q.old] = {}]
      /\ torn' = torn \cup (PointTo(q.old) \ q.owners)
      /\ UNCHANGED <<fileKind, file, open, removed, leaked>>
  BY <1>1 DEF Delete
<1>4. PICK r : r = [q EXCEPT !.step = IF q.step = "delete" /\ q.new = NoFile THEN "upload" ELSE "write"]
  OBVIOUS
<1>5. /\ r \in FileRequest /\ r # NoRequest /\ r.owners = q.owners /\ r.old = q.old /\ r.new = q.new
      /\ r.op = q.op /\ r.step \in {"upload", "write"} /\ (r.step = "upload" => q.new = NoFile)
  BY <1>2, <1>4, StoredFilesAssumption DEF FileRequest
<1>6. req' = [req EXCEPT ![w] = r]
  BY <1>1, <1>2, <1>4 DEF Delete, At, Goto, FilesInv, FilesTypeOK
<1>7. /\ req' \in [Workers -> FileRequest \cup {NoRequest}]
      /\ req'[w] = r /\ \A v \in Workers \ {w} : req'[v] = req[v]
  BY <1>5, <1>6 DEF FilesInv, FilesTypeOK
<1>8. /\ stored' \in [Files -> SUBSET Owners] /\ stored'[q.old] = {}
      /\ \A g \in Files \ {q.old} : stored'[g] = stored[g]
  BY <1>2, <1>3 DEF FilesInv, FilesTypeOK
<1>9. FilesTypeOK'
  BY <1>3, <1>7, <1>8 DEF FilesInv, FilesTypeOK, PointTo
<1>11. \A g : PointTo(g)' = PointTo(g)
  BY <1>3 DEF PointTo
<1>12. HoldsFile(r)'
  BY <1>2, <1>3, <1>5, <1>8, <1>11 DEF HoldsFile
<1>13. ASSUME NEW v \in Workers, v # w, req[v] # NoRequest, NEW x, x = req[v] PROVE HoldsFile(x)'
  <2>1. HoldsFile(x) /\ x.old \in Files \cup {NoFile}
    BY <1>13, FileFields DEF FilesInv, FileRead
  <2>2. x.old # NoFile /\ stored[x.old] = {} => stored'[x.old] = {}
    BY <1>8, <2>1
  <2> QED
    BY <1>3, <1>11, <2>1, <2>2 DEF HoldsFile
<1>14. \A v \in Workers : FileRead(v)'
  BY <1>7, <1>12, <1>13 DEF FileRead
<1>15. AttachmentsApart'
  <2> SUFFICES ASSUME fileKind = "attachment" PROVE AttachmentsApart'
    BY <1>3 DEF AttachmentsApart
  <2>1. \A v \in Workers : req'[v] # NoRequest => req[v] # NoRequest /\ req'[v].new = req[v].new
    BY <1>1, <1>2, <1>5, <1>7
  <2> QED
    BY <1>3, <2>1 DEF AttachmentsApart, FilesInv
<1>16. FilesKept'
  <2>1. ASSUME NEW o \in Owners \ torn', file[o] # NoFile, Writing(o)' = {}
        PROVE  o \in stored'[file[o]]
    <3>1. o \notin q.owners
      BY <1>5, <1>7, <2>1 DEF Writing
    <3>2. file[o] # q.old
      BY <1>3, <2>1, <3>1 DEF PointTo
    <3>3. Writing(o) = {}
      <4> SUFFICES ASSUME NEW v \in Writing(o) PROVE FALSE
        OBVIOUS
      <4>1. v # w
        BY <1>1, <3>1 DEF Writing
      <4> QED
        BY <1>7, <2>1, <4>1 DEF Writing
    <3>4. o \in stored[file[o]] /\ file[o] \in Files
      BY <1>3, <2>1, <3>3 DEF FilesInv, FilesKept, FilesTypeOK
    <3> QED
      BY <1>8, <3>2, <3>4
  <2>2. ASSUME NEW g \in Files \ leaked, stored'[g] # {}
        PROVE  PointTo(g)' # {} \/ \E v \in Workers : req'[v] # NoRequest /\ req'[v].new = g
    <3>1. stored[g] # {}
      BY <1>8, <2>2
    <3>2. PointTo(g) # {} \/ \E v \in Workers : req[v] # NoRequest /\ req[v].new = g
      BY <2>2, <3>1 DEF FilesInv, FilesKept
    <3> QED
      BY <1>1, <1>5, <1>7, <1>11, <3>2
  <2> QED
    BY <1>3, <2>1, <2>2 DEF FilesKept
<1> QED
  BY <1>9, <1>14, <1>15, <1>16 DEF FilesInv

\* The files of an entry are those of nobody else's rows.
LEMMA DeleteAllKeeps ==
  ASSUME FilesInv, NEW w \in Workers, DeleteAll(w)
  PROVE  FilesInv'
<1>1. PICK q : q = req[w]
  OBVIOUS
<1>2. /\ q # NoRequest /\ q \in FileRequest /\ q.owners \in SUBSET Owners /\ q.op = "erase"
      /\ q.step = "deleteAll" /\ HoldsFile(q) /\ q.new = NoFile /\ fileKind = "attachment"
  <2>1. q # NoRequest /\ q.step = "deleteAll"
    BY <1>1 DEF DeleteAll, At
  <2> QED
    BY <1>1, <2>1, FileFields DEF FilesInv, FileRead, HoldsFile
<1>3. PICK kept \in SUBSET {file[o] : o \in {x \in q.owners : file[x] # NoFile}} :
          /\ stored' = [f \in Files |-> IF \E o \in q.owners : file[o] = f /\ f \notin kept
                                        THEN {} ELSE stored[f]]
          /\ leaked' = leaked \cup kept
  BY <1>1 DEF DeleteAll
<1>4. UNCHANGED <<fileKind, file, open, removed, torn>>
  BY DEF DeleteAll
<1>5. PICK r : r = [q EXCEPT !.step = "erase"]
  OBVIOUS
<1>6. /\ r \in FileRequest /\ r # NoRequest /\ r.owners = q.owners /\ r.old = q.old /\ r.new = q.new
      /\ r.op = q.op /\ r.step = "erase"
  BY <1>2, <1>5, StoredFilesAssumption DEF FileRequest
<1>7. /\ req' \in [Workers -> FileRequest \cup {NoRequest}]
      /\ req'[w] = r /\ \A v \in Workers \ {w} : req'[v] = req[v]
  <2>1. req' = [req EXCEPT ![w] = r]
    BY <1>1, <1>5 DEF DeleteAll, Goto, FilesInv, FilesTypeOK
  <2> QED
    BY <1>6, <2>1 DEF FilesInv, FilesTypeOK
<1>8. /\ stored' \in [Files -> SUBSET Owners]
      /\ \A f \in Files : stored'[f] = {} \/ stored'[f] = stored[f]
      /\ \A f \in Files : (\A o \in q.owners : file[o] # f) => stored'[f] = stored[f]
  BY <1>3 DEF FilesInv, FilesTypeOK
<1>9. kept \subseteq Files
  BY <1>2, <1>3 DEF FilesInv, FilesTypeOK
<1>10. FilesTypeOK'
  BY <1>3, <1>4, <1>7, <1>8, <1>9 DEF FilesInv, FilesTypeOK
<1>11. \A g : PointTo(g)' = PointTo(g)
  BY <1>4 DEF PointTo
<1>12. HoldsFile(r)'
  BY <1>2, <1>4, <1>6 DEF HoldsFile
<1>13. ASSUME NEW v \in Workers, v # w, req[v] # NoRequest, NEW x, x = req[v] PROVE HoldsFile(x)'
  <2>1. HoldsFile(x) /\ x.old \in Files \cup {NoFile}
    BY <1>13, FileFields DEF FilesInv, FileRead
  <2>2. x.old # NoFile /\ stored[x.old] = {} => stored'[x.old] = {}
    BY <1>8, <2>1
  <2> QED
    BY <1>4, <1>11, <2>1, <2>2 DEF HoldsFile
<1>14. \A v \in Workers : FileRead(v)'
  BY <1>7, <1>12, <1>13 DEF FileRead
<1>15. AttachmentsApart'
  <2>1. \A v \in Workers : req'[v] # NoRequest => req[v] # NoRequest /\ req'[v].new = req[v].new
    BY <1>1, <1>2, <1>6, <1>7
  <2> QED
    BY <1>4, <2>1 DEF AttachmentsApart, FilesInv
<1>16. FilesKept'
  <2>1. ASSUME NEW o \in Owners \ torn', file[o] # NoFile, Writing(o)' = {}
        PROVE  o \in stored'[file[o]]
    <3>1. o \notin q.owners
      BY <1>6, <1>7, <2>1 DEF Writing
    <3>2. \A p \in q.owners : file[p] # file[o]
      BY <1>2, <2>1, <3>1 DEF FilesInv, AttachmentsApart
    <3>3. Writing(o) = {}
      <4> SUFFICES ASSUME NEW v \in Writing(o) PROVE FALSE
        OBVIOUS
      <4>1. v # w
        BY <1>1, <3>1 DEF Writing
      <4> QED
        BY <1>7, <2>1, <4>1 DEF Writing
    <3>4. o \in stored[file[o]] /\ file[o] \in Files
      BY <1>4, <2>1, <3>3 DEF FilesInv, FilesKept, FilesTypeOK
    <3> QED
      BY <1>8, <3>2, <3>4
  <2>2. ASSUME NEW g \in Files \ leaked', stored'[g] # {}
        PROVE  PointTo(g)' # {} \/ \E v \in Workers : req'[v] # NoRequest /\ req'[v].new = g
    <3>1. stored[g] # {} /\ g \notin leaked
      BY <1>3, <1>8, <2>2
    <3>2. PointTo(g) # {} \/ \E v \in Workers : req[v] # NoRequest /\ req[v].new = g
      BY <2>2, <3>1 DEF FilesInv, FilesKept
    <3> QED
      BY <1>1, <1>6, <1>7, <1>11, <3>2
  <2> QED
    BY <1>4, <2>1, <2>2 DEF FilesKept
<1> QED
  BY <1>10, <1>14, <1>15, <1>16 DEF FilesInv

\* w is over: what is kept of the requests.
LEMMA OverFiles ==
  ASSUME FilesInv, NEW w \in Workers, Done(w)
  PROVE  /\ req' \in [Workers -> FileRequest \cup {NoRequest}]
         /\ req'[w] = NoRequest /\ \A v \in Workers \ {w} : req'[v] = req[v]
BY DEF Done, FilesInv, FilesTypeOK

\* The row is written, and from then on the object is the row's.
LEMMA WriteFileKeeps ==
  ASSUME FilesInv, NEW w \in Workers, WriteFile(w)
  PROVE  FilesInv'
<1>1. PICK q : q = req[w]
  OBVIOUS
<1>2. /\ q # NoRequest /\ q \in FileRequest /\ q.owners \in SUBSET Owners /\ q.op \in FileOps
      /\ q.step = "write" /\ HoldsFile(q) /\ q.new \in Files \cup {NoFile}
      /\ q.old \in Files \cup {NoFile} /\ q.op # "erase" /\ q.owners # {}
  <2>1. q # NoRequest /\ q.step = "write"
    BY <1>1 DEF WriteFile, At
  <2> QED
    BY <1>1, <2>1, FileFields DEF FilesInv, FileRead, HoldsFile
<1>3. /\ file' = [o \in Owners |-> IF o \in q.owners THEN q.new ELSE file[o]]
      /\ leaked' = leaked \cup ({file[o] : o \in q.owners} \ {q.old, NoFile, q.new})
      /\ torn' = IF q.new = NoFile \/ q.owners \subseteq stored[q.new]
                 THEN torn \ q.owners ELSE torn \cup q.owners
      /\ Done(w) /\ UNCHANGED <<fileKind, stored, open, removed>>
  BY <1>1 DEF WriteFile
<1>4. /\ req' \in [Workers -> FileRequest \cup {NoRequest}]
      /\ req'[w] = NoRequest /\ \A v \in Workers \ {w} : req'[v] = req[v]
  BY <1>3, OverFiles
<1>5. \A o \in Owners : /\ o \in q.owners => file'[o] = q.new
                        /\ o \notin q.owners => file'[o] = file[o]
  BY <1>3
<1>6. FilesTypeOK'
  BY <1>2, <1>3, <1>4 DEF FilesInv, FilesTypeOK
<1>7. ASSUME NEW v \in Workers, v # w, req[v] # NoRequest, NEW x, x = req[v] PROVE HoldsFile(x)'
  <2>1. HoldsFile(x)
    BY <1>7 DEF FilesInv, FileRead
  <2>2. fileKind = "attachment" /\ x.new # NoFile => PointTo(x.new)' = {}
    <3> SUFFICES ASSUME fileKind = "attachment", x.new # NoFile, NEW o \in Owners, file'[o] = x.new PROVE FALSE
      BY DEF PointTo
    <3>1. PointTo(x.new) = {}
      BY <2>1 DEF HoldsFile
    <3>2. o \in q.owners /\ q.new = x.new
      BY <1>5, <3>1 DEF PointTo
    <3> QED
      BY <1>1, <1>2, <1>7, <3>2 DEF FilesInv, AttachmentsApart
  <2> QED
    BY <1>3, <2>1, <2>2 DEF HoldsFile
<1>8. \A v \in Workers : FileRead(v)'
  BY <1>4, <1>7 DEF FileRead
<1>9. AttachmentsApart'
  <2> SUFFICES ASSUME fileKind = "attachment" PROVE AttachmentsApart'
    BY <1>3 DEF AttachmentsApart
  <2>1. PICK p \in Owners : q.owners = {p}
    BY <1>2 DEF HoldsFile
  <2>2. q.new # NoFile => \A o \in Owners : file[o] # q.new
    BY <1>2 DEF HoldsFile, PointTo
  <2>3. \A o, x \in Owners : file'[o] = file'[x] /\ file'[o] # NoFile => o = x
    BY <1>5, <2>1, <2>2 DEF FilesInv, AttachmentsApart
  <2> QED
    BY <1>4, <2>3 DEF AttachmentsApart, FilesInv
<1>10. FilesKept'
  <2>1. ASSUME NEW o \in Owners \ torn', file'[o] # NoFile, Writing(o)' = {}
        PROVE  o \in stored[file'[o]]
    <3>1. CASE o \in q.owners
      BY <1>3, <1>5, <2>1, <3>1
    <3>2. CASE o \notin q.owners
      <4>1. Writing(o) = {}
        BY <1>1, <1>4, <2>1, <3>2 DEF Writing
      <4> QED
        BY <1>3, <1>5, <2>1, <3>2, <4>1 DEF FilesInv, FilesKept
    <3> QED
      BY <3>1, <3>2
  <2>2. ASSUME NEW g \in Files \ leaked', stored[g] # {}
        PROVE  PointTo(g)' # {} \/ \E v \in Workers : req'[v] # NoRequest /\ req'[v].new = g
    <3>0. g \notin leaked
      BY <1>3, <2>2
    <3>1. CASE g = q.new
      <4>1. PICK o \in Owners : o \in q.owners
        BY <1>2
      <4> QED
        BY <1>5, <3>1, <4>1 DEF PointTo
    <3>2. CASE g # q.new /\ PointTo(g) # {}
      <4>1. PICK o \in Owners : file[o] = g
        BY <3>2 DEF PointTo
      <4>2. g # NoFile
        BY <2>2, StoredFilesAssumption
      <4>3. g # q.old
        BY <1>2, <2>2, <4>2 DEF HoldsFile
      <4>4. o \notin q.owners
        BY <1>3, <2>2, <3>2, <4>1, <4>2, <4>3
      <4> QED
        BY <1>5, <4>1, <4>4 DEF PointTo
    <3>3. CASE g # q.new /\ \E v \in Workers : req[v] # NoRequest /\ req[v].new = g
      BY <1>1, <1>4, <3>3
    <3> QED
      BY <2>2, <3>0, <3>1, <3>2, <3>3 DEF FilesInv, FilesKept
  <2> QED
    BY <1>3, <2>1, <2>2 DEF FilesKept
<1> QED
  BY <1>6, <1>8, <1>9, <1>10 DEF FilesInv

\* A request that is over, with its rows written off or without a file.
LEMMA OverKeeps ==
  ASSUME FilesInv, NEW w \in Workers, req[w] # NoRequest, Done(w),
         UNCHANGED <<fileKind, file, stored, removed>>,
         torn \subseteq torn', torn' \subseteq Owners, leaked \subseteq leaked', leaked' \subseteq Files,
         open' \in BOOLEAN,
         \A o \in req[w].owners : file[o] # NoFile => o \in torn',
         req[w].new # NoFile => req[w].new \in leaked'
  PROVE  FilesInv'
<1>1. PICK q : q = req[w]
  OBVIOUS
<1>2. /\ req' \in [Workers -> FileRequest \cup {NoRequest}]
      /\ req'[w] = NoRequest /\ \A v \in Workers \ {w} : req'[v] = req[v]
  BY OverFiles
<1>3. FilesTypeOK'
  BY <1>2 DEF FilesInv, FilesTypeOK
<1>4. (\A x : HoldsFile(x)' <=> HoldsFile(x)) /\ \A g : PointTo(g)' = PointTo(g)
  BY DEF HoldsFile, PointTo
<1>5. \A v \in Workers : FileRead(v)'
  BY <1>2, <1>4 DEF FilesInv, FileRead
<1>6. AttachmentsApart'
  BY <1>2 DEF FilesInv, AttachmentsApart
<1>7. FilesKept'
  <2>1. ASSUME NEW o \in Owners \ torn', file[o] # NoFile, Writing(o)' = {}
        PROVE  o \in stored[file[o]]
    <3>1. o \notin q.owners
      BY <1>1, <2>1
    <3>2. Writing(o) = {}
      BY <1>1, <1>2, <2>1, <3>1 DEF Writing
    <3> QED
      BY <2>1, <3>2 DEF FilesInv, FilesKept
  <2>2. ASSUME NEW g \in Files \ leaked', stored[g] # {}
        PROVE  PointTo(g)' # {} \/ \E v \in Workers : req'[v] # NoRequest /\ req'[v].new = g
    <3>1. PointTo(g) # {} \/ \E v \in Workers : req[v] # NoRequest /\ req[v].new = g
      BY <2>2 DEF FilesInv, FilesKept
    <3>2. q.new # g
      BY <1>1, <2>2, StoredFilesAssumption
    <3> QED
      BY <1>1, <1>2, <1>4, <3>1, <3>2
  <2> QED
    BY <2>1, <2>2 DEF FilesKept
<1> QED
  BY <1>3, <1>5, <1>6, <1>7 DEF FilesInv

\* The entry is removed, or the request lost, and leaves rows torn and objects leaked.
LEMMA EndsKeepFiles ==
  ASSUME FilesInv, NEW w \in Workers, EraseEntry(w) \/ LoseFileRequest(w)
  PROVE  FilesInv'
<1>1. PICK q : q = req[w]
  OBVIOUS
<1>2. /\ q # NoRequest /\ q \in FileRequest /\ q.owners \in SUBSET Owners /\ HoldsFile(q)
      /\ q.new \in Files \cup {NoFile} /\ q.old \in Files \cup {NoFile}
  <2>1. q # NoRequest
    BY <1>1 DEF EraseEntry, LoseFileRequest, At
  <2> QED
    BY <1>1, <2>1, FileFields DEF FilesInv, FileRead
<1>3. torn \subseteq Owners /\ leaked \subseteq Files /\ open \in BOOLEAN
  BY DEF FilesInv, FilesTypeOK
<1>4. CASE EraseEntry(w)
  <2>1. q.step = "erase" /\ q.new = NoFile
    BY <1>1, <1>2, <1>4 DEF EraseEntry, At, HoldsFile
  <2>2. /\ torn \subseteq torn' /\ torn' \subseteq Owners /\ open' \in BOOLEAN
        /\ \A o \in Owners : file[o] # NoFile => o \in torn'
        /\ Done(w) /\ UNCHANGED <<fileKind, file, stored, removed, leaked>>
    BY <1>3, <1>4 DEF EraseEntry
  <2> QED
    BY <1>1, <1>2, <1>3, <2>1, <2>2, OverKeeps
<1>5. CASE LoseFileRequest(w)
  <2>1. /\ torn \subseteq torn' /\ torn' \subseteq Owners /\ q.owners \subseteq torn'
        /\ leaked \subseteq leaked' /\ leaked' \subseteq Files
        /\ q.new # NoFile => q.new \in leaked'
        /\ Done(w) /\ UNCHANGED <<fileKind, file, stored, open, removed>>
    BY <1>1, <1>2, <1>3, <1>5 DEF LoseFileRequest
  <2> QED
    BY <1>1, <1>2, <1>3, <2>1, OverKeeps
<1> QED
  BY <1>4, <1>5

\* A row that points to another file, or to none, with no request: what is not stored for it is in the history.
LEMMA PointedAnewKeeps ==
  ASSUME FilesInv, NEW o \in Owners, NEW f \in Files \cup {NoFile}, fileKind # "attachment",
         file' = [file EXCEPT ![o] = f],
         leaked' = leaked \cup ({file[o]} \ {NoFile}),
         torn' = torn \/ (torn' = IF f = NoFile \/ o \in stored[f] THEN torn \ {o} ELSE torn \cup {o}),
         torn' = torn => f = NoFile \/ o \in stored[f] \/ o \in torn,
         removed' \subseteq Owners,
         UNCHANGED <<req, fileKind, stored, open>>
  PROVE  FilesInv'
<1>1. /\ file' \in [Owners -> Files \cup {NoFile}] /\ file'[o] = f
      /\ \A p \in Owners \ {o} : file'[p] = file[p]
  BY DEF FilesInv, FilesTypeOK
<1>2. torn' \subseteq Owners /\ torn \ {o} = torn' \ {o} /\ (o \in torn' \/ f = NoFile \/ o \in stored[f])
  BY DEF FilesInv, FilesTypeOK
<1>3. leaked' \subseteq Files /\ leaked \subseteq leaked'
  BY DEF FilesInv, FilesTypeOK
<1>4. FilesTypeOK'
  BY <1>1, <1>2, <1>3 DEF FilesInv, FilesTypeOK
<1>5. \A w \in Workers : FileRead(w)'
  BY DEF FilesInv, FileRead, HoldsFile
<1>6. AttachmentsApart'
  BY DEF AttachmentsApart
<1>7. FilesKept'
  <2>1. ASSUME NEW p \in Owners \ torn', file'[p] # NoFile, Writing(p)' = {}
        PROVE  p \in stored[file'[p]]
    <3>1. CASE p = o
      BY <1>1, <1>2, <2>1, <3>1
    <3>2. CASE p # o
      <4>1. file'[p] = file[p] /\ p \notin torn
        BY <1>1, <1>2, <2>1, <3>2
      <4>2. Writing(p) = {}
        BY <2>1 DEF Writing
      <4> QED
        BY <2>1, <4>1, <4>2 DEF FilesInv, FilesKept
    <3> QED
      BY <3>1, <3>2
  <2>2. ASSUME NEW g \in Files \ leaked', stored[g] # {}
        PROVE  PointTo(g)' # {} \/ \E v \in Workers : req[v] # NoRequest /\ req[v].new = g
    <3>1. PointTo(g) # {} \/ \E v \in Workers : req[v] # NoRequest /\ req[v].new = g
      BY <1>3, <2>2 DEF FilesInv, FilesKept
    <3>2. ASSUME NEW p \in PointTo(g) PROVE PointTo(g)' # {}
      <4>1. p \in Owners /\ file[p] = g /\ g # NoFile
        BY <2>2, <3>2, StoredFilesAssumption DEF PointTo
      <4>2. p # o
        BY <2>2, <4>1
      <4> QED
        BY <1>1, <4>1, <4>2 DEF PointTo
    <3> QED
      BY <3>1, <3>2
  <2> QED
    BY <2>1, <2>2 DEF FilesKept
<1> QED
  BY <1>4, <1>5, <1>6, <1>7 DEF FilesInv

\* An avatar's address is given by hand, and a profile deleted with its photo.
LEMMA AddressesKeep ==
  ASSUME FilesInv, NEW o \in Owners,
         removeProfile(o) \/ \E f \in Files \cup {NoFile} : setAvatarUrl(o, f)
  PROVE  FilesInv'
<1>1. CASE removeProfile(o)
  <2>1. removed' \subseteq Owners
    BY <1>1 DEF removeProfile, FilesInv, FilesTypeOK
  <2> QED
    BY <1>1, <2>1, PointedAnewKeeps DEF removeProfile
<1>2. ASSUME NEW f \in Files \cup {NoFile}, setAvatarUrl(o, f) PROVE FilesInv'
  <2>1. removed' \subseteq Owners
    BY <1>2 DEF setAvatarUrl, FilesInv, FilesTypeOK
  <2>2. torn' = IF f = NoFile \/ o \in stored[f] THEN torn \ {o} ELSE torn \cup {o}
    BY <1>2 DEF setAvatarUrl
  <2>3. torn' = torn => f = NoFile \/ o \in stored[f] \/ o \in torn
    BY <2>2
  <2> QED
    BY <1>2, <2>1, <2>2, <2>3, PointedAnewKeeps DEF setAvatarUrl
<1> QED
  BY <1>1, <1>2

\* Every step keeps the invariant: whatever is torn or leaked is in the history.
LEMMA FilesStep ==
  ASSUME FilesInv, [FilesNext]_filesVars
  PROVE  FilesInv'
<1>1. CASE UNCHANGED filesVars
  BY <1>1 DEF filesVars, FilesInv, FilesTypeOK, FilesKept, AttachmentsApart, FileRead, HoldsFile,
              PointTo, Writing
<1>2. CASE FilesNext
  BY <1>2, BeginsKeep, UploadKeeps, DeleteKeeps, DeleteAllKeeps, WriteFileKeeps, EndsKeepFiles,
          AddressesKeep
     DEF FilesNext
<1> QED
  BY <1>1, <1>2

\* A row points to an object that is stored for it, and an object is that of a row or of a request
\* in flight: unless a request was lost or overtaken, or the row was signed, given an address by
\* hand or deleted (the uploads of users, profiles, notes, portfolios, documents and letters).
THEOREM FilesStayKept == FilesSpec => []FilesKept
<1>1. FilesInv => FilesKept
  BY DEF FilesInv
<1> QED
  BY <1>1, FilesBegin, FilesStep, PTL DEF FilesSpec

-----------------------------------------------------------------------------
(* Sums of figures *)

\* The pairs of a tally.
LEMMA TallyPairs ==
  ASSUME NEW f
  PROVE  /\ \A x \in Tally(f) : x[1] \in DOMAIN f /\ x[2] \in 1..f[x[1]] /\ x = <<x[1], x[2]>>
         /\ \A k \in DOMAIN f : \A i \in 1..f[k] : <<k, i>> \in Tally(f)
  BY DEF Tally

\* The parts of a finite set, counted.
LEMMA PartsCounted ==
  ASSUME NEW ms, IsFiniteSet(ms), NEW f, NEW share,
         \A k \in DOMAIN f : share[k] \subseteq ms /\ f[k] = Cardinality(share[k])
  PROVE  /\ \A k \in DOMAIN f : f[k] \in Nat /\ f[k] <= Cardinality(ms)
         /\ \E count : \A k \in DOMAIN f : count[k] \in Bijection(1..f[k], share[k])
<1>1. ASSUME NEW k \in DOMAIN f
      PROVE  f[k] \in Nat /\ f[k] <= Cardinality(ms) /\ ExistsBijection(1..f[k], share[k])
  BY <1>1, FS_Subset, FS_CardinalityType
<1> DEFINE count == [k \in DOMAIN f |-> CHOOSE g : g \in Bijection(1..f[k], share[k])]
<1>2. ASSUME NEW k \in DOMAIN f PROVE count[k] \in Bijection(1..f[k], share[k])
  <2>1. \E g : g \in Bijection(1..f[k], share[k])
    BY <1>1, <1>2 DEF ExistsBijection
  <2> QED
    BY <2>1
<1> QED
  BY <1>1, <1>2

\* The sizes of disjoint parts add up to the size of the whole: the pairs of the tally are one for
\* one the members of the parts.
LEMMA SumOfParts ==
  ASSUME NEW ms, IsFiniteSet(ms), NEW f, NEW share,
         \A k \in DOMAIN f : share[k] \subseteq ms /\ f[k] = Cardinality(share[k]),
         \A m \in ms : \E k \in DOMAIN f : m \in share[k],
         \A k, j \in DOMAIN f : k # j => share[k] \cap share[j] = {}
  PROVE  SumOf(f) = Cardinality(ms)
<1>1. PICK count : \A k \in DOMAIN f : count[k] \in Bijection(1..f[k], share[k])
  BY PartsCounted
<1>2. ASSUME NEW k \in DOMAIN f
      PROVE  /\ count[k] \in [1..f[k] -> share[k]]
             /\ \A i, j \in 1..f[k] : count[k][i] = count[k][j] => i = j
             /\ \A m \in share[k] : \E i \in 1..f[k] : count[k][i] = m
  <2>1. count[k] \in Bijection(1..f[k], share[k])
    BY <1>1, <1>2
  <2> QED
    BY <2>1 DEF Bijection, Injection, Surjection, IsInjective
<1> DEFINE h == [x \in Tally(f) |-> count[x[1]][x[2]]]
<1>3. \A x \in Tally(f) : h[x] \in share[x[1]] /\ h[x] \in ms
  <2> SUFFICES ASSUME NEW x \in Tally(f) PROVE h[x] \in share[x[1]] /\ h[x] \in ms
    OBVIOUS
  <2>1. x[1] \in DOMAIN f /\ x[2] \in 1..f[x[1]]
    BY TallyPairs
  <2>2. count[x[1]] \in [1..f[x[1]] -> share[x[1]]]
    BY <1>2, <2>1
  <2>3. count[x[1]][x[2]] \in share[x[1]]
    BY <2>1, <2>2
  <2> QED
    BY <2>1, <2>3
<1>4. h \in [Tally(f) -> ms]
  BY <1>3
<1>5. ASSUME NEW x \in Tally(f), NEW y \in Tally(f), h[x] = h[y] PROVE x = y
  <2>1. x[1] = y[1]
    BY <1>3, <1>5, TallyPairs
  <2>2. x[2] = y[2]
    BY <1>2, <1>5, <2>1, TallyPairs
  <2> QED
    BY <2>1, <2>2, TallyPairs
<1>6. ASSUME NEW m \in ms PROVE \E x \in Tally(f) : h[x] = m
  <2>1. PICK k \in DOMAIN f : m \in share[k]
    OBVIOUS
  <2>2. PICK i \in 1..f[k] : count[k][i] = m
    BY <1>2, <2>1
  <2>3. <<k, i>> \in Tally(f)
    BY TallyPairs
  <2> QED
    BY <2>2, <2>3
<1> HIDE DEF h
<1>7. h \in Bijection(Tally(f), ms)
  BY <1>4, <1>5, <1>6, Fun_IsBij
<1>8. ExistsBijection(ms, Tally(f))
  <2>1. ExistsBijection(Tally(f), ms)
    BY <1>7 DEF ExistsBijection
  <2> QED
    BY <2>1, Fun_ExistsBijSymmetric
<1> QED
  BY <1>8, FS_Bijection DEF SumOf

\* If the parts overlap, they add up to more.
LEMMA SumOfCover ==
  ASSUME NEW ms, IsFiniteSet(ms), NEW f, NEW share, IsFiniteSet(DOMAIN f),
         \A k \in DOMAIN f : share[k] \subseteq ms /\ f[k] = Cardinality(share[k]),
         \A m \in ms : \E k \in DOMAIN f : m \in share[k]
  PROVE  /\ IsFiniteSet(Tally(f)) /\ SumOf(f) \in Nat
         /\ SumOf(f) >= Cardinality(ms)
<1>1. PICK count : \A k \in DOMAIN f : count[k] \in Bijection(1..f[k], share[k])
  BY PartsCounted
<1>2. \A k \in DOMAIN f : f[k] \in Nat /\ f[k] <= Cardinality(ms)
  BY PartsCounted
<1>3. ASSUME NEW k \in DOMAIN f
      PROVE  /\ count[k] \in [1..f[k] -> share[k]]
             /\ \A m \in share[k] : \E i \in 1..f[k] : count[k][i] = m
  BY <1>1, <1>3 DEF Bijection, Injection, Surjection, IsInjective
<1>4. IsFiniteSet(Tally(f))
  <2> DEFINE n == Cardinality(ms)
  <2>1. n \in Nat
    BY FS_CardinalityType
  <2>2. Tally(f) \subseteq (DOMAIN f) \X (1..n)
    <3> SUFFICES ASSUME NEW x \in Tally(f) PROVE x \in (DOMAIN f) \X (1..n)
      OBVIOUS
    <3>1. x[1] \in DOMAIN f /\ x[2] \in 1..f[x[1]] /\ x = <<x[1], x[2]>>
      BY TallyPairs
    <3>2. f[x[1]] \in Nat /\ f[x[1]] <= n
      BY <1>2, <3>1
    <3> HIDE DEF n
    <3>3. x[2] \in 1..n
      BY <3>1, <3>2, <2>1
    <3>4. <<x[1], x[2]>> \in (DOMAIN f) \X (1..n)
      BY <3>1, <3>3
    <3> QED
      BY <3>1, <3>4, Zenon
  <2>3. IsFiniteSet(1..n)
    BY <2>1, FS_Interval
  <2>4. IsFiniteSet((DOMAIN f) \X (1..n))
    <3> DEFINE S == DOMAIN f
               T == 1..n
    <3>1. IsFiniteSet(S) /\ IsFiniteSet(T)
      BY <2>3
    <3> HIDE DEF S, T
    <3>2. IsFiniteSet(S \X T)
      BY <3>1, FS_Product
    <3> QED
      BY <3>2 DEF S, T
  <2> QED
    BY <2>2, <2>4, FS_Subset
<1> DEFINE h == [x \in Tally(f) |-> count[x[1]][x[2]]]
<1>5. h \in [Tally(f) -> ms]
  <2> SUFFICES ASSUME NEW x \in Tally(f) PROVE h[x] \in ms
    OBVIOUS
  <2>1. x[1] \in DOMAIN f /\ x[2] \in 1..f[x[1]]
    BY TallyPairs
  <2>2. count[x[1]] \in [1..f[x[1]] -> share[x[1]]]
    BY <1>3, <2>1
  <2>3. count[x[1]][x[2]] \in share[x[1]]
    BY <2>1, <2>2
  <2> QED
    BY <2>1, <2>3
<1>6. ASSUME NEW m \in ms PROVE \E x \in Tally(f) : h[x] = m
  <2>1. PICK k \in DOMAIN f : m \in share[k]
    OBVIOUS
  <2>2. PICK i \in 1..f[k] : count[k][i] = m
    BY <1>3, <2>1
  <2>3. <<k, i>> \in Tally(f)
    BY TallyPairs
  <2> QED
    BY <2>2, <2>3
<1> HIDE DEF h
<1>7. h \in Surjection(Tally(f), ms)
  BY <1>5, <1>6, Fun_IsSurj
<1> QED
  BY <1>4, <1>7, FS_Surjection, FS_CardinalityType DEF SumOf

-----------------------------------------------------------------------------
(* Foundations and their schools *)

\* A parent that was checked is a foundation, unless it was demoted or deleted since.
ParentOK(p) == LiveNetwork(p) \/ p \in demoted \/ ~StoredTenant(p)

\* A tenant that is about to be added under a parent is a school, and its parent was checked.
CreatesSound(q) ==
    /\ q.type # Keep /\ q.parent # Keep
    /\ q.parent # NoTenant => q.type = "school" /\ ParentOK(q.parent)

\* An update that nobody crossed leaves no foundation with a parent; what it found holds of the
\* tenant as it is now.
UpdateSound(q) ==
    LET t == q.row
        type == IF q.type = Keep THEN tenant[t].type ELSE q.type
        parent == IF q.parent = Keep THEN tenant[t].parent ELSE q.parent
    IN  /\ t # NoTenant
        /\ q.parent \notin {Keep, NoTenant} => ParentOK(q.parent)
        /\ LiveTenant(t) /\ t \notin raced /\ parent # NoTenant => type = "school"

\* What a request has checked before its await.
ParentRead(w) ==
    req[w] # NoRequest =>
        IF req[w].op = "update" THEN UpdateSound(req[w])
        ELSE req[w].row = NoTenant => CreatesSound(req[w])

\* A tenant with a parent is a school, and its parent a foundation: or the history tells why not.
ParentKept(t) ==
    tenant[t].parent # NoTenant =>
        /\ tenant[t].type = "school" \/ t \in raced
        /\ LiveNetwork(tenant[t].parent) \/ tenant[t].parent \in demoted

\* The inductive invariant of Foundations: the check of the parent is made in one transaction and
\* the write in another, so that what a request has checked belongs to it.
FoundationsInv ==
    /\ FoundationsTypeOK
    /\ \A t \in Tenants : StoredTenant(t) => ParentKept(t)
    /\ \A w \in Workers : ParentRead(w)

\* No tenant and no request at the start.
LEMMA FoundationsBegin == FoundationsInit => FoundationsInv
  BY FoundationsAssumption
     DEF FoundationsInit, FoundationsInv, FoundationsTypeOK, FoundationsRequest, StoredTenant,
         ParentRead, Idle

\* The fields of a tenant, and of a request on one.
LEMMA TenantFields ==
  ASSUME FoundationsTypeOK
  PROVE  /\ DOMAIN req = Workers /\ DOMAIN tenant = Tenants
         /\ \A v \in Workers : req[v] # NoRequest =>
               /\ req[v] \in FoundationsRequest
               /\ req[v].op \in {"create", "register", "update"}
               /\ req[v].row \in Tenants \cup {NoTenant}
               /\ req[v].type \in {"school", "network", Keep}
               /\ req[v].parent \in Tenants \cup {NoTenant, Keep}
         /\ \A t \in Tenants : StoredTenant(t) =>
               /\ tenant[t] \in TenantRow
               /\ tenant[t].type \in {"school", "network"}
               /\ tenant[t].parent \in Tenants \cup {NoTenant}
               /\ tenant[t].deleted \in BOOLEAN
         /\ NoTenant \notin Tenants /\ NoTenant \notin TenantRow
         /\ Keep \notin Tenants /\ Keep # NoTenant /\ Keep # "school" /\ Keep # "network"
         /\ NoRequest \notin FoundationsRequest
<1>1. ASSUME NEW v \in Workers, req[v] # NoRequest PROVE req[v] \in FoundationsRequest
  BY <1>1 DEF FoundationsTypeOK
<1>2. ASSUME NEW t \in Tenants, StoredTenant(t) PROVE tenant[t] \in TenantRow
  BY <1>2 DEF FoundationsTypeOK, StoredTenant
<1> QED
  BY <1>1, <1>2, FoundationsAssumption DEF FoundationsTypeOK, FoundationsRequest, TenantRow

\* A request that begins writes nothing yet.
LEMMA HierarchyBegins ==
  ASSUME FoundationsInv, NEW w \in Workers, NEW q \in FoundationsRequest,
         Begin(w, q), UNCHANGED <<tenant, demoted, raced>>,
         IF q.op = "update" THEN UpdateSound(q) ELSE q.row = NoTenant => CreatesSound(q)
  PROVE  FoundationsInv'
<1>1. FoundationsTypeOK
  BY DEF FoundationsInv
<1>2. \A v \in Workers : req'[v] = IF v = w THEN q ELSE req[v]
  BY <1>1, TenantFields DEF Begin
<1>3. FoundationsTypeOK'
  BY <1>1 DEF FoundationsTypeOK, Begin
<1>4. ASSUME NEW v \in Workers PROVE ParentRead(v)'
  <2>1. ParentRead(v)
    BY DEF FoundationsInv
  <2> QED
    BY <1>2, <2>1 DEF ParentRead, UpdateSound, CreatesSound, ParentOK, LiveNetwork, LiveTenant, StoredTenant
<1> QED
  BY <1>3, <1>4 DEF FoundationsInv, ParentKept, LiveNetwork, LiveTenant, StoredTenant

\* The parent of a new tenant is checked.
LEMMA CheckParentKeeps ==
  ASSUME FoundationsInv, NEW w \in Workers, NEW op \in {"create", "register"},
         NEW type \in {"school", "network"}, NEW p \in Tenants \cup {NoTenant},
         CheckParent(w, op, type, p)
  PROVE  FoundationsInv'
<1> DEFINE q == [op |-> op, row |-> NoTenant, type |-> type, parent |-> p]
<1>t. FoundationsTypeOK
  BY DEF FoundationsInv
<1>1. /\ q \in FoundationsRequest /\ q.op = op /\ q.row = NoTenant /\ q.type = type /\ q.parent = p
  BY DEF FoundationsRequest
<1>2. /\ Begin(w, q) /\ UNCHANGED <<tenant, demoted, raced>>
      /\ p # NoTenant => type = "school" /\ LiveNetwork(p)
  BY DEF CheckParent, validateTenantHierarchy
<1> HIDE DEF q
<1>3. CreatesSound(q)
  BY <1>t, <1>1, <1>2, TenantFields DEF CreatesSound, ParentOK
<1> QED
  BY <1>1, <1>2, <1>3, HierarchyBegins

\* The parent of an update is checked, against the tenant that is read first.
LEMMA BeginTenantUpdateKeeps ==
  ASSUME FoundationsInv, NEW w \in Workers, NEW t \in Tenants,
         NEW type \in {"school", "network", Keep}, NEW p \in Tenants \cup {NoTenant, Keep},
         BeginTenantUpdate(w, t, type, p)
  PROVE  FoundationsInv'
<1> DEFINE q == [op |-> "update", row |-> t, type |-> type, parent |-> p]
<1>t. FoundationsTypeOK
  BY DEF FoundationsInv
<1>1. /\ q \in FoundationsRequest /\ q.op = "update" /\ q.row = t /\ q.type = type /\ q.parent = p
  BY DEF FoundationsRequest
<1>2. /\ Begin(w, q) /\ UNCHANGED <<tenant, demoted, raced>> /\ LiveTenant(t)
      /\ validateTenantHierarchy(IF type = Keep THEN tenant[t].type ELSE type,
                                 IF p = Keep THEN tenant[t].parent ELSE p)
  BY DEF BeginTenantUpdate
<1>f. StoredTenant(t) /\ tenant[t].type \in {"school", "network"}
  BY <1>t, <1>2, TenantFields DEF LiveTenant
<1> HIDE DEF q
<1>3. UpdateSound(q)
  BY <1>t, <1>f, <1>1, <1>2, TenantFields DEF UpdateSound, ParentOK, validateTenantHierarchy
<1> QED
  BY <1>1, <1>2, <1>3, HierarchyBegins

\* Who is a parent stays one, is removed or made a school, or is deleted.
ParentsStay == \A p \in Tenants :
    /\ StoredTenant(p) /\ LiveNetwork(p) => LiveNetwork(p)' \/ p \in demoted' \/ ~StoredTenant(p)'
    /\ p \in demoted => p \in demoted' \/ ~StoredTenant(p)'

\* The requests of others, over a write that keeps who is a parent or puts it into the history.
LEMMA RequestsStaySound ==
  ASSUME FoundationsInv, ParentsStay, NEW v \in Workers, NEW q, q = req[v], req'[v] = q,
         q # NoRequest,
         \A p \in Tenants : ~StoredTenant(p) /\ StoredTenant(p)' => p \notin {q.row, q.parent},
         q.op = "update" /\ q.row \in Tenants /\ LiveTenant(q.row)' /\ q.row \notin raced' =>
            /\ LiveTenant(q.row) /\ q.row \notin raced
            /\ tenant'[q.row].type = tenant[q.row].type
            /\ tenant'[q.row].parent \in {tenant[q.row].parent, NoTenant}
  PROVE  ParentRead(v)'
<1>t. FoundationsTypeOK /\ ParentRead(v)
  BY DEF FoundationsInv
<1>1. /\ q.op \in {"create", "register", "update"} /\ q.row \in Tenants \cup {NoTenant}
      /\ q.type \in {"school", "network", Keep} /\ q.parent \in Tenants \cup {NoTenant, Keep}
      /\ NoTenant \notin Tenants /\ Keep \notin Tenants /\ Keep # NoTenant
      /\ Keep # "school" /\ Keep # "network"
  BY <1>t, TenantFields
<1>2. q.parent \in Tenants /\ ParentOK(q.parent) => ParentOK(q.parent)'
  <2> SUFFICES ASSUME NEW p \in Tenants, p = q.parent, ParentOK(p) PROVE ParentOK(p)'
    BY Zenon
  <2>1. CASE ~StoredTenant(p)
    BY <2>1 DEF ParentOK
  <2>2. CASE StoredTenant(p)
    BY <2>2 DEF ParentOK, ParentsStay
  <2> QED
    BY <2>1, <2>2
<1>3. CASE q.op = "update"
  <2>1. UpdateSound(q)
    BY <1>t, <1>3 DEF ParentRead
  <2>2. q.row \in Tenants
    BY <1>1, <2>1 DEF UpdateSound
  <2>3. q.parent \notin {Keep, NoTenant} => ParentOK(q.parent)'
    BY <1>1, <1>2, <2>1 DEF UpdateSound
  <2>4. UpdateSound(q)'
    BY <1>1, <1>3, <2>1, <2>2, <2>3 DEF UpdateSound
  <2> QED
    BY <1>3, <2>4 DEF ParentRead, UpdateSound, ParentOK
<1>4. CASE q.op # "update"
  <2>1. q.row = NoTenant => CreatesSound(q)
    BY <1>t, <1>4 DEF ParentRead
  <2>2. q.row = NoTenant => CreatesSound(q)'
    BY <1>1, <1>2, <2>1 DEF CreatesSound
  <2> QED
    BY <1>4, <2>2 DEF ParentRead, CreatesSound, ParentOK
<1> QED
  BY <1>3, <1>4
\* The tenant is added.
LEMMA AddTenantKeeps ==
  ASSUME FoundationsInv, NEW w \in Workers, NEW t \in Tenants, AddTenant(w, t)
  PROVE  FoundationsInv'
<1>t. FoundationsTypeOK
  BY DEF FoundationsInv
<1>q. PICK q : q = req[w]
  OBVIOUS
<1> DEFINE row == [type |-> q.type, parent |-> q.parent, deleted |-> FALSE]
<1>1. /\ q # NoRequest /\ q.op \in {"create", "register"} /\ q.row = NoTenant
      /\ ~StoredTenant(t) /\ q.parent \in {NoTenant} \cup {x \in Tenants : StoredTenant(x)}
      /\ tenant' = [tenant EXCEPT ![t] = row]
      /\ req' = [req EXCEPT ![w] = NoRequest] \/ req' = [req EXCEPT ![w].row = t]
      /\ \A v \in Workers : req[v] # NoRequest => t \notin {req[v].row, req[v].parent}
      /\ UNCHANGED <<demoted, raced>>
  BY <1>q DEF AddTenant, Pending, FreshTenant, Done, ParentExists
<1>2. q \in FoundationsRequest /\ q.type \in {"school", "network", Keep}
  BY <1>t, <1>q, <1>1, TenantFields
<1>3. CreatesSound(q)
  BY <1>q, <1>1 DEF FoundationsInv, ParentRead
<1>4. /\ row \in TenantRow /\ row.type = q.type /\ row.parent = q.parent /\ row # NoTenant
      /\ ~row.deleted
  <2>1. q.type \in {"school", "network"} /\ q.parent \in Tenants \cup {NoTenant}
    BY <1>1, <1>2, <1>3 DEF CreatesSound
  <2>2. row \in TenantRow
    BY <2>1 DEF TenantRow
  <2> QED
    BY <2>2, <1>t, TenantFields
<1> HIDE DEF row
<1>5. \A x \in Tenants : tenant'[x] = IF x = t THEN row ELSE tenant[x]
  BY <1>t, <1>1, TenantFields
<1>6. FoundationsTypeOK'
  <2>1. [q EXCEPT !.row = t] \in FoundationsRequest
    BY <1>2 DEF FoundationsRequest
  <2> QED
    <3>1. req' \in [Workers -> FoundationsRequest \cup {NoRequest}]
      BY <1>1, <1>q, <2>1, <1>t DEF FoundationsTypeOK
    <3>2. tenant' \in [Tenants -> TenantRow \cup {NoTenant}]
      BY <1>1, <1>4, <1>t DEF FoundationsTypeOK
    <3> QED
      BY <1>1, <1>t, <3>1, <3>2 DEF FoundationsTypeOK
<1>7. \A x \in Tenants : StoredTenant(x) => (LiveNetwork(x)' <=> LiveNetwork(x))
  BY <1>1, <1>5 DEF StoredTenant, LiveNetwork, LiveTenant
<1>8. ParentsStay
  BY <1>1, <1>7 DEF ParentsStay
<1>9. ASSUME NEW x \in Tenants, StoredTenant(x)' PROVE ParentKept(x)'
  <2>1. CASE x = t
    <3>1. tenant'[x].type = q.type /\ tenant'[x].parent = q.parent
      BY <1>4, <1>5, <2>1
    <3>2. q.parent # NoTenant => q.type = "school" /\ q.parent \in Tenants /\ StoredTenant(q.parent)
                                 /\ (LiveNetwork(q.parent) \/ q.parent \in demoted)
      BY <1>1, <1>3 DEF CreatesSound, ParentOK
    <3>3. q.parent # NoTenant => LiveNetwork(q.parent)' \/ q.parent \in demoted'
      BY <1>1, <1>7, <3>2
    <3> QED
      BY <3>1, <3>2, <3>3 DEF ParentKept, LiveNetwork, LiveTenant, StoredTenant
  <2>2. CASE x # t
    <3>1. tenant'[x] = tenant[x] /\ StoredTenant(x)
      BY <1>5, <1>9, <2>2 DEF StoredTenant
    <3>2. ParentKept(x)
      BY <3>1 DEF FoundationsInv
    <3>3. PICK p : p = tenant[x].parent
      OBVIOUS
    <3>4. p # NoTenant => p \in Tenants
      BY <1>t, <3>1, <3>3, TenantFields
    <3>5. p # NoTenant => LiveNetwork(p)' \/ p \in demoted'
      BY <1>1, <1>7, <3>2, <3>3, <3>4 DEF ParentKept, LiveNetwork, LiveTenant
    <3> QED
      BY <1>1, <3>1, <3>2, <3>3, <3>5 DEF ParentKept, LiveNetwork, LiveTenant, StoredTenant
  <2> QED
    BY <2>1, <2>2
<1>10. ASSUME NEW v \in Workers PROVE ParentRead(v)'
  <2>1. CASE v = w
    <3>1. req'[w] = NoRequest \/ (req'[w].row = t /\ req'[w].op = q.op)
      BY <1>1, <1>2, <1>t, <1>q, TenantFields DEF FoundationsRequest
    <3> QED
      BY <2>1, <3>1, <1>1, <1>t, TenantFields DEF ParentRead
  <2>2. CASE v # w /\ req[v] # NoRequest
    <3>1. PICK r : r = req[v]
      OBVIOUS
    <3>2. req'[v] = r /\ r # NoRequest
      BY <1>1, <1>t, <2>2, <3>1, TenantFields
    <3>3. t \notin {r.row, r.parent}
      BY <1>1, <2>2, <3>1
    <3>4. \A x \in Tenants : ~StoredTenant(x) /\ StoredTenant(x)' => x = t
      BY <1>5 DEF StoredTenant
    <3>5. r.row \in Tenants => tenant'[r.row] = tenant[r.row]
      BY <1>5, <3>3
    <3> QED
      BY <1>1, <1>8, <3>1, <3>2, <3>3, <3>4, <3>5, RequestsStaySound DEF LiveTenant, StoredTenant
  <2>3. CASE v # w /\ req[v] = NoRequest
    BY <1>1, <1>t, <2>3, TenantFields DEF ParentRead
  <2> QED
    BY <2>1, <2>2, <2>3
<1> QED
  BY <1>6, <1>9, <1>10 DEF FoundationsInv

\* A step that ends the request of one worker, or of none, and adds no tenant.
LEMMA HierarchyStays ==
  ASSUME FoundationsInv, NEW w, FoundationsTypeOK', ParentsStay,
         \A v \in Workers : req'[v] = IF v = w THEN NoRequest ELSE req[v],
         \A x \in Tenants : StoredTenant(x)' => StoredTenant(x) /\ ParentKept(x)',
         \A x \in Tenants : LiveTenant(x)' /\ x \notin raced' =>
            /\ LiveTenant(x)
            /\ \/ \A v \in Workers : v # w /\ Pending(v, "update") => req[v].row # x
               \/ /\ x \notin raced /\ tenant'[x].type = tenant[x].type
                  /\ tenant'[x].parent \in {tenant[x].parent, NoTenant}
  PROVE  FoundationsInv'
<1>1. ASSUME NEW v \in Workers PROVE ParentRead(v)'
  <2>1. CASE v # w /\ req[v] # NoRequest
    <3>1. PICK r : r = req[v]
      OBVIOUS
    <3>2. req'[v] = r /\ r # NoRequest
      BY <2>1, <3>1
    <3>3. r.op = "update" => Pending(v, "update")
      BY <3>1, <3>2 DEF Pending
    <3> QED
      BY <2>1, <3>1, <3>2, <3>3, RequestsStaySound
  <2>2. CASE ~(v # w /\ req[v] # NoRequest)
    BY <2>2 DEF ParentRead
  <2> QED
    BY <2>1, <2>2
<1> QED
  BY <1>1 DEF FoundationsInv
\* A tenant whose schema could not be made is deleted again.
LEMMA RollBackKeeps ==
  ASSUME FoundationsInv, NEW w \in Workers, RollBack(w)
  PROVE  FoundationsInv'
<1>t. FoundationsTypeOK
  BY DEF FoundationsInv
<1>q. PICK t : t = req[w].row
  OBVIOUS
<1>1. /\ req[w] # NoRequest /\ t # NoTenant /\ tenant' = WithoutTenant(t)
      /\ demoted' = demoted \ {t} /\ raced' = raced \ {t} /\ req' = [req EXCEPT ![w] = NoRequest]
  BY <1>q DEF RollBack, Pending, Done
<1>2. t \in Tenants
  BY <1>1, <1>q, <1>t, TenantFields
<1>3. \A x \in Tenants : tenant'[x] =
         IF x = t \/ ~StoredTenant(x) THEN NoTenant
         ELSE IF tenant[x].parent = t THEN [tenant[x] EXCEPT !.parent = NoTenant] ELSE tenant[x]
  BY <1>1 DEF WithoutTenant
<1>4. ASSUME NEW x \in Tenants, x # t, StoredTenant(x)
      PROVE  /\ StoredTenant(x)' /\ tenant'[x] \in TenantRow
             /\ tenant'[x].type = tenant[x].type /\ tenant'[x].deleted = tenant[x].deleted
             /\ tenant'[x].parent = IF tenant[x].parent = t THEN NoTenant ELSE tenant[x].parent
  <2>1. tenant[x] \in TenantRow /\ NoTenant \notin TenantRow
    BY <1>4, <1>t, TenantFields
  <2>2. tenant'[x] = IF tenant[x].parent = t THEN [tenant[x] EXCEPT !.parent = NoTenant] ELSE tenant[x]
    BY <1>3, <1>4
  <2> QED
    BY <2>1, <2>2 DEF TenantRow, StoredTenant
<1>5. \A x \in Tenants : StoredTenant(x)' => x # t /\ StoredTenant(x)
  BY <1>3 DEF StoredTenant
<1>6. FoundationsTypeOK'
  <2>1. DOMAIN tenant' = Tenants
    BY <1>1 DEF WithoutTenant
  <2>2. \A x \in Tenants : tenant'[x] \in TenantRow \cup {NoTenant}
    BY <1>4, <1>5 DEF StoredTenant
  <2>3. tenant' = [x \in Tenants |-> tenant'[x]]
    BY <1>1 DEF WithoutTenant
  <2>4. tenant' \in [Tenants -> TenantRow \cup {NoTenant}]
    BY <2>2, <2>3
  <2> QED
    BY <1>1, <1>t, <2>4 DEF FoundationsTypeOK
<1>7. \A x \in Tenants : x # t => (LiveTenant(x)' <=> LiveTenant(x)) /\ (LiveNetwork(x)' <=> LiveNetwork(x))
  <2> SUFFICES ASSUME NEW x \in Tenants, x # t
               PROVE  (LiveTenant(x)' <=> LiveTenant(x)) /\ (LiveNetwork(x)' <=> LiveNetwork(x))
    OBVIOUS
  <2>1. CASE StoredTenant(x)
    BY <1>4, <2>1 DEF LiveNetwork, LiveTenant
  <2>2. CASE ~StoredTenant(x)
    BY <1>5, <2>2 DEF LiveNetwork, LiveTenant
  <2> QED
    BY <2>1, <2>2
<1>8. ParentsStay
  BY <1>1, <1>5, <1>7 DEF ParentsStay
<1>9. ASSUME NEW x \in Tenants, StoredTenant(x)' PROVE ParentKept(x)'
  <2>1. x # t /\ StoredTenant(x)
    BY <1>5, <1>9
  <2>2. ParentKept(x) /\ tenant[x].parent \in Tenants \cup {NoTenant}
    BY <1>t, <2>1, TenantFields DEF FoundationsInv
  <2>3. PICK p : p = tenant[x].parent
    OBVIOUS
  <2>4. CASE p \in {t, NoTenant}
    BY <1>4, <2>1, <2>3, <2>4 DEF ParentKept
  <2>5. CASE p \notin {t, NoTenant}
    <3>1. LiveNetwork(p)' \/ p \in demoted'
      BY <1>1, <1>7, <2>2, <2>3, <2>5 DEF ParentKept, LiveNetwork, LiveTenant
    <3>2. tenant'[x].parent = p /\ tenant'[x].type = tenant[x].type
      BY <1>4, <2>1, <2>3, <2>5
    <3>3. tenant[x].type = "school" \/ x \in raced'
      BY <1>1, <2>1, <2>2, <2>3, <2>5 DEF ParentKept
    <3> QED
      BY <3>1, <3>2, <3>3 DEF ParentKept, LiveNetwork, LiveTenant, StoredTenant
  <2> QED
    BY <2>4, <2>5
<1>10. \A v \in Workers : req'[v] = IF v = w THEN NoRequest ELSE req[v]
  BY <1>1, <1>t, TenantFields
<1>11. ASSUME NEW x \in Tenants, LiveTenant(x)', x \notin raced'
       PROVE  /\ LiveTenant(x) /\ x \notin raced /\ tenant'[x].type = tenant[x].type
              /\ tenant'[x].parent \in {tenant[x].parent, NoTenant}
  <2>1. x # t /\ StoredTenant(x)
    BY <1>5, <1>11 DEF LiveTenant
  <2> QED
    BY <1>1, <1>4, <1>7, <1>11, <2>1
<1> QED
  BY <1>5, <1>6, <1>8, <1>9, <1>10, <1>11, HierarchyStays

\* The request is over.
LEMMA EndFoundationsKeeps ==
  ASSUME FoundationsInv, NEW w \in Workers, EndFoundations(w)
  PROVE  FoundationsInv'
<1>t. FoundationsTypeOK
  BY DEF FoundationsInv
<1>1. req' = [req EXCEPT ![w] = NoRequest] /\ UNCHANGED <<tenant, demoted, raced>>
  BY DEF EndFoundations, Done
<1>2. FoundationsTypeOK'
  BY <1>t, <1>1 DEF FoundationsTypeOK
<1>3. ParentsStay
  BY <1>1 DEF ParentsStay, LiveNetwork, LiveTenant, StoredTenant
<1>4. \A v \in Workers : req'[v] = IF v = w THEN NoRequest ELSE req[v]
  BY <1>1, <1>t, TenantFields
<1>5. ASSUME NEW x \in Tenants, StoredTenant(x)' PROVE StoredTenant(x) /\ ParentKept(x)'
  BY <1>1, <1>5 DEF FoundationsInv, ParentKept, LiveNetwork, LiveTenant, StoredTenant
<1> QED
  BY <1>1, <1>2, <1>3, <1>4, <1>5, HierarchyStays DEF LiveTenant, StoredTenant

\* A tenant is removed, also a foundation that has schools: they are of one that is demoted.
LEMMA RemoveTenantKeeps ==
  ASSUME FoundationsInv, NEW t \in Tenants, removeTenant(t)
  PROVE  FoundationsInv'
<1>t. FoundationsTypeOK
  BY DEF FoundationsInv
<1>1. /\ StoredTenant(t) /\ tenant' = [tenant EXCEPT ![t] = [tenant[t] EXCEPT !.deleted = TRUE]]
      /\ demoted' = demoted \cup {t} /\ UNCHANGED <<req, raced>>
  BY DEF removeTenant, LiveTenant
<1>2. tenant[t] \in TenantRow /\ NoTenant \notin TenantRow
  BY <1>t, <1>1, TenantFields
<1>3. /\ tenant'[t] \in TenantRow /\ StoredTenant(t)' /\ tenant'[t].deleted
      /\ tenant'[t].type = tenant[t].type /\ tenant'[t].parent = tenant[t].parent
      /\ \A x \in Tenants : x # t => tenant'[x] = tenant[x]
  BY <1>t, <1>1, <1>2, TenantFields, ZenonT(60) DEF TenantRow, StoredTenant
<1>4. FoundationsTypeOK'
  BY <1>t, <1>1, <1>3 DEF FoundationsTypeOK
<1>5. ParentsStay
  BY <1>1, <1>3 DEF ParentsStay, LiveNetwork, LiveTenant, StoredTenant
<1>6. ASSUME NEW x \in Tenants, StoredTenant(x)' PROVE StoredTenant(x) /\ ParentKept(x)'
  <2>1. StoredTenant(x) /\ tenant'[x].type = tenant[x].type /\ tenant'[x].parent = tenant[x].parent
    BY <1>1, <1>3, <1>6 DEF StoredTenant
  <2>2. ParentKept(x) /\ tenant[x].parent \in Tenants \cup {NoTenant}
    BY <1>t, <2>1, TenantFields DEF FoundationsInv
  <2>3. PICK p : p = tenant[x].parent
    OBVIOUS
  <2>4. p # NoTenant => LiveNetwork(p)' \/ p \in demoted'
    BY <1>1, <1>3, <2>2, <2>3 DEF ParentKept, LiveNetwork, LiveTenant, StoredTenant
  <2> QED
    BY <1>1, <2>1, <2>2, <2>3, <2>4 DEF ParentKept, LiveNetwork, LiveTenant, StoredTenant
<1>7. ASSUME NEW x \in Tenants, LiveTenant(x)' PROVE LiveTenant(x) /\ tenant'[x] = tenant[x]
  BY <1>1, <1>3, <1>7 DEF LiveTenant, StoredTenant
<1>8. ASSUME NEW v \in Workers, req[v] # NoRequest PROVE ParentRead(v)'
  <2>1. PICK r : r = req[v]
    OBVIOUS
  <2>2. \A x \in Tenants : ~StoredTenant(x) => ~StoredTenant(x)'
    BY <1>6
  <2> QED
    BY <1>1, <1>5, <1>7, <1>8, <2>1, <2>2, RequestsStaySound
<1>9. ASSUME NEW v \in Workers PROVE ParentRead(v)'
  BY <1>1, <1>8 DEF ParentRead
<1> QED
  BY <1>4, <1>6, <1>9 DEF FoundationsInv
\* The update is written: a foundation that becomes a school is demoted, and a tenant that another
\* update was under way on is raced.
LEMMA CommitTenantUpdateKeeps ==
  ASSUME FoundationsInv, NEW w \in Workers, CommitTenantUpdate(w)
  PROVE  FoundationsInv'
<1>t. FoundationsTypeOK
  BY DEF FoundationsInv
<1>q. PICK q : q = req[w]
  OBVIOUS
<1>r. PICK t : t = q.row
  OBVIOUS
<1> DEFINE type == IF q.type = Keep THEN tenant[t].type ELSE q.type
           parent == IF q.parent = Keep THEN tenant[t].parent ELSE q.parent
           others == \E v \in Others(w) : Pending(v, "update") /\ req[v].row = t
<1>1. /\ q # NoRequest /\ q.op = "update" /\ LiveTenant(t) /\ ParentExists(parent)
      /\ tenant' = [tenant EXCEPT ![t].type = type, ![t].parent = parent]
      /\ demoted' = IF LiveNetwork(t) /\ type = "school" THEN demoted \cup {t} ELSE demoted
      /\ raced' = IF others THEN raced \cup {t} ELSE raced
      /\ req' = [req EXCEPT ![w] = NoRequest]
  BY <1>q, <1>r DEF CommitTenantUpdate, Pending, Done
<1>2. /\ UpdateSound(q) /\ q \in FoundationsRequest
      /\ q.type \in {"school", "network", Keep} /\ q.parent \in Tenants \cup {NoTenant, Keep}
      /\ t \in Tenants
  BY <1>t, <1>q, <1>r, <1>1, TenantFields DEF FoundationsInv, ParentRead, UpdateSound
<1>3. tenant[t] \in TenantRow /\ NoTenant \notin TenantRow /\ StoredTenant(t)
  BY <1>t, <1>1, <1>2, TenantFields DEF LiveTenant
<1>4. /\ type \in {"school", "network"} /\ parent \in Tenants \cup {NoTenant}
      /\ parent \in Tenants => StoredTenant(parent)
  <2>1. type \in {"school", "network"}
    BY <1>2, <1>3 DEF TenantRow
  <2>2. parent \in Tenants \cup {NoTenant} /\ (parent \in Tenants => StoredTenant(parent))
    BY <1>1, <1>2, <1>t, TenantFields DEF ParentExists
  <2> QED
    BY <2>1, <2>2
<1>5. t \notin raced /\ parent # NoTenant => type = "school"
  BY <1>1, <1>2, <1>r DEF UpdateSound
<1>6. parent # NoTenant => LiveNetwork(parent) \/ parent \in demoted
  <2>1. CASE q.parent = Keep
    <3>1. ParentKept(t) /\ parent = tenant[t].parent
      BY <1>2, <1>3, <2>1 DEF FoundationsInv
    <3> QED
      BY <3>1 DEF ParentKept, LiveNetwork, LiveTenant
  <2>2. CASE q.parent # Keep
    <3>1. parent # NoTenant => ParentOK(q.parent)
      BY <1>2, <2>2 DEF UpdateSound
    <3>2. parent # NoTenant => StoredTenant(q.parent)
      BY <1>4, <2>2
    <3>3. parent = q.parent
      BY <2>2
    <3> HIDE DEF parent
    <3> QED
      BY <3>1, <3>2, <3>3 DEF ParentOK, LiveNetwork, LiveTenant, StoredTenant
  <2> QED
    BY <2>1, <2>2
<1>7. PICK y, p : y = type /\ p = parent
  OBVIOUS
<1>8. /\ tenant'[t] \in TenantRow /\ tenant'[t].type = y /\ tenant'[t].parent = p
      /\ tenant'[t].deleted = tenant[t].deleted /\ StoredTenant(t)'
      /\ \A x \in Tenants : x # t => tenant'[x] = tenant[x]
      /\ tenant' \in [Tenants -> TenantRow \cup {NoTenant}]
  <2>1. tenant' = [tenant EXCEPT ![t] = [[tenant[t] EXCEPT !.type = y] EXCEPT !.parent = p]]
    BY <1>1, <1>2, <1>7, <1>t DEF FoundationsTypeOK
  <2>2. y \in {"school", "network"} /\ p \in Tenants \cup {NoTenant}
    BY <1>4, <1>7
  <2> HIDE DEF type, parent
  <2>3. PICK rt : rt = [[tenant[t] EXCEPT !.type = y] EXCEPT !.parent = p]
    OBVIOUS
  <2>4. rt \in TenantRow /\ rt.type = y /\ rt.parent = p /\ rt.deleted = tenant[t].deleted
    BY <1>3, <2>2, <2>3 DEF TenantRow
  <2> QED
    BY <1>2, <1>3, <2>1, <2>3, <2>4, <1>t DEF FoundationsTypeOK, StoredTenant
<1>9. /\ y \in {"school", "network"} /\ p \in Tenants \cup {NoTenant}
      /\ t \notin raced /\ p # NoTenant => y = "school"
      /\ p # NoTenant => LiveNetwork(p) \/ p \in demoted
      /\ demoted' = IF LiveNetwork(t) /\ y = "school" THEN demoted \cup {t} ELSE demoted
      /\ raced \subseteq raced' /\ raced' \subseteq raced \cup {t}
      /\ others => t \in raced'
  BY <1>1, <1>4, <1>5, <1>6, <1>7
<1> HIDE DEF type, parent, others
<1>10. FoundationsTypeOK'
  BY <1>1, <1>2, <1>8, <1>9, <1>t DEF FoundationsTypeOK
<1>11. \A x \in Tenants : LiveNetwork(x) => LiveNetwork(x)' \/ x \in demoted'
  BY <1>1, <1>8, <1>9 DEF LiveNetwork, LiveTenant, StoredTenant
<1>12. demoted \subseteq demoted'
  BY <1>9
<1>13. ParentsStay
  BY <1>11, <1>12 DEF ParentsStay
<1>14. ASSUME NEW x \in Tenants, StoredTenant(x)' PROVE StoredTenant(x) /\ ParentKept(x)'
  <2>1. CASE x = t
    <3>1. p # NoTenant => LiveNetwork(p)' \/ p \in demoted'
      BY <1>9, <1>11, <1>12
    <3>2. p # NoTenant => y = "school" \/ t \in raced'
      BY <1>9
    <3> QED
      BY <1>3, <1>8, <2>1, <3>1, <3>2 DEF ParentKept, LiveNetwork, LiveTenant, StoredTenant
  <2>2. CASE x # t
    <3>1. tenant'[x] = tenant[x] /\ StoredTenant(x)
      BY <1>8, <1>14, <2>2 DEF StoredTenant
    <3>2. ParentKept(x) /\ tenant[x].parent \in Tenants \cup {NoTenant}
      BY <1>t, <3>1, TenantFields DEF FoundationsInv
    <3>3. PICK z : z = tenant[x].parent
      OBVIOUS
    <3>4. z # NoTenant => LiveNetwork(z) \/ z \in demoted
      BY <3>2, <3>3 DEF ParentKept, LiveNetwork, LiveTenant
    <3>5. z # NoTenant => LiveNetwork(z)' \/ z \in demoted'
      BY <1>11, <1>12, <3>2, <3>3, <3>4
    <3>6. z # NoTenant => tenant[x].type = "school" \/ x \in raced'
      BY <1>9, <3>2, <3>3 DEF ParentKept
    <3> QED
      BY <3>1, <3>3, <3>5, <3>6 DEF ParentKept, LiveNetwork, LiveTenant, StoredTenant
  <2> QED
    BY <2>1, <2>2
<1>15. \A v \in Workers : req'[v] = IF v = w THEN NoRequest ELSE req[v]
  BY <1>1, <1>t, TenantFields
<1>16. ASSUME NEW x \in Tenants, LiveTenant(x)', x \notin raced'
       PROVE  /\ LiveTenant(x)
              /\ \/ \A v \in Workers : v # w /\ Pending(v, "update") => req[v].row # x
                 \/ /\ x \notin raced /\ tenant'[x].type = tenant[x].type
                    /\ tenant'[x].parent \in {tenant[x].parent, NoTenant}
  <2>1. CASE x = t
    <3>1. ~others
      BY <1>9, <1>16, <2>1
    <3>2. \A v \in Workers : v # w /\ Pending(v, "update") => req[v].row # x
      BY <2>1, <3>1 DEF others, Others, Pending
    <3> QED
      BY <1>1, <2>1, <3>2
  <2>2. CASE x # t
    BY <1>8, <1>9, <1>16, <2>2 DEF LiveTenant, StoredTenant
  <2> QED
    BY <2>1, <2>2
<1> QED
  BY <1>10, <1>13, <1>14, <1>15, <1>16, HierarchyStays

\* Every step keeps the invariant.
LEMMA FoundationsStep ==
  ASSUME FoundationsInv, [FoundationsNext]_foundationsVars
  PROVE  FoundationsInv'
<1>1. CASE UNCHANGED foundationsVars
  BY <1>1 DEF foundationsVars, FoundationsInv, FoundationsTypeOK, ParentKept, ParentRead, UpdateSound,
              CreatesSound, ParentOK, LiveNetwork, LiveTenant, StoredTenant
<1> QED
  BY <1>1, CheckParentKeeps, BeginTenantUpdateKeeps, AddTenantKeeps, CommitTenantUpdateKeeps,
     RollBackKeeps, EndFoundationsKeeps, RemoveTenantKeeps DEF FoundationsNext

\* With it, whoever is alive is in the tree of the tenants, or has a parent that is demoted.
LEMMA FoundationsImply == FoundationsInv => HierarchyKept
<1> SUFFICES ASSUME FoundationsInv PROVE HierarchyKept
  OBVIOUS
<1>t. FoundationsTypeOK
  BY DEF FoundationsInv
<1>1. ASSUME NEW t \in Tenants, StoredTenant(t), tenant[t].parent # NoTenant
      PROVE  /\ tenant[t].type = "school" \/ t \in raced
             /\ LiveNetwork(tenant[t].parent) \/ tenant[t].parent \in demoted
  BY <1>1 DEF FoundationsInv, ParentKept
<1>2. ASSUME NEW t \in Tenants, LiveTenant(t)
      PROVE  \/ t \in DOMAIN findAll \cup UNION {findAll[x] : x \in DOMAIN findAll}
             \/ tenant[t].parent \in demoted \cup raced
  <2>1. DOMAIN findAll = {x \in Tenants : LiveTenant(x) /\ tenant[x].parent = NoTenant}
    BY DEF findAll
  <2>2. CASE tenant[t].parent = NoTenant
    BY <1>2, <2>1, <2>2
  <2>3. CASE tenant[t].parent # NoTenant
    <3>1. PICK p : p = tenant[t].parent
      OBVIOUS
    <3>2. p \in Tenants /\ (LiveNetwork(p) \/ p \in demoted)
      BY <1>1, <1>2, <1>t, <2>3, <3>1, TenantFields DEF LiveTenant
    <3>3. CASE LiveNetwork(p) /\ p \notin raced
      <4>1. tenant[p].parent = NoTenant
        BY <1>1, <3>2, <3>3 DEF LiveNetwork, LiveTenant
      <4>2. p \in DOMAIN findAll /\ findAll[p] = {c \in Tenants : LiveTenant(c) /\ tenant[c].parent = p}
        BY <3>2, <3>3, <4>1 DEF findAll, LiveNetwork
      <4>3. t \in findAll[p]
        BY <1>2, <3>1, <4>2
      <4> QED
        BY <4>2, <4>3
    <3> QED
      BY <3>1, <3>2, <3>3
  <2> QED
    BY <2>2, <2>3
<1> QED
  BY <1>1, <1>2 DEF HierarchyKept

\* A school's parent is a foundation, and every tenant is in the tree.
THEOREM HierarchyStaysKept == FoundationsSpec => []HierarchyKept
  BY FoundationsBegin, FoundationsStep, FoundationsImply, PTL DEF FoundationsSpec

\* The tenants there are.
StoredTenants == {t \in Tenants : StoredTenant(t)}

\* The inductive invariant of Foundations, and that there are finitely many tenants at any time.
CountedInv == FoundationsInv /\ IsFiniteSet(StoredTenants)

\* No tenant at the start.
LEMMA CountedBegin == FoundationsInit => CountedInv
<1> SUFFICES ASSUME FoundationsInit PROVE CountedInv
  OBVIOUS
<1>1. StoredTenants = {}
  BY DEF FoundationsInit, StoredTenants, StoredTenant
<1> QED
  BY <1>1, FoundationsBegin, FS_EmptySet DEF CountedInv

\* A step adds one tenant at most.
LEMMA OneTenantMore ==
  ASSUME FoundationsInv, [FoundationsNext]_foundationsVars
  PROVE  \E t : StoredTenants' \subseteq StoredTenants \cup {t}
<1>t. DOMAIN tenant = Tenants
  BY DEF FoundationsInv, FoundationsTypeOK
<1>1. ASSUME NEW t \in Tenants, \A x \in Tenants : x # t => tenant'[x] \in {tenant[x], NoTenant} \/ StoredTenant(x)
      PROVE  StoredTenants' \subseteq StoredTenants \cup {t}
  BY <1>1 DEF StoredTenants, StoredTenant
<1>2. ASSUME UNCHANGED tenant PROVE \E t : StoredTenants' \subseteq StoredTenants \cup {t}
  BY <1>2 DEF StoredTenants, StoredTenant
<1>3. ASSUME NEW w \in Workers, NEW t \in Tenants, AddTenant(w, t)
      PROVE  StoredTenants' \subseteq StoredTenants \cup {t}
  BY <1>t, <1>1, <1>3 DEF AddTenant
<1>4. ASSUME NEW w \in Workers, RollBack(w) PROVE StoredTenants' \subseteq StoredTenants
  BY <1>4 DEF RollBack, WithoutTenant, StoredTenants, StoredTenant
<1>5. ASSUME NEW w \in Workers, CommitTenantUpdate(w) PROVE StoredTenants' \subseteq StoredTenants
  <2>1. PICK t : t = req[w].row
    OBVIOUS
  <2>2. StoredTenant(t) /\ \A x \in Tenants : x # t => tenant'[x] = tenant[x]
    BY <1>t, <1>5, <2>1 DEF CommitTenantUpdate, LiveTenant
  <2> QED
    BY <2>2 DEF StoredTenants, StoredTenant
<1>6. ASSUME NEW t \in Tenants, removeTenant(t) PROVE StoredTenants' \subseteq StoredTenants
  <2>1. StoredTenant(t) /\ \A x \in Tenants : x # t => tenant'[x] = tenant[x]
    BY <1>t, <1>6 DEF removeTenant, LiveTenant
  <2> QED
    BY <2>1 DEF StoredTenants, StoredTenant
<1>7. ASSUME FoundationsNext PROVE \E t : StoredTenants' \subseteq StoredTenants \cup {t}
  <2>1. ASSUME NEW w \in Workers, NEW op \in {"create", "register"}, NEW type \in {"school", "network"},
               NEW p \in Tenants \cup {NoTenant}, CheckParent(w, op, type, p)
        PROVE  UNCHANGED tenant
    BY <2>1 DEF CheckParent
  <2>2. ASSUME NEW w \in Workers, NEW t \in Tenants, NEW type \in {"school", "network", Keep},
               NEW p \in Tenants \cup {NoTenant, Keep}, BeginTenantUpdate(w, t, type, p)
        PROVE  UNCHANGED tenant
    BY <2>2 DEF BeginTenantUpdate
  <2>3. ASSUME NEW w \in Workers, EndFoundations(w) PROVE UNCHANGED tenant
    BY <2>3 DEF EndFoundations
  <2> QED
    BY <1>2, <1>3, <1>4, <1>5, <1>6, <1>7, <2>1, <2>2, <2>3 DEF FoundationsNext
<1>8. CASE UNCHANGED foundationsVars
  BY <1>2, <1>8 DEF foundationsVars
<1> QED
  BY <1>7, <1>8

\* Every step keeps both.
LEMMA CountedStep ==
  ASSUME CountedInv, [FoundationsNext]_foundationsVars
  PROVE  CountedInv'
<1>1. FoundationsInv'
  BY FoundationsStep DEF CountedInv
<1>2. PICK t : StoredTenants' \subseteq StoredTenants \cup {t}
  BY OneTenantMore DEF CountedInv
<1>3. IsFiniteSet(StoredTenants \cup {t})
  BY FS_AddElement DEF CountedInv
<1>4. IsFiniteSet(StoredTenants')
  BY <1>2, <1>3, FS_Subset
<1> QED
  BY <1>1, <1>4 DEF CountedInv

\* A school has no parent, or one that is a foundation and is shown: the schools under each and those
\* of none are parts of all.
LEMMA CountedImply == CountedInv => SchoolsAddUp
<1> SUFFICES ASSUME CountedInv, demoted = {} PROVE SchoolsAddUp
  BY DEF SchoolsAddUp
<1> DEFINE live == {t \in Tenants : LiveTenant(t)}
           foundations == {t \in live : LiveNetwork(t)}
           schools == live \ foundations
           alone == SchoolsUnder(NoTenant)
           placed == schools \ alone
           counts == getDashboard.foundations
           under == [t \in foundations |-> SchoolsUnder(t)]
<1>t. FoundationsInv /\ FoundationsTypeOK
  BY DEF CountedInv, FoundationsInv
<1>1. getDashboard.totalSchools = Cardinality(schools)
      /\ DOMAIN counts = foundations /\ \A t \in foundations : counts[t] = Cardinality(SchoolsUnder(t))
  BY DEF getDashboard
<1>2. \A t \in live : tenant[t].type \in {"school", "network"} /\ tenant[t].parent \in Tenants \cup {NoTenant}
  BY <1>t, TenantFields DEF LiveTenant
<1>3. \A t : t \in schools <=> t \in Tenants /\ LiveTenant(t) /\ tenant[t].type = "school"
  BY <1>2 DEF LiveNetwork
<1>4. IsFiniteSet(schools)
  <2>1. schools \subseteq StoredTenants
    BY DEF StoredTenants, LiveTenant
  <2> HIDE DEF schools
  <2> QED
    BY <2>1, FS_Subset DEF CountedInv
<1>5. NoTenant \notin Tenants
  BY <1>t, TenantFields
<1>6. ASSUME NEW t \in placed PROVE tenant[t].parent \in foundations /\ t \in SchoolsUnder(tenant[t].parent)
  <2>1. t \in Tenants /\ LiveTenant(t) /\ tenant[t].type = "school" /\ tenant[t].parent # NoTenant
    BY <1>3 DEF SchoolsUnder
  <2>2. LiveNetwork(tenant[t].parent) /\ tenant[t].parent \in Tenants
    BY <1>t, <1>2, <2>1 DEF FoundationsInv, ParentKept, LiveTenant
  <2> QED
    BY <2>1, <2>2 DEF SchoolsUnder, LiveNetwork
<1>7. \A t \in foundations : SchoolsUnder(t) \subseteq placed
  BY <1>3, <1>5 DEF SchoolsUnder
<1>8. \A t, x \in foundations : t # x => SchoolsUnder(t) \cap SchoolsUnder(x) = {}
  BY DEF SchoolsUnder
<1>9. alone \subseteq schools
  BY <1>3 DEF SchoolsUnder
<1> HIDE DEF live, foundations, schools, alone
<1>10. IsFiniteSet(placed) /\ IsFiniteSet(alone)
       /\ Cardinality(schools) = Cardinality(placed) + Cardinality(alone)
  <2>1. IsFiniteSet(placed) /\ IsFiniteSet(alone)
    BY <1>4, <1>9, FS_Subset
  <2>2. Cardinality(placed) = Cardinality(schools) - Cardinality(schools \cap alone)
    BY <1>4, FS_Difference
  <2>3. schools \cap alone = alone
    BY <1>9
  <2>4. Cardinality(schools) \in Nat /\ Cardinality(alone) \in Nat /\ Cardinality(placed) \in Nat
    BY <1>4, <2>1, FS_CardinalityType
  <2>5. Cardinality(schools \cap alone) = Cardinality(alone)
    BY <2>3
  <2> HIDE DEF placed
  <2> QED
    BY <2>1, <2>2, <2>4, <2>5
<1>11. /\ \A t \in foundations : under[t] \subseteq placed /\ counts[t] = Cardinality(under[t])
       /\ \A t \in placed : \E x \in foundations : t \in under[x]
       /\ \A t, x \in foundations : t # x => under[t] \cap under[x] = {}
  BY <1>1, <1>6, <1>7, <1>8
<1> HIDE DEF placed, counts, under
<1>12. SumOf(counts) = Cardinality(placed)
  BY <1>1, <1>10, <1>11, SumOfParts
<1> QED
  BY <1>1, <1>10, <1>12 DEF SchoolsAddUp, counts, alone

\* The superadmin's dashboard shows every school under its foundation or under none, unless a foundation
\* was removed or made a school (SuperadminDashboardService.getDashboard).
THEOREM SchoolsStayCounted == FoundationsSpec => []SchoolsAddUp
  BY CountedBegin, CountedStep, CountedImply, PTL DEF FoundationsSpec

-----------------------------------------------------------------------------
(* Attendance reports *)

\* The rate of a attended marks out of n, in hundredths of a percent.
Rounded(a, n) == (2 * 10000 * a + n) \div (2 * n)

\* It is a rate, and full only if at most one mark in twenty thousand is missed.
RateFits(r, a, n) == r \in 0..10000 /\ (r = 10000 => 20000 * (n - a) <= n)

\* Rounding a share half up.
LEMMA RateRounded ==
  ASSUME NEW a \in Nat, NEW n \in Nat, n > 0, a <= n
  PROVE  RateFits(Rounded(a, n), a, n)
<1> DEFINE b == 20000 * a + n
           d == 2 * n
<1>1. PICK x : x = b \div d
  OBVIOUS
<1>0. x = Rounded(a, n)
  BY <1>1 DEF Rounded
<1>2. b \in Nat /\ d \in Nat /\ d > 0
  OBVIOUS
<1>3. x \in Int /\ d * x <= b /\ b < d * x + d
  <2> HIDE DEF b, d
  <2> QED
    BY <1>1, <1>2
<1>5. x >= 0
  <2> SUFFICES ASSUME x <= -1 PROVE FALSE
    BY <1>3
  <2> HIDE DEF b, d
  <2>1. d * x <= d * (-1)
    BY <1>2, <1>3
  <2> QED
    BY <2>1, <1>2, <1>3
<1>4. x <= 10000
  <2> SUFFICES ASSUME x >= 10001 PROVE FALSE
    BY <1>3
  <2>1. d * x >= d * 10001
    <3> HIDE DEF b, d
    <3> QED
      BY <1>2, <1>3
  <2>2. d * 10001 <= 20000 * a + n
    BY <2>1, <1>2, <1>3
  <2> QED
    BY <2>2
<1>6. x = 10000 => 20000 * (n - a) <= n
  BY <1>3
<1>7. RateFits(x, a, n)
  BY <1>3, <1>4, <1>5, <1>6 DEF RateFits
<1> QED
  BY <1>0, <1>7, Zenon

\* A pupil has one mark for a lesson, a day and a place among the marks of both.
OneRow ==
    \A m, n \in marks :
        m.pupil = n.pupil /\ m.lesson = n.lesson /\ m.day = n.day /\ m.copy = n.copy => m = n

\* A mark of a lesson is the only one of the day, and of the class of the lesson's timetable unless
\* that was given to another; and its pupil is still in its class unless he has left one.
OfItsClass ==
    \A m \in marks :
        /\ m.lesson # Unscheduled =>
              m.copy = 1 /\ (m.lesson \in shifted \/ m.class = ClassOf(m.lesson))
        /\ m.pupil \in moved \/ <<m.pupil, m.class>> \in enrolments

\* The inductive invariant of AttendanceReports: what every mark remembers, and that they are finite.
ReportsInv == ReportsTypeOK /\ IsFiniteSet(marks) /\ OneRow /\ OfItsClass

\* No mark at the start.
LEMMA ReportsBegin == ReportsInit => ReportsInv
<1> SUFFICES ASSUME ReportsInit PROVE ReportsInv
  OBVIOUS
<1>1. PICK c \in [Pupils -> Classes] : enrolments = {<<p, c[p]>> : p \in Pupils}
  BY DEF ReportsInit
<1>2. enrolments \subseteq Pupils \X Classes
  BY <1>1
<1>3. marks = {} /\ moved = {} /\ shifted = {} /\ altered \in 0..MaxAltered
  BY AttendanceReportsAssumption DEF ReportsInit
<1>4. /\ classroom \in [Classes -> Classroom] /\ lesson \in [Lessons -> ScheduleEntry]
      /\ timetable \in [DOMAIN StartTimetables -> Timetable] /\ activeYears \subseteq AcademicYears
  BY AttendanceReportsAssumption DEF ReportsInit
<1> QED
  BY <1>2, <1>3, <1>4, FS_EmptySet DEF ReportsTypeOK, ReportsInv, OneRow, OfItsClass

\* A mark that is saved: the first of its day, one that replaces it, or the second of the homeroom.
LEMMA MarkKeeps ==
  ASSUME ReportsInv, NEW p \in Pupils, NEW c \in Classes, NEW l \in Lessons \cup {Unscheduled},
         NEW d \in MarkDays, NEW st \in Marked, createAttendance(p, c, l, d, st)
  PROVE  ReportsInv'
<1>t. ReportsTypeOK /\ IsFiniteSet(marks) /\ OneRow /\ OfItsClass
  BY DEF ReportsInv
<1> DEFINE old == {m \in marks : m.pupil = p /\ m.lesson = l /\ m.day = d}
           Mark(k) == [pupil |-> p, class |-> c, year |-> classroom[c].year, lesson |-> l, day |-> d,
                       copy |-> k, status |-> st]
<1>0. UNCHANGED <<enrolments, entitiesVars, moved, shifted, altered>>
  BY DEF createAttendance
<1>u. UNCHANGED <<enrolments, classroom, timetable, lesson, activeYears, moved, shifted, altered>>
  BY <1>0 DEF entitiesVars
<1>1. PICK k \in 1..MaxMarks, gone \in SUBSET marks :
         /\ marks' = (marks \ gone) \cup {Mark(k)}
         /\ \A m \in old : m.copy = k => m \in gone
         /\ l # Unscheduled => k = 1
  <2>1. CASE \E m \in old : marks' = (marks \ {m}) \cup {Mark(m.copy)}
    <3>1. PICK m \in old : marks' = (marks \ {m}) \cup {Mark(m.copy)}
      BY <2>1
    <3>2. m \in marks /\ m.copy \in 1..MaxMarks
      BY <1>t DEF ReportsTypeOK, AttendanceMark
    <3>3. \A n \in old : n.copy = m.copy => n = m
      BY <1>t DEF OneRow
    <3>4. l # Unscheduled => m.copy = 1
      BY <1>t DEF OfItsClass
    <3>5. {m} \in SUBSET marks /\ \A n \in old : n.copy = m.copy => n \in {m}
      BY <3>2, <3>3
    <3>6. PICK k : k = m.copy
      OBVIOUS
    <3>7. k \in 1..MaxMarks /\ marks' = (marks \ {m}) \cup {Mark(k)} /\ (l # Unscheduled => k = 1)
      BY <3>1, <3>2, <3>4, <3>6
    <3> HIDE DEF old, Mark
    <3> QED
      BY <3>5, <3>6, <3>7
  <2>2. CASE /\ old = {} \/ l = Unscheduled
             /\ \E k \in NextCopy(old) : marks' = marks \cup {Mark(k)}
    <3>1. PICK k \in NextCopy(old) : marks' = marks \cup {Mark(k)}
      BY <2>2
    <3>2. k \in 1..MaxMarks /\ \A m \in old : m.copy < k
      BY DEF NextCopy
    <3>3. old = {} => k = 1
      BY DEF NextCopy
    <3>4. \A m \in old : m.copy \in Nat
      BY <1>t DEF ReportsTypeOK, AttendanceMark
    <3>5. \A m \in old : m.copy # k
      BY <3>2, <3>4
    <3>6. marks' = (marks \ {}) \cup {Mark(k)} /\ (l # Unscheduled => k = 1)
      BY <2>2, <3>1, <3>3
    <3>7. {} \in SUBSET marks /\ \A m \in old : m.copy = k => m \in {}
      BY <3>5
    <3> HIDE DEF old, Mark
    <3> QED
      BY <3>2, <3>6, <3>7
  <2> QED
    BY <2>1, <2>2 DEF createAttendance
<1>2. Mark(k) \in AttendanceMark
  <2>1. classroom[c].year \in AcademicYears
    BY <1>t DEF ReportsTypeOK, Classroom
  <2> QED
    BY <2>1 DEF AttendanceMark
<1>3. PICK x : x = Mark(k)
  OBVIOUS
<1>4. /\ x \in AttendanceMark /\ x.pupil = p /\ x.lesson = l /\ x.day = d /\ x.class = c /\ x.copy = k
      /\ \A m \in marks' : m = x \/ (m \in marks /\ ~(m.pupil = p /\ m.lesson = l /\ m.day = d /\ m.copy = k))
      /\ marks' \subseteq marks \cup {x}
  BY <1>1, <1>2, <1>3
<1>5. /\ <<p, c>> \in enrolments
      /\ l # Unscheduled => ClassOf(l) = c /\ k = 1
  BY <1>1 DEF createAttendance
<1> HIDE DEF old, Mark
<1>6. IsFiniteSet(marks')
  <2>1. IsFiniteSet(marks \cup {x})
    BY <1>t, FS_AddElement
  <2> QED
    BY <2>1, <1>4, FS_Subset
<1>7. OneRow'
  BY <1>t, <1>4 DEF OneRow
<1>8. OfItsClass'
  <2> SUFFICES ASSUME NEW m \in marks'
               PROVE  /\ m.lesson # Unscheduled =>
                            m.copy = 1 /\ (m.lesson \in shifted \/ m.class = ClassOf(m.lesson))
                      /\ m.pupil \in moved \/ <<m.pupil, m.class>> \in enrolments
    BY <1>u DEF OfItsClass, ClassOf
  <2>1. CASE m = x
    BY <1>4, <1>5, <2>1
  <2>2. CASE m \in marks
    BY <1>t, <2>2 DEF OfItsClass
  <2> QED
    BY <1>4, <2>1, <2>2
<1>9. ReportsTypeOK'
  BY <1>t, <1>u, <1>4 DEF ReportsTypeOK
<1> QED
  BY <1>6, <1>7, <1>8, <1>9 DEF ReportsInv

\* A pupil who is enrolled in a class, or leaves one.
LEMMA PupilsKeep ==
  ASSUME ReportsInv, NEW p \in Pupils, NEW c \in Classes, assignStudent(p, c) \/ unassignStudent(p, c)
  PROVE  ReportsInv'
<1>t. ReportsTypeOK /\ IsFiniteSet(marks) /\ OneRow /\ OfItsClass
  BY DEF ReportsInv
<1>1. /\ UNCHANGED <<marks, classroom, timetable, lesson, activeYears, shifted>>
      /\ moved \subseteq moved' /\ moved' \subseteq moved \cup {p}
      /\ enrolments' \subseteq enrolments \cup {<<p, c>>}
      /\ \A e \in enrolments : e \in enrolments' \/ (e = <<p, c>> /\ p \in moved')
      /\ altered' = altered + 1 /\ altered < MaxAltered
  BY DEF assignStudent, unassignStudent, Alters, entitiesVars
<1>2. altered' \in 0..MaxAltered
  BY <1>t, <1>1, AttendanceReportsAssumption DEF ReportsTypeOK
<1>3. ReportsTypeOK'
  BY <1>t, <1>1, <1>2 DEF ReportsTypeOK
<1>4. OfItsClass'
  <2> SUFFICES ASSUME NEW m \in marks
               PROVE  /\ m.lesson # Unscheduled =>
                            m.copy = 1 /\ (m.lesson \in shifted \/ m.class = ClassOf(m.lesson)')
                      /\ m.pupil \in moved' \/ <<m.pupil, m.class>> \in enrolments'
    BY <1>1 DEF OfItsClass
  <2>1. ClassOf(m.lesson)' = ClassOf(m.lesson)
    BY <1>1 DEF ClassOf
  <2>2. m.pupil \in moved \/ <<m.pupil, m.class>> \in enrolments
    BY <1>t DEF OfItsClass
  <2>3. m.pupil \in moved' \/ <<m.pupil, m.class>> \in enrolments'
    BY <1>1, <2>2
  <2> QED
    BY <1>t, <2>1, <2>3 DEF OfItsClass
<1>5. OneRow' /\ IsFiniteSet(marks)'
  BY <1>t, <1>1 DEF OneRow
<1> QED
  BY <1>3, <1>4, <1>5 DEF ReportsInv

\* A class, timetable, lesson or year that changes, with those it shifts in the history.
LEMMA EntitiesKeep ==
  ASSUME ReportsInv, UNCHANGED <<enrolments, marks, moved>>, Alters,
         classroom' \in [Classes -> Classroom], lesson' \in [Lessons -> ScheduleEntry],
         timetable' \in [DOMAIN StartTimetables -> Timetable], activeYears' \subseteq AcademicYears,
         shifted \subseteq shifted', shifted' \subseteq Lessons,
         \A l \in Lessons : l \in shifted' \/ ClassOf(l)' = ClassOf(l)
  PROVE  ReportsInv'
<1>t. ReportsTypeOK /\ IsFiniteSet(marks) /\ OneRow /\ OfItsClass
  BY DEF ReportsInv
<1>1. altered' \in 0..MaxAltered
  BY <1>t, AttendanceReportsAssumption DEF ReportsTypeOK, Alters
<1>2. ReportsTypeOK'
  BY <1>t, <1>1 DEF ReportsTypeOK
<1>3. OfItsClass'
  <2> SUFFICES ASSUME NEW m \in marks
               PROVE  /\ m.lesson # Unscheduled =>
                            m.copy = 1 /\ (m.lesson \in shifted' \/ m.class = ClassOf(m.lesson)')
                      /\ m.pupil \in moved \/ <<m.pupil, m.class>> \in enrolments
    BY DEF OfItsClass
  <2>1. m.lesson \in Lessons \cup {Unscheduled}
    BY <1>t DEF ReportsTypeOK, AttendanceMark
  <2> QED
    BY <1>t, <2>1 DEF OfItsClass
<1>4. OneRow' /\ IsFiniteSet(marks)'
  BY <1>t DEF OneRow
<1> QED
  BY <1>2, <1>3, <1>4 DEF ReportsInv

\* Every step keeps the invariant, whatever it changes of what the marks refer to.
LEMMA ReportsStep ==
  ASSUME ReportsInv, [ReportsNext]_reportsVars
  PROVE  ReportsInv'
<1>t. ReportsTypeOK /\ IsFiniteSet(marks) /\ OneRow /\ OfItsClass
  BY DEF ReportsInv
<1>0. \A l \in Lessons : TimetableOf[l] \in DOMAIN StartTimetables
  BY AttendanceReportsAssumption
<1>1. ASSUME NEW c \in Classes,
             removeClassroom(c) \/ \E g \in GradeLevels, y \in AcademicYears : updateClassroom(c, g, y)
      PROVE  ReportsInv'
  <2>1. /\ UNCHANGED <<enrolments, marks, timetable, lesson, activeYears, moved, shifted>> /\ Alters
        /\ \E row \in Classroom : classroom' = [classroom EXCEPT ![c] = row]
    <3>1. CASE removeClassroom(c)
      <4>1. [classroom[c] EXCEPT !.removed = TRUE] \in Classroom
        BY <1>t DEF ReportsTypeOK, Classroom
      <4>2. classroom' = [classroom EXCEPT ![c] = [classroom[c] EXCEPT !.removed = TRUE]]
        BY <3>1 DEF removeClassroom
      <4> QED
        BY <3>1, <4>1, <4>2 DEF removeClassroom
    <3>2. ASSUME NEW g \in GradeLevels, NEW y \in AcademicYears, updateClassroom(c, g, y)
          PROVE  /\ UNCHANGED <<enrolments, marks, timetable, lesson, activeYears, moved, shifted>> /\ Alters
                 /\ \E row \in Classroom : classroom' = [classroom EXCEPT ![c] = row]
      <4>1. [classroom[c] EXCEPT !.grade = g, !.year = y] \in Classroom
        BY <1>t DEF ReportsTypeOK, Classroom
      <4>2. classroom' = [classroom EXCEPT ![c] = [classroom[c] EXCEPT !.grade = g, !.year = y]]
        BY <1>t, <3>2 DEF updateClassroom, ReportsTypeOK, Classroom
      <4> QED
        BY <3>2, <4>1, <4>2 DEF updateClassroom
    <3> QED
      BY <1>1, <3>1, <3>2
  <2>2. classroom' \in [Classes -> Classroom]
    BY <1>t, <2>1 DEF ReportsTypeOK
  <2>3. \A l \in Lessons : ClassOf(l)' = ClassOf(l)
    BY <2>1 DEF ClassOf
  <2> QED
    BY <1>t, <2>1, <2>2, <2>3, EntitiesKeep DEF ReportsTypeOK
<1>2. ASSUME NEW t \in DOMAIN StartTimetables, archiveTimetable(t) PROVE ReportsInv'
  <2>1. /\ UNCHANGED <<enrolments, marks, classroom, lesson, activeYears, moved, shifted>> /\ Alters
        /\ timetable' = [timetable EXCEPT ![t].removed = TRUE]
    BY <1>2 DEF archiveTimetable
  <2>2. timetable' \in [DOMAIN StartTimetables -> Timetable]
    BY <1>t, <2>1 DEF ReportsTypeOK, Timetable
  <2>3. \A l \in Lessons : ClassOf(l)' = ClassOf(l)
    BY <1>t, <1>0, <2>1 DEF ClassOf, ReportsTypeOK, Timetable
  <2> QED
    BY <1>t, <2>1, <2>2, <2>3, EntitiesKeep DEF ReportsTypeOK
<1>3. ASSUME NEW t \in DOMAIN StartTimetables, NEW c \in Classes, NEW y \in AcademicYears,
             updateTimetable(t, c, y)
      PROVE  ReportsInv'
  <2>1. /\ UNCHANGED <<enrolments, marks, classroom, lesson, activeYears, moved>> /\ Alters
        /\ timetable' = [timetable EXCEPT ![t].class = c, ![t].year = y]
        /\ shifted' = shifted \cup {l \in Lessons : TimetableOf[l] = t /\ c # ClassOf(l)}
    BY <1>3 DEF updateTimetable
  <2>2. timetable' \in [DOMAIN StartTimetables -> Timetable]
    BY <1>t, <2>1 DEF ReportsTypeOK, Timetable
  <2>3. ASSUME NEW l \in Lessons PROVE l \in shifted' \/ ClassOf(l)' = ClassOf(l)
    <3>1. CASE TimetableOf[l] = t
      <4>1. timetable'[t].class = c
        BY <1>t, <2>1 DEF ReportsTypeOK, Timetable
      <4>2. ClassOf(l)' = c
        BY <3>1, <4>1 DEF ClassOf
      <4> QED
        BY <2>1, <3>1, <4>2
    <3>2. CASE TimetableOf[l] # t
      <4>1. timetable'[TimetableOf[l]] = timetable[TimetableOf[l]]
        BY <1>t, <1>0, <2>1, <3>2 DEF ReportsTypeOK
      <4> QED
        BY <4>1 DEF ClassOf
    <3> QED
      BY <3>1, <3>2
  <2> QED
    BY <1>t, <2>1, <2>2, <2>3, EntitiesKeep DEF ReportsTypeOK
<1>4. ASSUME NEW l \in Lessons,
             removeScheduleEntry(l) \/ \E s \in Subjects, weekday \in Weekdays : updateScheduleEntry(l, s, weekday)
      PROVE  ReportsInv'
  <2>1. /\ UNCHANGED <<enrolments, marks, classroom, timetable, activeYears, moved, shifted>> /\ Alters
        /\ \E row \in ScheduleEntry : lesson' = [lesson EXCEPT ![l] = row]
    <3>1. CASE removeScheduleEntry(l)
      <4>1. [lesson[l] EXCEPT !.removed = TRUE] \in ScheduleEntry
        BY <1>t DEF ReportsTypeOK, ScheduleEntry
      <4>2. lesson' = [lesson EXCEPT ![l] = [lesson[l] EXCEPT !.removed = TRUE]]
        BY <3>1 DEF removeScheduleEntry
      <4> QED
        BY <3>1, <4>1, <4>2 DEF removeScheduleEntry
    <3>2. ASSUME NEW s \in Subjects, NEW weekday \in Weekdays, updateScheduleEntry(l, s, weekday)
          PROVE  /\ UNCHANGED <<enrolments, marks, classroom, timetable, activeYears, moved, shifted>> /\ Alters
                 /\ \E row \in ScheduleEntry : lesson' = [lesson EXCEPT ![l] = row]
      <4>1. [lesson[l] EXCEPT !.subject = s, !.weekday = weekday] \in ScheduleEntry
        BY <1>t DEF ReportsTypeOK, ScheduleEntry
      <4>2. lesson' = [lesson EXCEPT ![l] = [lesson[l] EXCEPT !.subject = s, !.weekday = weekday]]
        BY <1>t, <3>2 DEF updateScheduleEntry, ReportsTypeOK, ScheduleEntry
      <4> QED
        BY <3>2, <4>1, <4>2 DEF updateScheduleEntry
    <3> QED
      BY <1>4, <3>1, <3>2
  <2>2. lesson' \in [Lessons -> ScheduleEntry]
    BY <1>t, <2>1 DEF ReportsTypeOK
  <2>3. \A x \in Lessons : ClassOf(x)' = ClassOf(x)
    BY <2>1 DEF ClassOf
  <2> QED
    BY <1>t, <2>1, <2>2, <2>3, EntitiesKeep DEF ReportsTypeOK
<1>5. ASSUME NEW y \in AcademicYears, activateYear(y) PROVE ReportsInv'
  <2>1. UNCHANGED <<enrolments, marks, classroom, timetable, lesson, moved, shifted>> /\ Alters
    BY <1>5 DEF activateYear
  <2>2. activeYears' \subseteq AcademicYears
    BY <1>t, <1>5 DEF activateYear, ReportsTypeOK
  <2>3. \A x \in Lessons : ClassOf(x)' = ClassOf(x)
    BY <2>1 DEF ClassOf
  <2> QED
    BY <1>t, <2>1, <2>2, <2>3, EntitiesKeep DEF ReportsTypeOK
<1>6. CASE UNCHANGED reportsVars
  <2>1. UNCHANGED <<enrolments, marks, classroom, timetable, lesson, activeYears, moved, shifted, altered>>
    BY <1>6 DEF reportsVars, entitiesVars
  <2>2. ReportsTypeOK' /\ IsFiniteSet(marks)' /\ OneRow'
    BY <1>t, <2>1 DEF ReportsTypeOK, OneRow
  <2>3. OfItsClass'
    BY <1>t, <2>1 DEF OfItsClass, ClassOf
  <2> QED
    BY <2>2, <2>3 DEF ReportsInv
<1> QED
  BY <1>1, <1>2, <1>3, <1>4, <1>5, <1>6, MarkKeeps, PupilsKeep DEF ReportsNext

\* A rate is between 0 and 100 %.
LEMMA RatesSound == ReportsInv => RateSound
<1> SUFFICES ASSUME ReportsInv PROVE RateSound
  OBVIOUS
<1>1. IsFiniteSet(marks) /\ Attended(marks) \subseteq marks
  BY DEF ReportsInv, Attended
<1> DEFINE n == Cardinality(marks)
           a == Cardinality(Attended(marks))
<1>2. n \in Nat /\ a \in Nat /\ a <= n
  BY <1>1, FS_Subset, FS_CardinalityType
<1>3. CASE marks = {}
  <2>1. attendanceRate(marks) = 0
    BY <1>3 DEF attendanceRate
  <2> QED
    BY <2>1 DEF RateSound
<1>4. CASE marks # {}
  <2>1. n > 0
    BY <1>1, <1>2, <1>4, FS_EmptySet
  <2>2. attendanceRate(marks) = Rounded(a, n)
    BY <1>4 DEF attendanceRate, Rounded
  <2> HIDE DEF n, a
  <2>3. RateFits(Rounded(a, n), a, n)
    BY <1>2, <2>1, RateRounded, Zenon
  <2>4. RateFits(attendanceRate(marks), a, n)
    BY <2>2, <2>3, Zenon
  <2> QED
    BY <2>4 DEF RateFits, RateSound, n, a
<1> QED
  BY <1>3, <1>4

\* The fields of a mark.
LEMMA MarkFields ==
  ASSUME ReportsInv, NEW m \in marks
  PROVE  /\ m.pupil \in Pupils /\ m.class \in Classes /\ m.lesson \in Lessons \cup {Unscheduled}
         /\ m.day \in MarkDays /\ m.day \in Nat /\ m.copy \in Nat /\ m.copy >= 1
  BY AttendanceReportsAssumption DEF ReportsInv, ReportsTypeOK, AttendanceMark

\* The marks of a page can be counted.
LEMMA MarksFinite ==
  ASSUME ReportsInv, NEW ms, ms \subseteq marks
  PROVE  IsFiniteSet(ms) /\ Cardinality(ms) \in Nat
  BY FS_Subset, FS_CardinalityType DEF ReportsInv

\* The total of a row is the number of its marks.
LEMMA TotalOf == \A ms : Totals(ms).total = Cardinality(ms)
  BY DEF Totals

\* Rows of disjoint parts of the marks add up to all of them.
LEMMA RowsAddUp ==
  ASSUME NEW ms, IsFiniteSet(ms), NEW lines, NEW share,
         \A k \in DOMAIN lines : share[k] \subseteq ms /\ lines[k].total = Cardinality(share[k]),
         \A m \in ms : \E k \in DOMAIN lines : m \in share[k],
         \A k, j \in DOMAIN lines : k # j => share[k] \cap share[j] = {}
  PROVE  Summed(lines) = Cardinality(ms)
<1> DEFINE f == [k \in DOMAIN lines |-> lines[k].total]
<1>1. DOMAIN f = DOMAIN lines /\ \A k \in DOMAIN lines : f[k] = lines[k].total
  OBVIOUS
<1>2. Summed(lines) = SumOf(f)
  BY DEF Summed
<1> HIDE DEF f
<1> QED
  BY <1>1, <1>2, SumOfParts

\* So do the rows by a key of the marks: their class, their day, their pupil.
LEMMA RowsByKey ==
  ASSUME NEW ms, IsFiniteSet(ms), NEW lines, NEW key,
         \A m \in ms : key[m] \in DOMAIN lines,
         \A k \in DOMAIN lines : lines[k] = Totals({m \in ms : key[m] = k})
  PROVE  Summed(lines) = Cardinality(ms)
<1> DEFINE share == [k \in DOMAIN lines |-> {m \in ms : key[m] = k}]
<1>1. \A k \in DOMAIN lines : share[k] \subseteq ms /\ lines[k].total = Cardinality(share[k])
  BY TotalOf
<1>2. \A m \in ms : \E k \in DOMAIN lines : m \in share[k]
  OBVIOUS
<1>3. \A k, j \in DOMAIN lines : k # j => share[k] \cap share[j] = {}
  OBVIOUS
<1> HIDE DEF share
<1> QED
  BY <1>1, <1>2, <1>3, RowsAddUp

\* The days of a page add up to it.
LEMMA DaysAddUp ==
  ASSUME NEW ms, IsFiniteSet(ms), NEW days, \A m \in ms : m.day \in days
  PROVE  Summed(DailyTotals(ms, days)) = Cardinality(ms)
<1> DEFINE key == [m \in ms |-> m.day]
           lines == DailyTotals(ms, days)
<1>1. DOMAIN lines = days /\ \A d \in days : lines[d] = Totals({m \in ms : m.day = d})
  BY DEF DailyTotals
<1>2. \A m \in ms : key[m] = m.day
  OBVIOUS
<1>3. \A d \in days : {m \in ms : m.day = d} = {m \in ms : key[m] = d}
  OBVIOUS
<1> HIDE DEF key, lines
<1>4. Summed(lines) = Cardinality(ms)
  BY <1>1, <1>2, <1>3, RowsByKey
<1> QED
  BY <1>4 DEF lines

\* A day is in its week, which starts on Monday.
LEMMA WeekHasDay ==
  ASSUME NEW d \in Nat
  PROVE  /\ startOfWeek(d) \in Int
         /\ d \in startOfWeek(d)..(startOfWeek(d) + 6)
         /\ d \in startOfWeek(d)..(startOfWeek(d) + 7 - 1)
<1>1. PICK r : r = (d - 1) % 7
  OBVIOUS
<1>2. r \in 0..6
  BY <1>1
<1>3. startOfWeek(d) = d - r
  BY <1>1, <1>2 DEF startOfWeek, isoWeekday
<1> QED
  BY <1>2, <1>3

\* The days of a week add up to it.
LEMMA WeekAddsUp ==
  ASSUME ReportsInv, NEW ms, ms \subseteq marks, NEW first
  PROVE  Summed(buildWeeklySummary(ms, first).days) = buildWeeklySummary(ms, first).sum.total
<1> DEFINE days == first..(first + 6)
           in == {m \in ms : m.day \in days}
<1>1. /\ buildWeeklySummary(ms, first).sum = Totals(in)
      /\ buildWeeklySummary(ms, first).days = DailyTotals(in, days)
  BY DEF buildWeeklySummary
<1>2. \A m \in in : m.day \in days
  OBVIOUS
<1>3. IsFiniteSet(in)
  BY MarksFinite
<1> HIDE DEF days, in
<1>4. Summed(DailyTotals(in, days)) = Cardinality(in)
  BY <1>2, <1>3, DaysAddUp
<1> QED
  BY <1>1, <1>4, TotalOf

\* The homeroom page: no pupil is listed with two marks, and who has not left a class and has one mark
\* a day is listed with the marks that the sums have.
LEMMA HomeroomAgrees ==
  ASSUME ReportsInv, NEW cs \in SUBSET Classes, NEW d \in MarkDays
  PROVE  HomeroomPageAgrees(cs, d)
<1> DEFINE page == findHomeroomAttendance(cs, d)
           of == HomeroomMarks(cs, {d})
           wide == HomeroomMarks(cs, startOfWeek(d)..(startOfWeek(d) + 6))
           In(c) == {m \in of : m.class = c}
<1>1. /\ page.students = [c \in cs |-> buildRoster(c, In(c))]
      /\ page.classrooms = [c \in cs |-> Totals(In(c))]
      /\ page.summary = Totals(of)
      /\ page.week = buildWeeklySummary(wide, startOfWeek(d))
  BY DEF findHomeroomAttendance
<1>2. of \subseteq marks /\ wide \subseteq marks /\ IsFiniteSet(of)
  BY MarksFinite DEF HomeroomMarks
<1>3. Summed(page.classrooms) = page.summary.total
  <2> DEFINE lines == [c \in cs |-> Totals(In(c))]
             key == [m \in of |-> m.class]
  <2>1. \A m \in of : key[m] \in DOMAIN lines
    BY DEF HomeroomMarks
  <2>2. \A c \in DOMAIN lines : lines[c] = Totals({m \in of : key[m] = c})
    <3> SUFFICES ASSUME NEW c \in cs PROVE In(c) = {m \in of : key[m] = c}
      OBVIOUS
    <3> QED
      OBVIOUS
  <2>3. lines = page.classrooms
    BY <1>1
  <2> HIDE DEF lines, key, page, of
  <2>4. Summed(lines) = Cardinality(of)
    BY <1>2, <2>1, <2>2, RowsByKey
  <2> QED
    BY <1>1, <2>3, <2>4, TotalOf
<1>4. Summed(page.week.days) = page.week.sum.total
  <2> HIDE DEF page, wide, of
  <2> QED
    BY <1>1, <1>2, WeekAddsUp
<1>5. ASSUME NEW c \in cs
      PROVE  /\ \A p \in DOMAIN page.students[c] : Cardinality(page.students[c][p]) <= 1
             /\ \/ Totals(OnRoster(page.students[c])) = page.classrooms[c]
                \/ \E m \in marks : m.class = c /\ m.day = d /\ (m.pupil \in moved \/ m.copy > 1)
  <2> DEFINE row == buildRoster(c, In(c))
  <2>1. page.students[c] = row /\ page.classrooms[c] = Totals(In(c))
    BY <1>1
  <2>2. DOMAIN row = Roster(c) /\ \A p \in Roster(c) : row[p] = FirstMade({m \in In(c) : m.pupil = p /\ m.class = c})
    BY DEF buildRoster
  <2>3. ASSUME NEW p \in Roster(c) PROVE Cardinality(row[p]) <= 1
    <3>1. ASSUME NEW m \in row[p], NEW n \in row[p] PROVE m = n
      <4>1. /\ m \in marks /\ m.pupil = p /\ m.day = d /\ m.lesson = Unscheduled
            /\ n \in marks /\ n.pupil = p /\ n.day = d /\ n.lesson = Unscheduled
            /\ m.copy <= n.copy /\ n.copy <= m.copy
        BY <2>2, <3>1 DEF FirstMade, HomeroomMarks
      <4>2. m.copy = n.copy
        BY <4>1, MarkFields
      <4> QED
        BY <4>1, <4>2 DEF ReportsInv, OneRow
    <3> HIDE DEF row
    <3> QED
      BY <3>1, AtMostOne
  <2>4. ASSUME \A m \in marks : m.class = c /\ m.day = d => m.pupil \notin moved /\ ~(m.copy > 1)
        PROVE  OnRoster(row) = In(c)
    <3>1. ASSUME NEW m \in In(c) PROVE m.pupil \in Roster(c) /\ m \in row[m.pupil]
      <4>1. m \in marks /\ m.class = c /\ m.day = d
        BY DEF HomeroomMarks
      <4>2. <<m.pupil, c>> \in enrolments /\ m.pupil \in Pupils
        BY <2>4, <4>1, MarkFields DEF ReportsInv, OfItsClass
      <4>3. m.pupil \in Roster(c)
        BY <4>2 DEF Roster
      <4>4. ASSUME NEW n \in In(c) PROVE m.copy <= n.copy
        <5>1. n \in marks
          BY DEF HomeroomMarks
        <5> QED
          BY <2>4, <4>1, <5>1, MarkFields
      <4>5. m \in FirstMade({n \in In(c) : n.pupil = m.pupil /\ n.class = c})
        BY <4>1, <4>4 DEF FirstMade
      <4> QED
        BY <2>2, <4>3, <4>5
    <3>2. \A p \in Roster(c) : row[p] \subseteq In(c)
      BY <2>2 DEF FirstMade
    <3> HIDE DEF row, of
    <3> QED
      BY <2>2, <3>1, <3>2 DEF OnRoster
  <2> HIDE DEF row, of, page
  <2> QED
    BY <2>1, <2>2, <2>3, <2>4
<1> HIDE DEF page
<1>6. \A c \in cs : LET row == page.students[c] IN
          /\ \A p \in DOMAIN row : Cardinality(row[p]) <= 1
          /\ \/ Totals(OnRoster(row)) = page.classrooms[c]
             \/ \E m \in marks : m.class = c /\ m.day = d /\ (m.pupil \in moved \/ m.copy > 1)
  BY <1>5
<1> QED
  BY <1>3, <1>4, <1>6 DEF HomeroomPageAgrees, page

\* A part is not larger than the whole.
LEMMA FewerAmongMore ==
  ASSUME NEW ms, IsFiniteSet(ms), NEW some, some \subseteq ms
  PROVE  /\ IsFiniteSet(some) /\ Cardinality(some) \in Nat /\ Cardinality(ms) \in Nat
         /\ Cardinality(some) <= Cardinality(ms)
  BY FS_Subset, FS_CardinalityType

\* The subjects of a summary add up to it, whichever subject a lesson has by now.
LEMMA SubjectsAddUp ==
  ASSUME ReportsInv, NEW ms, ms \subseteq marks
  PROVE  Summed(buildSummary(ms).bySubject) = Cardinality(ms)
<1> DEFINE key == [m \in ms |-> SubjectOf(m.lesson)]
<1>1. PICK lines : lines = buildSummary(ms).bySubject
  OBVIOUS
<1>2. lines = [k \in {SubjectOf(m.lesson) : m \in ms} |-> Totals({m \in ms : SubjectOf(m.lesson) = k})]
  BY <1>1 DEF buildSummary, Buckets
<1>3. \A m \in ms : key[m] \in DOMAIN lines
  BY <1>2
<1>4. \A k : {m \in ms : SubjectOf(m.lesson) = k} = {m \in ms : key[m] = k}
  OBVIOUS
<1>5. IsFiniteSet(ms)
  BY MarksFinite
<1> HIDE DEF key
<1>6. \A k \in DOMAIN lines : lines[k] = Totals({m \in ms : key[m] = k})
  BY <1>2, <1>4
<1>7. Summed(lines) = Cardinality(ms)
  BY <1>3, <1>5, <1>6, RowsByKey
<1> QED
  BY <1>1, <1>7

\* The subject page: whoever is missing from a roster has left a class, or the lesson was given to
\* another class, removed or moved to another day.
LEMMA SubjectAgrees ==
  ASSUME ReportsInv, NEW ls \in SUBSET Lessons, NEW one \in BOOLEAN, NEW d \in MarkDays
  PROVE  SubjectPageAgrees(ls, one, d)
<1> DEFINE page == findSubjectAttendance(ls, one, d)
           daily == DailyLessons(ls, one, d)
           of == {m \in marks : m.lesson \in daily /\ m.day = d}
           wide == {m \in marks : m.lesson \in LiveLessons(ls)}
           listed == UNION {OnRoster(page.entries[l]) : l \in DOMAIN page.entries}
           Astray(m) == m.pupil \in moved \/ m.lesson \in shifted
<1>1. /\ page.entries = [l \in daily |-> buildRoster(ClassOf(l), {m \in of : m.lesson = l})]
      /\ page.summary = buildSummary(of)
      /\ page.summary.sum = Totals(of)
      /\ page.week = buildWeeklySummary(wide, startOfWeek(d))
  BY DEF findSubjectAttendance, buildSummary
<1>2. daily \subseteq ls
  BY DEF DailyLessons, LiveLessons
<1>3. ASSUME NEW l \in daily
      PROVE  OnRoster(page.entries[l]) =
                {m \in of : m.lesson = l /\ m.class = ClassOf(l) /\ m.pupil \in Roster(ClassOf(l))}
  <2> DEFINE its == {m \in of : m.lesson = l}
             MarksOf(p) == {m \in its : m.pupil = p /\ m.class = ClassOf(l)}
  <2>1. page.entries[l] = buildRoster(ClassOf(l), its)
    BY <1>1
  <2>2. \A m \in its : m.copy = 1
    BY <1>2, AttendanceReportsAssumption DEF ReportsInv, OfItsClass
  <2>3. \A p : FirstMade(MarksOf(p)) = MarksOf(p)
    <3> SUFFICES ASSUME NEW p, NEW m \in MarksOf(p), NEW n \in MarksOf(p) PROVE m.copy <= n.copy
      BY DEF FirstMade
    <3>1. m.copy = 1 /\ n.copy = 1
      BY <2>2
    <3> QED
      BY <3>1
  <2>4. page.entries[l] = [p \in Roster(ClassOf(l)) |-> FirstMade(MarksOf(p))]
    BY <2>1 DEF buildRoster
  <2>5. page.entries[l] = [p \in Roster(ClassOf(l)) |-> MarksOf(p)]
    BY <2>3, <2>4
  <2> HIDE DEF of, daily, page
  <2> QED
    BY <2>5 DEF OnRoster
<1>4. DOMAIN page.entries = daily
  BY <1>1
<1>5. \A m \in marks : m \in listed <=> m \in of /\ m.class = ClassOf(m.lesson)
                                        /\ m.pupil \in Roster(m.class)
  <2> HIDE DEF page, daily
  <2> QED
    BY <1>3, <1>4
<1>6. listed \subseteq of
  <2> HIDE DEF page, daily
  <2> QED
    BY <1>3, <1>4
<1>7. \A m \in of : m \in listed \/ Astray(m)
  <2> SUFFICES ASSUME NEW m \in of, ~Astray(m) PROVE m \in listed
    OBVIOUS
  <2>1. m \in marks /\ m.lesson \in Lessons
    BY <1>2
  <2>2. m.class = ClassOf(m.lesson) /\ <<m.pupil, m.class>> \in enrolments
    BY <2>1, AttendanceReportsAssumption DEF ReportsInv, OfItsClass
  <2>3. m.pupil \in Roster(m.class)
    BY <2>1, <2>2, MarkFields DEF Roster
  <2> HIDE DEF of, listed
  <2> QED
    BY <1>5, <2>1, <2>2, <2>3
<1>8. of \subseteq marks /\ wide \subseteq marks
  OBVIOUS
<1>9. \A m \in marks : m.lesson \in ls /\ m.day = d /\ m \notin listed =>
          \/ Astray(m) \/ lesson[m.lesson].removed \/ timetable[TimetableOf[m.lesson]].removed
          \/ ~one /\ lesson[m.lesson].weekday # isoWeekday(d)
  <2> SUFFICES ASSUME NEW m \in marks, m.lesson \in ls, m.day = d, m \notin listed,
                      ~lesson[m.lesson].removed, ~timetable[TimetableOf[m.lesson]].removed,
                      one \/ lesson[m.lesson].weekday = isoWeekday(d)
               PROVE  Astray(m)
    OBVIOUS
  <2>1. m \in of
    BY DEF DailyLessons, LiveLessons
  <2> HIDE DEF of, listed
  <2> QED
    BY <1>7, <2>1
<1>10. \A m \in of : m.lesson \in ls /\ m.day = d
  BY <1>2
<1>11. Summed(page.summary.bySubject) = page.summary.sum.total
  <2> HIDE DEF page, of, daily
  <2> QED
    BY <1>1, <1>8, SubjectsAddUp, TotalOf
<1>12. Summed(page.week.days) = page.week.sum.total
  <2> HIDE DEF page, wide
  <2> QED
    BY <1>1, <1>8, WeekAddsUp
<1> HIDE DEF page, daily, of, wide
<1>13. Cardinality(listed) <= page.summary.sum.total
  BY <1>1, <1>6, <1>8, MarksFinite, FewerAmongMore, TotalOf
<1>14. \/ Totals(listed) = page.summary.sum
       \/ \E m \in marks : m.lesson \in ls /\ m.day = d /\ Astray(m)
  <2> SUFFICES ASSUME \A m \in of : ~Astray(m) PROVE Totals(listed) = page.summary.sum
    BY <1>8, <1>10
  <2>1. listed = of
    BY <1>6, <1>7
  <2> QED
    BY <1>1, <2>1
<1> QED
  BY <1>9, <1>11, <1>12, <1>13, <1>14 DEF SubjectPageAgrees, page

\* The rows of the children cover the page, one mark twice only for a child that is named twice.
LEMMA ChildrenAddUp ==
  ASSUME ReportsInv, NEW p \in Pupils, NEW q \in Pupils, NEW ms, ms \subseteq marks,
         \A m \in ms : m.pupil \in {p, q}
  PROVE  LET children == <<p, q>>
             lines == buildStudentAttendanceBuckets(children, ms)
             sums == [i \in DOMAIN children |-> lines[i].sum]
         IN /\ Summed(sums) >= Cardinality(ms)
            /\ IsInjective(children) => Summed(sums) = Cardinality(ms)
<1> DEFINE children == <<p, q>>
           lines == buildStudentAttendanceBuckets(children, ms)
           sums == [i \in DOMAIN children |-> lines[i].sum]
           share == [i \in {1, 2} |-> {m \in ms : m.pupil = children[i]}]
           f == [i \in DOMAIN sums |-> sums[i].total]
<1>1. DOMAIN children = {1, 2} /\ children[1] = p /\ children[2] = q
  OBVIOUS
<1>2. DOMAIN sums = {1, 2} /\ \A i \in {1, 2} : sums[i] = Totals(share[i])
  BY <1>1 DEF buildStudentAttendanceBuckets, buildSummary
<1>3. DOMAIN f = {1, 2} /\ \A i \in {1, 2} : share[i] \subseteq ms /\ f[i] = Cardinality(share[i])
  <2>1. \A i \in {1, 2} : share[i] \subseteq ms
    OBVIOUS
  <2>2. DOMAIN f = {1, 2} /\ \A i \in {1, 2} : f[i] = sums[i].total
    BY <1>2
  <2> HIDE DEF f, share, sums
  <2> QED
    BY <1>2, <2>1, <2>2, TotalOf
<1>4. \A m \in ms : \E i \in {1, 2} : m \in share[i]
  BY <1>1
<1>5. IsFiniteSet(ms) /\ IsFiniteSet({1, 2})
  <2>1. IsFiniteSet({1} \cup {2})
    BY FS_Singleton, FS_Union
  <2>2. {1, 2} = {1} \cup {2}
    OBVIOUS
  <2> QED
    BY <2>1, <2>2, MarksFinite
<1>6. Summed(sums) = SumOf(f)
  BY DEF Summed
<1>7. IsInjective(children) => \A k, j \in {1, 2} : k # j => share[k] \cap share[j] = {}
  BY <1>1 DEF IsInjective
<1> HIDE DEF children, lines, sums, share, f
<1>8. SumOf(f) >= Cardinality(ms)
  BY <1>3, <1>4, <1>5, SumOfCover
<1>9. IsInjective(children) => SumOf(f) = Cardinality(ms)
  BY <1>3, <1>4, <1>5, <1>7, SumOfParts
<1> QED
  BY <1>6, <1>8, <1>9 DEF sums, lines, children

\* Numbers that are not empty and bounded have a greatest.
LEMMA GreatestBelow ==
  ASSUME NEW S, S \subseteq Nat, S # {}, NEW d \in Nat, \A m \in S : m <= d
  PROVE  Max(S) \in S /\ \A m \in S : m <= Max(S)
<1> DEFINE T == {d - m : m \in S}
<1>1. T \in SUBSET Nat /\ T # {}
  OBVIOUS
<1>2. PICK x \in T : \A y \in T : x <= y
  <2> HIDE DEF T
  <2> QED
    BY <1>1, LeastNat
<1>3. PICK m \in S : x = d - m
  BY <1>2
<1>4. \A n \in S : m >= n
  <2> SUFFICES ASSUME NEW n \in S PROVE m >= n
    OBVIOUS
  <2>1. d - n \in T
    OBVIOUS
  <2>2. x <= d - n
    BY <1>2, <2>1
  <2>3. m \in Nat /\ n \in Nat
    OBVIOUS
  <2> QED
    BY <1>3, <2>2, <2>3
<1>5. \E y \in S : \A n \in S : y >= n
  BY <1>4
<1>6. Max(S) \in S /\ \A n \in S : Max(S) >= n
  BY <1>5 DEF Max
<1> HIDE DEF T
<1> QED
  BY <1>6

\* The least of a set of numbers.
LEMMA LeastAbove ==
  ASSUME NEW S, S \subseteq Nat, S # {}
  PROVE  Min(S) \in S /\ \A m \in S : Min(S) <= m
<1>1. \E y \in S : \A n \in S : y <= n
  BY LeastNat
<1> QED
  BY <1>1 DEF Min

\* A day is in the month that began last.
LEMMA MonthHasDay ==
  ASSUME NEW d \in MarkDays
  PROVE  /\ monthStart(d) \in Nat /\ addMonth(monthStart(d)) \in Nat
         /\ d \in monthStart(d)..(addMonth(monthStart(d)) - 1)
<1> DEFINE past == {m \in MonthStarts : m <= d}
           next == {n \in MonthStarts : n > monthStart(d)}
<1>1. d \in Nat /\ past \subseteq Nat /\ next \subseteq Nat /\ past # {}
  BY AttendanceReportsAssumption
<1>2. PICK first : first = monthStart(d)
  OBVIOUS
<1>3. first \in past /\ \A m \in past : m <= first
  <2>1. first = Max(past)
    BY <1>2 DEF monthStart
  <2>2. \A m \in past : m <= d
    OBVIOUS
  <2> HIDE DEF past, next
  <2> QED
    BY <1>1, <2>1, <2>2, GreatestBelow
<1>4. next # {}
  <2>1. PICK n \in MonthStarts : d < n
    BY AttendanceReportsAssumption
  <2>2. n \in Nat /\ first \in Nat /\ first <= d
    BY <1>1, <1>3, AttendanceReportsAssumption
  <2> QED
    BY <1>1, <1>2, <2>1, <2>2
<1>5. PICK after : after = addMonth(monthStart(d))
  OBVIOUS
<1>6. after \in next
  <2>1. after = Min(next)
    BY <1>5 DEF addMonth
  <2> HIDE DEF past, next
  <2> QED
    BY <1>1, <1>4, <2>1, LeastAbove
<1>7. first \in Nat /\ after \in Nat /\ first <= d /\ after > first /\ after \in MonthStarts
  BY <1>1, <1>2, <1>3, <1>6
<1>8. d < after
  <2> SUFFICES ASSUME after <= d PROVE FALSE
    BY <1>1, <1>7
  <2>1. after \in past
    BY <1>7
  <2> QED
    BY <1>3, <1>7, <2>1
<1>9. d \in first..(after - 1)
  BY <1>1, <1>7, <1>8
<1> QED
  BY <1>2, <1>5, <1>7, <1>9

\* The day, week and month of a day have it; a term need not.
LEMMA RangeHasDay ==
  ASSUME NEW d \in MarkDays, NEW period \in {"daily", "weekly", "monthly", "termly"},
         NEW range \in resolveAttendanceRange(period, d), period # "termly"
  PROVE  d \in range.days
<1>0. d \in Int /\ startOfWeek(d) \in Int
  BY AttendanceReportsAssumption, WeekHasDay
<1>1. CASE period = "daily"
  <2>1. range = [days |-> d..(d + 1 - 1), years |-> AcademicYears]
    BY <1>0, <1>1 DEF resolveAttendanceRange
  <2>2. d \in d..(d + 1 - 1)
    BY AttendanceReportsAssumption
  <2> QED
    BY <2>1, <2>2
<1>2. CASE period = "weekly"
  <2>1. range = [days |-> startOfWeek(d)..(startOfWeek(d) + 7 - 1), years |-> AcademicYears]
    BY <1>0, <1>2 DEF resolveAttendanceRange
  <2>2. d \in startOfWeek(d)..(startOfWeek(d) + 7 - 1)
    BY AttendanceReportsAssumption, WeekHasDay
  <2> QED
    BY <2>1, <2>2
<1>3. CASE period = "monthly"
  <2>1. range = [days |-> monthStart(d)..(addMonth(monthStart(d)) - 1), years |-> AcademicYears]
    BY <1>3 DEF resolveAttendanceRange
  <2> QED
    BY <2>1, MonthHasDay
<1> QED
  BY <1>1, <1>2, <1>3

\* The parents' page, of every length.
LEMMA ParentAgrees ==
  ASSUME ReportsInv, NEW p \in Pupils, NEW q \in Pupils, NEW d \in MarkDays
  PROVE  ParentPageAgrees(<<p, q>>, d)
<1> DEFINE children == <<p, q>>
           Chosen(range) == {m \in marks : /\ m.pupil \in ToSet(children) /\ m.day \in range.days
                                       /\ m.year \in range.years}
<1>1. ToSet(children) = {p, q}
  BY DEF ToSet
<1>2. \A range : LET page == findParentAttendance(children, range) IN
          /\ page.summary.sum = Totals(Chosen(range))
          /\ page.days = DailyTotals(Chosen(range), range.days)
          /\ page.children = buildStudentAttendanceBuckets(children, Chosen(range))
  BY DEF findParentAttendance, buildSummary
<1>3. ASSUME NEW period \in {"daily", "weekly", "monthly", "termly"},
             NEW range \in resolveAttendanceRange(period, d)
      PROVE  LET page == findParentAttendance(children, range)
                 sums == [i \in DOMAIN children |-> page.children[i].sum]
             IN /\ Summed(page.days) = page.summary.sum.total
                /\ Summed(sums) >= page.summary.sum.total
                /\ IsInjective(children) => Summed(sums) = page.summary.sum.total
                /\ period # "termly" => d \in range.days
  <2> DEFINE of == Chosen(range)
  <2>1. of \subseteq marks /\ (\A m \in of : m.day \in range.days) /\ \A m \in of : m.pupil \in {p, q}
    BY <1>1
  <2>2. IsFiniteSet(of)
    BY <2>1, MarksFinite
  <2>3. PICK page : page = findParentAttendance(children, range)
    OBVIOUS
  <2>4. /\ page.summary.sum = Totals(of)
        /\ page.days = DailyTotals(of, range.days)
        /\ page.children = buildStudentAttendanceBuckets(children, of)
    BY <1>2, <2>3
  <2> HIDE DEF of
  <2>5. Summed(page.days) = page.summary.sum.total
    BY <2>1, <2>2, <2>4, DaysAddUp, TotalOf
  <2>6. LET sums == [i \in DOMAIN children |-> page.children[i].sum] IN
        /\ Summed(sums) >= page.summary.sum.total
        /\ IsInjective(children) => Summed(sums) = page.summary.sum.total
    BY <2>1, <2>4, ChildrenAddUp, TotalOf
  <2>7. period # "termly" => d \in range.days
    BY RangeHasDay
  <2> QED
    BY <2>3, <2>5, <2>6, <2>7
<1>4. ASSUME NEW day \in resolveAttendanceRange("daily", d), NEW week \in resolveAttendanceRange("weekly", d)
      PROVE  findParentAttendance(children, day).summary.sum.total
               = findParentAttendance(children, week).days[d].total
  <2>1. d \in week.days /\ day.years = AcademicYears /\ week.years = AcademicYears
    BY RangeHasDay DEF resolveAttendanceRange
  <2>2. day.days = {d}
    <3>1. day.days = d..(d + 1 - 1)
      BY AttendanceReportsAssumption DEF resolveAttendanceRange
    <3> QED
      BY <3>1, AttendanceReportsAssumption
  <2>3. Chosen(day) = {m \in Chosen(week) : m.day = d}
    BY <2>1, <2>2
  <2>4. findParentAttendance(children, day).summary.sum = Totals(Chosen(day))
    BY <1>2
  <2>5. findParentAttendance(children, week).days = DailyTotals(Chosen(week), week.days)
    BY <1>2
  <2>6. DailyTotals(Chosen(week), week.days)[d] = Totals({m \in Chosen(week) : m.day = d})
    BY <2>1 DEF DailyTotals
  <2> HIDE DEF Chosen, children
  <2> QED
    BY <2>3, <2>4, <2>5, <2>6
<1> HIDE DEF children, Chosen
<1>5. ParentPageAgrees(children, d)
  BY <1>3, <1>4 DEF ParentPageAgrees
<1> QED
  BY <1>5 DEF children

\* The principal's page: grades, classes, subjects and pupils are four ways to divide the marks, those
\* of the removed classes aside.
LEMMA GradesAgree ==
  ASSUME ReportsInv
  PROVE  LET page == findGradeSummary(MarkDays) IN
         /\ Summed([g \in DOMAIN page.grades |-> page.grades[g].sum]) = page.summary.sum.total
         /\ \A g \in DOMAIN page.grades :
               Summed(page.grades[g].classrooms) = page.grades[g].sum.total
         /\ Summed(page.summary.bySubject) = page.summary.sum.total
         /\ Summed([p \in Pupils |-> findStudentAttendance(p).sum])
               = page.summary.sum.total + Cardinality({m \in marks : classroom[m.class].removed})
<1> DEFINE of == {m \in marks : ~classroom[m.class].removed}
           out == {m \in marks : classroom[m.class].removed}
<1>1. PICK page : page = findGradeSummary(MarkDays)
  OBVIOUS
<1>2. {m \in marks : m.day \in MarkDays /\ ~classroom[m.class].removed} = of
  BY MarkFields
<1>3. page.summary = buildSummary(of) /\ page.grades = buildGradeBuckets(of)
  BY <1>1, <1>2 DEF findGradeSummary
<1>4. of \subseteq marks /\ out \subseteq marks /\ of \cap out = {} /\ of \cup out = marks
  OBVIOUS
<1> HIDE DEF of, out
<1>5. IsFiniteSet(of) /\ IsFiniteSet(out) /\ Cardinality(of) \in Nat /\ Cardinality(out) \in Nat
  BY <1>4, MarksFinite
<1>6. page.summary.sum.total = Cardinality(of)
  BY <1>3, TotalOf DEF buildSummary
<1>7. Summed([g \in DOMAIN page.grades |-> page.grades[g].sum]) = Cardinality(of)
  <2> DEFINE lines == [g \in DOMAIN page.grades |-> page.grades[g].sum]
             key == [m \in of |-> classroom[m.class].grade]
  <2>1. \A m \in of : key[m] \in DOMAIN lines
    BY <1>3 DEF buildGradeBuckets
  <2>2. \A g \in DOMAIN lines : lines[g] = Totals({m \in of : classroom[m.class].grade = g})
    BY <1>3 DEF buildGradeBuckets
  <2>3. \A g : {m \in of : classroom[m.class].grade = g} = {m \in of : key[m] = g}
    OBVIOUS
  <2> HIDE DEF lines, key
  <2>4. Summed(lines) = Cardinality(of)
    BY <1>5, <2>1, <2>2, <2>3, RowsByKey
  <2> QED
    BY <2>4 DEF lines
<1>8. ASSUME NEW g \in DOMAIN page.grades
      PROVE  Summed(page.grades[g].classrooms) = page.grades[g].sum.total
  <2> DEFINE grade == {m \in of : classroom[m.class].grade = g}
             key == [m \in grade |-> m.class]
  <2>1. PICK lines : lines = page.grades[g].classrooms
    OBVIOUS
  <2>2. lines = [c \in {m.class : m \in grade} |-> Totals({m \in grade : m.class = c})]
    BY <1>3, <2>1 DEF buildGradeBuckets, Buckets
  <2>3. page.grades[g].sum.total = Cardinality(grade)
    BY <1>3, TotalOf DEF buildGradeBuckets
  <2>4. \A m \in grade : key[m] \in DOMAIN lines
    BY <2>2
  <2>5. \A c : {m \in grade : m.class = c} = {m \in grade : key[m] = c}
    OBVIOUS
  <2>6. IsFiniteSet(grade)
    <3>1. grade \subseteq marks
      BY <1>4
    <3> QED
      BY <3>1, MarksFinite
  <2> HIDE DEF key, grade
  <2>7. \A c \in DOMAIN lines : lines[c] = Totals({m \in grade : key[m] = c})
    BY <2>2, <2>5
  <2>8. Summed(lines) = Cardinality(grade)
    BY <2>4, <2>6, <2>7, RowsByKey
  <2> QED
    BY <2>1, <2>3, <2>8
<1>9. Summed(page.summary.bySubject) = Cardinality(of)
  BY <1>3, <1>4, SubjectsAddUp
<1>10. Summed([p \in Pupils |-> findStudentAttendance(p).sum]) = Cardinality(marks)
  <2> DEFINE key == [m \in marks |-> m.pupil]
             lines == [p \in Pupils |-> findStudentAttendance(p).sum]
  <2>1. \A m \in marks : key[m] \in DOMAIN lines
    BY MarkFields
  <2>2. \A p \in DOMAIN lines : lines[p] = Totals({m \in marks : m.pupil = p})
    BY DEF findStudentAttendance, buildSummary
  <2>3. \A p : {m \in marks : m.pupil = p} = {m \in marks : key[m] = p}
    OBVIOUS
  <2>5. IsFiniteSet(marks)
    BY MarksFinite
  <2> HIDE DEF lines, key
  <2>4. Summed(lines) = Cardinality(marks)
    BY <2>1, <2>2, <2>3, <2>5, RowsByKey
  <2> QED
    BY <2>4 DEF lines
<1>11. Cardinality(marks) = Cardinality(of) + Cardinality(out)
  <2>1. Cardinality(of \cup out) = Cardinality(of) + Cardinality(out) - Cardinality(of \cap out)
    BY <1>5, FS_Union
  <2>2. Cardinality({}) = 0
    BY FS_EmptySet
  <2>3. Cardinality(marks) = Cardinality(of) + Cardinality(out) - Cardinality({})
    BY <1>4, <2>1
  <2> QED
    BY <1>5, <2>2, <2>3
<1> QED
  BY <1>1, <1>6, <1>7, <1>8, <1>9, <1>10, <1>11 DEF out

\* What a mark remembers is enough for all pages to agree.
LEMMA ReportsImply == ReportsInv => ReportsAgree
<1> SUFFICES ASSUME ReportsInv PROVE ReportsAgree
  OBVIOUS
<1>1. \A d \in MarkDays :
          /\ \A cs \in SUBSET Classes \ {{}} : HomeroomPageAgrees(cs, d)
          /\ \A ls \in SUBSET Lessons \ {{}}, one \in BOOLEAN : SubjectPageAgrees(ls, one, d)
          /\ \A p, q \in Pupils : ParentPageAgrees(<<p, q>>, d)
  BY HomeroomAgrees, SubjectAgrees, ParentAgrees
<1> QED
  BY <1>1, GradesAgree, RatesSound DEF ReportsAgree

\* The figures of every attendance page add up and pages read together agree, but for the pupils who
\* left a class, lessons that changed, removed classes and second marks that the property names; and
\* the rates are from 0 to 100 % (AttendanceService).
THEOREM ReportsStayAgreed == ReportsSpec => []ReportsAgree
  BY ReportsBegin, ReportsStep, ReportsImply, PTL DEF ReportsSpec

-----------------------------------------------------------------------------
(* Dashboards *)

\* A school as it starts.
LEMMA DashboardsBegin == DashboardsInit => DashboardsTypeOK
<1> SUFFICES ASSUME DashboardsInit PROVE DashboardsTypeOK
  OBVIOUS
<1>1. figures \in StartFigures /\ seen = {figures} /\ changes = 0
  BY DEF DashboardsInit
<1>2. DOMAIN figures = Metrics \cup {"attendance"} /\ Consistent(figures)
  BY <1>1, DashboardsAssumption
<1> QED
  BY <1>1, <1>2, DashboardsAssumption DEF DashboardsTypeOK

\* A change of the school keeps what is known of it, and adds the school to those that were seen.
LEMMA ChangeKeeps ==
  ASSUME DashboardsTypeOK, NEW school, DOMAIN school = DOMAIN figures, Change(school)
  PROVE  DashboardsTypeOK'
<1>1. /\ changes < MaxChanges /\ changes' = changes + 1 /\ Consistent(school)
      /\ figures' = school /\ seen' = seen \cup {school}
  BY DEF Change
<1>2. changes' \in 0..MaxChanges
  BY <1>1, DashboardsAssumption DEF DashboardsTypeOK
<1>3. DOMAIN school = Metrics \cup {"attendance"}
  BY DEF DashboardsTypeOK
<1>4. \A s \in seen' : DOMAIN s = Metrics \cup {"attendance"} /\ Consistent(s)
  BY <1>1, <1>3 DEF DashboardsTypeOK
<1>5. figures' \in seen'
  BY <1>1
<1> QED
  BY <1>2, <1>4, <1>5 DEF DashboardsTypeOK

\* Every change of a school keeps the types of its figures.
LEMMA DashboardsStep ==
  ASSUME DashboardsTypeOK, [DashboardsNext]_dashboardsVars
  PROVE  DashboardsTypeOK'
<1>1. ASSUME NEW ks \in Together, NEW d \in {-1, 1}, ChangeFigures(ks, d) PROVE DashboardsTypeOK'
  <2>1. PICK school : school = [k \in DOMAIN figures |-> IF k \in ks THEN figures[k] + d ELSE figures[k]]
    OBVIOUS
  <2>2. DOMAIN school = DOMAIN figures /\ Change(school)
    BY <1>1, <2>1 DEF ChangeFigures
  <2> QED
    BY <2>2, ChangeKeeps
<1>2. ASSUME NEW age \in Ages, NEW to \in {"attended", "missed"}, MarkPupil(age, to)
      PROVE  DashboardsTypeOK'
  <2>1. PICK school : school = [figures EXCEPT !.attendance[age][to] = @ + 1]
    OBVIOUS
  <2>2. DOMAIN school = DOMAIN figures /\ Change(school)
    BY <1>2, <2>1 DEF MarkPupil
  <2> QED
    BY <2>2, ChangeKeeps
<1>3. ASSUME NEW age \in Ages, NEW to \in {"attended", "missed"}, NEW from \in {"attended", "missed"},
             CorrectMark(age, from, to)
      PROVE  DashboardsTypeOK'
  <2>1. PICK school : school = [figures EXCEPT !.attendance[age][from] = @ - 1, !.attendance[age][to] = @ + 1]
    OBVIOUS
  <2>2. DOMAIN school = DOMAIN figures /\ Change(school)
    BY <1>3, <2>1 DEF CorrectMark
  <2> QED
    BY <2>2, ChangeKeeps
<1>4. CASE UNCHANGED dashboardsVars
  BY <1>4 DEF dashboardsVars, DashboardsTypeOK
<1> QED
  BY <1>1, <1>2, <1>3, <1>4 DEF DashboardsNext

\* Rounding half up is off by half at most.
LEMMA RoundedBounds ==
  ASSUME NEW n \in Int, NEW d \in Nat, d > 0
  PROVE  \E x \in Int : x = rounded(n, d) /\ (2 * d) * x <= 2 * n + d /\ 2 * n + d < (2 * d) * x + 2 * d
<1> DEFINE a == 2 * n + d
           b == 2 * d
<1>1. PICK x : x = a \div b
  OBVIOUS
<1>2. x = rounded(n, d)
  BY <1>1 DEF rounded
<1>3. a \in Int /\ b \in Nat /\ b > 0
  OBVIOUS
<1>4. x \in Int /\ b * x <= a /\ a < b * x + b
  <2> HIDE DEF a, b
  <2> QED
    BY <1>1, <1>3
<1> QED
  BY <1>2, <1>4

\* Multiplication by a natural number is monotone.
LEMMA TimesMonotone ==
  ASSUME NEW a \in Nat, NEW x \in Int, NEW y \in Int, x <= y
  PROVE  a * x <= a * y
  OBVIOUS

\* A quotient that is at most q is rounded to q at most.
LEMMA RoundedAtMost ==
  ASSUME NEW n \in Int, NEW d \in Nat, d > 0, NEW q \in Int, n <= d * q
  PROVE  rounded(n, d) \in Int /\ rounded(n, d) <= q
<1>1. PICK x \in Int : x = rounded(n, d) /\ (2 * d) * x <= 2 * n + d /\ 2 * n + d < (2 * d) * x + 2 * d
  BY RoundedBounds
<1>2. x <= q
  <2> SUFFICES ASSUME q + 1 <= x PROVE FALSE
    OBVIOUS
  <2>1. d * (q + 1) <= d * x
    BY TimesMonotone
  <2> QED
    BY <1>1, <2>1
<1> QED
  BY <1>1, <1>2

\* One that is at least q is rounded to q at least.
LEMMA RoundedAtLeast ==
  ASSUME NEW n \in Int, NEW d \in Nat, d > 0, NEW q \in Int, d * q <= n
  PROVE  rounded(n, d) \in Int /\ q <= rounded(n, d)
<1>1. PICK x \in Int : x = rounded(n, d) /\ (2 * d) * x <= 2 * n + d /\ 2 * n + d < (2 * d) * x + 2 * d
  BY RoundedBounds
<1>2. q <= x
  <2> SUFFICES ASSUME x + 1 <= q PROVE FALSE
    OBVIOUS
  <2>1. d * (x + 1) <= d * q
    BY TimesMonotone
  <2> QED
    BY <1>1, <2>1
<1> QED
  BY <1>1, <1>2

\* Not more pupils came than were marked.
WindowOK(v) == v.attended \in Nat /\ v.total \in Nat /\ v.attended <= v.total

\* Then the rate is from 0 to 1000 tenths of a percent.
LEMMA RateInRange ==
  ASSUME NEW v, WindowOK(v)
  PROVE  rate(v) \in Int /\ 0 <= rate(v) /\ rate(v) <= 1000
<1>1. CASE v.total = 0
  BY <1>1 DEF rate
<1>2. CASE v.total # 0
  <2> DEFINE n == 1000 * v.attended
  <2>1. n \in Int /\ v.total \in Nat /\ v.total > 0 /\ v.total * 0 <= n /\ n <= v.total * 1000
    BY <1>2 DEF WindowOK
  <2>2. rate(v) = rounded(n, v.total)
    BY <1>2 DEF rate
  <2> HIDE DEF n
  <2>3. rounded(n, v.total) \in Int /\ 0 <= rounded(n, v.total)
    BY <2>1, RoundedAtLeast
  <2>4. rounded(n, v.total) <= 1000
    BY <2>1, RoundedAtMost
  <2> QED
    BY <2>2, <2>3, <2>4
<1> QED
  BY <1>1, <1>2

\* The marks of a school, by age.
MarksTyped(a) == a \in [Ages -> [attended: 0..MaxFigure, missed: 0..MaxFigure]]

\* At any one time, a longer window has the marks of the shorter.
LEMMA WindowsNest ==
  ASSUME NEW a, MarksTyped(a)
  PROVE  /\ \A k \in Windows : WindowOK(getAttendanceWindow(a, k))
         /\ getAttendanceWindow(a, "daily").total <= getAttendanceWindow(a, "weekly").total
         /\ getAttendanceWindow(a, "weekly").total <= getAttendanceWindow(a, "monthly").total
<1>1. \A age \in Ages : /\ a[age].attended \in Nat /\ a[age].missed \in Nat
                        /\ WindowOK(Window(a[age]))
  BY DashboardsAssumption DEF MarksTyped, WindowOK, Window
<1>2. \A v, w : WindowOK(v) /\ WindowOK(w) =>
         WindowOK(mergeAttendanceWindows(v, w)) /\ v.total <= mergeAttendanceWindows(v, w).total
  BY DEF WindowOK, mergeAttendanceWindows
<1>3. PICK d, e, f : d = Window(a["today"]) /\ e = Window(a["earlier this week"])
                     /\ f = Window(a["earlier this month"])
  OBVIOUS
<1>4. WindowOK(d) /\ WindowOK(e) /\ WindowOK(f)
  BY <1>1, <1>3 DEF Ages
<1>5. PICK w, x : w = mergeAttendanceWindows(d, e) /\ x = mergeAttendanceWindows(w, f)
  OBVIOUS
<1>6. /\ getAttendanceWindow(a, "daily") = d /\ getAttendanceWindow(a, "weekly") = w
      /\ getAttendanceWindow(a, "monthly") = x
  BY <1>3, <1>5 DEF getAttendanceWindow
<1> QED
  BY <1>2, <1>4, <1>5, <1>6 DEF Windows

\* The greater and the less of two numbers.
LEMMA GreaterOfTwo ==
  ASSUME NEW a \in Int, NEW b \in Int
  PROVE  /\ Max({a, b}) = IF a >= b THEN a ELSE b
         /\ Min({a, b}) = IF a <= b THEN a ELSE b
  BY DEF Max, Min

\* What any figures satisfy, read at once or not.
FiguresTyped(m) ==
    /\ \A k \in Metrics : m[k] \in Nat
    /\ m.settingsConfigured <= 1
    /\ \A k \in Windows : WindowOK(m[k])

\* The attendance score is from 0 to 100, and 0 if nested windows have no marks.
LEMMA AttendanceScored ==
  ASSUME NEW m, FiguresTyped(m)
  PROVE  LET s == weightedAttendanceScore(m) IN
         /\ s \in Int /\ 0 <= s /\ s <= 100
         /\ Nested(m) /\ m["monthly"].total = 0 => s = 0 /\ rate(m["daily"]) = 0
<1>1. PICK u, v, w : u = m["daily"] /\ v = m["weekly"] /\ w = m["monthly"]
  OBVIOUS
<1>2. WindowOK(u) /\ WindowOK(v) /\ WindowOK(w)
  BY <1>1 DEF FiguresTyped, Windows
<1>3. PICK x, y, z : x = rate(u) /\ y = rate(v) /\ z = rate(w)
  OBVIOUS
<1>4. /\ x \in Int /\ y \in Int /\ z \in Int
      /\ 0 <= x /\ 0 <= y /\ 0 <= z /\ x <= 1000 /\ y <= 1000 /\ z <= 1000
  BY <1>2, <1>3, RateInRange
<1>5. PICK n : n = 25 * x + 35 * y + 40 * z
  OBVIOUS
<1>6. n \in Int /\ 1000 * 0 <= n /\ n <= 1000 * 100
  BY <1>4, <1>5
<1>7. weightedAttendanceScore(m) = rounded(n, 1000)
  BY <1>1, <1>3, <1>5 DEF weightedAttendanceScore
<1>8. rounded(n, 1000) \in Int /\ 0 <= rounded(n, 1000) /\ rounded(n, 1000) <= 100
  BY <1>6, RoundedAtLeast, RoundedAtMost
<1>9. Nested(m) /\ w.total = 0 => rounded(n, 1000) = 0 /\ x = 0
  <2> SUFFICES ASSUME Nested(m), w.total = 0 PROVE rounded(n, 1000) = 0 /\ x = 0
    OBVIOUS
  <2>0. u.total <= v.total /\ v.total <= w.total
    BY <1>1 DEF Nested
  <2>1. u.total = 0 /\ v.total = 0
    BY <1>2, <2>0 DEF WindowOK
  <2>2. x = 0 /\ y = 0 /\ z = 0
    BY <1>3, <2>1 DEF rate
  <2>3. n = 0
    BY <1>5, <2>2
  <2>4. rounded(0, 1000) = 0
    BY DEF rounded
  <2> QED
    BY <2>2, <2>3, <2>4
<1> QED
  BY <1>1, <1>3, <1>7, <1>8, <1>9

\* The contract score is from 0 to 100.
LEMMA ContractsScored ==
  ASSUME NEW m, FiguresTyped(m)
  PROVE  contractScore(m) \in Int /\ 0 <= contractScore(m) /\ contractScore(m) <= 100
<1>1. PICK active, soon, later : /\ active = m.activeContracts /\ soon = m.contractsExpiring30d
                                 /\ later = m.contractsExpiring90d
  OBVIOUS
<1>2. active \in Nat /\ soon \in Nat /\ later \in Nat
  BY <1>1 DEF FiguresTyped, Metrics
<1>3. PICK extended : extended = Max({0, later - soon})
  OBVIOUS
<1>4. extended \in Nat
  BY <1>2, <1>3, GreaterOfTwo
<1>5. CASE active = 0
  BY <1>1, <1>5 DEF contractScore
<1>6. CASE active # 0
  <2>1. PICK n : n = 100 * active - 70 * soon - 30 * extended
    OBVIOUS
  <2>2. n \in Int /\ n <= active * 100 /\ active > 0
    BY <1>2, <1>4, <1>6, <2>1
  <2>3. PICK r : r = rounded(n, active)
    OBVIOUS
  <2>4. r \in Int /\ r <= 100
    BY <1>2, <2>2, <2>3, RoundedAtMost
  <2>5. contractScore(m) = Max({0, r})
    BY <1>1, <1>3, <1>6, <2>1, <2>3 DEF contractScore
  <2> QED
    BY <2>4, <2>5, GreaterOfTwo
<1> QED
  BY <1>5, <1>6

\* The activity score is over 100 only if more users are active than there are.
LEMMA ActivityScored ==
  ASSUME NEW m, FiguresTyped(m)
  PROVE  /\ activityScore(m) \in Int /\ 0 <= activityScore(m)
         /\ m.activeUsers30d <= m.users => activityScore(m) <= 100
<1>1. PICK u, a : u = m.users /\ a = m.activeUsers30d
  OBVIOUS
<1>2. u \in Nat /\ a \in Nat
  BY <1>1 DEF FiguresTyped, Metrics
<1>3. CASE u = 0
  BY <1>1, <1>3 DEF activityScore
<1>4. CASE u # 0
  <2>1. PICK n : n = 100 * a
    OBVIOUS
  <2>2. n \in Int /\ u > 0 /\ u * 0 <= n /\ (a <= u => n <= u * 100)
    BY <1>2, <1>4, <2>1
  <2>3. activityScore(m) = rounded(n, u)
    BY <1>1, <1>4, <2>1 DEF activityScore
  <2>4. rounded(n, u) \in Int /\ 0 <= rounded(n, u)
    BY <1>2, <2>2, RoundedAtLeast
  <2>5. a <= u => rounded(n, u) <= 100
    BY <1>2, <2>2, RoundedAtMost
  <2> QED
    BY <1>1, <2>3, <2>4, <2>5
<1> QED
  BY <1>3, <1>4

\* The timetable score is over 100 only if more timetables are published than there are.
LEMMA SchedulesScored ==
  ASSUME NEW m, FiguresTyped(m)
  PROVE  /\ scheduleScore(m) \in Int /\ 0 <= scheduleScore(m)
         /\ m.publishedSchedules <= m.schedules => scheduleScore(m) <= 100
<1>1. PICK c, s, p, h : c = m.classrooms /\ s = m.schedules /\ p = m.publishedSchedules
                        /\ h = m.homeroomAssignments
  OBVIOUS
<1>2. c \in Nat /\ s \in Nat /\ p \in Nat /\ h \in Nat
  BY <1>1 DEF FiguresTyped, Metrics
<1>3. CASE c = 0
  BY <1>1, <1>3 DEF scheduleScore
<1>4. CASE c # 0
  <2>1. PICK of, published, homerooms : /\ of = Max({1, s}) /\ homerooms = Min({c, h})
                                        /\ published = IF s = 0 THEN 0 ELSE p
    OBVIOUS
  <2>2. /\ of \in Nat /\ of > 0 /\ s <= of /\ homerooms \in Nat /\ homerooms <= c
        /\ published \in Nat /\ (p <= s => published <= of)
    BY <1>2, <2>1, GreaterOfTwo
  <2>3. PICK d : d = of * c
    OBVIOUS
  <2>4. d \in Nat /\ d > 0
    BY <1>2, <1>4, <2>2, <2>3
  <2>5. PICK x, y : x = published * c /\ y = homerooms * of
    OBVIOUS
  <2>6. x \in Nat /\ y \in Nat /\ y <= d
    <3>1. of * homerooms <= of * c
      BY <1>2, <2>2, TimesMonotone
    <3> QED
      BY <1>2, <2>2, <2>3, <2>5, <3>1
  <2>7. p <= s => x <= d
    <3>1. p <= s => c * published <= c * of
      BY <1>2, <2>2, TimesMonotone
    <3> QED
      BY <1>2, <2>2, <2>3, <2>5, <3>1
  <2>8. PICK n : n = 60 * x + 40 * y
    OBVIOUS
  <2>9. n \in Int /\ d * 0 <= n /\ (p <= s => n <= d * 100)
    BY <2>4, <2>6, <2>7, <2>8
  <2>10. scheduleScore(m) = rounded(n, d)
    <3>1. scheduleScore(m) = rounded(60 * published * c + 40 * homerooms * of, of * c)
      BY <1>1, <1>4, <2>1 DEF scheduleScore
    <3>2. 60 * published * c = 60 * x /\ 40 * homerooms * of = 40 * y
      BY <1>2, <2>2, <2>5
    <3> QED
      BY <2>3, <2>8, <3>1, <3>2
  <2>11. rounded(n, d) \in Int /\ 0 <= rounded(n, d)
    BY <2>4, <2>9, RoundedAtLeast
  <2>12. p <= s => rounded(n, d) <= 100
    BY <2>4, <2>9, RoundedAtMost
  <2> QED
    BY <1>1, <2>10, <2>11, <2>12
<1> QED
  BY <1>3, <1>4

\* The setup score is from 0 to 100.
LEMMA SetupScored ==
  ASSUME NEW m, FiguresTyped(m)
  PROVE  setupScore(m) \in Int /\ 0 <= setupScore(m) /\ setupScore(m) <= 100
<1>1. m.settingsConfigured \in Nat /\ m.settingsConfigured <= 1
  BY DEF FiguresTyped, Metrics
<1> QED
  BY <1>1 DEF setupScore

\* The health score is 100 at most with no more active users or published timetables than there are,
\* and then 65 at most if nested windows have no marks.
LEMMA HealthScored ==
  ASSUME NEW m, FiguresTyped(m)
  PROVE  /\ healthScore(m) \in Int /\ 0 <= healthScore(m)
         /\ m.activeUsers30d <= m.users /\ m.publishedSchedules <= m.schedules =>
               /\ healthScore(m) <= 100
               /\ Nested(m) /\ m["monthly"].total = 0 => healthScore(m) <= 65
<1>1. PICK a, b, c, d, e : /\ a = weightedAttendanceScore(m) /\ b = contractScore(m)
                           /\ c = activityScore(m) /\ d = scheduleScore(m) /\ e = setupScore(m)
  OBVIOUS
<1>2. /\ a \in Int /\ b \in Int /\ c \in Int /\ d \in Int /\ e \in Int
      /\ 0 <= a /\ 0 <= b /\ 0 <= c /\ 0 <= d /\ 0 <= e /\ a <= 100 /\ b <= 100 /\ e <= 100
  BY <1>1, AttendanceScored, ContractsScored, ActivityScored, SchedulesScored, SetupScored
<1>3. PICK n : n = 35 * a + 25 * b + 15 * c + 15 * d + 10 * e
  OBVIOUS
<1>4. n \in Int /\ 100 * 0 <= n
  BY <1>2, <1>3
<1>5. healthScore(m) = rounded(n, 100)
  BY <1>1, <1>3 DEF healthScore
<1>6. rounded(n, 100) \in Int /\ 0 <= rounded(n, 100)
  BY <1>4, RoundedAtLeast
<1>7. ASSUME m.activeUsers30d <= m.users, m.publishedSchedules <= m.schedules
      PROVE  /\ rounded(n, 100) <= 100
             /\ Nested(m) /\ m["monthly"].total = 0 => rounded(n, 100) <= 65
  <2>1. c <= 100 /\ d <= 100
    BY <1>1, <1>7, ActivityScored, SchedulesScored
  <2>2. n <= 100 * 100 /\ (a = 0 => n <= 100 * 65)
    BY <1>2, <1>3, <2>1
  <2>3. Nested(m) /\ m["monthly"].total = 0 => a = 0
    BY <1>1, AttendanceScored
  <2> QED
    BY <1>4, <2>2, <2>3, RoundedAtMost
<1> QED
  BY <1>5, <1>6, <1>7

\* A figure of a report is one that the school had at some time since the dashboard was begun.
LEMMA FiguresRead ==
  ASSUME DashboardsTypeOK, NEW m \in Reports
  PROVE  /\ \A k \in Metrics : \E school \in seen : m[k] = school[k]
         /\ \A k \in Windows : \E school \in seen : m[k] = getAttendanceWindow(school.attendance, k)
<1>1. \A k \in Metrics \cup Windows : \E school \in seen : m[k] = Figure(school, k)
  <2> DEFINE varying == {k \in Metrics \cup Windows : \E s \in seen : Figure(s, k) # Figure(figures, k)}
  <2>1. PICK school \in [varying -> seen] :
           m = [k \in Metrics \cup Windows |-> Figure(IF k \in varying THEN school[k] ELSE figures, k)]
    BY DEF Reports
  <2>2. figures \in seen
    BY DEF DashboardsTypeOK
  <2>3. \A k \in varying : school[k] \in seen
    BY <2>1
  <2> HIDE DEF varying
  <2> QED
    BY <2>1, <2>2, <2>3
<1>2. \A k \in Metrics : k \notin Windows
  BY DEF Metrics, Windows
<1> QED
  BY <1>1, <1>2 DEF Figure

\* So a report has typed figures, and in no window more pupils who came than were marked.
LEMMA ReportsTyped ==
  ASSUME DashboardsTypeOK, NEW m \in Reports
  PROVE  FiguresTyped(m)
<1>1. ASSUME NEW x \in seen
      PROVE  /\ \A k \in Metrics : x[k] \in Nat
             /\ x["settingsConfigured"] <= 1 /\ MarksTyped(x.attendance)
  BY <1>1, DashboardsAssumption DEF DashboardsTypeOK, Consistent, MarksTyped
<1>2. \A k \in Metrics : m[k] \in Nat
  BY <1>1, FiguresRead
<1>3. m["settingsConfigured"] <= 1
  <2>1. "settingsConfigured" \in Metrics
    BY DEF Metrics
  <2> QED
    BY <1>1, <2>1, FiguresRead
<1>4. \A k \in Windows : WindowOK(m[k])
  BY <1>1, FiguresRead, WindowsNest
<1> QED
  BY <1>2, <1>3, <1>4 DEF FiguresTyped

\* If no mark was saved since, its windows are nested.
LEMMA SettledNests ==
  ASSUME DashboardsTypeOK, NEW m \in Reports,
         \A school \in seen : school.attendance = figures.attendance
  PROVE  Nested(m)
<1>1. PICK a : a = figures.attendance
  OBVIOUS
<1>2. MarksTyped(a)
  BY <1>1, DashboardsAssumption DEF DashboardsTypeOK, Consistent, MarksTyped
<1>3. \A k \in Windows : m[k] = getAttendanceWindow(a, k)
  BY <1>1, FiguresRead
<1>4. /\ m["daily"] = getAttendanceWindow(a, "daily") /\ m["weekly"] = getAttendanceWindow(a, "weekly")
      /\ m["monthly"] = getAttendanceWindow(a, "monthly")
  BY <1>3 DEF Windows
<1> QED
  BY <1>2, <1>4, WindowsNest DEF Nested

\* Whatever is read, the score is sound.
LEMMA ScoresSound == DashboardsTypeOK => ScoreSound
<1> SUFFICES ASSUME DashboardsTypeOK, NEW m \in Reports
             PROVE  LET off == m.activeUsers30d > m.users \/ m.publishedSchedules > m.schedules
                        missing == "attendance_data_missing" \in buildSchoolFlags(m)
                    IN /\ healthScore(m) >= 0
                       /\ healthScore(m) > 100 => off
                       /\ missing /\ healthLevel(m) = "healthy" => off \/ ~Nested(m)
                       /\ missing /\ Nested(m) => "low_daily_attendance" \in buildSchoolFlags(m)
                       /\ (\A school \in seen : school.attendance = figures.attendance) => Nested(m)
  BY DEF ScoreSound
<1>1. PICK off, missing :
         /\ off = (m.activeUsers30d > m.users \/ m.publishedSchedules > m.schedules)
         /\ missing = ("attendance_data_missing" \in buildSchoolFlags(m))
  OBVIOUS
<1>2. FiguresTyped(m)
  BY ReportsTyped
<1>3. (\A school \in seen : school.attendance = figures.attendance) => Nested(m)
  BY SettledNests
<1>4. PICK h : h = healthScore(m)
  OBVIOUS
<1>5. /\ h \in Int /\ 0 <= h
      /\ m.activeUsers30d <= m.users /\ m.publishedSchedules <= m.schedules =>
            h <= 100 /\ (Nested(m) /\ m["monthly"].total = 0 => h <= 65)
  BY <1>2, <1>4, HealthScored
<1>6. \A k \in {"activeUsers30d", "users", "publishedSchedules", "schedules"} : m[k] \in Nat
  BY <1>2 DEF FiguresTyped, Metrics
<1>7. ~off => m.activeUsers30d <= m.users /\ m.publishedSchedules <= m.schedules
  <2>1. PICK a, u, q, s \in Nat : a = m.activeUsers30d /\ u = m.users
                              /\ q = m.publishedSchedules /\ s = m.schedules
    BY <1>6
  <2>2. ~off => ~(a > u) /\ ~(q > s)
    BY <1>1, <2>1, Zenon
  <2> QED
    BY <2>1, <2>2
<1>8. missing => m["monthly"].total = 0
  BY <1>1, ZenonT(60) DEF buildSchoolFlags
<1>9. h > 100 => off
  BY <1>5, <1>7
<1>10. missing /\ Nested(m) /\ ~off => healthLevel(m) # "healthy"
  <2> SUFFICES ASSUME missing, Nested(m), ~off PROVE healthLevel(m) # "healthy"
    OBVIOUS
  <2>1. h <= 65
    BY <1>5, <1>7, <1>8
  <2> QED
    BY <1>4, <1>5, <2>1 DEF healthLevel
<1>11. missing /\ Nested(m) => "low_daily_attendance" \in buildSchoolFlags(m)
  <2> SUFFICES ASSUME missing, Nested(m) PROVE "low_daily_attendance" \in buildSchoolFlags(m)
    OBVIOUS
  <2>1. rate(m["daily"]) = 0
    BY <1>2, <1>8, AttendanceScored
  <2> QED
    BY <2>1 DEF buildSchoolFlags
<1> QED
  BY <1>1, <1>3, <1>4, <1>5, <1>9, <1>10, <1>11

\* Each of two schools is under one level.
LEMMA LevelsAddUp ==
  ASSUME NEW m, NEW x
  PROVE  SumOf(dashboard(m, x).levels) = 2
<1> DEFINE level(i) == healthLevel(IF i = 1 THEN m ELSE x)
           levels == {"healthy", "attention", "risk"}
           share == [l \in levels |-> {i \in {1, 2} : level(i) = l}]
<1>1. PICK f : f = dashboard(m, x).levels
  OBVIOUS
<1>2. f = [l \in levels |-> Cardinality({i \in {1, 2} : level(i) = l})]
  BY <1>1 DEF dashboard
<1>3. \A i \in {1, 2} : level(i) \in levels
  <2>1. \A y : healthLevel(y) \in levels
    BY DEF healthLevel
  <2> QED
    BY <2>1
<1>4. IsFiniteSet({1, 2}) /\ Cardinality({1, 2}) = 2
  <2>1. IsFiniteSet({1}) /\ Cardinality({1}) = 1
    BY FS_Singleton
  <2>2. IsFiniteSet({1} \cup {2}) /\ Cardinality({1} \cup {2}) = 1 + 1
    <3>1. 2 \notin {1}
      OBVIOUS
    <3> QED
      BY <2>1, <3>1, FS_AddElement
  <2>3. {1, 2} = {1} \cup {2}
    OBVIOUS
  <2> QED
    BY <2>2, <2>3
<1>5. /\ DOMAIN f = levels
      /\ \A l \in levels : share[l] \subseteq {1, 2} /\ f[l] = Cardinality(share[l])
      /\ \A i \in {1, 2} : \E l \in levels : i \in share[l]
      /\ \A l, k \in levels : l # k => share[l] \cap share[k] = {}
  BY <1>2, <1>3
<1> HIDE DEF share, levels
<1>6. SumOf(f) = Cardinality({1, 2})
  BY <1>4, <1>5, SumOfParts
<1> QED
  BY <1>1, <1>4, <1>6

\* The rate of two windows with marks is between their rates: it is rounded of the mediant of two
\* fractions.
LEMMA MergedBetween ==
  ASSUME NEW v, NEW w, WindowOK(v), WindowOK(w), v.total > 0, w.total > 0
  PROVE  LET r == rate(mergeAttendanceWindows(v, w)) IN
         /\ r \in Int
         /\ rate(v) <= r \/ rate(w) <= r
         /\ r <= rate(v) \/ r <= rate(w)
<1>1. PICK a, b, t, u : a = v.attended /\ b = w.attended /\ t = v.total /\ u = w.total
  OBVIOUS
<1>2. a \in Nat /\ b \in Nat /\ t \in Nat /\ u \in Nat /\ t > 0 /\ u > 0
  BY <1>1 DEF WindowOK
<1>3. PICK x \in Int : x = rounded(1000 * a, t) /\ (2 * t) * x <= 2 * (1000 * a) + t
                       /\ 2 * (1000 * a) + t < (2 * t) * x + 2 * t
  BY <1>2, RoundedBounds
<1>4. PICK y \in Int : y = rounded(1000 * b, u) /\ (2 * u) * y <= 2 * (1000 * b) + u
                       /\ 2 * (1000 * b) + u < (2 * u) * y + 2 * u
  BY <1>2, RoundedBounds
<1>5. PICK z \in Int : z = rounded(1000 * (a + b), t + u)
                       /\ (2 * (t + u)) * z <= 2 * (1000 * (a + b)) + (t + u)
                       /\ 2 * (1000 * (a + b)) + (t + u) < (2 * (t + u)) * z + 2 * (t + u)
  BY <1>2, RoundedBounds
<1>6. x <= z \/ y <= z
  <2> SUFFICES ASSUME z + 1 <= x, z + 1 <= y PROVE FALSE
    OBVIOUS
  <2>1. t * (z + 1) <= t * x /\ u * (z + 1) <= u * y
    BY <1>2, TimesMonotone
  <2> QED
    BY <1>2, <1>3, <1>4, <1>5, <2>1
<1>7. z <= x \/ z <= y
  <2> SUFFICES ASSUME x + 1 <= z, y + 1 <= z PROVE FALSE
    OBVIOUS
  <2>1. t * (x + 1) <= t * z /\ u * (y + 1) <= u * z
    BY <1>2, TimesMonotone
  <2> QED
    BY <1>2, <1>3, <1>4, <1>5, <2>1
<1>8. x = rate(v) /\ y = rate(w)
  BY <1>1, <1>2, <1>3, <1>4 DEF rate
<1>9. z = rate(mergeAttendanceWindows(v, w))
  <2>1. PICK m : m = mergeAttendanceWindows(v, w)
    OBVIOUS
  <2>2. m.attended = a + b /\ m.total = t + u
    BY <1>1, <2>1 DEF mergeAttendanceWindows
  <2> QED
    BY <1>2, <1>5, <2>1, <2>2 DEF rate
<1> QED
  BY <1>6, <1>7, <1>8, <1>9

\* With a window without marks it is the other's rate.
LEMMA MergedWithNone ==
  ASSUME NEW v, NEW w, WindowOK(v), WindowOK(w), v.total = 0 \/ w.total = 0
  PROVE  rate(mergeAttendanceWindows(v, w)) = rate(IF v.total = 0 THEN w ELSE v)
<1>1. PICK m, x : m = mergeAttendanceWindows(v, w) /\ x = (IF v.total = 0 THEN w ELSE v)
  OBVIOUS
<1>2. m.attended = x.attended /\ m.total = x.total
  BY <1>1 DEF mergeAttendanceWindows, WindowOK
<1> QED
  BY <1>1, <1>2 DEF rate

\* What SummarySound says of the rate r of two windows.
BetweenRates(v, w, r) ==
    LET rates == {rate(x) : x \in {y \in {v, w} : y.total > 0}} IN
    IF rates = {} THEN r = 0 ELSE r \in Min(rates)..Max(rates)

\* So it is between the rates of the windows that have marks.
LEMMA MergedRate ==
  ASSUME NEW v, NEW w, WindowOK(v), WindowOK(w)
  PROVE  BetweenRates(v, w, rate(mergeAttendanceWindows(v, w)))
<1> DEFINE rates == {rate(x) : x \in {y \in {v, w} : y.total > 0}}
<1>1. PICK r : r = rate(mergeAttendanceWindows(v, w))
  OBVIOUS
<1>2. rate(v) \in Int /\ rate(w) \in Int /\ v.total \in Nat /\ w.total \in Nat
  BY RateInRange DEF WindowOK
<1>3. CASE v.total > 0 /\ w.total > 0
  <2>1. rates = {rate(v), rate(w)}
    BY <1>3
  <2>2. r \in Int /\ (rate(v) <= r \/ rate(w) <= r) /\ (r <= rate(v) \/ r <= rate(w))
    BY <1>1, <1>3, MergedBetween
  <2>3. r \in Min({rate(v), rate(w)})..Max({rate(v), rate(w)})
    BY <1>2, <2>2, GreaterOfTwo
  <2> QED
    BY <1>1, <2>1, <2>3 DEF BetweenRates
<1>4. CASE v.total = 0 /\ w.total = 0
  <2>1. rates = {}
    BY <1>4
  <2>2. r = rate(w) /\ rate(w) = 0
    BY <1>1, <1>4, MergedWithNone DEF rate
  <2> QED
    BY <1>1, <2>1, <2>2 DEF BetweenRates
<1>5. ASSUME NEW x, x = (IF v.total = 0 THEN w ELSE v), x.total > 0, v.total = 0 \/ w.total = 0
      PROVE  BetweenRates(v, w, r)
  <2>1. rates = {rate(x)}
    BY <1>5
  <2>2. r = rate(x) /\ rate(x) \in Int
    BY <1>1, <1>2, <1>5, MergedWithNone
  <2>3. Min({rate(x)}) = rate(x) /\ Max({rate(x)}) = rate(x)
    BY <2>2 DEF Min, Max
  <2>4. r \in Min({rate(x)})..Max({rate(x)})
    BY <2>2, <2>3
  <2> QED
    BY <2>1, <2>4 DEF BetweenRates
<1> QED
  BY <1>1, <1>2, <1>3, <1>4, <1>5

\* The summary of two schools is sound.
LEMMA SummariesSound == DashboardsTypeOK => SummarySound
<1> SUFFICES ASSUME DashboardsTypeOK, NEW m \in Reports, NEW x \in Reports
             PROVE  LET sum == dashboard(m, x) IN
                    /\ SumOf(sum.levels) = sum.schools
                    /\ \A window \in Windows :
                          BetweenRates(m[window], x[window], rate(sum.attendance[window]))
  BY DEF SummarySound, BetweenRates
<1>1. PICK sum : sum = dashboard(m, x)
  OBVIOUS
<1>2. SumOf(sum.levels) = sum.schools
  BY <1>1, LevelsAddUp DEF dashboard
<1>3. \A window \in Windows : WindowOK(m[window]) /\ WindowOK(x[window])
  BY ReportsTyped DEF FiguresTyped
<1>4. sum.attendance = [window \in Windows |-> mergeAttendanceWindows(m[window], x[window])]
  BY <1>1 DEF dashboard
<1>5. \A window \in Windows : BetweenRates(m[window], x[window], rate(sum.attendance[window]))
  BY <1>3, <1>4, MergedRate
<1> QED
  BY <1>1, <1>2, <1>5

\* Both, for any figures of the right type.
LEMMA DashboardsImply == DashboardsTypeOK => DashboardSound
  BY ScoresSound, SummariesSound DEF DashboardSound

\* The foundation's dashboard, each figure and each window of the attendance counted by itself: no
\* score is negative, or over 100 but where two counts saw different schools; a school without marks
\* is not healthy, unless marks were saved between its windows; the sums are those of the schools
\* (NetworksService).
THEOREM DashboardsStaySound == DashboardsSpec => []DashboardSound
  BY DashboardsBegin, DashboardsStep, DashboardsImply, PTL DEF DashboardsSpec

-----------------------------------------------------------------------------
(* Seeds: fixtures *)

\* How the tables of the seeds are looked up and indexed: an upsert goes by an index over all rows,
\* a removed row is revived only where the index has it too, and a changed row keeps a key only
\* where the index is over the live ones or there is a second key.
SoundTable(t) ==
    /\ t.look \in {"live", "stored", "upsert"} /\ t.index \in {"live", "all", "none"}
    /\ t.found \in {"keep", "correct", "revive"}
    /\ t.look = "upsert" => t.index = "all"
    /\ t.index # "all" => t.found # "revive"
    /\ "kept" \in t.edits => t.index = "live" \/ "taken" \in t.edits
    /\ "taken" \in t.edits => t.index = "all" /\ "past" \notin t.edits

\* The live rows in which the seed sees its fixture.
Fixtures == {r \in RowIds : LiveRow(r) /\ rows[r].edited \in SeenEdits}

\* The rows that have the key that the seed looks for.
FirstHolders == {r \in KeyHolders : rows[r].edited \in SeenEdits}

\* The rows are told apart by the index; without one, by the seed, if it is alone.
ApartByKey ==
    /\ \A r, s \in FirstHolders : r = s
    /\ ~overlapped => \A r, s \in Matching : r = s

\* Only the school removes or changes a row, and only as its table allows; and the day turns.
SchoolsRows ==
    /\ \A r \in RowIds : StoredRow(r) =>
          /\ rows[r].edited = "kept" => table.index = "live" \/ HasSecondKey
          /\ rows[r].edited = "past" => "past" \in table.edits
    /\ ~touched => \A r \in RowIds : StoredRow(r) => ~rows[r].removed /\ rows[r].edited \in {"no", "past"}

\* What a run has found stays so while it is alone: no row of the key where it found none, and the
\* row where it found one.
FixtureRead(w) ==
    req[w] # NoRequest =>
        /\ req[w].step = "look" => req[w].row = NoRow
        /\ req[w].row # NoRow /\ ~touched => StoredRow(req[w].row)
        /\ ~overlapped =>
              /\ \A v \in Workers : req[v] # NoRequest => v = w
              /\ req[w].step = "write" =>
                    IF req[w].row = NoRow THEN Matching = {} ELSE req[w].row \in Matching

\* Every failure has its cause: another run, a removed row or a changed one.
FailuresExplained ==
    /\ ~overlapped => "overtaken" \notin failures
    /\ ~touched => failures \subseteq {"overtaken"}
    /\ "removed" \in failures => overlapped \/ (table.look = "live" /\ table.index = "all")
    /\ "edited" \in failures => table.index = "live" \/ HasSecondKey

\* A run that came past leaves a live fixture, unless it keeps a removed row as it is.
RunLeaves ==
    ran /\ ~overlapped => Fixtures # {} \/ (table.look # "live" /\ table.found # "revive")

\* The inductive invariant of SampleData.
SampleInv ==
    /\ SampleTypeOK /\ SoundTable(table)
    /\ ApartByKey /\ SchoolsRows /\ FailuresExplained /\ RunLeaves
    /\ \A w \in Workers : FixtureRead(w)

\* The tables of all the phases are like that.
LEMMA TablesSound == \A t \in Tables : SoundTable(t)
<1> SUFFICES ASSUME NEW phase \in Phases, NEW t \in DOMAIN phase PROVE SoundTable(phase[t])
  BY DEF Tables
<1> USE DEF SoundTable, Table, Users, Staff, Profile
<1>1. CASE phase = FeatureStart
  BY <1>1 DEF FeatureStart
<1>2. CASE phase = FeatureClasses
  BY <1>2 DEF FeatureClasses
<1>3. CASE phase = FeaturePupils
  BY <1>3 DEF FeaturePupils
<1>4. CASE phase = FeatureTimetable
  BY <1>4 DEF FeatureTimetable
<1>5. CASE phase = FeatureMarks
  BY <1>5 DEF FeatureMarks
<1>6. CASE phase = SchoolStart
  BY <1>6 DEF SchoolStart, FeatureStart
<1>7. CASE phase = SchoolClasses
  BY <1>7 DEF SchoolClasses
<1>8. CASE phase = SchoolPupils
  BY <1>8 DEF SchoolPupils
<1>9. CASE phase = SchoolWorks
  BY <1>9 DEF SchoolWorks
<1>10. CASE phase = SchoolTimetable
  BY <1>10 DEF SchoolTimetable
<1>11. CASE phase = SchoolMarks
  BY <1>11 DEF SchoolMarks
<1>12. CASE phase = DemoStart
  BY <1>12 DEF DemoStart, SchoolStart
<1>13. CASE phase = DemoTeachers
  BY <1>13 DEF DemoTeachers, SchoolStart, SchoolClasses
<1>14. CASE phase = DemoPupils
  BY <1>14 DEF DemoPupils, SchoolPupils
<1>15. CASE phase = DemoWorks
  BY <1>15 DEF DemoWorks, SchoolWorks
<1>16. CASE phase = DemoTimetable
  BY <1>16 DEF DemoTimetable, SchoolTimetable, FeatureStart
<1> QED
  BY <1>1, <1>2, <1>3, <1>4, <1>5, <1>6, <1>7, <1>8, <1>9, <1>10, <1>11, <1>12, <1>13, <1>14,
     <1>15, <1>16 DEF Phases

\* The fields of a run and of a row.
LEMMA SampleFields ==
  ASSUME SampleTypeOK
  PROVE  /\ DOMAIN req = Workers /\ DOMAIN rows = RowIds
         /\ \A w \in Workers : req[w] # NoRequest =>
               /\ req[w] \in SeedRequest /\ req[w].op = "seed"
               /\ req[w].step \in {"look", "write"} /\ req[w].row \in RowIds \cup {NoRow}
         /\ \A r \in RowIds : StoredRow(r) =>
               /\ rows[r] \in SampleRow /\ rows[r].removed \in BOOLEAN
               /\ rows[r].edited \in {"no", "unkeyed", "freed", "kept", "past"}
         /\ NoRow \notin RowIds /\ NoRow \notin SampleRow /\ NoRequest \notin SeedRequest
<1>1. ASSUME NEW w \in Workers, req[w] # NoRequest PROVE req[w] \in SeedRequest
  BY <1>1 DEF SampleTypeOK
<1>2. ASSUME NEW r \in RowIds, StoredRow(r) PROVE rows[r] \in SampleRow
  BY <1>2 DEF SampleTypeOK, StoredRow
<1> QED
  BY <1>1, <1>2, SampleDataAssumption DEF SampleTypeOK, SeedRequest, SampleRow

\* No row and no run at the start, for every table.
LEMMA SampleBegins == SampleInit => SampleInv
<1> SUFFICES ASSUME SampleInit PROVE SampleInv
  OBVIOUS
<1>1. SampleTypeOK
  BY DEF SampleInit, SampleTypeOK, Idle
<1>2. \A r \in RowIds : ~StoredRow(r)
  BY DEF SampleInit, StoredRow
<1>3. SoundTable(table)
  BY TablesSound DEF SampleInit
<1>4. KeyHolders = {} /\ Matching = {}
  BY <1>2 DEF KeyHolders, Matching
<1>5. FirstHolders = {}
  BY <1>4 DEF FirstHolders
<1> QED
  BY <1>1, <1>2, <1>3, <1>4, <1>5
     DEF SampleInit, SampleInv, ApartByKey, SchoolsRows, FailuresExplained, RunLeaves, FixtureRead, Idle

\* The run is over with this fixture, and no row was deleted.
LEMMA SeedEnds ==
  ASSUME SampleInv, NEW w \in Workers, req[w] # NoRequest, Done(w),
         UNCHANGED <<table, overlapped, touched>>,
         \A r \in RowIds : StoredRow(r) => StoredRow(r)'
  PROVE  \A v \in Workers : FixtureRead(v)'
<1> SUFFICES ASSUME NEW v \in Workers PROVE FixtureRead(v)'
  OBVIOUS
<1>t. SampleTypeOK /\ FixtureRead(v)
  BY DEF SampleInv
<1>1. \A x \in Workers : req'[x] = IF x = w THEN NoRequest ELSE req[x]
  BY <1>t, SampleFields DEF Done
<1>2. CASE v = w \/ req[v] = NoRequest
  BY <1>1, <1>2 DEF FixtureRead
<1>3. CASE v # w /\ req[v] # NoRequest
  <2>1. overlapped'
    BY <1>3, <1>t DEF FixtureRead, SampleInv
  <2>2. PICK r : r = req[v].row
    OBVIOUS
  <2>3. r # NoRow /\ ~touched => StoredRow(r)'
    BY <1>t, <1>3, <2>2, SampleFields DEF FixtureRead
  <2> QED
    BY <1>1, <1>3, <1>t, <2>1, <2>2, <2>3 DEF FixtureRead, StoredRow
<1> QED
  BY <1>2, <1>3

\* The run stops, and has written nothing.
LEMMA StopKeeps ==
  ASSUME SampleInv, NEW w \in Workers, NEW why \in SUBSET {"removed", "edited", "overtaken", "gone"},
         req[w] # NoRequest, Stop(w, why), UNCHANGED <<table, overlapped, touched>>,
         ~overlapped => "overtaken" \notin why,
         ~touched => why \subseteq {"overtaken"},
         "removed" \in why => overlapped \/ (table.look = "live" /\ table.index = "all"),
         "edited" \in why => table.index = "live" \/ HasSecondKey
  PROVE  SampleInv'
<1>1. failures' = failures \cup why /\ Done(w) /\ UNCHANGED <<rows, ran>>
  BY DEF Stop
<1>2. SampleTypeOK'
  BY <1>1 DEF SampleInv, SampleTypeOK, Done
<1>3. FailuresExplained'
  BY <1>1 DEF SampleInv, FailuresExplained, HasSecondKey
<1>4. \A v \in Workers : FixtureRead(v)'
  BY <1>1, SeedEnds DEF StoredRow
<1> QED
  BY <1>1, <1>2, <1>3, <1>4 DEF SampleInv, ApartByKey, SchoolsRows, RunLeaves, FirstHolders, KeyHolders,
                                Matching, Fixtures, LiveRow, StoredRow, HasSecondKey

\* A row that was found is kept, corrected or revived.
LEMMA WriteFoundKeeps ==
  ASSUME SampleInv, NEW w \in Workers, NEW r \in RowIds, req[w] # NoRequest, StoredRow(r),
         ~overlapped => r \in Matching, WriteFound(w, r), UNCHANGED <<table, overlapped, touched>>
  PROVE  SampleInv'
<1>t. SampleTypeOK /\ SoundTable(table)
  BY DEF SampleInv
<1> DEFINE again == HasSecondKey /\ table.found = "correct"
<1>s. CASE again /\ SecondKeyHolders \ {r} # {}
  <2>1. Stop(w, {"edited"}) /\ HasSecondKey
    BY <1>s DEF WriteFound
  <2>2. PICK x \in RowIds : x # r /\ StoredRow(x) /\ rows[x].edited \in {"no", "kept"}
    BY <1>s DEF SecondKeyHolders
  <2>3. ASSUME ~touched PROVE FALSE
    <3>1. rows[x].edited = "no" /\ rows[r].edited = "no" /\ ~rows[x].removed /\ ~rows[r].removed
      BY <1>t, <2>1, <2>2, <2>3 DEF SampleInv, SchoolsRows, SoundTable, HasSecondKey
    <3>2. table.index = "all"
      BY <1>t, <2>1 DEF SoundTable, HasSecondKey
    <3>3. x \in FirstHolders /\ r \in FirstHolders
      BY <2>2, <3>1, <3>2 DEF FirstHolders, KeyHolders, SeenEdits
    <3> QED
      BY <2>2, <3>3 DEF SampleInv, ApartByKey
  <2> QED
    BY <2>1, <2>3, StopKeeps
<1>e. CASE ~(again /\ SecondKeyHolders \ {r} # {})
  <2> DEFINE y == [rows[r] EXCEPT
                      !.removed = table.found # "revive" /\ @,
                      !.edited = CASE again /\ @ = "unkeyed" -> "no"
                                   [] again /\ @ = "freed" -> "kept"
                                   [] OTHER -> @]
  <2>1. rows' = [rows EXCEPT ![r] = y] /\ ran' = TRUE /\ Done(w) /\ UNCHANGED failures
    <3>1. Passed(w) /\ rows' = [rows EXCEPT
             ![r].removed = table.found # "revive" /\ @,
             ![r].edited = CASE again /\ @ = "unkeyed" -> "no"
                             [] again /\ @ = "freed" -> "kept"
                             [] OTHER -> @]
      BY <1>e DEF WriteFound
    <3> QED
      BY <1>t, <3>1 DEF Passed, SampleTypeOK
  <2>2. /\ y \in SampleRow /\ y # NoRow
        /\ y.edited = rows[r].edited \/ (y.edited = "no" /\ rows[r].edited = "unkeyed")
             \/ (y.edited = "kept" /\ rows[r].edited = "freed" /\ HasSecondKey)
        /\ y.removed = (table.found # "revive" /\ rows[r].removed)
    <3>1. /\ rows[r] \in SampleRow /\ NoRow \notin SampleRow
          /\ rows[r].edited \in {"no", "unkeyed", "freed", "kept", "past"}
          /\ rows[r].removed \in BOOLEAN
      BY <1>t, SampleFields
    <3>2. PICK e : e = CASE again /\ rows[r].edited = "unkeyed" -> "no"
                         [] again /\ rows[r].edited = "freed" -> "kept"
                         [] OTHER -> rows[r].edited
      OBVIOUS
    <3>3. PICK b : b = (table.found # "revive" /\ rows[r].removed)
      OBVIOUS
    <3>4. /\ e = rows[r].edited \/ (e = "no" /\ rows[r].edited = "unkeyed")
                \/ (e = "kept" /\ rows[r].edited = "freed" /\ HasSecondKey)
          /\ e \in {"no", "unkeyed", "freed", "kept", "past"} /\ b \in BOOLEAN
      BY <3>1, <3>2, <3>3
    <3>5. y = [removed |-> b, edited |-> e]
      <4>1. y = [rows[r] EXCEPT !.removed = b, !.edited = e]
        BY <3>2, <3>3
      <4> HIDE DEF y
      <4> QED
        BY <3>1, <4>1 DEF SampleRow
    <3> HIDE DEF y
    <3>6. y \in SampleRow /\ y.edited = e /\ y.removed = b
      BY <3>4, <3>5 DEF SampleRow
    <3>7. y # NoRow
      BY <3>1, <3>6
    <3> QED
      BY <3>3, <3>4, <3>6, <3>7
  <2> HIDE DEF y, again
  <2>3. /\ rows' \in [RowIds -> SampleRow \cup {NoRow}]
        /\ \A x \in RowIds : x # r => rows'[x] = rows[x]
        /\ StoredRow(r)' /\ rows'[r] = y
    BY <1>t, <2>1, <2>2 DEF SampleTypeOK, StoredRow
  <2>4. SampleTypeOK'
    BY <1>t, <2>1, <2>3 DEF SampleTypeOK, Done
  <2>5. /\ rows'[r].edited \in SeenEdits <=> rows[r].edited \in SeenEdits
        /\ ~rows[r].removed => ~rows'[r].removed
        /\ table.found # "revive" => (rows'[r].removed <=> rows[r].removed)
        /\ table.found = "revive" => ~rows'[r].removed
    BY <2>2, <2>3 DEF SeenEdits
  <2>6. FirstHolders' = FirstHolders
    <3>0. table.found = "revive" => table.index = "all"
      BY <1>t DEF SoundTable
    <3>1. ASSUME NEW x \in RowIds PROVE x \in FirstHolders' <=> x \in FirstHolders
      <4>1. CASE x = r
        BY <2>3, <2>5, <3>0, <4>1 DEF FirstHolders, KeyHolders, LiveRow, StoredRow
      <4>2. CASE x # r
        BY <2>3, <4>2 DEF FirstHolders, KeyHolders, LiveRow, StoredRow
      <4> QED
        BY <4>1, <4>2
    <3> QED
      BY <3>1 DEF FirstHolders, KeyHolders
  <2>7. ~overlapped => (Matching' = Matching)
    BY <2>3, <2>5 DEF Matching, LiveRow, StoredRow
  <2>8. ApartByKey'
    BY <2>6, <2>7 DEF SampleInv, ApartByKey
  <2>9. SchoolsRows'
    <3>1. \A x \in RowIds : x # r => (StoredRow(x)' <=> StoredRow(x))
      BY <2>3 DEF StoredRow
    <3>2. /\ rows'[r].edited = "kept" => table.index = "live" \/ HasSecondKey
          /\ rows'[r].edited = "past" => "past" \in table.edits
          /\ ~touched => ~rows'[r].removed /\ rows'[r].edited \in {"no", "past"}
      BY <2>2, <2>3, <2>5 DEF SampleInv, SchoolsRows
    <3> QED
      BY <2>3, <3>1, <3>2 DEF SampleInv, SchoolsRows, HasSecondKey
  <2>10. FailuresExplained'
    BY <2>1 DEF SampleInv, FailuresExplained, HasSecondKey
  <2>11. ~overlapped => r \in Fixtures' \/ (table.look # "live" /\ table.found # "revive")
    BY <2>3, <2>5 DEF Matching, Fixtures, LiveRow, StoredRow
  <2>12. RunLeaves'
    BY <2>11 DEF RunLeaves
  <2>13. \A v \in Workers : FixtureRead(v)'
    BY <2>1, <2>3, SeedEnds DEF StoredRow
  <2> QED
    BY <1>t, <2>4, <2>8, <2>9, <2>10, <2>12, <2>13 DEF SampleInv
<1> QED
  BY <1>s, <1>e

\* A row is created where none was found; the index refuses a second one.
LEMMA CreateRowKeeps ==
  ASSUME SampleInv, NEW w \in Workers, req[w] # NoRequest, ~overlapped => Matching = {},
         CreateRow(w), UNCHANGED <<table, overlapped, touched>>
  PROVE  SampleInv'
<1>t. SampleTypeOK /\ SoundTable(table)
  BY DEF SampleInv
<1>1. CASE KeyHolders # {}
  <2> DEFINE Why(r) == IF rows[r].edited = "kept" THEN "edited"
                       ELSE IF rows[r].removed THEN "removed" ELSE "overtaken"
             why == {Why(r) : r \in KeyHolders}
  <2>1. Stop(w, why)
    BY <1>1 DEF CreateRow
  <2>2. ASSUME NEW r \in KeyHolders
        PROVE  /\ r \in RowIds /\ StoredRow(r) /\ table.index # "none" /\ rows[r].edited # "freed"
               /\ table.index = "live" => ~rows[r].removed
               /\ rows[r].edited \in {"no", "unkeyed", "kept"}
               /\ ~touched => ~rows[r].removed /\ rows[r].edited = "no"
               /\ rows[r].edited = "kept" => table.index = "live" \/ HasSecondKey
               /\ ~overlapped => r \notin Matching
    <3>1. /\ r \in RowIds /\ StoredRow(r) /\ table.index # "none" /\ rows[r].edited # "freed"
          /\ table.index = "live" => ~rows[r].removed
          /\ rows[r].edited \in {"no", "unkeyed", "kept"}
      BY DEF KeyHolders, LiveRow, SeenEdits
    <3>2. /\ ~touched => ~rows[r].removed /\ rows[r].edited = "no"
          /\ rows[r].edited = "kept" => table.index = "live" \/ HasSecondKey
      BY <3>1 DEF SampleInv, SchoolsRows
    <3> QED
      BY <3>1, <3>2
  <2>3. why \in SUBSET {"removed", "edited", "overtaken", "gone"}
    OBVIOUS
  <2>4. ~overlapped => "overtaken" \notin why
    <3> SUFFICES ASSUME ~overlapped, NEW r \in KeyHolders, Why(r) = "overtaken" PROVE FALSE
      OBVIOUS
    <3>1. rows[r].edited \in SeenEdits /\ ~rows[r].removed
      BY <2>2 DEF SeenEdits
    <3> QED
      BY <2>2, <3>1 DEF Matching, LiveRow
  <2>5. ~touched => why \subseteq {"overtaken"}
    BY <2>2
  <2>6. "removed" \in why => overlapped \/ (table.look = "live" /\ table.index = "all")
    <3> SUFFICES ASSUME ~overlapped, NEW r \in KeyHolders, Why(r) = "removed"
                 PROVE  table.look = "live" /\ table.index = "all"
      OBVIOUS
    <3>1. rows[r].edited \in SeenEdits /\ rows[r].removed
      BY <2>2 DEF SeenEdits
    <3>2. table.index = "all"
      BY <1>t, <2>2, <3>1 DEF SoundTable
    <3> QED
      BY <2>2, <3>1, <3>2 DEF Matching
  <2>7. "edited" \in why => table.index = "live" \/ HasSecondKey
    BY <2>2
  <2> HIDE DEF why
  <2> QED
    BY <2>1, <2>3, <2>4, <2>5, <2>6, <2>7, StopKeeps
<1>2. CASE KeyHolders = {}
  <2> DEFINE new == [removed |-> FALSE, edited |-> "no"]
  <2>1. PICK n : n = AnyOf({x \in RowIds : ~StoredRow(x)})
    OBVIOUS
  <2>2. /\ n \in RowIds /\ ~StoredRow(n) /\ rows' = [rows EXCEPT ![n] = new]
        /\ ran' = TRUE /\ Done(w) /\ UNCHANGED failures
    BY <1>2, <2>1, AnyOfIn DEF CreateRow, Passed
  <2>3. new \in SampleRow /\ ~new.removed /\ new.edited = "no"
    BY DEF SampleRow
  <2> HIDE DEF new
  <2>4. /\ rows' \in [RowIds -> SampleRow \cup {NoRow}]
        /\ \A x \in RowIds : x # n => rows'[x] = rows[x]
        /\ StoredRow(n)' /\ ~rows'[n].removed /\ rows'[n].edited = "no"
    BY <1>t, <2>2, <2>3, SampleFields DEF SampleTypeOK, StoredRow
  <2>5. SampleTypeOK'
    BY <1>t, <2>2, <2>4 DEF SampleTypeOK, Done
  <2>6. FirstHolders' \subseteq {n}
    BY <1>2, <2>4 DEF FirstHolders, KeyHolders, LiveRow, StoredRow
  <2>7. ~overlapped => Matching' \subseteq {n}
    BY <2>4 DEF Matching, LiveRow, StoredRow
  <2>8. ApartByKey'
    BY <2>6, <2>7 DEF ApartByKey
  <2>9. SchoolsRows'
    BY <2>4 DEF SampleInv, SchoolsRows, StoredRow, HasSecondKey
  <2>10. FailuresExplained'
    BY <2>2 DEF SampleInv, FailuresExplained, HasSecondKey
  <2>11. n \in Fixtures'
    BY <2>2, <2>4 DEF Fixtures, LiveRow, SeenEdits
  <2>12. \A v \in Workers : FixtureRead(v)'
    BY <2>2, <2>4, SeedEnds DEF StoredRow
  <2> QED
    BY <1>t, <2>5, <2>8, <2>9, <2>10, <2>11, <2>12 DEF SampleInv, RunLeaves
<1> QED
  BY <1>1, <1>2
\* A run begins, beside others or alone.
LEMMA BeginSeedKeeps ==
  ASSUME SampleInv, NEW w \in Workers, BeginSeed(w)
  PROVE  SampleInv'
<1> DEFINE q == [op |-> "seed", step |-> "look", row |-> NoRow]
<1>t. SampleTypeOK
  BY DEF SampleInv
<1>1. q \in SeedRequest /\ q.step = "look" /\ q.row = NoRow
  BY DEF SeedRequest
<1>2. /\ req[w] = NoRequest /\ req' = [req EXCEPT ![w] = q]
      /\ overlapped' = (overlapped \/ Others(w) # {})
      /\ UNCHANGED <<table, rows, ran, touched, failures>>
  BY DEF BeginSeed, Begin
<1> HIDE DEF q
<1>3. SampleTypeOK'
  BY <1>t, <1>1, <1>2 DEF SampleTypeOK
<1>4. \A v \in Workers : req'[v] = IF v = w THEN q ELSE req[v]
  BY <1>t, <1>2, SampleFields
<1>5. ~overlapped' => ~overlapped /\ \A v \in Workers \ {w} : req[v] = NoRequest
  BY <1>2 DEF Others
<1>6. ASSUME NEW v \in Workers PROVE FixtureRead(v)'
  <2>1. CASE v = w
    BY <1>1, <1>4, <1>5, <2>1 DEF FixtureRead
  <2>2. CASE v # w
    <3>1. FixtureRead(v)
      BY DEF SampleInv
    <3> QED
      BY <1>2, <1>4, <1>5, <2>2, <3>1 DEF FixtureRead, StoredRow
  <2> QED
    BY <2>1, <2>2
<1>7. ApartByKey' /\ SchoolsRows' /\ FailuresExplained' /\ RunLeaves'
  BY <1>2, <1>5 DEF SampleInv, ApartByKey, SchoolsRows, FailuresExplained, RunLeaves, FirstHolders,
                    KeyHolders, Matching, Fixtures, LiveRow, StoredRow, HasSecondKey
<1> QED
  BY <1>2, <1>3, <1>6, <1>7 DEF SampleInv

\* The run looks for its row.
LEMMA LookKeeps ==
  ASSUME SampleInv, NEW w \in Workers, Look(w)
  PROVE  SampleInv'
<1>t. SampleTypeOK /\ FixtureRead(w)
  BY DEF SampleInv
<1>1. /\ req[w] # NoRequest /\ req[w].step = "look"
      /\ UNCHANGED <<table, rows, ran, overlapped, touched, failures>>
  BY DEF Look, At
<1>2. PICK r \in RowIds \cup {NoRow} :
         /\ req' = [req EXCEPT ![w] = [op |-> "seed", step |-> "write", row |-> r]]
         /\ IF r = NoRow THEN Matching = {} ELSE r \in Matching
  <2>1. req[w] \in SeedRequest /\ req[w].row = NoRow /\ NoRow \notin RowIds
    BY <1>t, <1>1, SampleFields DEF FixtureRead
  <2>2. CASE Matching = {}
    <3>1. req' = [req EXCEPT ![w] = [req[w] EXCEPT !.step = "write"]]
      BY <2>2 DEF Look, Goto
    <3>2. [req[w] EXCEPT !.step = "write"] = [op |-> "seed", step |-> "write", row |-> NoRow]
      BY <2>1 DEF SeedRequest
    <3> QED
      BY <2>2, <3>1, <3>2
  <2>3. CASE Matching # {}
    <3>1. PICK r \in Matching : req' = [req EXCEPT ![w].step = "write", ![w].row = r]
      BY <2>3 DEF Look
    <3>2. r \in RowIds
      BY DEF Matching
    <3>3. req' = [req EXCEPT ![w] = [[req[w] EXCEPT !.step = "write"] EXCEPT !.row = r]]
      BY <1>t, <3>1 DEF SampleTypeOK
    <3>4. [[req[w] EXCEPT !.step = "write"] EXCEPT !.row = r]
             = [op |-> "seed", step |-> "write", row |-> r]
      <4>1. PICK y : y = [req[w] EXCEPT !.step = "write"]
        OBVIOUS
      <4>2. y = [op |-> "seed", step |-> "write", row |-> NoRow]
        BY <2>1, <4>1 DEF SeedRequest
      <4>3. [y EXCEPT !.row = r] = [op |-> "seed", step |-> "write", row |-> r]
        BY <4>2
      <4> QED
        BY <4>1, <4>3
    <3> QED
      BY <2>1, <3>2, <3>3, <3>4
  <2> QED
    BY <2>2, <2>3
<1> DEFINE q == [op |-> "seed", step |-> "write", row |-> r]
<1>3. q \in SeedRequest /\ q.step = "write" /\ q.row = r /\ req' = [req EXCEPT ![w] = q]
  BY <1>2 DEF SeedRequest
<1> HIDE DEF q
<1>4. SampleTypeOK'
  BY <1>t, <1>1, <1>3 DEF SampleTypeOK
<1>5. \A v \in Workers : req'[v] = IF v = w THEN q ELSE req[v]
  BY <1>t, <1>3, SampleFields
<1>6. UNCHANGED <<Matching, FirstHolders, Fixtures, HasSecondKey>>
  BY <1>1 DEF HasSecondKey, FirstHolders, KeyHolders, Matching, Fixtures, LiveRow, StoredRow
<1>7. ASSUME NEW v \in Workers PROVE FixtureRead(v)'
  <2>0. FixtureRead(v)
    BY DEF SampleInv
  <2>1. CASE v = w
    <3>1. ~overlapped => \A x \in Workers : req'[x] # NoRequest => x = w
      BY <1>t, <1>1, <1>5 DEF FixtureRead
    <3>2. r # NoRow => StoredRow(r)
      BY <1>2 DEF Matching
    <3> QED
      BY <1>1, <1>2, <1>3, <1>5, <1>6, <2>1, <3>1, <3>2 DEF FixtureRead, StoredRow
  <2>2. CASE v # w /\ req[v] # NoRequest
    <3>1. overlapped
      BY <1>1, <2>0, <2>2 DEF FixtureRead
    <3> QED
      BY <1>1, <1>5, <2>0, <2>2, <3>1 DEF FixtureRead, StoredRow
  <2>3. CASE v # w /\ req[v] = NoRequest
    BY <1>5, <2>3 DEF FixtureRead
  <2> QED
    BY <2>1, <2>2, <2>3
<1>8. ApartByKey' /\ SchoolsRows' /\ FailuresExplained' /\ RunLeaves'
  BY <1>1, <1>6 DEF SampleInv, ApartByKey, SchoolsRows, FailuresExplained, RunLeaves, StoredRow
<1> QED
  BY <1>1, <1>4, <1>7, <1>8 DEF SampleInv

\* The run writes what it decided on when it looked.
LEMMA WriteFixtureKeeps ==
  ASSUME SampleInv, NEW w \in Workers, WriteFixture(w)
  PROVE  SampleInv'
<1>t. SampleTypeOK /\ FixtureRead(w)
  BY DEF SampleInv
<1>q. PICK r : r = req[w].row
  OBVIOUS
<1>1. /\ req[w] # NoRequest /\ req[w].step = "write" /\ r \in RowIds \cup {NoRow}
      /\ UNCHANGED <<table, overlapped, touched>>
  BY <1>t, <1>q, SampleFields DEF WriteFixture, At
<1>2. /\ ~overlapped => IF r = NoRow THEN Matching = {} ELSE r \in Matching
      /\ r # NoRow /\ ~touched => StoredRow(r)
  BY <1>t, <1>1, <1>q DEF FixtureRead
<1>3. CASE r = NoRow
  <2>1. CreateRow(w)
    BY <1>3, <1>q DEF WriteFixture
  <2> QED
    BY <1>1, <1>2, <1>3, <2>1, CreateRowKeeps
<1>4. CASE r # NoRow /\ StoredRow(r)
  <2>1. WriteFound(w, r)
    BY <1>4, <1>q DEF WriteFixture
  <2> QED
    BY <1>1, <1>2, <1>4, <2>1, WriteFoundKeeps
<1>5. CASE r # NoRow /\ ~StoredRow(r)
  <2>1. IF table.found = "keep" THEN Passed(w) /\ UNCHANGED rows ELSE Stop(w, {"gone"})
    BY <1>5, <1>q DEF WriteFixture
  <2>2. overlapped /\ touched
    BY <1>2, <1>5 DEF Matching
  <2>3. CASE Stop(w, {"gone"})
    BY <1>1, <2>2, <2>3, StopKeeps
  <2>4. CASE Passed(w) /\ UNCHANGED rows
    <3>1. ran' = TRUE /\ Done(w) /\ UNCHANGED <<rows, failures>>
      BY <2>4 DEF Passed
    <3>2. SampleTypeOK'
      BY <1>t, <1>1, <3>1 DEF SampleTypeOK, Done
    <3>3. \A v \in Workers : FixtureRead(v)'
      BY <1>1, <3>1, SeedEnds DEF StoredRow
    <3> QED
      BY <1>1, <2>2, <3>1, <3>2, <3>3
         DEF SampleInv, ApartByKey, SchoolsRows, FailuresExplained, RunLeaves, FirstHolders, KeyHolders,
             Matching, LiveRow, StoredRow, HasSecondKey
  <2> QED
    BY <2>1, <2>3, <2>4
<1> QED
  BY <1>3, <1>4, <1>5

\* An upsert looks and writes at once.
LEMMA UpsertFixtureKeeps ==
  ASSUME SampleInv, NEW w \in Workers, UpsertFixture(w)
  PROVE  SampleInv'
<1>1. req[w] # NoRequest /\ UNCHANGED <<table, overlapped, touched>>
  BY DEF UpsertFixture, At
<1>2. CASE Matching = {}
  BY <1>1, <1>2, CreateRowKeeps DEF UpsertFixture
<1>3. ASSUME NEW r \in Matching, WriteFound(w, r) PROVE SampleInv'
  <2>1. r \in RowIds /\ StoredRow(r)
    BY DEF Matching
  <2> QED
    BY <1>1, <1>3, <2>1, WriteFoundKeeps
<1> QED
  BY <1>2, <1>3 DEF UpsertFixture

\* The run is killed between its look and its write.
LEMMA KillSeedKeeps ==
  ASSUME SampleInv, NEW w \in Workers, KillSeed(w)
  PROVE  SampleInv'
<1>1. req[w] # NoRequest /\ Done(w) /\ UNCHANGED <<table, rows, ran, overlapped, touched, failures>>
  BY DEF KillSeed
<1>2. SampleTypeOK'
  BY <1>1 DEF SampleInv, SampleTypeOK, Done
<1>3. \A v \in Workers : FixtureRead(v)'
  BY <1>1, SeedEnds DEF StoredRow
<1> QED
  BY <1>1, <1>2, <1>3 DEF SampleInv, ApartByKey, SchoolsRows, FailuresExplained, RunLeaves, FirstHolders,
                          KeyHolders, Matching, Fixtures, LiveRow, StoredRow, HasSecondKey

\* The school changes or removes a row that the seed has made, or takes its second key.
LEMMA TouchKeeps ==
  ASSUME SampleInv, NEW r \in RowIds, NEW y \in SampleRow \cup {NoRow}, Touch(y, r),
         y # NoRow =>
            \/ LiveRow(r) /\ y.edited = rows[r].edited
            \/ LiveRow(r) /\ rows[r].edited = "no" /\ y.edited \in table.edits
            \/ y.edited = "kept" /\ HasSecondKey
  PROVE  SampleInv'
<1>t. SampleTypeOK /\ SoundTable(table)
  BY DEF SampleInv
<1>1. /\ rows' = [rows EXCEPT ![r] = y] /\ ran' = FALSE /\ touched' = TRUE
      /\ overlapped' = (overlapped \/ req # Idle) /\ UNCHANGED <<req, table, failures>>
  BY DEF Touch
<1>2. \A x \in RowIds : rows'[x] = IF x = r THEN y ELSE rows[x]
  BY <1>t, <1>1, SampleFields
<1>3. SampleTypeOK'
  BY <1>t, <1>1 DEF SampleTypeOK
<1>4. FirstHolders' \subseteq FirstHolders /\ Matching' \subseteq Matching
  <2>1. ASSUME StoredRow(r)', rows'[r].edited \in SeenEdits
        PROVE  StoredRow(r) /\ ~rows[r].removed /\ rows[r].edited \in SeenEdits
    BY <1>2, <2>1 DEF LiveRow, StoredRow, SeenEdits
  <2>2. r \in Matching' => r \in Matching
    BY <1>1, <2>1 DEF Matching, LiveRow, StoredRow
  <2>3. \A x \in RowIds : x # r => (x \in Matching' <=> x \in Matching)
    BY <1>1, <1>2 DEF Matching, LiveRow, StoredRow
  <2>4. \A x \in RowIds : x # r => (x \in FirstHolders' <=> x \in FirstHolders)
    BY <1>1, <1>2 DEF FirstHolders, KeyHolders, LiveRow, StoredRow
  <2>5. r \in FirstHolders' => r \in FirstHolders
    BY <1>1, <2>1 DEF FirstHolders, KeyHolders, LiveRow, StoredRow
  <2> QED
    BY <2>2, <2>3, <2>4, <2>5 DEF FirstHolders, KeyHolders, Matching
<1>5. ApartByKey'
  BY <1>1, <1>4 DEF SampleInv, ApartByKey
<1>6. SchoolsRows'
  <2>1. ASSUME y # NoRow
        PROVE  /\ y.edited = "kept" => table.index = "live" \/ HasSecondKey
               /\ y.edited = "past" => "past" \in table.edits
    <3>1. CASE LiveRow(r) /\ y.edited = rows[r].edited
      BY <3>1 DEF SampleInv, SchoolsRows, LiveRow
    <3>2. CASE y.edited \in table.edits \/ (y.edited = "kept" /\ HasSecondKey)
      BY <1>t, <3>2 DEF SoundTable, HasSecondKey
    <3> QED
      BY <2>1, <3>1, <3>2
  <2> QED
    BY <1>1, <1>2, <2>1 DEF SampleInv, SchoolsRows, StoredRow, HasSecondKey
<1>7. FailuresExplained' /\ RunLeaves'
  BY <1>1 DEF SampleInv, FailuresExplained, RunLeaves, HasSecondKey
<1>8. ASSUME NEW v \in Workers PROVE FixtureRead(v)'
  <2>1. req[v] # NoRequest => overlapped'
    BY <1>1 DEF Idle
  <2>2. FixtureRead(v)
    BY DEF SampleInv
  <2> QED
    BY <1>1, <2>1, <2>2 DEF FixtureRead
<1> QED
  BY <1>t, <1>1, <1>3, <1>5, <1>6, <1>7, <1>8 DEF SampleInv

\* The marks of the day before are no fixtures of this day.
LEMMA NextDayKeeps ==
  ASSUME SampleInv, NextDay
  PROVE  SampleInv'
<1>t. SampleTypeOK
  BY DEF SampleInv
<1>1. /\ "past" \in table.edits /\ req' = Idle /\ ran' = FALSE
      /\ rows' = [r \in RowIds |-> IF StoredRow(r) THEN [rows[r] EXCEPT !.edited = "past"] ELSE NoRow]
      /\ UNCHANGED <<table, overlapped, touched, failures>>
  BY DEF NextDay
<1>2. ASSUME NEW r \in RowIds
      PROVE  IF StoredRow(r)
             THEN rows'[r] \in SampleRow /\ rows'[r].edited = "past" /\ rows'[r].removed = rows[r].removed
             ELSE rows'[r] = NoRow
  <2>1. CASE StoredRow(r)
    <3>1. rows[r] \in SampleRow
      BY <1>t, <2>1, SampleFields
    <3>2. rows'[r] = [rows[r] EXCEPT !.edited = "past"]
      BY <1>1, <2>1
    <3> QED
      BY <2>1, <3>1, <3>2 DEF SampleRow
  <2> QED
    BY <1>1, <2>1
<1>3. rows' \in [RowIds -> SampleRow \cup {NoRow}]
  BY <1>1, <1>2
<1>4. SampleTypeOK'
  BY <1>t, <1>1, <1>3 DEF SampleTypeOK, Idle
<1>5. FirstHolders' = {} /\ Matching' = {}
  BY <1>2 DEF FirstHolders, KeyHolders, Matching, StoredRow, SeenEdits
<1>6. ApartByKey'
  BY <1>5 DEF ApartByKey
<1>7. SchoolsRows'
  <2>1. \A r \in RowIds : StoredRow(r)' => StoredRow(r)
    BY <1>2 DEF StoredRow
  <2> QED
    BY <1>1, <1>2, <2>1 DEF SampleInv, SchoolsRows
<1>8. FailuresExplained' /\ RunLeaves'
  BY <1>1 DEF SampleInv, FailuresExplained, RunLeaves, HasSecondKey
<1>9. \A v \in Workers : FixtureRead(v)'
  BY <1>1 DEF FixtureRead, Idle
<1> QED
  BY <1>1, <1>4, <1>6, <1>7, <1>8, <1>9 DEF SampleInv

\* Every step keeps the invariant.
LEMMA SampleStep ==
  ASSUME SampleInv, [SampleNext]_sampleVars
  PROVE  SampleInv'
<1>t. SampleTypeOK
  BY DEF SampleInv
<1>1. ASSUME NEW r \in RowIds, NEW edit \in {"freed", "kept", "unkeyed"}, SchoolEdits(r, edit) PROVE SampleInv'
  <2>1. PICK y : y = [rows[r] EXCEPT !.edited = edit]
    OBVIOUS
  <2>2. LiveRow(r) /\ rows[r].edited = "no" /\ edit \in table.edits /\ Touch(y, r)
    BY <1>1, <2>1 DEF SchoolEdits
  <2>3. y \in SampleRow /\ y.edited = edit
    BY <1>t, <2>1, <2>2, SampleFields DEF LiveRow, SampleRow
  <2> QED
    BY <2>2, <2>3, TouchKeeps
<1>2. ASSUME NEW r \in RowIds, SchoolRemoves(r) PROVE SampleInv'
  <2>1. PICK y : y = IF table.removal = "keeps" THEN [rows[r] EXCEPT !.removed = TRUE] ELSE NoRow
    OBVIOUS
  <2>2. LiveRow(r) /\ Touch(y, r)
    BY <1>2, <2>1 DEF SchoolRemoves
  <2>3. y = NoRow \/ (y \in SampleRow /\ y.edited = rows[r].edited)
    BY <1>t, <2>1, <2>2, SampleFields DEF LiveRow, SampleRow
  <2> QED
    BY <2>2, <2>3, TouchKeeps
<1>4. ASSUME NEW r \in RowIds, SchoolTakesKey(r) PROVE SampleInv'
  <2>1. PICK y : y = [removed |-> FALSE, edited |-> "kept"]
    OBVIOUS
  <2>2. y \in SampleRow /\ y.edited = "kept" /\ HasSecondKey /\ Touch(y, r)
    BY <1>4, <2>1 DEF SchoolTakesKey, SampleRow
  <2> QED
    BY <2>2, TouchKeeps
<1>3. CASE UNCHANGED sampleVars
  BY <1>3 DEF sampleVars, SampleInv, SampleTypeOK, ApartByKey, SchoolsRows, FailuresExplained,
              RunLeaves, FixtureRead, FirstHolders, KeyHolders, Matching, Fixtures, LiveRow, StoredRow,
              HasSecondKey
<1> QED
  BY <1>1, <1>2, <1>3, <1>4, BeginSeedKeeps, LookKeeps, WriteFixtureKeeps, UpsertFixtureKeeps,
     KillSeedKeeps, NextDayKeeps
     DEF SampleNext

\* With it, two fixtures need two rows of one key: two runs at once, and no index that would have
\* refused the second of a key.
LEMMA SampleImplies == SampleInv => SeedIdempotent
<1> SUFFICES ASSUME SampleInv PROVE SeedIdempotent
  OBVIOUS
<1>t. SampleTypeOK /\ SoundTable(table)
  BY DEF SampleInv
<1>1. table.index # "none" => Fixtures \subseteq FirstHolders
  BY DEF Fixtures, FirstHolders, KeyHolders, LiveRow
<1>2. Fixtures \subseteq Matching
  BY DEF Fixtures, Matching, LiveRow
<1>3. \A r, s \in Fixtures : r = s \/ (overlapped /\ table.index = "none")
  BY <1>1, <1>2 DEF SampleInv, ApartByKey
<1>4. Cardinality(Fixtures) > 1 => overlapped /\ table.index = "none"
  <2> SUFFICES ASSUME ~(overlapped /\ table.index = "none") PROVE ~(Cardinality(Fixtures) > 1)
    OBVIOUS
  <2>1. \A r, s \in Fixtures : r = s
    BY <1>3
  <2>2. Fixtures = {} \/ \E x : Fixtures = {x}
    BY <2>1
  <2>3. Cardinality({}) = 0 /\ \A x : Cardinality({x}) = 1
    BY FS_EmptySet, FS_Singleton
  <2>4. Cardinality(Fixtures) \in {0, 1}
    BY <2>2, <2>3
  <2> QED
    BY <2>4
<1> QED
  BY <1>4 DEF SampleInv, FailuresExplained, RunLeaves, SeedIdempotent, Fixtures
\* A seed that is run again makes no second fixture of one key and day, and fails for nothing that
\* a seed has left: only two runs at once can, where no index keeps them apart; and for a row that
\* the school removed or changed where the index still has a key of it (src/prisma/tenant).
THEOREM SeedStaysIdempotent == SampleSpec => []SeedIdempotent
  BY SampleBegins, SampleStep, SampleImplies, PTL DEF SampleSpec

-----------------------------------------------------------------------------
(* Seeds: terms, homerooms, students *)

\* The two terms are not both active.
OneTerm == ~(terms["first"] = "active" /\ terms["second"] = "active")

\* The class shows the teacher who is assigned to it, or the schools' seed has shown its own.
ShownAsAssigned ==
    shown = assigned \/ (seedOf = "schools" /\ shown = "fixture" /\ assigned = "another")

\* The student is in no class yet, or active in one, or was taken out of the last one.
InOneClass ==
    IF dropped THEN ActiveClasses = {}
    ELSE (\A c \in SeedClasses : enrolled[c] = "none") \/ \E c \in SeedClasses : ActiveClasses = {c}

\* What a run knows between its two writes of a kind, unless another run or a kill left it ajar.
SeedRead(w) ==
    req[w] # NoRequest =>
        LET q == req[w] IN
        /\ q.step \notin {"term", "others", "unscope"} => q.seed = seedOf
        /\ q.step = "others" => q.seed = "feature"
        /\ q.step = "unscope" => q.seed = "schools"
        /\ q.seed = "feature" /\ q.step = "assignment" /\ "homeroom" \notin ajar => shown = "fixture"
        /\ q.seed = "demo" /\ q.step = "shown" /\ "homeroom" \notin ajar => assigned = "fixture"
        /\ q.seed = "schools" /\ q.step = "shown" => assigned # "none"
        /\ q.step = "enrol" /\ "student" \notin ajar => ActiveClasses \subseteq {FixtureClass}

\* What a run has half done at its step.
HalfOf(q) == IF q = NoRequest THEN {} ELSE Between(q.seed, q.step)

\* Half done by some run, or left ajar by one that was killed or crossed.
Unsettled(what) == what \in ajar \/ \E w \in Workers : what \in HalfOf(req[w])

\* The inductive invariant of SampleYear.
YearInv ==
    /\ YearTypeOK
    /\ OneTerm \/ Unsettled("terms")
    /\ ShownAsAssigned \/ Unsettled("homeroom")
    /\ InOneClass \/ Unsettled("student")
    /\ (dropped => unscoped) /\ (unscoped => seedOf = "demo")
    /\ \A w \in Workers : SeedRead(w)

\* An empty school and no run at the start, for every seed.
LEMMA YearBegins == YearInit => YearInv
  BY SampleYearAssumption
     DEF YearInit, YearInv, YearTypeOK, YearRequest, OneTerm, ShownAsAssigned, InOneClass, ActiveClasses,
         SeedRead, TermIds, Idle

\* The fields of a run and of the school.
LEMMA YearFields ==
  ASSUME YearTypeOK
  PROVE  /\ DOMAIN req = Workers /\ DOMAIN terms = TermIds /\ DOMAIN enrolled = SeedClasses
         /\ \A w \in Workers : req[w] # NoRequest =>
               /\ req[w] \in YearRequest
               /\ req[w].seed \in Seeds
               /\ req[w].step \in {"term", "others", "unscope", "assignment", "shown", "transfer", "enrol"}
         /\ NoRequest \notin YearRequest
<1>1. ASSUME NEW w \in Workers, req[w] # NoRequest PROVE req[w] \in YearRequest
  BY <1>1 DEF YearTypeOK
<1> QED
  BY <1>1, SampleYearAssumption DEF YearTypeOK, YearRequest

\* The worker goes on, or ends.
LEMMA YearRequestMoves ==
  ASSUME YearTypeOK, NEW w \in Workers, req[w] # NoRequest,
         NEW step \in {"term", "others", "unscope", "assignment", "shown", "transfer", "enrol"},
         Goto(w, step) \/ Done(w)
  PROVE  /\ req' \in [Workers -> YearRequest \cup {NoRequest}]
         /\ \A v \in Workers \ {w} : req'[v] = req[v]
         /\ Done(w) => req'[w] = NoRequest
         /\ Goto(w, step) =>
               /\ req'[w] # NoRequest /\ req'[w].step = step /\ req'[w].seed = req[w].seed
<1>1. req[w] \in YearRequest /\ NoRequest \notin YearRequest
  BY YearFields
<1>2. PICK r : r = [req[w] EXCEPT !.step = step]
  OBVIOUS
<1>3. r \in YearRequest /\ r # NoRequest /\ r.step = step /\ r.seed = req[w].seed
  BY <1>1, <1>2 DEF YearRequest
<1>4. Goto(w, step) => req' = [req EXCEPT ![w] = r]
  BY <1>2 DEF Goto
<1> QED
  BY <1>3, <1>4 DEF YearTypeOK, Done

\* What is unsettled stays so over a step of w, unless w was the one that settles it.
LEMMA UnsettledStays ==
  ASSUME NEW w, NEW what, \A v \in Workers \ {w} : req'[v] = req[v], Unsettled(what),
         what \in ajar => what \in ajar',
         w \in Workers /\ what \in HalfOf(req[w]) => what \in HalfOf(req'[w]) \/ what \in ajar'
  PROVE  Unsettled(what)'
<1>1. CASE what \in ajar
  BY <1>1 DEF Unsettled
<1>2. CASE \E v \in Workers : what \in HalfOf(req[v])
  <2>1. PICK v \in Workers : what \in HalfOf(req[v])
    BY <1>2
  <2>2. CASE v = w
    BY <2>1, <2>2 DEF Unsettled
  <2>3. CASE v # w
    <3>1. what \in HalfOf(req'[v])
      BY <2>1, <2>3
    <3> QED
      BY <3>1 DEF Unsettled
  <2> QED
    BY <2>2, <2>3
<1> QED
  BY <1>1, <1>2 DEF Unsettled

\* What a run that goes on elsewhere knows stays true, or was crossed.
LEMMA SeedReadStays ==
  ASSUME YearInv, NEW v \in Workers, NEW q, q = req[v], req'[v] = q, UNCHANGED seedOf,
         assigned # "none" => assigned' # "none",
         "homeroom" \in HalfOf(q) =>
            \/ UNCHANGED <<shown, assigned>> /\ ("homeroom" \in ajar => "homeroom" \in ajar')
            \/ "homeroom" \in ajar',
         "student" \in HalfOf(q) =>
            \/ UNCHANGED enrolled /\ ("student" \in ajar => "student" \in ajar')
            \/ "student" \in ajar'
  PROVE  SeedRead(v)'
<1>1. CASE q = NoRequest
  BY <1>1 DEF SeedRead
<1>2. CASE q # NoRequest
  <2>1. /\ q.seed \in Seeds
        /\ q.step \in {"term", "others", "unscope", "assignment", "shown", "transfer", "enrol"}
    BY <1>2, YearFields DEF YearInv
  <2>2. /\ q.step \notin {"term", "others", "unscope"} => q.seed = seedOf
        /\ q.step = "others" => q.seed = "feature"
        /\ q.step = "unscope" => q.seed = "schools"
        /\ q.seed = "feature" /\ q.step = "assignment" /\ "homeroom" \notin ajar => shown = "fixture"
        /\ q.seed = "demo" /\ q.step = "shown" /\ "homeroom" \notin ajar => assigned = "fixture"
        /\ q.seed = "schools" /\ q.step = "shown" => assigned # "none"
        /\ q.step = "enrol" /\ "student" \notin ajar => ActiveClasses \subseteq {FixtureClass}
    BY <1>2 DEF YearInv, SeedRead
  <2>3. /\ q.seed = "feature" /\ q.step = "assignment" => "homeroom" \in HalfOf(q)
        /\ q.seed # "feature" /\ q.step = "shown" => "homeroom" \in HalfOf(q)
        /\ q.step = "enrol" => "student" \in HalfOf(q)
    BY <1>2, <2>1 DEF HalfOf, Between, Seeds
  <2>4. UNCHANGED enrolled => (ActiveClasses' = ActiveClasses)
    BY DEF ActiveClasses
  <2>5. q.step = "enrol" /\ "student" \notin ajar' => ActiveClasses' \subseteq {FixtureClass}
    BY <2>2, <2>3, <2>4
  <2>6. /\ q.seed = "feature" /\ q.step = "assignment" /\ "homeroom" \notin ajar' => shown' = "fixture"
        /\ q.seed = "demo" /\ q.step = "shown" /\ "homeroom" \notin ajar' => assigned' = "fixture"
    BY <2>2, <2>3
  <2> QED
    BY <2>2, <2>5, <2>6 DEF SeedRead
<1> QED
  BY <1>1, <1>2
\* What w crosses is what another has half done.
LEMMA CrossedOf ==
  ASSUME NEW w, NEW what, NEW x
  PROVE  x \in Crossed(w, what) <=> x = what /\ \E v \in Workers \ {w} : what \in HalfOf(req[v])
  BY DEF Crossed, HalfDone, HalfOf

\* A step of one run that leaves the terms, the homeroom or the student alone.
LEMMA YearKeeps ==
  ASSUME YearInv, NEW w \in Workers, NEW q, q = req[w], \A v \in Workers \ {w} : req'[v] = req[v],
         YearTypeOK', UNCHANGED <<seedOf, unscoped>>, SeedRead(w)', dropped' => dropped \/ unscoped,
         assigned # "none" => assigned' # "none",
         \/ /\ UNCHANGED terms /\ ("terms" \in ajar => "terms" \in ajar')
            /\ "terms" \in HalfOf(q) => "terms" \in HalfOf(req'[w]) \/ "terms" \in ajar'
         \/ OneTerm' \/ Unsettled("terms")',
         \/ /\ UNCHANGED <<shown, assigned>> /\ ("homeroom" \in ajar => "homeroom" \in ajar')
            /\ "homeroom" \in HalfOf(q) => "homeroom" \in HalfOf(req'[w]) \/ "homeroom" \in ajar'
         \/ /\ ShownAsAssigned' \/ Unsettled("homeroom")'
            /\ (\E v \in Workers \ {w} : "homeroom" \in HalfOf(req[v])) => "homeroom" \in ajar',
         \/ /\ UNCHANGED <<enrolled, dropped>> /\ ("student" \in ajar => "student" \in ajar')
            /\ "student" \in HalfOf(q) => "student" \in HalfOf(req'[w]) \/ "student" \in ajar'
         \/ /\ InOneClass' \/ Unsettled("student")'
            /\ (\E v \in Workers \ {w} : "student" \in HalfOf(req[v])) => "student" \in ajar'
  PROVE  YearInv'
<1>1. (OneTerm \/ Unsettled("terms"))'
  <2>1. OneTerm \/ Unsettled("terms")
    BY DEF YearInv
  <2>2. UNCHANGED terms /\ OneTerm => OneTerm'
    BY DEF OneTerm
  <2> QED
    BY <2>1, <2>2, UnsettledStays
<1>2. (ShownAsAssigned \/ Unsettled("homeroom"))'
  <2>1. ShownAsAssigned \/ Unsettled("homeroom")
    BY DEF YearInv
  <2>2. UNCHANGED <<shown, assigned>> /\ ShownAsAssigned => ShownAsAssigned'
    BY DEF ShownAsAssigned
  <2> QED
    BY <2>1, <2>2, UnsettledStays
<1>3. (InOneClass \/ Unsettled("student"))'
  <2>1. InOneClass \/ Unsettled("student")
    BY DEF YearInv
  <2>2. UNCHANGED <<enrolled, dropped>> /\ InOneClass => InOneClass'
    BY DEF InOneClass, ActiveClasses
  <2> QED
    BY <2>1, <2>2, UnsettledStays
<1>4. ASSUME NEW v \in Workers PROVE SeedRead(v)'
  <2>1. CASE v # w
    <3>1. PICK z : z = req[v]
      OBVIOUS
    <3>2. req'[v] = z
      BY <2>1, <3>1
    <3>3. "homeroom" \in HalfOf(z) =>
             \/ UNCHANGED <<shown, assigned>> /\ ("homeroom" \in ajar => "homeroom" \in ajar')
             \/ "homeroom" \in ajar'
      BY <2>1, <3>1
    <3>4. "student" \in HalfOf(z) =>
             \/ UNCHANGED enrolled /\ ("student" \in ajar => "student" \in ajar')
             \/ "student" \in ajar'
      BY <2>1, <3>1
    <3> QED
      BY <3>1, <3>2, <3>3, <3>4, SeedReadStays
  <2> QED
    BY <2>1
<1> QED
  BY <1>1, <1>2, <1>3, <1>4 DEF YearInv

\* A run begins.
LEMMA BeginYearSeedKeeps ==
  ASSUME YearInv, NEW w \in Workers, NEW seed \in Seeds, BeginYearSeed(w, seed)
  PROVE  YearInv'
<1> DEFINE r == [op |-> "year", step |-> "term", seed |-> seed]
<1>1. /\ r \in YearRequest /\ r.step = "term" /\ r # NoRequest
  BY SampleYearAssumption DEF YearRequest
<1>2. /\ req[w] = NoRequest /\ req' = [req EXCEPT ![w] = r]
      /\ UNCHANGED <<seedOf, unscoped, terms, assigned, shown, enrolled, ajar, dropped>>
  BY DEF BeginYearSeed, Begin
<1> HIDE DEF r
<1>3. YearTypeOK'
  BY <1>1, <1>2 DEF YearInv, YearTypeOK
<1>4. req'[w] = r /\ \A v \in Workers \ {w} : req'[v] = req[v]
  BY <1>2 DEF YearInv, YearTypeOK
<1>5. SeedRead(w)'
  BY <1>1, <1>4 DEF SeedRead
<1>6. HalfOf(req[w]) = {}
  BY <1>2 DEF HalfOf
<1>7. PICK q : q = req[w]
  OBVIOUS
<1> QED
  BY <1>2, <1>3, <1>4, <1>5, <1>6, <1>7, YearKeeps

\* The run activates its term.
LEMMA SeedTermKeeps ==
  ASSUME YearInv, NEW w \in Workers, SeedTerm(w)
  PROVE  YearInv'
<1>t. YearTypeOK
  BY DEF YearInv
<1>q. PICK q : q = req[w]
  OBVIOUS
<1>1. /\ q # NoRequest /\ q.step = "term" /\ q \in YearRequest /\ q.seed \in Seeds
      /\ UNCHANGED <<seedOf, unscoped, assigned, shown, enrolled, dropped>>
  BY <1>q, <1>t, YearFields DEF SeedTerm, At
<1>2. HalfOf(q) = {}
  BY <1>1 DEF HalfOf, Between, Seeds
<1>3. /\ terms' = CASE q.seed = "feature" -> [terms EXCEPT !["second"] = "active"]
                    [] q.seed = "demo" -> [terms EXCEPT !["first"] = "active"]
                    [] OTHER -> [terms EXCEPT !["first"] = IF @ = "none" THEN "active" ELSE @]
      /\ ajar' = ajar \cup Crossed(w, "terms")
                   \cup {x \in {"terms"} : q.seed # "feature" /\ terms' # terms /\ terms["second"] = "active"}
      /\ CASE q.seed = "feature" -> Goto(w, "others")
           [] q.seed = "schools" -> Goto(w, "unscope")
           [] OTHER -> GotoClass(w, "assignment")
  BY <1>q DEF SeedTerm
<1>4. \/ q.seed = "feature" /\ Goto(w, "others")
      \/ q.seed = "schools" /\ Goto(w, "unscope")
      \/ q.seed # "feature" /\ q.seed = seedOf /\ Goto(w, "assignment")
      \/ q.seed # "feature" /\ Done(w)
  BY <1>3, <1>q DEF GotoClass
<1>5. /\ req' \in [Workers -> YearRequest \cup {NoRequest}]
      /\ \A v \in Workers \ {w} : req'[v] = req[v]
      /\ \/ /\ q.seed = "feature" /\ req'[w] # NoRequest
            /\ req'[w].step = "others" /\ req'[w].seed = q.seed
         \/ /\ q.seed = "schools" /\ req'[w] # NoRequest
            /\ req'[w].step = "unscope" /\ req'[w].seed = q.seed
         \/ /\ q.seed # "feature" /\ q.seed = seedOf /\ req'[w] # NoRequest
            /\ req'[w].step = "assignment" /\ req'[w].seed = q.seed
         \/ q.seed # "feature" /\ req'[w] = NoRequest
  BY <1>t, <1>1, <1>4, <1>q, YearRequestMoves
<1>6. /\ terms' \in [TermIds -> {"none", "active", "ended"}]
      /\ q.seed # "feature" => terms'["second"] = terms["second"]
  BY <1>t, <1>3 DEF YearTypeOK, TermIds
<1>7. ajar \subseteq ajar' /\ ajar' \subseteq ajar \cup {"terms"}
  BY <1>3, CrossedOf
<1>8. YearTypeOK'
  BY <1>t, <1>1, <1>5, <1>6, <1>7 DEF YearTypeOK
<1>9. SeedRead(w)'
  BY <1>1, <1>5 DEF SeedRead
<1>10. \/ UNCHANGED terms
       \/ OneTerm' \/ Unsettled("terms")'
  <2>1. CASE q.seed = "feature"
    <3>1. "terms" \in HalfOf(req'[w])
      BY <1>5, <2>1 DEF HalfOf, Between
    <3> QED
      BY <3>1 DEF Unsettled
  <2>2. CASE q.seed # "feature" /\ terms' # terms /\ terms["second"] = "active"
    BY <1>3, <2>2 DEF Unsettled
  <2>3. CASE q.seed # "feature" /\ terms["second"] # "active"
    BY <1>6, <2>3 DEF OneTerm
  <2> QED
    BY <2>1, <2>2, <2>3
<1> QED
  BY <1>1, <1>2, <1>5, <1>7, <1>8, <1>9, <1>10, <1>q, YearKeeps

\* The run ends the other terms, and the terms are settled.
LEMMA EndOtherTermsKeeps ==
  ASSUME YearInv, NEW w \in Workers, EndOtherTerms(w)
  PROVE  YearInv'
<1>t. YearTypeOK
  BY DEF YearInv
<1>q. PICK q : q = req[w]
  OBVIOUS
<1>1. /\ q # NoRequest /\ q.step = "others" /\ q \in YearRequest
      /\ UNCHANGED <<seedOf, unscoped, assigned, shown, enrolled, dropped>>
  BY <1>q, <1>t, YearFields DEF EndOtherTerms, At
<1>2. q.seed = "feature" /\ HalfOf(q) = {"terms"}
  BY <1>1, <1>q DEF YearInv, SeedRead, HalfOf, Between
<1>3. /\ terms' = [t \in TermIds |-> IF t # "second" /\ terms[t] = "active" THEN "ended" ELSE terms[t]]
      /\ ajar' = (ajar \ {"terms"}) \cup Crossed(w, "terms")
      /\ (q.seed = seedOf /\ Goto(w, "shown")) \/ Done(w)
  BY <1>q DEF EndOtherTerms, GotoClass
<1>4. /\ req' \in [Workers -> YearRequest \cup {NoRequest}]
      /\ \A v \in Workers \ {w} : req'[v] = req[v]
      /\ \/ /\ q.seed = seedOf /\ req'[w] # NoRequest
            /\ req'[w].step = "shown" /\ req'[w].seed = q.seed
         \/ req'[w] = NoRequest
  BY <1>t, <1>1, <1>3, <1>q, YearRequestMoves
<1>5. terms' \in [TermIds -> {"none", "active", "ended"}] /\ OneTerm'
  BY <1>t, <1>3 DEF YearTypeOK, TermIds, OneTerm
<1>6. /\ ajar' \subseteq ajar \cup {"terms"}
      /\ "homeroom" \in ajar => "homeroom" \in ajar'
      /\ "student" \in ajar => "student" \in ajar'
  BY <1>3, CrossedOf
<1>7. YearTypeOK'
  BY <1>t, <1>1, <1>4, <1>5, <1>6 DEF YearTypeOK
<1>8. SeedRead(w)'
  BY <1>1, <1>2, <1>4 DEF SeedRead
<1> QED
  BY <1>1, <1>2, <1>4, <1>5, <1>6, <1>7, <1>8, <1>q, YearKeeps
\* The schools' run takes a student of an old username out of its classes.
LEMMA UnscopeEnrolmentsKeeps ==
  ASSUME YearInv, NEW w \in Workers, UnscopeEnrolments(w)
  PROVE  YearInv'
<1>t. YearTypeOK
  BY DEF YearInv
<1>q. PICK q : q = req[w]
  OBVIOUS
<1>1. /\ q # NoRequest /\ q.step = "unscope" /\ q \in YearRequest /\ q.seed \in Seeds
      /\ UNCHANGED <<seedOf, unscoped, terms, assigned, shown>>
      /\ enrolled' = [c \in SeedClasses |->
            IF unscoped /\ c \in SchoolsClasses /\ enrolled[c] = "active" THEN "transferred"
            ELSE enrolled[c]]
      /\ dropped' = (dropped \/ (ActiveClasses # {} /\ ActiveClasses' = {}))
      /\ ajar' = ajar \cup IF enrolled' = enrolled THEN {} ELSE Crossed(w, "student")
      /\ (q.seed = seedOf /\ Goto(w, "assignment")) \/ Done(w)
  BY <1>q, <1>t, YearFields DEF UnscopeEnrolments, At, GotoClass
<1>2. q.seed = "schools" /\ HalfOf(q) = {}
  BY <1>1, <1>q DEF YearInv, SeedRead, HalfOf, Between
<1>3. /\ req' \in [Workers -> YearRequest \cup {NoRequest}]
      /\ \A v \in Workers \ {w} : req'[v] = req[v]
      /\ \/ /\ q.seed = seedOf /\ req'[w] # NoRequest
            /\ req'[w].step = "assignment" /\ req'[w].seed = q.seed
         \/ req'[w] = NoRequest
  BY <1>t, <1>1, <1>q, YearRequestMoves
<1>4. /\ ajar' \subseteq ajar \cup {"student"} /\ ajar \subseteq ajar'
      /\ enrolled' = enrolled
            \/ ((\E v \in Workers \ {w} : "student" \in HalfOf(req[v])) => "student" \in ajar')
  BY <1>1, CrossedOf
<1>5. enrolled' \in [SeedClasses -> {"none", "active", "transferred"}] /\ dropped' \in BOOLEAN
  BY <1>t, <1>1 DEF YearTypeOK
<1>6. YearTypeOK'
  BY <1>t, <1>1, <1>3, <1>4, <1>5 DEF YearTypeOK
<1>7. SeedRead(w)'
  <2>1. req'[w] = NoRequest \/ seedOf = "schools"
    BY <1>2, <1>3
  <2> QED
    BY <1>1, <1>2, <1>3 DEF SeedRead
<1>8. ActiveClasses' \subseteq ActiveClasses /\ (enrolled' # enrolled => unscoped)
  <2>1. ASSUME ~unscoped PROVE enrolled' = enrolled
    BY <1>t, <1>1, <2>1 DEF YearTypeOK
  <2> QED
    BY <1>1, <2>1 DEF ActiveClasses
<1>9. dropped' => dropped \/ unscoped
  <2>1. enrolled' = enrolled => ActiveClasses' = ActiveClasses
    BY DEF ActiveClasses
  <2> QED
    BY <1>1, <1>8, <2>1
<1>10. CASE enrolled' = enrolled
  <2>1. ActiveClasses' = ActiveClasses
    BY <1>10 DEF ActiveClasses
  <2>2. dropped' = dropped
    BY <1>t, <1>1, <2>1 DEF YearTypeOK
  <2> QED
    BY <1>1, <1>2, <1>3, <1>4, <1>6, <1>7, <1>9, <1>10, <2>2, <1>q, YearKeeps
<1>11. CASE enrolled' # enrolled
  <2>1. (\E v \in Workers \ {w} : "student" \in HalfOf(req[v])) => "student" \in ajar'
    BY <1>4, <1>11
  <2>2. InOneClass' \/ Unsettled("student")'
    <3>1. CASE InOneClass
      <4>1. CASE dropped
        BY <1>1, <1>8, <3>1, <4>1 DEF InOneClass
      <4>2. CASE ~dropped /\ \A c \in SeedClasses : enrolled[c] = "none"
        BY <1>t, <1>1, <1>11, <4>2 DEF YearTypeOK
      <4>3. CASE ~dropped /\ \E c \in SeedClasses : ActiveClasses = {c}
        <5>1. PICK c \in SeedClasses : ActiveClasses = {c}
          BY <4>3
        <5>2. ActiveClasses' = {} \/ ActiveClasses' = {c}
          BY <1>8, <5>1
        <5> QED
          BY <1>1, <4>3, <5>1, <5>2 DEF InOneClass
      <4> QED
        BY <3>1, <4>1, <4>2, <4>3 DEF InOneClass
    <3>2. CASE Unsettled("student")
      BY <1>2, <1>3, <1>4, <3>2, <1>q, UnsettledStays
    <3> QED
      BY <3>1, <3>2 DEF YearInv
  <2> QED
    BY <1>1, <1>2, <1>3, <1>4, <1>6, <1>7, <1>9, <2>1, <2>2, <1>q, YearKeeps
<1> QED
  BY <1>10, <1>11

\* The run assigns the homeroom teacher, or keeps the assignment there is.
LEMMA SeedAssignmentKeeps ==
  ASSUME YearInv, NEW w \in Workers, SeedAssignment(w)
  PROVE  YearInv'
<1>t. YearTypeOK
  BY DEF YearInv
<1>q. PICK q : q = req[w]
  OBVIOUS
<1> DEFINE made == q.seed = "feature" \/ assigned = "none"
           step == IF q.seed = "feature" \/ (q.seed = "demo" /\ ~made) THEN "transfer" ELSE "shown"
<1>1. /\ q # NoRequest /\ q.step = "assignment" /\ q \in YearRequest /\ q.seed \in Seeds
      /\ UNCHANGED <<seedOf, unscoped, terms, shown, enrolled, dropped>>
      /\ assigned' = IF made THEN "fixture" ELSE assigned
      /\ ajar' = (IF assigned' = shown THEN ajar \ {"homeroom"} ELSE ajar) \cup Crossed(w, "homeroom")
      /\ Goto(w, step)
  BY <1>q, <1>t, YearFields DEF SeedAssignment, At
<1>2. /\ q.seed = seedOf
      /\ q.seed = "feature" /\ "homeroom" \notin ajar => shown = "fixture"
  BY <1>1, <1>q DEF YearInv, SeedRead
<1>3. HalfOf(q) = IF q.seed = "feature" THEN {"homeroom"} ELSE {}
  BY <1>1 DEF HalfOf, Between, Seeds
<1>4. /\ req' \in [Workers -> YearRequest \cup {NoRequest}]
      /\ \A v \in Workers \ {w} : req'[v] = req[v]
      /\ req'[w] # NoRequest /\ req'[w].step = step /\ req'[w].seed = q.seed
  BY <1>t, <1>1, <1>q, YearRequestMoves
<1>5. /\ ajar' \subseteq ajar \cup {"homeroom"}
      /\ "terms" \in ajar => "terms" \in ajar'
      /\ "student" \in ajar => "student" \in ajar'
      /\ assigned' # shown /\ "homeroom" \in ajar => "homeroom" \in ajar'
      /\ (\E v \in Workers \ {w} : "homeroom" \in HalfOf(req[v])) => "homeroom" \in ajar'
  BY <1>1, CrossedOf
<1>6. YearTypeOK'
  BY <1>t, <1>1, <1>4, <1>5 DEF YearTypeOK
<1>7. SeedRead(w)'
  BY <1>1, <1>2, <1>4 DEF SeedRead, Seeds
<1>8. ShownAsAssigned' \/ Unsettled("homeroom")'
  <2>1. CASE q.seed = "feature"
    BY <1>1, <1>2, <1>5, <2>1 DEF ShownAsAssigned, Unsettled
  <2>2. CASE q.seed # "feature" /\ step = "shown"
    <3>1. "homeroom" \in HalfOf(req'[w])
      BY <1>4, <2>2 DEF HalfOf, Between
    <3> QED
      BY <3>1 DEF Unsettled
  <2>3. CASE q.seed # "feature" /\ step = "transfer"
    <3>1. assigned' = assigned /\ UNCHANGED shown
      BY <1>1, <2>3
    <3>2. CASE assigned = shown
      BY <3>1, <3>2 DEF ShownAsAssigned
    <3>3. CASE assigned # shown /\ ShownAsAssigned
      BY <1>1, <3>1, <3>3 DEF ShownAsAssigned
    <3>4. CASE assigned # shown /\ Unsettled("homeroom")
      BY <1>3, <1>4, <1>5, <2>3, <3>1, <3>4, <1>q, UnsettledStays
    <3> QED
      BY <3>2, <3>3, <3>4 DEF YearInv
  <2> QED
    BY <2>1, <2>2, <2>3
<1>9. assigned # "none" => assigned' # "none"
  BY <1>1
<1>10. "terms" \notin HalfOf(q) /\ "student" \notin HalfOf(q)
  BY <1>3
<1> QED
  BY <1>1, <1>4, <1>5, <1>6, <1>7, <1>8, <1>9, <1>10, <1>q, YearKeeps

\* The run shows the teacher with the class, and the homeroom is settled.
LEMMA SeedShownKeeps ==
  ASSUME YearInv, NEW w \in Workers, SeedShown(w)
  PROVE  YearInv'
<1>t. YearTypeOK
  BY DEF YearInv
<1>q. PICK q : q = req[w]
  OBVIOUS
<1> DEFINE step == IF q.seed = "feature" THEN "assignment" ELSE "transfer"
<1>1. /\ q # NoRequest /\ q.step = "shown" /\ q \in YearRequest /\ q.seed \in Seeds
      /\ UNCHANGED <<seedOf, unscoped, terms, assigned, enrolled, dropped>>
      /\ shown' = "fixture"
      /\ ajar' = (IF assigned = shown' THEN ajar \ {"homeroom"} ELSE ajar) \cup Crossed(w, "homeroom")
      /\ Goto(w, step)
  BY <1>q, <1>t, YearFields DEF SeedShown, At
<1>2. /\ q.seed = seedOf
      /\ q.seed = "demo" /\ "homeroom" \notin ajar => assigned = "fixture"
      /\ q.seed = "schools" => assigned # "none"
  BY <1>1, <1>q DEF YearInv, SeedRead
<1>3. HalfOf(q) = IF q.seed = "feature" THEN {} ELSE {"homeroom"}
  BY <1>1 DEF HalfOf, Between, Seeds
<1>4. /\ req' \in [Workers -> YearRequest \cup {NoRequest}]
      /\ \A v \in Workers \ {w} : req'[v] = req[v]
      /\ req'[w] # NoRequest /\ req'[w].step = step /\ req'[w].seed = q.seed
  BY <1>t, <1>1, <1>q, YearRequestMoves
<1>5. /\ ajar' \subseteq ajar \cup {"homeroom"}
      /\ "terms" \in ajar => "terms" \in ajar'
      /\ "student" \in ajar => "student" \in ajar'
      /\ assigned # "fixture" /\ "homeroom" \in ajar => "homeroom" \in ajar'
      /\ (\E v \in Workers \ {w} : "homeroom" \in HalfOf(req[v])) => "homeroom" \in ajar'
  BY <1>1, CrossedOf
<1>6. YearTypeOK'
  BY <1>t, <1>1, <1>4, <1>5 DEF YearTypeOK
<1>7. SeedRead(w)'
  BY <1>1, <1>2, <1>4 DEF SeedRead, Seeds
<1>8. ShownAsAssigned' \/ Unsettled("homeroom")'
  <2>1. CASE q.seed = "feature"
    <3>1. "homeroom" \in HalfOf(req'[w])
      BY <1>4, <2>1 DEF HalfOf, Between
    <3> QED
      BY <3>1 DEF Unsettled
  <2>2. CASE q.seed # "feature"
    <3>1. assigned \in {"none", "fixture", "another"} /\ q.seed \in {"schools", "demo"}
      BY <1>t, <1>1, <2>2 DEF YearTypeOK, Seeds
    <3> QED
      BY <1>1, <1>2, <1>5, <3>1 DEF ShownAsAssigned, Unsettled
  <2> QED
    BY <2>1, <2>2
<1>9. "terms" \notin HalfOf(q) /\ "student" \notin HalfOf(q)
  BY <1>3
<1> QED
  BY <1>1, <1>4, <1>5, <1>6, <1>7, <1>8, <1>9, <1>q, YearKeeps

\* The run ends the enrolments in other classes.
LEMMA TransferFromOthersKeeps ==
  ASSUME YearInv, NEW w \in Workers, TransferFromOthers(w)
  PROVE  YearInv'
<1>t. YearTypeOK
  BY DEF YearInv
<1>q. PICK q : q = req[w]
  OBVIOUS
<1>1. /\ q # NoRequest /\ q.step = "transfer" /\ q \in YearRequest
      /\ UNCHANGED <<seedOf, unscoped, terms, assigned, shown, dropped>>
      /\ enrolled' = [c \in SeedClasses |->
            IF c # FixtureClass /\ enrolled[c] = "active" THEN "transferred" ELSE enrolled[c]]
      /\ ajar' = ajar \cup Crossed(w, "student")
      /\ Goto(w, "enrol")
  BY <1>q, <1>t, YearFields DEF TransferFromOthers, At
<1>2. q.seed = seedOf /\ HalfOf(q) = {}
  BY <1>1, <1>q DEF YearInv, SeedRead, HalfOf, Between
<1>4. /\ req' \in [Workers -> YearRequest \cup {NoRequest}]
      /\ \A v \in Workers \ {w} : req'[v] = req[v]
      /\ req'[w] # NoRequest /\ req'[w].step = "enrol" /\ req'[w].seed = q.seed
  BY <1>t, <1>1, <1>q, YearRequestMoves
<1>5. /\ ajar' \subseteq ajar \cup {"student"} /\ ajar \subseteq ajar'
      /\ (\E v \in Workers \ {w} : "student" \in HalfOf(req[v])) => "student" \in ajar'
  BY <1>1, CrossedOf
<1>6. YearTypeOK'
  <2>1. enrolled' \in [SeedClasses -> {"none", "active", "transferred"}]
    BY <1>t, <1>1 DEF YearTypeOK
  <2> QED
    BY <1>t, <1>1, <1>4, <1>5, <2>1 DEF YearTypeOK
<1>7. SeedRead(w)'
  <2>1. ActiveClasses' \subseteq {FixtureClass}
    BY <1>1 DEF ActiveClasses
  <2> QED
    BY <1>1, <1>2, <1>4, <2>1 DEF SeedRead
<1>8. Unsettled("student")'
  <2>1. "student" \in HalfOf(req'[w])
    BY <1>4 DEF HalfOf, Between
  <2> QED
    BY <2>1 DEF Unsettled
<1> QED
  BY <1>1, <1>2, <1>4, <1>5, <1>6, <1>7, <1>8, <1>q, YearKeeps

\* The run enrols the student, and the student is settled.
LEMMA EnrolStudentKeeps ==
  ASSUME YearInv, NEW w \in Workers, EnrolStudent(w)
  PROVE  YearInv'
<1>t. YearTypeOK
  BY DEF YearInv
<1>q. PICK q : q = req[w]
  OBVIOUS
<1>1. /\ q # NoRequest /\ q.step = "enrol" /\ q \in YearRequest
      /\ UNCHANGED <<seedOf, unscoped, terms, assigned, shown>> /\ dropped' = FALSE
      /\ enrolled' = [enrolled EXCEPT ![FixtureClass] = "active"]
      /\ ajar' = (IF ActiveClasses \subseteq {FixtureClass} THEN ajar \ {"student"} ELSE ajar)
                    \cup Crossed(w, "student")
      /\ Done(w)
  BY <1>q, <1>t, YearFields DEF EnrolStudent, At
<1>2. /\ "student" \notin ajar => ActiveClasses \subseteq {FixtureClass}
      /\ HalfOf(q) = {"student"}
  BY <1>1, <1>q DEF YearInv, SeedRead, HalfOf, Between
<1>4. /\ req' \in [Workers -> YearRequest \cup {NoRequest}]
      /\ \A v \in Workers \ {w} : req'[v] = req[v]
      /\ req'[w] = NoRequest
  BY <1>t, <1>1, <1>q, YearRequestMoves
<1>5. /\ ajar' \subseteq ajar \cup {"student"}
      /\ "terms" \in ajar => "terms" \in ajar'
      /\ "homeroom" \in ajar => "homeroom" \in ajar'
      /\ ~(ActiveClasses \subseteq {FixtureClass}) => "student" \in ajar'
      /\ (\E v \in Workers \ {w} : "student" \in HalfOf(req[v])) => "student" \in ajar'
  BY <1>1, <1>2, CrossedOf
<1>6. YearTypeOK'
  BY <1>t, <1>1, <1>4, <1>5 DEF YearTypeOK
<1>7. SeedRead(w)'
  BY <1>4 DEF SeedRead
<1>8. InOneClass' \/ Unsettled("student")'
  <2>1. CASE ActiveClasses \subseteq {FixtureClass}
    <3>1. ActiveClasses' = {FixtureClass}
      BY <1>t, <1>1, <2>1, SampleYearAssumption DEF ActiveClasses, YearTypeOK
    <3> QED
      BY <1>1, <3>1, SampleYearAssumption DEF InOneClass
  <2>2. CASE ~(ActiveClasses \subseteq {FixtureClass})
    BY <1>5, <2>2 DEF Unsettled
  <2> QED
    BY <2>1, <2>2
<1>9. "terms" \notin HalfOf(q) /\ "homeroom" \notin HalfOf(q)
  BY <1>2
<1> QED
  BY <1>1, <1>4, <1>5, <1>6, <1>7, <1>8, <1>9, <1>q, YearKeeps

\* The run is killed, and leaves ajar what it has half done.
LEMMA KillYearSeedKeeps ==
  ASSUME YearInv, NEW w \in Workers, KillYearSeed(w)
  PROVE  YearInv'
<1>t. YearTypeOK
  BY DEF YearInv
<1>q. PICK q : q = req[w]
  OBVIOUS
<1>1. /\ q # NoRequest /\ q \in YearRequest /\ q.seed \in Seeds
      /\ UNCHANGED <<seedOf, unscoped, terms, assigned, shown, enrolled, dropped>>
      /\ ajar' = ajar \cup HalfOf(q) /\ Done(w)
  BY <1>q, <1>t, YearFields DEF KillYearSeed, HalfDone, HalfOf
<1>2. HalfOf(q) \subseteq {"terms", "homeroom", "student"}
  BY <1>1 DEF HalfOf, Between
<1>3. /\ req' \in [Workers -> YearRequest \cup {NoRequest}]
      /\ \A v \in Workers \ {w} : req'[v] = req[v]
      /\ req'[w] = NoRequest
  BY <1>t, <1>1, <1>q, YearRequestMoves
<1>4. YearTypeOK'
  BY <1>t, <1>1, <1>2, <1>3 DEF YearTypeOK
<1>5. SeedRead(w)'
  BY <1>3 DEF SeedRead
<1> QED
  BY <1>1, <1>3, <1>4, <1>5, <1>q, YearKeeps
\* A step of the school is over at once, and leaves what a run has half done ajar.
LEMMA SchoolKeeps ==
  ASSUME YearInv, YearTypeOK', UNCHANGED <<req, seedOf, unscoped>>, dropped' => dropped,
         NEW what \in {"terms", "homeroom", "student"},
         ajar' = (ajar \ {what}) \cup ({what} \cap AnyHalfDone),
         assigned # "none" => assigned' # "none",
         what # "terms" => UNCHANGED terms,
         what = "terms" => OneTerm',
         what # "homeroom" => UNCHANGED <<shown, assigned>>,
         what = "homeroom" => ShownAsAssigned',
         what # "student" => UNCHANGED <<enrolled, dropped>>,
         what = "student" => InOneClass'
  PROVE  YearInv'
<1>1. \A x \in {"terms", "homeroom", "student"} :
         /\ x # what /\ x \in ajar => x \in ajar'
         /\ x = what /\ (\E v \in Workers : x \in HalfOf(req[v])) => x \in ajar'
  BY DEF AnyHalfDone, HalfDone, HalfOf
<1>2. \A v \in Workers : req'[v] = req[v]
  OBVIOUS
<1>3. \A x \in {"terms", "homeroom", "student"} : x # what /\ Unsettled(x) => Unsettled(x)'
  <2> SUFFICES ASSUME NEW x \in {"terms", "homeroom", "student"}, x # what, Unsettled(x)
               PROVE  Unsettled(x)'
    OBVIOUS
  <2> QED
    BY <1>1, <1>2 DEF Unsettled
<1>4. (OneTerm \/ Unsettled("terms"))'
  BY <1>3 DEF YearInv, OneTerm
<1>5. (ShownAsAssigned \/ Unsettled("homeroom"))'
  BY <1>3 DEF YearInv, ShownAsAssigned
<1>6. (InOneClass \/ Unsettled("student"))'
  BY <1>3 DEF YearInv, InOneClass, ActiveClasses
<1>7. ASSUME NEW v \in Workers PROVE SeedRead(v)'
  <2>1. PICK z : z = req[v]
    OBVIOUS
  <2>2. req'[v] = z
    BY <1>2, <2>1
  <2>3. "homeroom" \in HalfOf(z) =>
           \/ UNCHANGED <<shown, assigned>> /\ ("homeroom" \in ajar => "homeroom" \in ajar')
           \/ "homeroom" \in ajar'
    BY <1>1, <2>1
  <2>4. "student" \in HalfOf(z) =>
           \/ UNCHANGED enrolled /\ ("student" \in ajar => "student" \in ajar')
           \/ "student" \in ajar'
    BY <1>1, <2>1
  <2> QED
    BY <2>1, <2>2, <2>3, <2>4, SeedReadStays
<1> QED
  BY <1>4, <1>5, <1>6, <1>7 DEF YearInv

\* Every step keeps the invariant.
LEMMA YearStep ==
  ASSUME YearInv, [YearNext]_yearVars
  PROVE  YearInv'
<1>t. YearTypeOK
  BY DEF YearInv
<1>1. ASSUME NEW t \in TermIds, ActivateTerm(t) PROVE YearInv'
  <2>1. /\ terms' = [x \in TermIds |-> CASE x = t -> "active"
                                         [] x # t /\ terms[x] = "active" -> "ended"
                                         [] OTHER -> terms[x]]
        /\ ajar' = (ajar \ {"terms"}) \cup ({"terms"} \cap AnyHalfDone)
        /\ UNCHANGED <<req, seedOf, unscoped, assigned, shown, enrolled, dropped>>
    BY <1>1 DEF ActivateTerm
  <2>2. terms' \in [TermIds -> {"none", "active", "ended"}] /\ OneTerm'
    BY <1>t, <2>1 DEF YearTypeOK, TermIds, OneTerm
  <2>3. YearTypeOK'
    BY <1>t, <2>1, <2>2 DEF YearTypeOK
  <2> QED
    BY <2>1, <2>2, <2>3, SchoolKeeps
<1>2. ASSUME AppointAnother PROVE YearInv'
  <2>1. /\ assigned' = "another" /\ shown' = "another"
        /\ ajar' = (ajar \ {"homeroom"}) \cup ({"homeroom"} \cap AnyHalfDone)
        /\ UNCHANGED <<req, seedOf, unscoped, terms, enrolled, dropped>>
    BY <1>2 DEF AppointAnother
  <2>2. YearTypeOK'
    BY <1>t, <2>1 DEF YearTypeOK
  <2>3. ShownAsAssigned'
    BY <2>1 DEF ShownAsAssigned
  <2> QED
    BY <2>1, <2>2, <2>3, SchoolKeeps
<1>3. ASSUME NEW c \in SeedClasses, MoveStudent(c) PROVE YearInv'
  <2>1. /\ enrolled' = [x \in SeedClasses |-> CASE x = c -> "active"
                                                [] x \in ActiveClasses -> "transferred"
                                                [] OTHER -> enrolled[x]]
        /\ c \notin ActiveClasses
        /\ ajar' = (ajar \ {"student"}) \cup ({"student"} \cap AnyHalfDone)
        /\ UNCHANGED <<req, seedOf, unscoped, terms, assigned, shown>> /\ dropped' = FALSE
    BY <1>3 DEF MoveStudent
  <2>2. enrolled' \in [SeedClasses -> {"none", "active", "transferred"}]
    BY <1>t, <2>1 DEF YearTypeOK
  <2>3. YearTypeOK'
    BY <1>t, <2>1, <2>2 DEF YearTypeOK
  <2>4. ActiveClasses' = {c}
    BY <2>1 DEF ActiveClasses
  <2>5. InOneClass'
    BY <2>1, <2>4 DEF InOneClass
  <2> QED
    BY <2>1, <2>3, <2>5, SchoolKeeps
<1>4. CASE UNCHANGED yearVars
  BY <1>4 DEF yearVars, YearInv, YearTypeOK, OneTerm, ShownAsAssigned, InOneClass, ActiveClasses,
              SeedRead, Unsettled
<1> QED
  BY <1>1, <1>2, <1>3, <1>4, BeginYearSeedKeeps, SeedTermKeeps, EndOtherTermsKeeps,
     UnscopeEnrolmentsKeeps, SeedAssignmentKeeps, SeedShownKeeps, TransferFromOthersKeeps,
     EnrolStudentKeeps, KillYearSeedKeeps DEF YearNext

\* With it, what is settled is as the seed means it.
LEMMA YearImplies == YearInv => SampleSettles
<1> SUFFICES ASSUME YearInv PROVE SampleSettles
  OBVIOUS
<1>1. \A what : Unsettled(what) => ~Settled(what)
  BY DEF Unsettled, Settled, AnyHalfDone, HalfDone, HalfOf
<1>2. OneTerm => Cardinality(ActiveTerms) <= 1
  <2> SUFFICES ASSUME OneTerm PROVE Cardinality(ActiveTerms) <= 1
    OBVIOUS
  <2>1. ActiveTerms = {} \/ ActiveTerms = {"first"} \/ ActiveTerms = {"second"}
    BY DEF OneTerm, ActiveTerms, TermIds
  <2>2. Cardinality({}) = 0 /\ \A x : Cardinality({x}) = 1
    BY FS_EmptySet, FS_Singleton
  <2>3. Cardinality(ActiveTerms) \in {0, 1}
    BY <2>1, <2>2
  <2> QED
    BY <2>3
<1>3. InOneClass =>
         Cardinality(ActiveClasses)
            = IF dropped \/ \A c \in SeedClasses : enrolled[c] = "none" THEN 0 ELSE 1
  <2>1. CASE ActiveClasses = {}
    BY <2>1, FS_EmptySet DEF InOneClass
  <2>2. ASSUME NEW c \in SeedClasses, ActiveClasses = {c}, ~dropped
        PROVE  /\ Cardinality(ActiveClasses) = 1
               /\ ~\A x \in SeedClasses : enrolled[x] = "none"
    <3>1. enrolled[c] = "active"
      BY <2>2 DEF ActiveClasses
    <3> QED
      BY <2>2, <3>1, FS_Singleton
  <2>3. (\A c \in SeedClasses : enrolled[c] = "none") => ActiveClasses = {}
    BY DEF ActiveClasses
  <2> QED
    BY <2>1, <2>2, <2>3 DEF InOneClass
<1> QED
  BY <1>1, <1>2, <1>3 DEF YearInv, ShownAsAssigned, SampleSettles
\* With no run in between or killed there, a school has one active term, the class shows its teacher
\* and the student is in one class, or in none where the schools' seed took him for another's (seed.ts, seed-schools.ts and seed-attendance-feature.ts).
THEOREM SampleStaysSettled == YearSpec => []SampleSettles
  BY YearBegins, YearStep, YearImplies, PTL DEF YearSpec

-----------------------------------------------------------------------------
(* The back office as a whole *)

\* The inductive invariant of the back office: that of the part that runs. Of the others it says
\* nothing, since they may share the requests in flight with it.
BackOfficeInv ==
    /\ part = "provisioning" => ProvisioningInv
    /\ part = "foundations" => CountedInv
    /\ part = "clients" => ClientsInv
    /\ part = "sessions" => SessionsInv
    /\ part = "codes" => CodesInv
    /\ part = "records" => RecordsInv
    /\ part = "guardians" => GuardiansInv
    /\ part = "files" => FilesInv
    /\ part = "reports" => ReportsInv
    /\ part = "branches" => BranchesInv
    /\ part = "dashboards" => DashboardsTypeOK
    /\ part = "seeds" => SampleInv
    /\ part = "year" => YearInv
    /\ part = "news" => NewsInv
    /\ part = "proofs" => CategoryInv

\* Every part begins in its invariant.
LEMMA BackOfficeBegins == Init => BackOfficeInv
  BY ProvisioningBegins, CountedBegin, ClientsBegin, SessionsBegin, CodesBegin,
     RecordsBegin, GuardiansBegin, FilesBegin, ReportsBegin, BranchesBegin,
     DashboardsBegin, SampleBegins, YearBegins, NewsBegin, CategoryBegin
     DEF Init, BackOfficeInv

\* A step is one of the part that runs, and keeps its invariant.
LEMMA BackOfficeStep ==
  ASSUME BackOfficeInv, [Next]_backOfficeVars
  PROVE  BackOfficeInv'
<1>0. part' = part
  BY DEF Next, backOfficeVars
<1>1. part = "provisioning" => ProvisioningInv'
  <2> SUFFICES ASSUME part = "provisioning" PROVE ProvisioningInv'
    OBVIOUS
  <2>1. ProvisioningInv
    BY DEF BackOfficeInv
  <2>2. [ProvisioningNext]_provisioningVars
    BY Zenon DEF Next, backOfficeVars
  <2> QED
    BY <2>1, <2>2, ProvisioningStep
<1>2. part = "foundations" => CountedInv'
  <2> SUFFICES ASSUME part = "foundations" PROVE CountedInv'
    OBVIOUS
  <2>1. CountedInv
    BY DEF BackOfficeInv
  <2>2. [FoundationsNext]_foundationsVars
    BY Zenon DEF Next, backOfficeVars
  <2> QED
    BY <2>1, <2>2, CountedStep
<1>3. part = "clients" => ClientsInv'
  <2> SUFFICES ASSUME part = "clients" PROVE ClientsInv'
    OBVIOUS
  <2>1. ClientsInv
    BY DEF BackOfficeInv
  <2>2. [ClientsNext]_clientsVars
    BY Zenon DEF Next, backOfficeVars
  <2> QED
    BY <2>1, <2>2, ClientsStep
<1>4. part = "sessions" => SessionsInv'
  <2> SUFFICES ASSUME part = "sessions" PROVE SessionsInv'
    OBVIOUS
  <2>1. SessionsInv
    BY DEF BackOfficeInv
  <2>2. [SessionsNext]_sessionsVars
    BY Zenon DEF Next, backOfficeVars
  <2> QED
    BY <2>1, <2>2, SessionsStep
<1>5. part = "codes" => CodesInv'
  <2> SUFFICES ASSUME part = "codes" PROVE CodesInv'
    OBVIOUS
  <2>1. CodesInv
    BY DEF BackOfficeInv
  <2>2. [ResetCodesNext]_resetCodesVars
    BY Zenon DEF Next, backOfficeVars
  <2> QED
    BY <2>1, <2>2, CodesStep
<1>6. part = "records" => RecordsInv'
  <2> SUFFICES ASSUME part = "records" PROVE RecordsInv'
    OBVIOUS
  <2>1. RecordsInv
    BY DEF BackOfficeInv
  <2>2. [RecordsNext]_recordsVars
    BY Zenon DEF Next, backOfficeVars
  <2> QED
    BY <2>1, <2>2, RecordsStep
<1>7. part = "guardians" => GuardiansInv'
  <2> SUFFICES ASSUME part = "guardians" PROVE GuardiansInv'
    OBVIOUS
  <2>1. GuardiansInv
    BY DEF BackOfficeInv
  <2>2. [GuardiansNext]_guardiansVars
    BY Zenon DEF Next, backOfficeVars
  <2> QED
    BY <2>1, <2>2, GuardiansStep
<1>8. part = "files" => FilesInv'
  <2> SUFFICES ASSUME part = "files" PROVE FilesInv'
    OBVIOUS
  <2>1. FilesInv
    BY DEF BackOfficeInv
  <2>2. [FilesNext]_filesVars
    BY Zenon DEF Next, backOfficeVars
  <2> QED
    BY <2>1, <2>2, FilesStep
<1>9. part = "reports" => ReportsInv'
  <2> SUFFICES ASSUME part = "reports" PROVE ReportsInv'
    OBVIOUS
  <2>1. ReportsInv
    BY DEF BackOfficeInv
  <2>2. [ReportsNext]_reportsVars
    BY Zenon DEF Next, backOfficeVars
  <2> QED
    BY <2>1, <2>2, ReportsStep
<1>10. part = "branches" => BranchesInv'
  <2> SUFFICES ASSUME part = "branches" PROVE BranchesInv'
    OBVIOUS
  <2>1. BranchesInv
    BY DEF BackOfficeInv
  <2>2. [BranchesNext]_branchesVars
    BY Zenon DEF Next, backOfficeVars
  <2> QED
    BY <2>1, <2>2, BranchesStep
<1>11. part = "dashboards" => DashboardsTypeOK'
  <2> SUFFICES ASSUME part = "dashboards" PROVE DashboardsTypeOK'
    OBVIOUS
  <2>1. DashboardsTypeOK
    BY DEF BackOfficeInv
  <2>2. [DashboardsNext]_dashboardsVars
    BY Zenon DEF Next, backOfficeVars
  <2> QED
    BY <2>1, <2>2, DashboardsStep
<1>12. part = "seeds" => SampleInv'
  <2> SUFFICES ASSUME part = "seeds" PROVE SampleInv'
    OBVIOUS
  <2>1. SampleInv
    BY DEF BackOfficeInv
  <2>2. [SampleNext]_sampleVars
    BY Zenon DEF Next, backOfficeVars
  <2> QED
    BY <2>1, <2>2, SampleStep
<1>13. part = "year" => YearInv'
  <2> SUFFICES ASSUME part = "year" PROVE YearInv'
    OBVIOUS
  <2>1. YearInv
    BY DEF BackOfficeInv
  <2>2. [YearNext]_yearVars
    BY Zenon DEF Next, backOfficeVars
  <2> QED
    BY <2>1, <2>2, YearStep
<1>14. part = "news" => NewsInv'
  <2> SUFFICES ASSUME part = "news" PROVE NewsInv'
    OBVIOUS
  <2>1. NewsInv
    BY DEF BackOfficeInv
  <2>2. [NewsNext]_newsVars
    BY Zenon DEF Next, backOfficeVars
  <2> QED
    BY <2>1, <2>2, NewsStep
<1>15. part = "proofs" => CategoryInv'
  <2> SUFFICES ASSUME part = "proofs" PROVE CategoryInv'
    OBVIOUS
  <2>1. CategoryInv
    BY DEF BackOfficeInv
  <2>2. [ProofsNext]_proofsVars
    BY Zenon DEF Next, backOfficeVars
  <2> QED
    BY <2>1, <2>2, CategoryStep
<1> QED
  BY <1>0, <1>1, <1>2, <1>3, <1>4, <1>5, <1>6, <1>7, <1>8, <1>9, <1>10, <1>11, <1>12, <1>13, <1>14, <1>15 DEF BackOfficeInv

\* The variables of every part of the back office keep their types.
THEOREM BackOfficeTypeCorrect == Spec => []TypeOK
<1>1. BackOfficeInv => TypeOK
  BY DEF BackOfficeInv, TypeOK, ProvisioningInv, CountedInv, FoundationsInv, ClientsInv, SessionsInv,
         CodesInv, RecordsInv, GuardiansInv, FilesInv, ReportsInv, BranchesInv, SampleInv, YearInv, NewsInv,
         CategoryInv
<1> QED
  BY <1>1, BackOfficeBegins, BackOfficeStep, PTL DEF Spec

\* A tenant that is a school has its schema, and its parent is a foundation, unless the histories of
\* the two parts tell why not (the tenants, the registration and src/src/tenant).
THEOREM TenantsStayKept == Spec => []TenantsKept
<1>1. BackOfficeInv => TenantsKept
  BY ProvisioningImplies, FoundationsImply DEF BackOfficeInv, TenantsKept, CountedInv
<1> QED
  BY <1>1, BackOfficeBegins, BackOfficeStep, PTL DEF Spec

\* A student has one primary guardian, an applicant the category of the last proof, and a class
\* hears once of its timetable (the students, the proofs of the admissions, the schedules).
THEOREM StudentsStayKept == Spec => []StudentsKept
<1>1. BackOfficeInv => StudentsKept
  BY GuardiansImply, CategoryImplies, NewsImplies DEF BackOfficeInv, StudentsKept
<1> QED
  BY <1>1, BackOfficeBegins, BackOfficeStep, PTL DEF Spec

\* A seed leaves what one run leaves, however often it is run (src/prisma/tenant).
THEOREM SeedsStaySettled == Spec => []SeedsSettle
<1>1. BackOfficeInv => SeedsSettle
  BY SampleImplies, YearImplies DEF BackOfficeInv, SeedsSettle
<1> QED
  BY <1>1, BackOfficeBegins, BackOfficeStep, PTL DEF Spec

\* The attendance pages agree as ReportsAgree says, the foundation's dashboard is right but for schools
\* that change while it counts, the superadmin's counts every school: FiguresAgree, whatever part of
\* the back office runs.
THEOREM FiguresStayAgreed == Spec => []FiguresAgree
<1>1. BackOfficeInv => FiguresAgree
  BY ReportsImply, DashboardsImply, CountedImply DEF BackOfficeInv, FiguresAgree
<1> QED
  BY <1>1, BackOfficeBegins, BackOfficeStep, PTL DEF Spec
=============================================================================
