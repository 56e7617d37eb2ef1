----------------------------- MODULE AuthProofs -----------------------------
(***************************************************************************)
(* Theorems about module Auth, for any number of profiles, calls, tokens   *)
(* and logins.                                                             *)
(***************************************************************************)
EXTENDS Auth, HashProofs

Grant == [owner : Profiles, client : Nat, alive : BOOLEAN]
Tokens == 1..Len(granted)

-----------------------------------------------------------------------------
(* The inductive invariant.                                                *)

\* What every call says of itself.
CallsSane ==
    \A k \in Calls :
        /\ call[k].waits => call[k].at \in {"asked", "answered"}
        /\ call[k].at # "nowhere" => call[k].by \in Profiles /\ call[k].op # "none"
        /\ call[k].by # NoOne => call[k].at # "nowhere"
        /\ call[k].answer # 0 =>
            call[k].op \in Exclusive /\ call[k].at \in {"answered", "taken"}
        /\ call[k].op = "refresh" /\ call[k].answer # 0 => call[k].access # 0
        /\ call[k].op = "join_server" =>
            call[k].access # 0 /\ call[k].login \in Logins /\ digest[call[k].login] # NoOne

\* A call that borrows a profile exclusively is the only one.
ExclusiveAlone ==
    \A j, k \in Calls :
        /\ call[j].waits /\ call[k].waits /\ call[j].by = call[k].by
        /\ call[j].op \in Exclusive
        => j = k

\* Whose the tokens are that profiles and requests carry.
TokensOwned ==
    /\ \A t \in Tokens : granted[t].client \in Tokens
    /\ \A p \in Profiles :
        /\ access[p] # 0 => access[p] \in Tokens /\ granted[access[p]].owner = p
        /\ selected[p] <=> access[p] # 0
    /\ \A k \in Calls :
        /\ call[k].access # 0 =>
            call[k].access \in Tokens /\ granted[call[k].access].owner = call[k].by
        /\ call[k].selected <=> call[k].access # 0
        /\ call[k].answer # 0 => call[k].answer \in Tokens

SignedOut(p) ==
    \E k \in Calls :
        call[k].by = p /\ call[k].op = "signout" /\ call[k].at \in {"answered", "taken"}

\* A token that is still in an answer is nowhere else, and good unless its
\* account was signed out.
AnswersFresh ==
    \A k \in Calls : call[k].at = "answered" /\ call[k].answer # 0 =>
        /\ call[k].answer \in Tokens
        /\ granted[call[k].answer].owner = call[k].by
        /\ granted[call[k].answer].alive \/ SignedOut(call[k].by)
        /\ \A p \in Profiles : access[p] # call[k].answer
        /\ \A j \in Calls : call[j].access # call[k].answer
        /\ \A j \in Calls : call[j].answer = call[k].answer => j = k

\* The text of a login is known to Mojang from a player who joined it.
JoinsMeant ==
    /\ \A l \in Logins : digest[l] # NoOne <=> login[l] # "none"
    /\ \A l, m \in Logins : digest[l] = digest[m] /\ digest[l] # NoOne => l = m
    /\ \A pl \in joined : digest[pl[2]] # NoOne
    /\ \A pt \in joins : \E l \in Logins :
        <<pt[1], l>> \in joined /\ pt[2] = CalcHash(digest[l])

\* What a request says of the profile is still so while its call waits: the
\* borrows let nobody change the profile meanwhile.
RequestIsCurrent ==
    \A k \in Calls : call[k].waits =>
        /\ call[k].access = access[call[k].by]
        /\ call[k].client = client[call[k].by]
        /\ call[k].selected = selected[call[k].by]

LossInv == RequestIsCurrent /\ TokenLossExplained

AuthInv ==
    AuthTypeOK /\ CallsSane /\ ExclusiveAlone /\ TokensOwned /\ AnswersFresh
    /\ LossInv

LEMMA AuthInvInit == Init => AuthInv /\ JoinsMeant
<1> SUFFICES ASSUME Init PROVE AuthInv /\ JoinsMeant
    OBVIOUS
<1>1. granted = <<>> /\ Len(granted) = 0 /\ granted \in Seq(Grant)
    BY DEF Init
<1>2. \A k \in Calls : call[k] = NoCall /\ NoCall \in CallType
    BY DEF Init, NoCall, CallType
<1>3. AuthTypeOK
    BY <1>1, <1>2 DEF Init, AuthTypeOK, Grant
<1>4. CallsSane /\ ExclusiveAlone /\ AnswersFresh
    BY <1>2 DEF NoCall, CallsSane, ExclusiveAlone, AnswersFresh
<1>a. TokensOwned
    BY <1>1, <1>2 DEF Init, NoCall, TokensOwned, Tokens
<1>b. LossInv
    BY <1>2 DEF Init, NoCall, LossInv, RequestIsCurrent, TokenLossExplained
<1>5. JoinsMeant
    BY DEF Init, JoinsMeant
<1>6. QED
    BY <1>3, <1>4, <1>a, <1>b, <1>5 DEF AuthInv

-----------------------------------------------------------------------------
(* The calls of a profile.                                                 *)

LEMMA AskKeepsInv ==
    ASSUME AuthInv, NEW k \in Calls, NEW p \in Profiles, NEW op \in Exclusive \cup Shared,
           NEW l \in Logins \cup {NoOne}, Ask(k, p, op, l),
           op = "join_server" => access[p] # 0 /\ l \in Logins /\ digest[l] # NoOne
    PROVE  AuthInv'
<1> DEFINE c == [op |-> op, by |-> p, access |-> access[p], client |-> client[p],
                 selected |-> selected[p], login |-> l,
                 at |-> "asked", waits |-> TRUE, answer |-> 0]
<1>1. /\ call[k] = NoCall /\ UNCHANGED <<profileVars, mojangVars, loginVars>>
      /\ \A j \in Calls : call'[j] = IF j = k THEN c ELSE call[j]
      /\ MayBorrow(p, op)
    BY DEF Ask, AuthInv, AuthTypeOK
<1>2. c \in CallType
    BY DEF AuthInv, AuthTypeOK, CallType
<1>3. AuthTypeOK'
    BY <1>1, <1>2 DEF AuthInv, AuthTypeOK, Ask, profileVars, mojangVars, loginVars
<1>4. CallsSane'
    BY <1>1, AuthAssumption DEF AuthInv, CallsSane, loginVars, Exclusive, Shared
<1>5. ExclusiveAlone'
    <2>1. \A j \in Calls : j # k /\ call[j].waits /\ call[j].by = p =>
            op \notin Exclusive /\ call[j].op \notin Exclusive
        <3> SUFFICES ASSUME NEW j \in Calls, call[j].waits, call[j].by = p
                     PROVE  op \notin Exclusive /\ call[j].op \notin Exclusive
            OBVIOUS
        <3>1. call[j].op \in Exclusive \cup Shared
            BY DEF AuthInv, CallsSane, AuthTypeOK, CallType
        <3>2. QED
            BY <1>1, <3>1 DEF MayBorrow, Pending
    <2>2. QED
        BY <1>1, <2>1 DEF AuthInv, ExclusiveAlone, NoCall
<1>6. TokensOwned'
    BY <1>1 DEF AuthInv, TokensOwned, Tokens, profileVars, mojangVars
<1>7. \A q \in Profiles : SignedOut(q) => SignedOut(q)'
    BY <1>1 DEF SignedOut, NoCall
<1>8. AnswersFresh'
    BY <1>1, <1>7 DEF AuthInv, AnswersFresh, CallsSane, Tokens, profileVars, mojangVars
<1>9. RequestIsCurrent'
    BY <1>1 DEF AuthInv, LossInv, RequestIsCurrent, profileVars
<1>10. TokenLossExplained'
    BY <1>1 DEF AuthInv, LossInv, TokenLossExplained, NoCall, profileVars, mojangVars
<1>11. QED
    BY <1>3, <1>4, <1>5, <1>6, <1>8, <1>9, <1>10 DEF AuthInv, LossInv

\* What a step does to one call `k`, all of whose fields but `waits`, `at` and
\* `answer` stay for good.
Moves(k, at, waits, answer) ==
    /\ \A j \in Calls : j # k => call'[j] = call[j]
    /\ call' \in [Calls -> CallType]
    /\ call'[k].op = call[k].op /\ call'[k].by = call[k].by
    /\ call'[k].access = call[k].access /\ call'[k].client = call[k].client
    /\ call'[k].selected = call[k].selected /\ call'[k].login = call[k].login
    /\ call'[k].at = at /\ call'[k].waits = waits /\ call'[k].answer = answer

LEMMA CallMoves ==
    ASSUME AuthTypeOK, NEW k \in Calls
    PROVE  /\ NoAnswer(k) => Moves(k, call[k].at, FALSE, call[k].answer)
           /\ Returns(k) => Moves(k, "taken", FALSE, call[k].answer)
           /\ \A t \in Nat : Answer(k, t) => Moves(k, "answered", call[k].waits, t)
<1>1. call \in [Calls -> CallType] /\ call[k] \in CallType
    BY DEF AuthTypeOK
<1>2. ASSUME NoAnswer(k)
      PROVE  Moves(k, call[k].at, FALSE, call[k].answer)
    <2>1. call' = [call EXCEPT ![k] = [call[k] EXCEPT !.waits = FALSE]]
        BY <1>2 DEF NoAnswer
    <2>2. [call[k] EXCEPT !.waits = FALSE] \in CallType
        BY <1>1 DEF CallType
    <2>3. QED
        BY <1>1, <2>1, <2>2 DEF Moves, CallType
<1>3. ASSUME Returns(k)
      PROVE  Moves(k, "taken", FALSE, call[k].answer)
    <2>1. call' = [call EXCEPT ![k] = [call[k] EXCEPT !.waits = FALSE, !.at = "taken"]]
        BY <1>1, <1>3 DEF Returns
    <2>2. [call[k] EXCEPT !.waits = FALSE, !.at = "taken"] \in CallType
        BY <1>1 DEF CallType
    <2>3. QED
        BY <1>1, <2>1, <2>2 DEF Moves, CallType
<1>4. ASSUME NEW t \in Nat, Answer(k, t)
      PROVE  Moves(k, "answered", call[k].waits, t)
    <2>1. call' = [call EXCEPT ![k] = [call[k] EXCEPT !.at = "answered", !.answer = t]]
        BY <1>1, <1>4 DEF Answer
    <2>2. [call[k] EXCEPT !.at = "answered", !.answer = t] \in CallType
        BY <1>1 DEF CallType
    <2>3. QED
        BY <1>1, <2>1, <2>2 DEF Moves, CallType
<1>5. QED
    BY <1>2, <1>3, <1>4

LEMMA NoAnswerKeepsInv ==
    ASSUME AuthInv, NEW k \in Calls, NoAnswer(k)
    PROVE  AuthInv'
<1>1. /\ Moves(k, call[k].at, FALSE, call[k].answer)
      /\ UNCHANGED <<profileVars, mojangVars, loginVars>>
    BY CallMoves DEF AuthInv, NoAnswer
<1>2. AuthTypeOK'
    BY <1>1 DEF AuthInv, AuthTypeOK, Moves, profileVars, mojangVars, loginVars
<1>3. CallsSane' /\ ExclusiveAlone'
    BY <1>1 DEF AuthInv, CallsSane, ExclusiveAlone, Moves, loginVars
<1>4. TokensOwned'
    BY <1>1 DEF AuthInv, TokensOwned, Tokens, Moves, profileVars, mojangVars
<1>5. \A q \in Profiles : SignedOut(q) => SignedOut(q)'
    BY <1>1 DEF SignedOut, Moves
<1>6. AnswersFresh'
    BY <1>1, <1>5 DEF AuthInv, AnswersFresh, CallsSane, Tokens, Moves, profileVars, mojangVars
<1>7. RequestIsCurrent'
    BY <1>1 DEF AuthInv, LossInv, RequestIsCurrent, Moves, profileVars
<1>8. TokenLossExplained'
    BY <1>1 DEF AuthInv, LossInv, TokenLossExplained, Moves, profileVars, mojangVars
<1>9. QED
    BY <1>2, <1>3, <1>4, <1>6, <1>7, <1>8 DEF AuthInv, LossInv

\* The answer to an exclusive call: the token in it is the profile's from now.
LEMMA TakingKeepsInv ==
    ASSUME AuthInv, NEW k \in Calls, Moves(k, "taken", FALSE, call[k].answer),
           call[k].waits, call[k].at = "answered", call[k].answer # 0,
           access' = [access EXCEPT ![call[k].by] = call[k].answer],
           selected' = [selected EXCEPT ![call[k].by] = TRUE],
           client' \in [Profiles -> 0..Len(granted)],
           \A q \in Profiles : q # call[k].by => client'[q] = client[q],
           UNCHANGED <<mojangVars, loginVars>>
    PROVE  AuthInv'
<1> DEFINE p == call[k].by
           t == call[k].answer
<1>1. /\ p \in Profiles /\ call[k].op \in Exclusive
      /\ t \in Tokens /\ t # 0 /\ granted[t].owner = p /\ (granted[t].alive \/ SignedOut(p))
    BY DEF AuthInv, CallsSane, AnswersFresh, Tokens
<1>2. \A q \in Profiles : /\ access'[q] = IF q = p THEN t ELSE access[q]
                          /\ selected'[q] = IF q = p THEN TRUE ELSE selected[q]
    BY <1>1 DEF AuthInv, AuthTypeOK
<1>3. AuthTypeOK'
    <2>1. access' \in [Profiles -> 0..Len(granted)] /\ selected' \in [Profiles -> BOOLEAN]
        BY <1>1 DEF AuthInv, AuthTypeOK, Tokens
    <2>2. \A q \in Profiles : selected'[q] => access'[q] # 0
        BY <1>1, <1>2 DEF AuthInv, AuthTypeOK
    <2>3. QED
        BY <2>1, <2>2 DEF AuthInv, AuthTypeOK, Moves, mojangVars, loginVars
<1>4. CallsSane' /\ ExclusiveAlone'
    BY <1>1 DEF AuthInv, CallsSane, ExclusiveAlone, Moves, loginVars
<1>5. TokensOwned'
    <2>1. Tokens' = Tokens /\ granted' = granted
        BY DEF Tokens, mojangVars
    <2>2. \A q \in Profiles :
            /\ access'[q] # 0 => access'[q] \in Tokens /\ granted[access'[q]].owner = q
            /\ selected'[q] <=> access'[q] # 0
        <3> SUFFICES ASSUME NEW q \in Profiles
                     PROVE  /\ access'[q] # 0 => access'[q] \in Tokens
                                                /\ granted[access'[q]].owner = q
                            /\ selected'[q] <=> access'[q] # 0
            OBVIOUS
        <3>1. CASE q = p
            <4>1. access'[q] = t /\ selected'[q]
                BY <1>1, <1>2, <3>1
            <4>2. QED
                BY <1>1, <3>1, <4>1
        <3>2. CASE q # p
            <4>1. access'[q] = access[q] /\ selected'[q] = selected[q]
                BY <1>2, <3>2
            <4>2. QED
                BY <4>1 DEF AuthInv, TokensOwned
        <3>3. QED
            BY <3>1, <3>2
    <2>3. \A j \in Calls :
            /\ call'[j].access = call[j].access /\ call'[j].by = call[j].by
            /\ call'[j].selected = call[j].selected /\ call'[j].answer = call[j].answer
        BY DEF Moves
    <2>4. QED
        BY <2>1, <2>2, <2>3 DEF AuthInv, TokensOwned
<1>6. \A q \in Profiles : SignedOut(q) => SignedOut(q)'
    BY DEF SignedOut, Moves
<1>7. AnswersFresh'
    <2> SUFFICES ASSUME NEW j \in Calls, call'[j].at = "answered", call'[j].answer # 0
                 PROVE  /\ call'[j].answer \in Tokens'
                        /\ granted'[call'[j].answer].owner = call'[j].by
                        /\ granted'[call'[j].answer].alive \/ SignedOut(call[j].by)'
                        /\ \A q \in Profiles : access'[q] # call'[j].answer
                        /\ \A i \in Calls : call'[i].access # call'[j].answer
                        /\ \A i \in Calls : call'[i].answer = call'[j].answer => i = j
        BY DEF AnswersFresh
    <2>1. j # k /\ call'[j] = call[j] /\ call[j].answer # t /\ call[j].by \in Profiles
        BY DEF Moves, AuthInv, AnswersFresh, CallsSane
    <2>2. \A i \in Calls : call'[i].access = call[i].access /\ call'[i].answer = call[i].answer
        BY DEF Moves
    <2>3. /\ call[j].answer \in Tokens /\ granted[call[j].answer].owner = call[j].by
          /\ granted[call[j].answer].alive \/ SignedOut(call[j].by)
          /\ \A q \in Profiles : access[q] # call[j].answer
          /\ \A i \in Calls : call[i].access # call[j].answer
          /\ \A i \in Calls : call[i].answer = call[j].answer => i = j
        BY <2>1 DEF AuthInv, AnswersFresh
    <2>4. Tokens' = Tokens /\ granted' = granted
        BY DEF Tokens, mojangVars
    <2>5. SignedOut(call[j].by) => SignedOut(call[j].by)'
        BY <2>1 DEF SignedOut, Moves
    <2>6. QED
        BY <1>2, <2>1, <2>2, <2>3, <2>4, <2>5
<1>8. RequestIsCurrent'
    <2> SUFFICES ASSUME NEW j \in Calls, call'[j].waits
                 PROVE  /\ call'[j].access = access'[call'[j].by]
                        /\ call'[j].client = client'[call'[j].by]
                        /\ call'[j].selected = selected'[call'[j].by]
        BY DEF RequestIsCurrent
    <2>1. j # k /\ call'[j] = call[j]
        BY DEF Moves
    <2>2. call[j].by # p /\ call[j].by \in Profiles
        BY <1>1, <2>1 DEF AuthInv, ExclusiveAlone, CallsSane
    <2>3. QED
        BY <1>2, <2>1, <2>2 DEF AuthInv, LossInv, RequestIsCurrent
<1>9. TokenLossExplained'
    <2> SUFFICES ASSUME NEW q \in Profiles, access'[q] # 0
                 PROVE  /\ granted[access'[q]].owner = q
                        /\ \/ granted[access'[q]].alive
                           \/ \E j \in Calls :
                                /\ call'[j].by = q
                                /\ \/ call'[j].op = "signout" /\ call'[j].at \in {"answered", "taken"}
                                   \/ /\ call'[j].access = access'[q]
                                      /\ \/ call'[j].op = "invalidate" /\ call'[j].at \in {"answered", "taken"}
                                         \/ call'[j].op = "refresh" /\ call'[j].at = "answered" /\ call'[j].answer # 0
        BY DEF TokenLossExplained, mojangVars
    <2>1. CASE q = p
        <3>1. access'[q] = t /\ granted[t].owner = q
            BY <1>1, <1>2, <2>1
        <3>2. ASSUME SignedOut(p)
              PROVE  \E j \in Calls : /\ call'[j].by = q /\ call'[j].op = "signout"
                                      /\ call'[j].at \in {"answered", "taken"}
            <4>1. PICK j \in Calls : call[j].by = p /\ call[j].op = "signout"
                                     /\ call[j].at \in {"answered", "taken"}
                BY <3>2 DEF SignedOut
            <4>2. call'[j].by = q /\ call'[j].op = "signout"
                  /\ call'[j].at \in {"answered", "taken"}
                BY <2>1, <4>1 DEF Moves
            <4>3. QED
                BY <4>2
        <3>3. QED
            BY <1>1, <3>1, <3>2
    <2>2. CASE q # p
        <3>1. access'[q] = access[q]
            BY <1>2, <2>2
        <3>2. \A j \in Calls : call[j].by = q => call'[j] = call[j]
            BY <2>2 DEF Moves
        <3>3. QED
            BY <3>1, <3>2 DEF AuthInv, LossInv, TokenLossExplained
    <2>3. QED
        BY <2>1, <2>2
<1>10. QED
    BY <1>3, <1>4, <1>5, <1>7, <1>8, <1>9 DEF AuthInv, LossInv

LEMMA ReturnsKeepsInv ==
    ASSUME AuthInv, NEW k \in Calls, Returns(k)
    PROVE  AuthInv'
<1> DEFINE p == call[k].by
           t == call[k].answer
<1>1. /\ Moves(k, "taken", FALSE, t) /\ UNCHANGED <<mojangVars, loginVars>>
      /\ call[k].waits /\ call[k].at = "answered" /\ p \in Profiles
    BY CallMoves DEF AuthInv, Returns, CallsSane
<1>2. CASE AuthenticateReturns(k)
    <2>1. client' \in [Profiles -> 0..Len(granted)]
        BY <1>2 DEF AuthenticateReturns, AuthInv, AuthTypeOK
    <2>2. QED
        BY <1>1, <1>2, <2>1, TakingKeepsInv DEF AuthenticateReturns
<1>3. CASE RefreshReturns(k)
    <2>1. selected[p]
        BY <1>1, <1>3 DEF RefreshReturns, AuthInv, CallsSane, LossInv, RequestIsCurrent,
                          TokensOwned
    <2>2. selected' = [selected EXCEPT ![p] = TRUE]
        BY <1>3, <2>1 DEF RefreshReturns, AuthInv, AuthTypeOK
    <2>3. granted[t].client \in 0..Len(granted)
        BY <1>1, <1>3 DEF RefreshReturns, AuthInv, AnswersFresh, TokensOwned, Tokens
    <2>4. /\ client' \in [Profiles -> 0..Len(granted)]
          /\ \A q \in Profiles : q # p => client'[q] = client[q]
        BY <1>3, <2>3 DEF RefreshReturns, AuthInv, AuthTypeOK
    <2>5. QED
        BY <1>1, <1>3, <2>2, <2>4, TakingKeepsInv DEF RefreshReturns
<1>4. CASE OtherReturns(k)
    <2>1. UNCHANGED profileVars /\ (call[k].op \in Shared \/ t = 0)
        BY <1>4 DEF OtherReturns
    <2>2. AuthTypeOK'
        BY <1>1, <2>1 DEF AuthInv, AuthTypeOK, Moves, profileVars, mojangVars, loginVars
    <2>3. CallsSane' /\ ExclusiveAlone'
        BY <1>1 DEF AuthInv, CallsSane, ExclusiveAlone, Moves, loginVars
    <2>4. TokensOwned'
        BY <1>1, <2>1 DEF AuthInv, TokensOwned, Tokens, Moves, profileVars, mojangVars
    <2>5. \A q \in Profiles : SignedOut(q) => SignedOut(q)'
        BY <1>1 DEF SignedOut, Moves
    <2>6. AnswersFresh'
        BY <1>1, <2>1, <2>5 DEF AuthInv, AnswersFresh, CallsSane, Tokens, Moves, profileVars,
                                mojangVars
    <2>7. RequestIsCurrent'
        BY <1>1, <2>1 DEF AuthInv, LossInv, RequestIsCurrent, Moves, profileVars
    <2>8. call[k].op = "refresh" => t = 0
        BY <2>1 DEF Shared
    <2>9. TokenLossExplained'
        BY <1>1, <2>1, <2>8
        DEF AuthInv, LossInv, TokenLossExplained, Moves, profileVars, mojangVars
    <2>10. QED
        BY <2>2, <2>3, <2>4, <2>6, <2>7, <2>9 DEF AuthInv, LossInv
<1>5. QED
    BY <1>2, <1>3, <1>4 DEF Returns

-----------------------------------------------------------------------------
(* Mojang.                                                                 *)

\* Whatever Mojang does at a request: it takes back tokens only as it is
\* asked, and a token in its answer is a new one of the account that asks.
LEMMA MojangKeepsInv ==
    ASSUME AuthInv, NEW k \in Calls, NEW n \in Nat,
           call[k].at = "asked", Moves(k, "answered", call[k].waits, n),
           UNCHANGED <<profileVars, loginVars>>,
           granted' \in Seq(Grant),
           joins' \subseteq Profiles \X Texts, joined' \subseteq Profiles \X Logins,
           \A t \in Tokens : /\ t \in Tokens'
                             /\ granted'[t].owner = granted[t].owner
                             /\ granted'[t].client = granted[t].client,
           \A t \in Tokens' \ Tokens : granted'[t].client \in Tokens',
           n # 0 => /\ call[k].op \in Exclusive /\ n \in Tokens' \ Tokens
                    /\ granted'[n].owner = call[k].by /\ granted'[n].alive
                    /\ call[k].op = "refresh" => call[k].access # 0,
           \A t \in Tokens : granted[t].alive /\ ~granted'[t].alive =>
                \/ call[k].op = "signout" /\ granted[t].owner = call[k].by
                \/ call[k].op = "invalidate" /\ t = call[k].access
                \/ call[k].op = "refresh" /\ t = call[k].access /\ n # 0
    PROVE  AuthInv'
<1>1. call[k].answer = 0 /\ call[k].by \in Profiles
    BY DEF AuthInv, CallsSane
<1>2. \A t \in Nat : t \in Tokens <=> t # 0 /\ t <= Len(granted)
    BY DEF Tokens, AuthInv, AuthTypeOK
<1>3. Len(granted) <= Len(granted') /\ Len(granted') \in Nat /\ Len(granted) \in Nat
    <2>1. Len(granted') \in Nat /\ Len(granted) \in Nat
        BY DEF AuthInv, AuthTypeOK
    <2>2. CASE Len(granted) = 0
        BY <2>1, <2>2
    <2>3. CASE Len(granted) # 0
        BY <2>1, <2>3 DEF Tokens
    <2>4. QED
        BY <2>1, <2>2, <2>3
<1>4. AuthTypeOK'
    <2>1. access' \in [Profiles -> 0..Len(granted')] /\ client' \in [Profiles -> 0..Len(granted')]
        BY <1>3 DEF AuthInv, AuthTypeOK, profileVars
    <2>2. QED
        BY <2>1 DEF AuthInv, AuthTypeOK, Moves, Grant, profileVars, loginVars
<1>5. CallsSane' /\ ExclusiveAlone'
    BY DEF AuthInv, CallsSane, ExclusiveAlone, Moves, loginVars
<1>6. TokensOwned'
    <2>1. \A t \in Tokens' : granted'[t].client \in Tokens'
        BY DEF AuthInv, TokensOwned
    <2>2. \A j \in Calls :
            /\ call'[j].access = call[j].access /\ call'[j].by = call[j].by
            /\ call'[j].selected = call[j].selected
            /\ call'[j].answer = call[j].answer \/ call'[j].answer = n
        BY DEF Moves
    <2>3. \A j \in Calls : call'[j].answer # 0 => call'[j].answer \in Tokens'
        BY <2>2 DEF AuthInv, TokensOwned
    <2>4. \A q \in Profiles :
            /\ access'[q] # 0 => access'[q] \in Tokens' /\ granted'[access'[q]].owner = q
            /\ selected'[q] <=> access'[q] # 0
        BY DEF AuthInv, TokensOwned, profileVars
    <2>5. \A j \in Calls :
            /\ call'[j].access # 0 =>
                call'[j].access \in Tokens' /\ granted'[call'[j].access].owner = call'[j].by
            /\ call'[j].selected <=> call'[j].access # 0
        BY <2>2 DEF AuthInv, TokensOwned
    <2>6. QED
        BY <2>1, <2>3, <2>4, <2>5 DEF TokensOwned
<1>7. \A q \in Profiles : SignedOut(q) => SignedOut(q)'
    BY DEF SignedOut, Moves
<1>8. call[k].op = "signout" => SignedOut(call[k].by)'
    BY DEF SignedOut, Moves
<1>9. AnswersFresh'
    <2> SUFFICES ASSUME NEW j \in Calls, call'[j].at = "answered", call'[j].answer # 0
                 PROVE  /\ call'[j].answer \in Tokens'
                        /\ granted'[call'[j].answer].owner = call'[j].by
                        /\ granted'[call'[j].answer].alive \/ SignedOut(call[j].by)'
                        /\ \A q \in Profiles : access'[q] # call'[j].answer
                        /\ \A i \in Calls : call'[i].access # call'[j].answer
                        /\ \A i \in Calls : call'[i].answer = call'[j].answer => i = j
        BY DEF AnswersFresh
    <2>1. /\ \A i \in Calls : call'[i].access = call[i].access
          /\ \A i \in Calls : i # k => call'[i].answer = call[i].answer
          /\ call'[k].answer = n
        BY DEF Moves
    <2>2. CASE j = k
        <3>1. n \in Tokens' /\ n \notin Tokens /\ n # 0
            BY <2>1, <2>2
        <3>2. \A i \in Calls : i # k => call[i].answer # n
            BY <3>1 DEF AuthInv, TokensOwned
        <3>3. (\A q \in Profiles : access[q] # n) /\ (\A i \in Calls : call[i].access # n)
            BY <3>1 DEF AuthInv, TokensOwned
        <3>4. call'[k].by = call[k].by /\ call'[k].answer = n /\ access' = access
            BY DEF Moves, profileVars
        <3>5. granted'[n].owner = call[k].by /\ granted'[n].alive
            BY <3>1
        <3>6. QED
            BY <2>1, <2>2, <3>1, <3>2, <3>3, <3>4, <3>5
    <2>3. CASE j # k
        <3> DEFINE t == call[j].answer
        <3>1. /\ call'[j] = call[j] /\ t \in Tokens /\ granted[t].owner = call[j].by
              /\ granted[t].alive \/ SignedOut(call[j].by)
              /\ t # call[k].access /\ call[j].by \in Profiles
            BY <2>3 DEF Moves, AuthInv, AnswersFresh, CallsSane
        <3>2. granted'[t].alive \/ SignedOut(call[j].by)'
            <4>1. CASE SignedOut(call[j].by)
                BY <4>1 DEF SignedOut, Moves
            <4>2. CASE granted[t].alive /\ ~granted'[t].alive
                <5>1. call[k].op = "signout" /\ call[j].by = call[k].by
                    BY <3>1, <4>2
                <5>2. QED
                    BY <5>1 DEF SignedOut, Moves
            <4>3. QED
                BY <3>1, <4>1, <4>2
        <3>3. \A i \in Calls : call'[i].answer = t => i = j
            <4>1. t # 0 /\ n # t
                BY <2>3, <3>1 DEF Moves
            <4>2. \A i \in Calls : call[i].answer = t => i = j
                BY <3>1 DEF AuthInv, AnswersFresh
            <4>3. QED
                BY <2>1, <2>3, <4>1, <4>2
        <3>4. /\ \A q \in Profiles : access[q] # t
              /\ \A i \in Calls : call[i].access # t
            BY <3>1 DEF AuthInv, AnswersFresh
        <3>5. t \in Tokens' /\ granted'[t].owner = call[j].by
            BY <3>1
        <3>6. QED
            BY <2>1, <2>3, <3>1, <3>2, <3>3, <3>4, <3>5 DEF profileVars
    <2>4. QED
        BY <2>2, <2>3
<1>10. RequestIsCurrent'
    BY DEF AuthInv, LossInv, RequestIsCurrent, Moves, profileVars
<1>11. TokenLossExplained'
    <2> SUFFICES ASSUME NEW q \in Profiles, access[q] # 0
                 PROVE  /\ granted'[access[q]].owner = q
                        /\ \/ granted'[access[q]].alive
                           \/ \E j \in Calls :
                                /\ call'[j].by = q
                                /\ \/ call'[j].op = "signout" /\ call'[j].at \in {"answered", "taken"}
                                   \/ /\ call'[j].access = access[q]
                                      /\ \/ call'[j].op = "invalidate" /\ call'[j].at \in {"answered", "taken"}
                                         \/ call'[j].op = "refresh" /\ call'[j].at = "answered" /\ call'[j].answer # 0
        BY DEF TokenLossExplained, profileVars
    <2>1. access[q] \in Tokens /\ granted[access[q]].owner = q
        BY DEF AuthInv, TokensOwned
    <2>2. CASE granted[access[q]].alive /\ ~granted'[access[q]].alive
        <3>1. call[k].access = access[q] => call[k].by = q
            BY <2>1 DEF AuthInv, TokensOwned
        <3>2. QED
            BY <2>1, <2>2, <3>1 DEF Moves
    <2>3. CASE ~granted[access[q]].alive
        <3>1. PICK j \in Calls :
                /\ call[j].by = q
                /\ \/ call[j].op = "signout" /\ call[j].at \in {"answered", "taken"}
                   \/ /\ call[j].access = access[q]
                      /\ \/ call[j].op = "invalidate" /\ call[j].at \in {"answered", "taken"}
                         \/ call[j].op = "refresh" /\ call[j].at = "answered" /\ call[j].answer # 0
            BY <2>3 DEF AuthInv, LossInv, TokenLossExplained
        <3>2. j # k /\ call'[j] = call[j]
            BY <3>1 DEF Moves
        <3>3. QED
            BY <2>1, <3>1, <3>2
    <2>4. QED
        BY <2>1, <2>2, <2>3
<1>12. QED
    BY <1>4, <1>5, <1>6, <1>9, <1>10, <1>11 DEF AuthInv, LossInv

\* Each answer of Mojang is such a step.
LEMMA MojangStepKeepsInv ==
    ASSUME AuthInv, NEW k \in Calls, Mojang(k)
    PROVE  AuthInv'
<1> DEFINE n == Len(granted)
           old == granted[call[k].access]
<1>1. /\ call[k].at = "asked" /\ UNCHANGED <<profileVars, loginVars>>
      /\ call[k].by \in Profiles /\ granted \in Seq(Grant) /\ n \in Nat
      /\ call[k].op \in Exclusive \cup Shared
      /\ \A t \in Tokens : granted[t] \in Grant /\ granted[t].client \in Tokens
      /\ joins \subseteq Profiles \X Texts /\ joined \subseteq Profiles \X Logins
    <2>1. call[k].at = "asked" /\ UNCHANGED <<profileVars, loginVars>>
        BY DEF Mojang
    <2>2. granted \in Seq(Grant) /\ n \in Nat /\ \A t \in Tokens : granted[t] \in Grant
        <3>1. granted \in Seq(Grant)
            BY DEF AuthInv, AuthTypeOK, Grant
        <3>2. QED
            BY <3>1 DEF Tokens
    <2>3. call[k] \in CallType /\ call[k].by \in Profiles /\ call[k].op # "none"
        BY <2>1 DEF AuthInv, AuthTypeOK, CallsSane
    <2>4. \A t \in Tokens : granted[t].client \in Tokens
        BY DEF AuthInv, TokensOwned
    <2>5. QED
        BY <2>1, <2>2, <2>3, <2>4 DEF CallType, AuthInv, AuthTypeOK
<1>2. Known(k) => call[k].access # 0 /\ call[k].access \in Tokens
    BY DEF Known, AuthInv, TokensOwned
<1>3. \A a \in Nat : Answer(k, a) => Moves(k, "answered", call[k].waits, a)
    BY CallMoves DEF AuthInv
<1>4. CASE Grants(k)
    <2> DEFINE r == [owner |-> call[k].by, client |-> n + 1, alive |-> TRUE]
    <2>1. granted' = Append(granted, r) /\ r \in Grant
        BY <1>1, <1>4 DEF Grants, Grant
    <2>2. /\ granted' \in Seq(Grant) /\ Len(granted') = n + 1
          /\ \A t \in Tokens : granted'[t] = granted[t]
          /\ granted'[n + 1] = r
        BY <1>1, <2>1 DEF Tokens
    <2>3. /\ \A t \in Tokens : t \in Tokens'
          /\ \A t \in Tokens' \ Tokens : t = n + 1
          /\ n + 1 \in Tokens' \ Tokens
        BY <1>1, <2>2 DEF Tokens
    <2>4. /\ call[k].op = "authenticate" /\ Moves(k, "answered", call[k].waits, n + 1)
          /\ joins' = joins /\ joined' = joined
        BY <1>1, <1>3, <1>4 DEF Grants
    <2>5. QED
        BY <1>1, <2>2, <2>3, <2>4, MojangKeepsInv DEF Exclusive
<1>5. CASE Regrants(k)
    <2> DEFINE g == [granted EXCEPT ![call[k].access].alive = FALSE]
    <2>1. /\ call[k].op = "refresh" /\ call[k].access # 0 /\ call[k].access \in Tokens
          /\ old.alive /\ granted' = Append(g, old)
          /\ Moves(k, "answered", call[k].waits, n + 1)
          /\ joins' = joins /\ joined' = joined
        BY <1>1, <1>2, <1>3, <1>5 DEF Regrants, Known
    <2>2. old \in Grant /\ old.owner = call[k].by /\ old.client \in Tokens
        BY <1>1, <2>1 DEF AuthInv, TokensOwned
    <2>3. [old EXCEPT !.alive = FALSE] \in Grant
        BY <2>2 DEF Grant
    <2>4. /\ g \in Seq(Grant) /\ Len(g) = n
          /\ \A t \in Tokens : g[t] = IF t = call[k].access THEN [old EXCEPT !.alive = FALSE]
                                                            ELSE granted[t]
        BY <1>1, <2>1, <2>3 DEF Tokens
    <2>5. /\ granted' \in Seq(Grant) /\ Len(granted') = n + 1
          /\ \A t \in Tokens : granted'[t] = g[t]
          /\ granted'[n + 1] = old
        BY <1>1, <2>1, <2>2, <2>4 DEF Tokens
    <2>6. /\ \A t \in Tokens : t \in Tokens'
          /\ \A t \in Tokens' \ Tokens : t = n + 1
          /\ n + 1 \in Tokens' \ Tokens
        BY <1>1, <2>5 DEF Tokens
    <2>7. \A t \in Tokens : /\ granted'[t].owner = granted[t].owner
                            /\ granted'[t].client = granted[t].client
                            /\ t # call[k].access /\ granted[t].alive => granted'[t].alive
        BY <2>2, <2>4, <2>5 DEF Grant
    <2>8. \A t \in Tokens : granted[t].alive /\ ~granted'[t].alive =>
          \/ call[k].op = "signout" /\ granted[t].owner = call[k].by
          \/ call[k].op = "invalidate" /\ t = call[k].access
          \/ call[k].op = "refresh" /\ t = call[k].access /\ n + 1 # 0
        <3>1. n + 1 # 0 /\ call[k].op = "refresh"
            BY <1>1, <2>1
        <3>2. \A t \in Tokens : granted[t].alive /\ ~granted'[t].alive => t = call[k].access
            BY <2>7
        <3>3. QED
            BY <3>1, <3>2
    <2>9. /\ \A t \in Tokens' \ Tokens : granted'[t].client \in Tokens'
          /\ granted'[n + 1].owner = call[k].by /\ granted'[n + 1].alive
          /\ n + 1 \in Nat /\ call[k].op \in Exclusive
        BY <1>1, <2>1, <2>2, <2>5, <2>6 DEF Exclusive
    <2>10. /\ joins' \subseteq Profiles \X Texts /\ joined' \subseteq Profiles \X Logins
           /\ Moves(k, "answered", call[k].waits, n + 1) /\ granted' \in Seq(Grant)
           /\ n + 1 # 0 => /\ call[k].op \in Exclusive /\ n + 1 \in Tokens' \ Tokens
                           /\ granted'[n + 1].owner = call[k].by /\ granted'[n + 1].alive
                           /\ call[k].op = "refresh" => call[k].access # 0
           /\ \A t \in Tokens : /\ t \in Tokens'
                                /\ granted'[t].owner = granted[t].owner
                                /\ granted'[t].client = granted[t].client
        BY <1>1, <2>1, <2>5, <2>6, <2>7, <2>9
    <2>11. QED
        BY <1>1, <2>8, <2>9, <2>10, MojangKeepsInv
<1>6. CASE Revokes(k)
    <2>1. Moves(k, "answered", call[k].waits, 0) /\ joins' = joins /\ joined' = joined
        BY <1>1, <1>3, <1>6 DEF Revokes
    <2>2. CASE call[k].op = "invalidate" /\ Known(k)
               /\ granted' = [granted EXCEPT ![call[k].access].alive = FALSE]
        <3>1. call[k].access \in Tokens /\ old \in Grant
            BY <1>1, <1>2, <2>2
        <3>2. [old EXCEPT !.alive = FALSE] \in Grant
            BY <3>1 DEF Grant
        <3>3. /\ granted' \in Seq(Grant) /\ Len(granted') = n
              /\ \A t \in Tokens : granted'[t] = IF t = call[k].access
                                    THEN [old EXCEPT !.alive = FALSE] ELSE granted[t]
            BY <1>1, <2>2, <3>1, <3>2 DEF Tokens
        <3>4. \A t \in Tokens : /\ granted'[t].owner = granted[t].owner
                                /\ granted'[t].client = granted[t].client
                                /\ t # call[k].access /\ granted[t].alive => granted'[t].alive
            BY <3>1, <3>3 DEF Grant
        <3>5. Tokens' = Tokens
            BY <3>3 DEF Tokens
        <3>6. \A t \in Tokens : granted[t].alive /\ ~granted'[t].alive =>
              \/ call[k].op = "signout" /\ granted[t].owner = call[k].by
              \/ call[k].op = "invalidate" /\ t = call[k].access
              \/ call[k].op = "refresh" /\ t = call[k].access /\ 0 # 0
            BY <2>2, <3>4
        <3>7. QED
            BY <1>1, <2>1, <3>3, <3>4, <3>5, <3>6, MojangKeepsInv
    <2>3. CASE call[k].op = "signout"
               /\ granted' = [t \in 1..Len(granted) |->
                                [granted[t] EXCEPT !.alive = @ /\ granted[t].owner # call[k].by]]
        <3>1. \A t \in Tokens :
                /\ granted'[t] \in Grant
                /\ granted'[t].owner = granted[t].owner
                /\ granted'[t].client = granted[t].client
                /\ granted[t].owner # call[k].by /\ granted[t].alive => granted'[t].alive
            <4> SUFFICES ASSUME NEW t \in Tokens
                         PROVE  /\ granted'[t] \in Grant
                                /\ granted'[t].owner = granted[t].owner
                                /\ granted'[t].client = granted[t].client
                                /\ granted[t].owner # call[k].by /\ granted[t].alive
                                    => granted'[t].alive
                OBVIOUS
            <4> DEFINE b == granted[t].alive /\ granted[t].owner # call[k].by
            <4>1. granted'[t] = [granted[t] EXCEPT !.alive = b]
                BY <2>3 DEF Tokens
            <4>2. granted[t] \in Grant /\ b \in BOOLEAN
                BY <1>1
            <4> HIDE DEF b
            <4>3. /\ granted'[t] \in Grant
                  /\ granted'[t].owner = granted[t].owner
                  /\ granted'[t].client = granted[t].client
                  /\ granted'[t].alive = b
                BY <4>1, <4>2 DEF Grant
            <4>4. QED
                BY <4>3 DEF b
        <3>2. granted' \in [1..n -> Grant]
            BY <2>3, <3>1 DEF Tokens
        <3>3. granted' \in Seq(Grant) /\ Len(granted') = n
            BY <1>1, <3>2
        <3>4. Tokens' = Tokens
            BY <3>3 DEF Tokens
        <3>5. \A t \in Tokens : granted[t].alive /\ ~granted'[t].alive =>
              \/ call[k].op = "signout" /\ granted[t].owner = call[k].by
              \/ call[k].op = "invalidate" /\ t = call[k].access
              \/ call[k].op = "refresh" /\ t = call[k].access /\ 0 # 0
            BY <2>3, <3>1
        <3>6. QED
            BY <1>1, <2>1, <3>1, <3>3, <3>4, <3>5, MojangKeepsInv
    <2>4. QED
        BY <1>6, <2>2, <2>3 DEF Revokes
<1>7. CASE Joins(k)
    <2>1. /\ call[k].op = "join_server" /\ granted' = granted /\ Tokens' = Tokens
          /\ Moves(k, "answered", call[k].waits, 0)
        BY <1>3, <1>7 DEF Joins, Tokens
    <2>2. digest[call[k].login] \in Sha1 /\ call[k].login \in Logins
        BY <2>1 DEF AuthInv, CallsSane, AuthTypeOK
    <2>3. joins' \subseteq Profiles \X Texts /\ joined' \subseteq Profiles \X Logins
        BY <1>1, <1>7, <2>2 DEF Joins, Texts
    <2>4. QED
        BY <1>1, <2>1, <2>3, MojangKeepsInv
<1>8. CASE Refuses(k)
    <2>1. UNCHANGED mojangVars /\ Moves(k, "answered", call[k].waits, 0) /\ Tokens' = Tokens
        BY <1>3, <1>8 DEF Refuses, mojangVars, Tokens
    <2>2. QED
        BY <1>1, <2>1, MojangKeepsInv DEF mojangVars
<1>9. QED
    BY <1>4, <1>5, <1>6, <1>7, <1>8 DEF Mojang

-----------------------------------------------------------------------------
(* The logins of a server.                                                 *)

LEMMA LoginKeepsInv ==
    ASSUME AuthInv, NEW l \in Logins, UNCHANGED <<profileVars, call, mojangVars>>,
           login' \in [Logins -> {"none", "asked", "verified", "refused"}],
           name' \in [Logins -> Profiles \cup {UrlName, NoOne}],
           admitted' \in [Logins -> Profiles \cup {NoOne}],
           digest' \in [Logins -> Sha1 \cup {NoOne}],
           \A m \in Logins : digest[m] # NoOne => digest'[m] # NoOne
    PROVE  AuthInv'
<1>1. AuthTypeOK'
    BY DEF AuthInv, AuthTypeOK, profileVars, mojangVars
<1>2. CallsSane' /\ ExclusiveAlone'
    BY DEF AuthInv, CallsSane, ExclusiveAlone
<1>3. TokensOwned' /\ AnswersFresh'
    BY DEF AuthInv, TokensOwned, AnswersFresh, SignedOut, Tokens, profileVars, mojangVars
<1>4. LossInv'
    BY DEF AuthInv, LossInv, RequestIsCurrent, TokenLossExplained, profileVars, mojangVars
<1>5. QED
    BY <1>1, <1>2, <1>3, <1>4 DEF AuthInv

LEMMA ChallengeKeepsInv ==
    ASSUME AuthInv, NEW l \in Logins, NEW n \in Profiles \cup {UrlName}, NEW d \in Sha1,
           Challenge(l, n, d)
    PROVE  AuthInv' /\ (JoinsMeant => JoinsMeant')
<1>1. /\ login[l] = "none" /\ d # NoOne /\ \A m \in Logins : digest[m] # d
      /\ \A m \in Logins : /\ login'[m] = IF m = l THEN "asked" ELSE login[m]
                           /\ digest'[m] = IF m = l THEN d ELSE digest[m]
      /\ joins' = joins /\ joined' = joined
    BY AuthAssumption DEF Challenge, AuthInv, AuthTypeOK, mojangVars
<1>2. AuthInv'
    <2>1. /\ login' \in [Logins -> {"none", "asked", "verified", "refused"}]
          /\ name' \in [Logins -> Profiles \cup {UrlName, NoOne}]
          /\ admitted' \in [Logins -> Profiles \cup {NoOne}]
          /\ digest' \in [Logins -> Sha1 \cup {NoOne}]
        BY DEF Challenge, AuthInv, AuthTypeOK
    <2>2. UNCHANGED <<profileVars, call, mojangVars>>
        BY DEF Challenge
    <2>3. QED
        BY <1>1, <2>1, <2>2, LoginKeepsInv
<1>3. ASSUME JoinsMeant
      PROVE  JoinsMeant'
    <2>1. digest[l] = NoOne
        BY <1>1, <1>3 DEF JoinsMeant
    <2>2. joined \subseteq Profiles \X Logins
        BY DEF AuthInv, AuthTypeOK
    <2>3. /\ \A m \in Logins : digest'[m] # NoOne <=> login'[m] # "none"
          /\ \A j, m \in Logins : digest'[j] = digest'[m] /\ digest'[j] # NoOne => j = m
          /\ \A pl \in joined : digest'[pl[2]] # NoOne
        BY <1>1, <1>3, <2>2 DEF JoinsMeant
    <2>4. ASSUME NEW pt \in joins
          PROVE  \E m \in Logins : <<pt[1], m>> \in joined /\ pt[2] = CalcHash(digest'[m])
        <3>1. PICK m \in Logins : <<pt[1], m>> \in joined /\ pt[2] = CalcHash(digest[m])
            BY <1>3 DEF JoinsMeant
        <3>2. digest[m] # NoOne
            BY <1>3, <3>1 DEF JoinsMeant
        <3>3. digest'[m] = digest[m]
            BY <1>1, <2>1, <3>2
        <3>4. QED
            BY <3>1, <3>3
    <2>5. QED
        BY <1>1, <2>3, <2>4 DEF JoinsMeant
<1>4. QED
    BY <1>2, <1>3

LEMMA VerifyKeepsInv ==
    ASSUME AuthInv, NEW l \in Logins, VerifyJoin(l)
    PROVE  AuthInv' /\ (JoinsMeant => JoinsMeant')
<1>1. /\ login[l] = "asked" /\ digest' = digest /\ name' = name
      /\ login' \in [Logins -> {"none", "asked", "verified", "refused"}]
      /\ \A m \in Logins : login'[m] # "none" <=> login[m] # "none"
      /\ admitted' \in [Logins -> Profiles \cup {NoOne}]
      /\ UNCHANGED <<profileVars, call, mojangVars>>
    BY DEF VerifyJoin, AuthInv, AuthTypeOK
<1>2. AuthInv'
    BY <1>1, LoginKeepsInv DEF AuthInv, AuthTypeOK
<1>3. JoinsMeant => JoinsMeant'
    BY <1>1 DEF JoinsMeant, mojangVars
<1>4. QED
    BY <1>2, <1>3

-----------------------------------------------------------------------------
(* All steps.                                                              *)

LEMMA NextKeepsInv ==
    ASSUME AuthInv, JoinsMeant, [Next]_vars
    PROVE  AuthInv'
<1>1. CASE UNCHANGED vars
    BY <1>1 DEF vars, profileVars, mojangVars, loginVars, AuthInv, AuthTypeOK, CallsSane,
                ExclusiveAlone, TokensOwned, AnswersFresh, SignedOut, Tokens, LossInv,
                RequestIsCurrent, TokenLossExplained
<1>2. ASSUME NEW k \in Calls, NEW p \in Profiles,
             \/ AskAuthenticate(k, p) \/ AskRefresh(k, p) \/ AskValidate(k, p)
             \/ AskInvalidate(k, p) \/ AskSignout(k, p)
      PROVE  AuthInv'
    <2>1. PICK op \in (Exclusive \cup Shared) \ {"join_server"} : Ask(k, p, op, NoOne)
        BY <1>2 DEF AskAuthenticate, AskRefresh, AskValidate, AskInvalidate, AskSignout,
                    Exclusive, Shared
    <2>2. QED
        BY <2>1, AskKeepsInv
<1>3. ASSUME NEW k \in Calls, NEW p \in Profiles, NEW l \in Logins, AskJoinServer(k, p, l)
      PROVE  AuthInv'
    <2>1. access[p] # 0 /\ digest[l] # NoOne /\ Ask(k, p, "join_server", l)
        BY <1>3 DEF AskJoinServer, JoinsMeant
    <2>2. QED
        BY <2>1, AskKeepsInv DEF Shared
<1>4. QED
    BY <1>1, <1>2, <1>3, NoAnswerKeepsInv, ReturnsKeepsInv, MojangStepKeepsInv,
       ChallengeKeepsInv, VerifyKeepsInv DEF Next

\* Only a call joins a login, under the text of its digest.
LEMMA NextKeepsJoins ==
    ASSUME AuthInv, JoinsMeant, [Next]_vars
    PROVE  JoinsMeant'
<1>1. ASSUME UNCHANGED <<login, digest, joins, joined>>
      PROVE  JoinsMeant'
    BY <1>1 DEF JoinsMeant
<1>2. ASSUME NEW k \in Calls, Joins(k), UNCHANGED loginVars
      PROVE  JoinsMeant'
    <2>1. /\ call[k].login \in Logins /\ digest[call[k].login] # NoOne
          /\ login' = login /\ digest' = digest
        BY <1>2 DEF Joins, AuthInv, CallsSane, loginVars
    <2>2. \A pl \in joined' : digest'[pl[2]] # NoOne
        BY <1>2, <2>1 DEF Joins, JoinsMeant
    <2>3. \A pt \in joins' : \E l \in Logins :
            <<pt[1], l>> \in joined' /\ pt[2] = CalcHash(digest'[l])
        BY <1>2, <2>1 DEF Joins, JoinsMeant
    <2>4. QED
        BY <2>1, <2>2, <2>3 DEF JoinsMeant
<1>3. ASSUME NEW k \in Calls, Mojang(k)
      PROVE  JoinsMeant'
    <2>1. UNCHANGED loginVars /\ (Joins(k) \/ UNCHANGED <<joins, joined>>)
        BY <1>3 DEF Mojang, Grants, Regrants, Revokes, Refuses, mojangVars
    <2>2. QED
        BY <1>1, <1>2, <2>1 DEF loginVars
<1>4. ASSUME NEW k \in Calls, NoAnswer(k) \/ Returns(k)
      PROVE  JoinsMeant'
    BY <1>1, <1>4 DEF NoAnswer, Returns, mojangVars, loginVars
<1>5. ASSUME NEW k \in Calls, NEW p \in Profiles,
             \/ AskAuthenticate(k, p) \/ AskRefresh(k, p) \/ AskValidate(k, p)
             \/ AskInvalidate(k, p) \/ AskSignout(k, p)
             \/ \E l \in Logins : AskJoinServer(k, p, l)
      PROVE  JoinsMeant'
    BY <1>1, <1>5 DEF AskAuthenticate, AskRefresh, AskValidate, AskInvalidate, AskSignout,
                      AskJoinServer, Ask, mojangVars, loginVars
<1>6. CASE UNCHANGED vars
    BY <1>1, <1>6 DEF vars, mojangVars, loginVars
<1>7. QED
    BY <1>3, <1>4, <1>5, <1>6, ChallengeKeepsInv, VerifyKeepsInv DEF Next

LEMMA AuthInvariant == Spec => [](AuthInv /\ JoinsMeant)
<1>1. Init => AuthInv /\ JoinsMeant
    BY AuthInvInit
<1>2. AuthInv /\ JoinsMeant /\ [Next]_vars => (AuthInv /\ JoinsMeant)'
    BY NextKeepsInv, NextKeepsJoins
<1>3. QED
    BY <1>1, <1>2, PTL DEF Spec

-----------------------------------------------------------------------------
(* Theorems.                                                               *)

\* Every token a profile carries is one that Mojang granted, and a selected
\* player comes with one (auth.rs).
THEOREM AuthTypeCorrect == Spec => []AuthTypeOK
<1>1. AuthInv /\ JoinsMeant => AuthTypeOK
    BY DEF AuthInv
<1>2. QED
    BY <1>1, AuthInvariant, PTL

\* The uuid and name of a request to join are those Mojang gave with the token.
THEOREM JoinsUnderSelected == Spec => []JoinsAsSelected
<1>1. AuthInv /\ JoinsMeant => JoinsAsSelected
    BY DEF AuthInv, CallsSane, TokensOwned, JoinsAsSelected
<1>2. QED
    BY <1>1, AuthInvariant, PTL

\* A profile whose token Mojang no longer knows asked for that itself, or is
\* still owed the answer to a refresh, or lost it.
THEOREM TokenLossIsExplained == Spec => []TokenLossExplained
<1>1. AuthInv /\ JoinsMeant => TokenLossExplained
    BY DEF AuthInv, LossInv
<1>2. QED
    BY <1>1, AuthInvariant, PTL

LEMMA DigestsHashed ==
    ASSUME AuthTypeOK, NEW l \in Logins, digest[l] # NoOne
    PROVE  digest[l] \in Digests
BY AuthAssumption DEF AuthTypeOK

\* Whatever challenge a server sends, its hash is the signed number of the
\* digest, unless that is zero, for client and server alike (auth.rs:318,
\* auth.rs:374).
THEOREM HashesAreSigned == Spec => []HashIsSignedHex
<1>1. AuthInv => HashIsSignedHex
    BY DigestsHashed, HashIsHex DEF AuthInv, HashIsSignedHex
<1>2. QED
    BY <1>1, AuthInvariant, PTL

LEMMA VerifyIsMeant ==
    ASSUME AuthInv, JoinsMeant, VerifiedHasJoined,
           NEW l \in Logins, VerifyJoin(l)
    PROVE  VerifiedHasJoined'
<1>1. /\ name' = name /\ joined' = joined
      /\ \A m \in Logins : m # l => login'[m] = login[m] /\ admitted'[m] = admitted[m]
    BY DEF VerifyJoin, mojangVars, AuthInv, AuthTypeOK
<1>2. ASSUME login'[l] = "verified"
      PROVE  /\ \E m \in Logins : <<admitted'[l], m>> \in joined
             /\ name[l] # UrlName => admitted'[l] = name[l] /\ <<admitted'[l], l>> \in joined
    <2>1. PICK join \in joins \cap Query(l) : login[l] = "asked" /\ admitted'[l] = join[1]
        BY <1>2 DEF VerifyJoin, AuthInv, AuthTypeOK
    <2>2. PICK m \in Logins : <<join[1], m>> \in joined /\ join[2] = CalcHash(digest[m])
        BY <2>1 DEF JoinsMeant
    <2>3. ASSUME name[l] # UrlName
          PROVE  admitted'[l] = name[l] /\ <<admitted'[l], l>> \in joined
        <3>1. join[1] = name[l] /\ join[2] = CalcHash(digest[l])
            BY <2>1, <2>3 DEF Query
        <3>2. digest[l] # NoOne /\ digest[m] # NoOne
            BY <2>1, <2>2 DEF JoinsMeant
        <3>3. digest[l] \in Digests /\ digest[m] \in Digests
            BY <3>2, DigestsHashed DEF AuthInv
        <3>4. digest[l] = digest[m]
            BY <2>2, <3>1, <3>3, TextsDiffer
        <3>5. l = m
            BY <3>2, <3>4 DEF JoinsMeant
        <3>6. QED
            BY <2>1, <2>2, <3>1, <3>5
    <2>4. QED
        BY <2>1, <2>2, <2>3
<1>3. QED
    BY <1>1, <1>2 DEF VerifiedHasJoined

\* Nobody is let in who joined no server; and an account whose name is only a
\* name in the URL of verify_join (auth.rs:370) is let in as itself and has
\* joined this login and no other in its place, because no two digests have
\* the same text.
THEOREM VerifiedIsMeant == Spec => []VerifiedHasJoined
<1> DEFINE Inv == AuthInv /\ JoinsMeant
<1>1. Init => VerifiedHasJoined
    BY DEF Init, VerifiedHasJoined
<1>2. ASSUME Inv, VerifiedHasJoined, [Next]_vars
      PROVE  VerifiedHasJoined'
    <2>1. ASSUME UNCHANGED <<login, name, admitted>>, joined \subseteq joined'
          PROVE  VerifiedHasJoined'
        BY <1>2, <2>1 DEF VerifiedHasJoined
    <2>2. ASSUME NEW l \in Logins, NEW n \in Profiles \cup {UrlName}, NEW d \in Sha1,
                 Challenge(l, n, d)
          PROVE  VerifiedHasJoined'
        BY <1>2, <2>2 DEF Challenge, VerifiedHasJoined, mojangVars, AuthInv, AuthTypeOK
    <2>3. ASSUME NEW k \in Calls, Mojang(k)
          PROVE  VerifiedHasJoined'
        BY <2>1, <2>3 DEF Mojang, Grants, Regrants, Revokes, Joins, Refuses, mojangVars,
                          loginVars
    <2>4. ASSUME NEW k \in Calls, NoAnswer(k) \/ Returns(k)
          PROVE  VerifiedHasJoined'
        BY <2>1, <2>4 DEF NoAnswer, Returns, mojangVars, loginVars
    <2>5. ASSUME NEW k \in Calls, NEW p \in Profiles,
                 \/ AskAuthenticate(k, p) \/ AskRefresh(k, p) \/ AskValidate(k, p)
                 \/ AskInvalidate(k, p) \/ AskSignout(k, p)
                 \/ \E l \in Logins : AskJoinServer(k, p, l)
          PROVE  VerifiedHasJoined'
        BY <2>1, <2>5 DEF AskAuthenticate, AskRefresh, AskValidate, AskInvalidate,
                          AskSignout, AskJoinServer, Ask, mojangVars, loginVars
    <2>6. CASE UNCHANGED vars
        BY <2>1, <2>6 DEF vars, mojangVars, loginVars
    <2>7. QED
        BY <1>2, <2>2, <2>3, <2>4, <2>5, <2>6, VerifyIsMeant DEF Next
<1>3. QED
    <2>1. Inv /\ VerifiedHasJoined /\ [Next]_vars => VerifiedHasJoined'
        BY <1>2
    <2>2. QED
        BY <1>1, <2>1, AuthInvariant, PTL DEF Spec

=============================================================================
