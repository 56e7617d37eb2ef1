-------------------------------- MODULE Auth --------------------------------
(***************************************************************************)
(* Profile and verify_join: the requests of players and of a server to     *)
(* Mojang.  A call builds its request from the profile, waits, and at the  *)
(* answer changes the profile.  authenticate() and refresh() borrow the    *)
(* profile exclusively, the others share it.  A request may arrive late or *)
(* never, its answer may be lost or no JSON, and the caller may drop the   *)
(* call: then it changes nothing here, though Mojang may have done its     *)
(* part.  The server waits for Mojang inside a login (verify_join).        *)
(*                                                                         *)
(* Mojang is the environment: it refuses what it likes, and grants only    *)
(* what is asked with a token it knows.                                    *)
(***************************************************************************)
EXTENDS Hash

CONSTANTS
    Profiles,   \* the players' profiles, each of one account
    Offline,    \* those with Profile.offline
    Calls,      \* one element for each call that reaches Mojang
    Logins,     \* the online logins of servers
    Sha1,       \* the digests the logins of a run have
    UrlName,    \* a name with characters that mean something in a URL
    NoOne       \* no profile, login or digest

ASSUME AuthAssumption ==
    /\ Offline \subseteq Profiles
    /\ Sha1 \subseteq Digests
    /\ NoOne \notin Profiles /\ NoOne \notin Logins /\ NoOne \notin Sha1
    /\ UrlName \notin Profiles

VARIABLES
    access,    \* Profile.access_token, 0 if it is empty
    client,    \* Profile.client_token, 0 if it is empty
    selected,  \* whether game_profile is the one Mojang selected
    call,      \* the calls
    granted,   \* Mojang: the access tokens it has granted, the first one is 1
    joins,     \* Mojang: who joined which login, by the text that names it
    joined,    \* history: who joined which login
    login,     \* where each login of a server stands
    name,      \* the account whose name the login gave, or UrlName
    admitted,  \* the account of Mojang's answer, which the server lets in
    digest     \* the SHA-1 digest of server id, shared secret and public key

profileVars == <<access, client, selected>>
mojangVars  == <<granted, joins, joined>>
loginVars   == <<login, name, admitted, digest>>
vars == <<profileVars, call, mojangVars, loginVars>>

Exclusive == {"authenticate", "refresh"}
Shared    == {"validate", "invalidate", "signout", "join_server"}

Texts == {CalcHash(d) : d \in Sha1}

\* A call: what it is, whose, what the request carries, where request and
\* answer are, whether the caller still waits, and the token in the answer.
NoCall ==
    [op |-> "none", by |-> NoOne, access |-> 0, client |-> 0, selected |-> FALSE,
     login |-> NoOne, at |-> "nowhere", waits |-> FALSE, answer |-> 0]

CallType ==
    [op : Exclusive \cup Shared \cup {"none"}, by : Profiles \cup {NoOne},
     access : Nat, client : Nat, selected : BOOLEAN, login : Logins \cup {NoOne},
     at : {"nowhere", "asked", "answered", "taken"}, waits : BOOLEAN, answer : Nat]

\* Type invariant of the profiles, the calls and the logins: a token is one
\* that Mojang granted, and the player Mojang selected comes with one.
AuthTypeOK ==
    /\ access \in [Profiles -> 0..Len(granted)]
    /\ client \in [Profiles -> 0..Len(granted)]
    /\ selected \in [Profiles -> BOOLEAN]
    /\ \A p \in Profiles : selected[p] => access[p] # 0
    /\ call \in [Calls -> CallType]
    /\ granted \in Seq([owner : Profiles, client : Nat, alive : BOOLEAN])
    /\ joins \subseteq Profiles \X Texts
    /\ joined \subseteq Profiles \X Logins
    /\ login \in [Logins -> {"none", "asked", "verified", "refused"}]
    /\ name \in [Logins -> Profiles \cup {UrlName, NoOne}]
    /\ admitted \in [Logins -> Profiles \cup {NoOne}]
    /\ digest \in [Logins -> Sha1 \cup {NoOne}]

Init ==
    /\ access = [p \in Profiles |-> 0]
    /\ client = [p \in Profiles |-> 0]
    /\ selected = [p \in Profiles |-> FALSE]
    /\ call = [k \in Calls |-> NoCall]
    /\ granted = <<>>
    /\ joins = {}
    /\ joined = {}
    /\ login = [l \in Logins |-> "none"]
    /\ name = [l \in Logins |-> NoOne]
    /\ admitted = [l \in Logins |-> NoOne]
    /\ digest = [l \in Logins |-> NoOne]

-----------------------------------------------------------------------------
(* The calls of a profile.                                                 *)

Pending(p, ops) == \E k \in Calls : call[k].by = p /\ call[k].op \in ops /\ call[k].waits

\* &mut self against &self.
MayBorrow(p, op) ==
    IF op \in Exclusive THEN ~Pending(p, Exclusive \cup Shared) ELSE ~Pending(p, Exclusive)

\* An offline profile asks nothing: the call returns at once.
Ask(k, p, op, l) ==
    /\ call[k] = NoCall
    /\ p \notin Offline
    /\ MayBorrow(p, op)
    /\ call' = [call EXCEPT ![k] =
            [op |-> op, by |-> p, access |-> access[p], client |-> client[p],
             selected |-> selected[p], login |-> l,
             at |-> "asked", waits |-> TRUE, answer |-> 0]]
    /\ UNCHANGED <<profileVars, mojangVars, loginVars>>

\* With a username and a password; without either the call is refused here.
AskAuthenticate(k, p) == Ask(k, p, "authenticate", NoOne)

\* One token is enough for the guard.
AskRefresh(k, p) ==
    /\ ~(client[p] = 0 /\ access[p] = 0)
    /\ Ask(k, p, "refresh", NoOne)

AskValidate(k, p)   == Ask(k, p, "validate", NoOne)
AskInvalidate(k, p) == Ask(k, p, "invalidate", NoOne)
AskSignout(k, p)    == Ask(k, p, "signout", NoOne)

\* The text is computed before the request is sent.
AskJoinServer(k, p, l) ==
    /\ login[l] # "none"
    /\ access[p] # 0
    /\ ~HashPanics(digest[l])
    /\ Ask(k, p, "join_server", l)

\* The caller is told of an error, or is gone.  The request goes its way.
NoAnswer(k) ==
    /\ call[k].waits
    /\ call' = [call EXCEPT ![k].waits = FALSE]
    /\ UNCHANGED <<profileVars, mojangVars, loginVars>>

\* Fault variant: the profile of the answer is not stored.
AuthenticateReturns_TokenOnly(k) ==
    /\ call[k].op = "authenticate" /\ call[k].answer # 0
    /\ access' = [access EXCEPT ![call[k].by] = call[k].answer]
    /\ UNCHANGED <<client, selected>>

\* Fault variant: any answer is taken for the one expected.
AuthenticateReturns_AnyAnswer(k) ==
    /\ call[k].op = "authenticate"
    /\ access' = [access EXCEPT ![call[k].by] = call[k].answer]
    /\ selected' = [selected EXCEPT ![call[k].by] = TRUE]
    /\ UNCHANGED client

\* The client token of the answer is not stored.
AuthenticateReturns(k) ==
    /\ call[k].op = "authenticate" /\ call[k].answer # 0
    /\ access' = [access EXCEPT ![call[k].by] = call[k].answer]
    /\ selected' = [selected EXCEPT ![call[k].by] = TRUE]
    /\ UNCHANGED client

\* Fault variant: the access token of the answer is not stored either.
RefreshReturns_ClientOnly(k) ==
    /\ call[k].op = "refresh" /\ call[k].answer # 0
    /\ client' = [client EXCEPT ![call[k].by] = granted[call[k].answer].client]
    /\ UNCHANGED <<access, selected>>

RefreshReturns(k) ==
    /\ call[k].op = "refresh" /\ call[k].answer # 0
    /\ access' = [access EXCEPT ![call[k].by] = call[k].answer]
    /\ client' = [client EXCEPT ![call[k].by] = granted[call[k].answer].client]
    /\ UNCHANGED selected

\* A status that tells yes or no, or a text that is not the one expected.
OtherReturns(k) ==
    /\ call[k].op \in Shared \/ call[k].answer = 0
    /\ UNCHANGED profileVars

Returns(k) ==
    /\ call[k].waits /\ call[k].at = "answered"
    /\ AuthenticateReturns(k) \/ RefreshReturns(k) \/ OtherReturns(k)
    /\ call' = [call EXCEPT ![k].waits = FALSE, ![k].at = "taken"]
    /\ UNCHANGED <<mojangVars, loginVars>>

-----------------------------------------------------------------------------
(* Mojang.                                                                 *)

Answer(k, token) == call' = [call EXCEPT ![k].at = "answered", ![k].answer = token]

\* The token of a request is one that Mojang knows.
Known(k) == LET t == call[k].access IN t # 0 /\ granted[t].alive

Grants(k) ==
    /\ call[k].op = "authenticate"
    /\ granted' = Append(granted, [owner |-> call[k].by, client |-> Len(granted) + 1,
                                   alive |-> TRUE])
    /\ Answer(k, Len(granted) + 1)
    /\ UNCHANGED <<joins, joined>>

\* Whether an empty client token will do is for Mojang to say.
Regrants(k) ==
    /\ call[k].op = "refresh" /\ Known(k)
    /\ call[k].client \in {0, granted[call[k].access].client}
    /\ LET old == granted[call[k].access]
       IN  granted' = Append([granted EXCEPT ![call[k].access].alive = FALSE], old)
    /\ Answer(k, Len(granted) + 1)
    /\ UNCHANGED <<joins, joined>>

\* One token, or all of the account.
Revokes(k) ==
    /\ \/ call[k].op = "invalidate" /\ Known(k)
          /\ granted' = [granted EXCEPT ![call[k].access].alive = FALSE]
       \/ call[k].op = "signout"
          /\ granted' = [t \in 1..Len(granted) |->
                            [granted[t] EXCEPT !.alive = @ /\ granted[t].owner # call[k].by]]
    /\ Answer(k, 0)
    /\ UNCHANGED <<joins, joined>>

\* The profile of the request must be the one of the token.
Joins(k) ==
    /\ call[k].op = "join_server" /\ Known(k) /\ call[k].selected
    /\ joins' = joins \cup {<<call[k].by, CalcHash(digest[call[k].login])>>}
    /\ joined' = joined \cup {<<call[k].by, call[k].login>>}
    /\ Answer(k, 0)
    /\ UNCHANGED granted

Refuses(k) == Answer(k, 0) /\ UNCHANGED mojangVars

Mojang(k) ==
    /\ call[k].at = "asked"
    /\ Grants(k) \/ Regrants(k) \/ Revokes(k) \/ Joins(k) \/ Refuses(k)
    /\ UNCHANGED <<profileVars, loginVars>>

-----------------------------------------------------------------------------
(* A login of a server.                                                    *)

\* The encryption request.  No two of them have one digest: the key is new.
\* The name is the one the client gave.
Challenge(l, n, d) ==
    /\ login[l] = "none"
    /\ \A m \in Logins : digest[m] # d
    /\ login' = [login EXCEPT ![l] = "asked"]
    /\ name' = [name EXCEPT ![l] = n]
    /\ digest' = [digest EXCEPT ![l] = d]
    /\ UNCHANGED <<profileVars, call, mojangVars, admitted>>

\* What Mojang is asked: the URL is put together without escaping the name, so
\* that it need not stand for this name and this text when the name has a
\* meaning in a URL.
Query(l) ==
    IF name[l] = UrlName THEN Profiles \X Texts ELSE {<<name[l], CalcHash(digest[l])>>}

\* The name and uuid of the answer become the player's.  An error, or a panic
\* of the hash, ends the login.
VerifyJoin(l) ==
    /\ login[l] = "asked"
    /\ \/ /\ ~HashPanics(digest[l])
          /\ \E join \in joins \cap Query(l) : admitted' = [admitted EXCEPT ![l] = join[1]]
          /\ login' = [login EXCEPT ![l] = "verified"]
       \/ login' = [login EXCEPT ![l] = "refused"] /\ UNCHANGED admitted
    /\ UNCHANGED <<profileVars, call, mojangVars, name, digest>>

-----------------------------------------------------------------------------
Next ==
    \/ \E k \in Calls :
        \/ \E p \in Profiles :
            \/ AskAuthenticate(k, p) \/ AskRefresh(k, p) \/ AskValidate(k, p)
            \/ AskInvalidate(k, p) \/ AskSignout(k, p)
            \/ \E l \in Logins : AskJoinServer(k, p, l)
        \/ NoAnswer(k) \/ Returns(k) \/ Mojang(k)
    \/ \E l \in Logins :
        \/ VerifyJoin(l)
        \/ \E n \in Profiles \cup {UrlName}, d \in Sha1 : Challenge(l, n, d)

Spec == Init /\ [][Next]_vars

-----------------------------------------------------------------------------
(* Properties.                                                             *)

\* A server lets in only accounts that joined a server.  With a name that is
\* only a name in a URL it is the account of that name, and it joined this very
\* login, not another one under a text that reads the same.
VerifiedHasJoined ==
    \A l \in Logins : login[l] = "verified" =>
        /\ \E m \in Logins : <<admitted[l], m>> \in joined
        /\ name[l] # UrlName =>
            admitted[l] = name[l] /\ <<admitted[l], l>> \in joined

\* Both ends name a login as every other client and server of the protocol
\* does: the text is the digest as a signed number in hexadecimal.  The one
\* digest for which it is not so is zero.
HashIsSignedHex ==
    \A l \in Logins : digest[l] \notin {NoOne, ZeroDigest} =>
        IsSignedHex(CalcHash(digest[l]), digest[l])

\* A profile joins servers only as the player Mojang selected for its token,
\* never under the random uuid it was created with.
JoinsAsSelected ==
    \A k \in Calls : call[k].op = "join_server" => call[k].selected

\* The token of a profile is one of its account, and Mojang knows it, unless
\* the account has asked to revoke it, or the answer to a refresh() with this
\* token was not taken yet, or lost.
TokenLossExplained ==
    \A p \in Profiles : access[p] # 0 =>
        /\ granted[access[p]].owner = p
        /\ \/ granted[access[p]].alive
           \/ \E k \in Calls :
                /\ call[k].by = p
                /\ \/ call[k].op = "signout" /\ call[k].at \in {"answered", "taken"}
                   \/ /\ call[k].access = access[p]
                      /\ \/ call[k].op = "invalidate" /\ call[k].at \in {"answered", "taken"}
                         \/ call[k].op = "refresh" /\ call[k].at = "answered" /\ call[k].answer # 0
=============================================================================
