-------------------------------- MODULE Cookies --------------------------------
(***************************************************************************)
(* The cookies of a response (sanic/cookies/response.py: CookieJar,        *)
(* Cookie), what a client keeps of them, and what a handler then reads     *)
(* (sanic/cookies/request.py).                                             *)
(*                                                                         *)
(* The jar is the Set-Cookie headers of the response, in their order.  A   *)
(* cookie is its key (a name and a prefix), its path and the attributes    *)
(* that a client goes by; its value is the number of the call that added   *)
(* it, and 0 when it is to be deleted.                                     *)
(***************************************************************************)
EXTENDS Selecting, Integers, SequencesExt

CONSTANTS
    CookieNames, \* of cookies
    CookiePaths, \* of cookies and of requests
    MaxSaid      \* bound: calls of add_cookie and delete_cookie

Root == "/"
CookiesAssumption == Root \in CookiePaths /\ MaxSaid \in Nat
ASSUME CookiesAssumption

VARIABLES
    jar,       \* the cookies of the response that is being made
    store,     \* what the client keeps
    secured,   \* whether the client comes by HTTPS
    word,      \* the last word that was given on a cookie: its value, 0 for none, or Unsure
    said

cookie_vars == <<jar, store, secured, word, said>>

KeyPrefixes  == {"", "__Host-", "__Secure-"}
CookieIds == [name : CookieNames, prefix : KeyPrefixes, path : CookiePaths]
Unsure     == -1
WordOn(id) == IF id \in DOMAIN word THEN word[id] ELSE 0
Id(cookie) == [name |-> cookie.name, prefix |-> cookie.prefix, path |-> cookie.path]

CookiesInit ==
    /\ jar = <<>> /\ store = {} /\ secured \in BOOLEAN
    /\ word = <<>> /\ said = 0

CookiesOff ==
    /\ jar = <<>> /\ store = {} /\ secured = FALSE
    /\ word = <<>> /\ said = MaxSaid

-----------------------------------------------------------------------------
(* The jar *)

\* the arguments of both calls, without those that no check and no client of this model heeds
Arguments ==
    [name : CookieNames, path : CookiePaths, secure : BOOLEAN, host_prefix : BOOLEAN, secure_prefix : BOOLEAN]

\* Cookie.make_key; it raises when both are asked for
BothPrefixes(a) == a.host_prefix /\ a.secure_prefix
Prefix(a) ==
    IF a.host_prefix THEN "__Host-" ELSE IF a.secure_prefix THEN "__Secure-" ELSE ""
IsMeant(a, cookie) == Id(cookie) = [name |-> a.name, prefix |-> Prefix(a), path |-> a.path]

\* Cookie.__init__
Refused(a, partitioned) ==
    \/ a.host_prefix /\ (~a.secure \/ a.path # Root)
    \/ a.secure_prefix /\ ~a.secure
    \/ partitioned /\ ~a.host_prefix
    \/ BothPrefixes(a)

CookieOf(a, partitioned, value) ==
    [name |-> a.name, prefix |-> Prefix(a), path |-> a.path, secure |-> a.secure,
     partitioned |-> partitioned, value |-> value]

\* What is said of a cookie counts if the client will heed it: a secure one needs HTTPS, and
\* there are two of a cookie once one is partitioned.
Says(cookie, value) ==
    LET unheeded == cookie.partitioned \/ (cookie.secure /\ ~secured)
    IN  word' = Updated(word, [id \in {Id(cookie)} |->
                                  IF unheeded \/ WordOn(id) = Unsure THEN Unsure ELSE value])
Doubts(cookies) ==
    word' = Updated(word, [id \in {Id(c) : c \in cookies} |-> Unsure])

AddCookie(a, partitioned) ==
    LET cookie == CookieOf(a, partitioned, said + 1)
    IN  /\ said < MaxSaid /\ said' = said + 1
        /\ IF Refused(a, partitioned)
           THEN UNCHANGED <<jar, word>>
           ELSE jar' = Append(jar, cookie) /\ Says(cookie, said + 1)
        /\ UNCHANGED <<store, secured>>

\* as if the path did not matter
DeleteAnyPath(a) ==
    LET meant    == {i \in DOMAIN jar : jar[i].name = a.name /\ jar[i].prefix = Prefix(a)}
        others   == Kept(jar, ToSet(jar) \ {jar[i] : i \in meant})
        deletion == IF meant = {} THEN CookieOf(a, FALSE, 0) ELSE [jar[Min(meant)] EXCEPT !.value = 0]
    IN  /\ said < MaxSaid /\ said' = said + 1
        /\ ~Refused(a, deletion.partitioned)
        /\ jar' = Append(others, deletion) /\ Says(CookieOf(a, FALSE, 0), 0)
        /\ UNCHANGED <<store, secured>>

\* The cookies are popped and those not meant put back.  The deletion is like the first that
\* was meant; what was meant is lost if Cookie refuses the deletion, and everything is if the
\* key cannot be made.
DeleteCookie(a) ==
    LET meant    == {i \in DOMAIN jar : IsMeant(a, jar[i])}
        others   == Kept(jar, ToSet(jar) \ {jar[i] : i \in meant})
        deletion == IF meant = {} THEN CookieOf(a, FALSE, 0) ELSE [jar[Min(meant)] EXCEPT !.value = 0]
    IN  /\ said < MaxSaid /\ said' = said + 1
        /\ IF (a.host_prefix /\ ~(a.secure /\ a.path = Root)) \/ (a.secure_prefix /\ ~a.secure)
           THEN UNCHANGED <<jar, word>>
           ELSE IF BothPrefixes(a)
           THEN jar' = <<>> /\ Doubts(ToSet(jar))
           ELSE IF Refused([a EXCEPT !.secure = deletion.secure], deletion.partitioned)
           THEN jar' = others /\ Doubts({jar[i] : i \in meant})
           ELSE jar' = Append(others, deletion) /\ Says(deletion, 0)
        /\ UNCHANGED <<store, secured>>

\* cookie.secure = False, which nothing checks any more
Expose(i) ==
    /\ jar[i].secure /\ jar[i].value # 0
    /\ jar' = [jar EXCEPT ![i].secure = FALSE]
    /\ Doubts({jar[i]})
    /\ UNCHANGED <<store, secured, said>>

-----------------------------------------------------------------------------
(* The client *)

\* it refuses what a prefix forbids, and what is secure unless it comes by HTTPS
Heeds(cookie) ==
    /\ cookie.prefix # "" \/ cookie.partitioned => cookie.secure
    /\ cookie.prefix = "__Host-" => cookie.path = Root
    /\ cookie.secure => secured

Stored(cookies, cookie) ==
    LET others == {c \in cookies : Id(c) # Id(cookie) \/ c.partitioned # cookie.partitioned}
    IN  IF ~Heeds(cookie) THEN cookies
        ELSE IF cookie.value = 0 THEN others ELSE others \cup {cookie}

\* after the cookies of a response, one after the other
StoredAll(cookies, sent) ==
    LET after[n \in 0..Len(sent)] ==
            IF n = 0 THEN cookies ELSE Stored(after[n - 1], sent[n])
    IN  after[Len(sent)]

SendCookies ==
    /\ jar # <<>>
    /\ store' = StoredAll(store, jar)
    /\ jar' = <<>>
    /\ UNCHANGED <<secured, word, said>>

\* what it sends with a request for the path, of a prefix and name: the longer path first
SentWith(path, prefix, name) ==
    LET of(p) == {c \in store : c.name = name /\ c.prefix = prefix /\ c.path = p}
    IN  IF of(path) # {} THEN of(path) ELSE of(Root)

\* CookieRequestParameters.get
Get(path, name) ==
    LET sent(prefix) == SentWith(path, prefix, name)
        first == IF sent("__Host-") # {} THEN "__Host-"
                 ELSE IF sent("__Secure-") # {} THEN "__Secure-" ELSE ""
    IN  IF sent(first) = {} THEN 0 ELSE (CHOOSE c \in sent(first) : TRUE).value

CookiesNext ==
    \/ \E a \in Arguments, partitioned \in BOOLEAN : AddCookie(a, partitioned)
    \/ \E a \in Arguments : DeleteCookie(a)
    \/ \E i \in DOMAIN jar : Expose(i)
    \/ SendCookies

CookiesSpec == CookiesInit /\ [][CookiesNext]_cookie_vars

-----------------------------------------------------------------------------
CookiesTypeOK ==
    /\ jar \in Seq([name : CookieNames, prefix : KeyPrefixes, path : CookiePaths, secure : BOOLEAN,
                    partitioned : BOOLEAN, value : 0..MaxSaid])
    /\ ToSet(jar) \cup store \subseteq
            [name : CookieNames, prefix : KeyPrefixes, path : CookiePaths, secure : BOOLEAN,
             partitioned : BOOLEAN, value : 0..MaxSaid]
    /\ secured \in BOOLEAN /\ DOMAIN word \subseteq CookieIds /\ said \in 0..MaxSaid
    /\ \A id \in DOMAIN word : word[id] \in Unsure..MaxSaid

\* Once a response is out, whatever was added, deleted, added again or refused in it and in those
\* before it, request.cookies.get() of a name is the last word on the cookie of that name that
\* goes first: the one with the __Host- prefix, then __Secure-, then none, and of these the one
\* of the longer path.  Nothing is said of names on which a word was given that a client does not
\* heed, or that was lost when a call raised.
LastWordRead ==
    jar = <<>> =>
        \A path \in CookiePaths, name \in {id.name : id \in DOMAIN word} :
            LET last(prefix) ==
                    LET at(p) == WordOn([name |-> name, prefix |-> prefix, path |-> p])
                    IN  IF at(path) # 0 THEN at(path) ELSE at(Root)
                first == IF last("__Host-") # 0 THEN "__Host-"
                         ELSE IF last("__Secure-") # 0 THEN "__Secure-" ELSE ""
            IN  (\A id \in DOMAIN word : id.name = name => word[id] # Unsure) =>
                    Get(path, name) = last(first)
===============================================================================
