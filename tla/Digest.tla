------------------------------- MODULE Digest -------------------------------
(***************************************************************************)
(* Digest authentication: crates/sipr-auth/src/lib.rs, and <verifyauth> of *)
(* actions.rs.  A header is a sequence of tokens; a hash is a term that    *)
(* names what it is of, so that two are the same when their arguments are. *)
(* The functions of Milenage are terms as well, and masking with a key     *)
(* stream is undone by the same stream only.                               *)
(***************************************************************************)
EXTENDS Integers, Sequences, SequencesExt

Blanks == {" ", "\t"}
NoValue == <<"no value">>

\* The tokens that a peer may write in another case.
Folded(token) ==
    CASE token \in {"digest", "DIGEST"} -> "Digest"
      [] token = "Realm"                -> "realm"
      [] token = "TRUE"                 -> "true"
      [] token = "sha-256"              -> "SHA-256"
      [] token = "AUTH"                 -> "auth"
      [] OTHER                          -> token
Same(text, other) == [i \in DOMAIN text |-> Folded(text[i])] = [i \in DOMAIN other |-> Folded(other[i])]

RECURSIVE WithoutLeading(_, _)
WithoutLeading(s, chars) == IF s # << >> /\ Head(s) \in chars THEN WithoutLeading(Tail(s), chars) ELSE s
Trimmed(s) == Reverse(WithoutLeading(Reverse(WithoutLeading(s, Blanks)), Blanks))
Place(s, c) == SelectInSeq(s, LAMBDA d : d = c)
Until(s, at) == SubSeq(s, 1, IF at = 0 THEN Len(s) ELSE at - 1)
From(s, at) == IF at = 0 THEN << >> ELSE SubSeq(s, at, Len(s))

-----------------------------------------------------------------------------
(* parse_params.                                                           *)

ValueOf(after) ==
    IF after # << >> /\ Head(after) = "\""
    THEN LET end == Place(Tail(after), "\"")
         IN  [value |-> Until(Tail(after), end), rest |-> From(Tail(after), IF end = 0 THEN 0 ELSE end + 1)]
    ELSE LET end == Place(after, ",") IN [value |-> Trimmed(Until(after, end)), rest |-> From(after, end)]

RECURSIVE ParseParams(_)
ParseParams(s) ==
    LET rest == WithoutLeading(s, {",", " ", "\t"})
        eq == Place(rest, "=")
        key == Trimmed(Until(rest, eq))
        v == ValueOf(From(rest, eq + 1))
    IN  IF eq = 0 THEN << >>
        ELSE (IF key = << >> THEN << >> ELSE <<[key |-> key, value |-> v.value]>>) \o ParseParams(v.rest)

-----------------------------------------------------------------------------
(* parse_challenge: the last of a parameter counts.                        *)

LastParam(params, key) ==
    LET at == SelectLastInSeq(params, LAMBDA p : Same(p.key, <<key>>)) IN IF at = 0 THEN NoValue ELSE params[at].value
\* An algorithm is told by how its name begins.
AlgorithmOf(value) ==
    IF value # << >> /\ Folded(Head(value)) \in {"SHA-256", "AKAv1-MD5"} THEN Folded(Head(value)) ELSE "MD5"
\* One of the items between commas is auth.
OffersAuth(value) ==
    \E i, j \in DOMAIN value :
        /\ i = 1 \/ value[i - 1] = ","
        /\ j = Len(value) \/ value[j + 1] = ","
        /\ i <= j /\ Same(Trimmed(SubSeq(value, i, j)), <<"auth">>)

NoChallenge == [ok |-> FALSE]
ParseChallenge(value, proxy) ==
    LET params == ParseParams(Tail(Trimmed(value)))
        param(key) == LastParam(params, key)
    IN  IF Trimmed(value) = << >> \/ Head(Trimmed(value)) # "Digest" \/ param("realm") = NoValue \/ param("nonce") = NoValue
        THEN NoChallenge
        ELSE [ok |-> TRUE, realm |-> param("realm"), nonce |-> param("nonce"), opaque |-> param("opaque"),
              algorithm |-> AlgorithmOf(param("algorithm")), qopAuth |-> OffersAuth(param("qop")),
              stale |-> Same(param("stale"), <<"true">>), proxy |-> proxy]

\* on_matched: a recv with auth takes the challenge of the server, else that of a proxy.
Captured(msg) ==
    LET own == IF msg.www = NoValue THEN NoChallenge ELSE ParseChallenge(msg.www, FALSE)
    IN  IF own.ok \/ msg.proxy = NoValue THEN own ELSE ParseChallenge(msg.proxy, TRUE)

-----------------------------------------------------------------------------
(* aka_challenge_response.  A nonce that is no text of Nonces does not     *)
(* decode, or is too short.                                                *)

Garbled == -2
F(function, keys, args) == ToString(<<function, keys.k, keys.opc, args>>)
Masked(sqn, stream) == <<sqn, stream>>
Unmasked(m, stream) == IF m[2] = stream THEN m[1] ELSE Garbled
Base64(bytes) == <<ToString(bytes)>>

Opc(k, op) == <<F("opc", [k |-> k, opc |-> op], << >>)>>

\* What a server with its keys and sequence number sends.
AkaNonce(keys, rand, sqn) ==
    [rand |-> rand, sqnAk |-> Masked(sqn, F("f5", keys, rand)), amf |-> 1, mac |-> F("f1", keys, <<rand, sqn, 1>>)]
NonceText(n) == Base64(<<n.rand, n.sqnAk, n.amf, n.mac>>)

NoSqn == -1      \* no aka_sqn=
NoAmf == 0       \* no aka_AMF=
Keys(k, ms, force) == [k |-> <<k, "2">>, opc |-> <<"1", "1">>, amf |-> NoAmf, sqnMs |-> ms, forceResync |-> force]
Nonces == {AkaNonce(Keys(k, NoSqn, FALSE), rand, sqn) : k \in {"1", "3"}, rand \in {"r1", "r2"}, sqn \in 0..4}

OutOfRange(sqn, sqnMs) == sqn <= sqnMs
Auts(keys, rand, ms) ==
    Base64(<<Masked(ms, F("f5*", keys, rand)), F("f1*", keys, <<rand, ms, 0>>)>>)
Failed(why) == [ok |-> FALSE, why |-> why]

AkaChallengeResponse(text, keys) ==
    LET nonce == CHOOSE n \in Nonces : NonceText(n) = text
        sqn == Unmasked(nonce.sqnAk, F("f5", keys, nonce.rand))
        amf == IF keys.amf = NoAmf THEN nonce.amf ELSE keys.amf
        ms == IF keys.sqnMs = NoSqn THEN sqn ELSE keys.sqnMs
        resync == keys.forceResync \/ (keys.sqnMs # NoSqn /\ OutOfRange(sqn, keys.sqnMs))
    IN  IF ~\E n \in Nonces : NonceText(n) = text THEN Failed("AkaNonceMalformed")
        ELSE IF F("f1", keys, <<nonce.rand, sqn, amf>>) # nonce.mac THEN Failed("AkaMacMismatch")
        ELSE [ok |-> TRUE, res |-> <<F("f2", keys, nonce.rand)>>,
              auts |-> IF resync THEN Auts(keys, nonce.rand, ms) ELSE NoValue]

-----------------------------------------------------------------------------
(* authorization_header.                                                   *)

Hash(algorithm, text) == <<ToString(<<IF algorithm = "SHA-256" THEN "sha256_hex" ELSE "md5_hex", text>>)>>
Colons(parts) == FlattenSeq([i \in DOMAIN parts |-> IF i = 1 THEN parts[i] ELSE <<":">> \o parts[i]])

\* The password is the subscriber's secret answer, or, to resynchronise, none.
NoKeys == [k |-> << >>]
ResolvePassword(ch, cred) ==
    LET aka == AkaChallengeResponse(ch.nonce, cred.aka)
    IN  IF ch.algorithm # "AKAv1-MD5" THEN [ok |-> TRUE, password |-> cred.password, auts |-> NoValue]
        ELSE IF cred.aka = NoKeys THEN Failed("AkaKeysMissing")
        ELSE IF ~aka.ok THEN aka
        ELSE [ok |-> TRUE, password |-> IF aka.auts = NoValue THEN aka.res ELSE << >>, auts |-> aka.auts]

ResponseFor(ch, cred, password) ==
    LET ha1 == Hash(ch.algorithm, Colons(<<cred.username, ch.realm, password>>))
        ha2 == Hash(ch.algorithm, Colons(<<cred.method, cred.uri>>))
    IN  Hash(ch.algorithm, Colons(IF ch.qopAuth THEN <<ha1, ch.nonce, cred.nc, cred.cnonce, <<"auth">>, ha2>>
                                  ELSE <<ha1, ch.nonce, ha2>>))

Quoted(key, value) == <<key, "=", "\"">> \o value \o <<"\"">>
Plain(key, value) == <<key, "=">> \o value
More == <<",", " ">>
Unless(absent, text) == IF absent THEN << >> ELSE More \o text

AuthorizationHeader(ch, cred) ==
    LET p == ResolvePassword(ch, cred)
    IN  IF ~p.ok THEN p
        ELSE [ok |-> TRUE, name |-> IF ch.proxy THEN "Proxy-Authorization" ELSE "Authorization", value |->
              <<"Digest", " ">> \o Quoted("username", cred.username) \o More \o Quoted("realm", ch.realm)
              \o More \o Quoted("nonce", ch.nonce) \o More \o Quoted("uri", cred.uri)
              \o More \o Quoted("response", ResponseFor(ch, cred, p.password)) \o More \o Plain("algorithm", <<ch.algorithm>>)
              \o Unless(~ch.qopAuth, Plain("qop", <<"auth">>) \o More \o Quoted("cnonce", cred.cnonce)
                                        \o More \o Plain("nc", cred.nc))
              \o Unless(ch.opaque = NoValue, Quoted("opaque", ch.opaque))
              \o Unless(p.auts = NoValue, Quoted("auts", p.auts))]

-----------------------------------------------------------------------------
(* verify_authorization: the first of a parameter counts.  authUri is      *)
(* -auth_uri, for verifier and client alike.                               *)

FirstParam(params, key) ==
    LET at == SelectInSeq(params, LAMBDA p : Same(p.key, <<key>>)) IN IF at = 0 THEN << >> ELSE params[at].value
AlgorithmGiven(value) ==
    IF value = << >> \/ Folded(Head(value)) = "MD5" THEN "MD5"
    ELSE IF Folded(Head(value)) = "SHA-256" THEN "SHA-256" ELSE "unsupported"

VerifyAuthorization(header, username, password, method, body, authUri) ==
    LET text == Trimmed(header)
        params == ParseParams(Tail(text))
        param(key) == FirstParam(params, key)
        algorithm == AlgorithmGiven(param("algorithm"))
        uri == IF authUri = NoValue THEN param("uri") ELSE <<"sip:">> \o authUri
        hash(parts) == Hash(algorithm, Colons(parts))
        ha1 == hash(<<username, param("realm"), password>>)
        ha2 == IF Contains(param("qop"), "auth-int") THEN hash(<<method, uri, Hash(algorithm, body)>>)
               ELSE hash(<<method, uri>>)
        expected == IF param("cnonce") = << >> THEN hash(<<ha1, param("nonce"), ha2>>)
                    ELSE hash(<<ha1, param("nonce"), param("nc"), param("cnonce"), param("qop"), ha2>>)
    IN  IF text = << >> \/ Folded(Head(text)) # "Digest" THEN Failed("NotDigest")
        ELSE IF algorithm = "unsupported" THEN Failed("UnsupportedAlgorithm")
        ELSE [ok |-> TRUE, verified |-> expected = param("response")]

\* verify_auth: what <verifyauth> writes to its variable.
VerifyAuth(msg, username, password, authUri) ==
    LET r == VerifyAuthorization(msg.authorization, username, password, msg.method, msg.body, authUri)
    IN  /\ msg.method # << >> /\ msg.authorization # NoValue
        /\ r.ok /\ r.verified

-----------------------------------------------------------------------------
(* Properties.                                                             *)

\* What sipr answers to a challenge, sipr verifies: for the password and the request
\* it was made for, and no other; a proxy's challenge counts when the server has
\* none.  An AKA challenge is not one that verifyauth knows, nor one to answer with
\* a password alone.
Cred == [username |-> <<"u">>, password |-> <<"p">>, uri |-> <<"sip:", "h">>, method |-> <<"INVITE">>,
         cnonce |-> <<"c">>, nc |-> <<"00000001">>, aka |-> NoKeys]
AnswersVerify(www, challenge) ==
    LET ch == Captured([www |-> www, proxy |-> challenge])
        answer == AuthorizationHeader(ch, Cred)
        given == [authorization |-> answer.value, method |-> <<"INVITE">>, body |-> << >>]
    IN  ch.ok =>
          /\ ch.proxy /\ (answer.ok <=> ch.algorithm # "AKAv1-MD5")
          /\ answer.ok =>
                \A password \in {<<"p">>, <<"q">>}, method \in {<<"INVITE">>, <<"BYE">>}, uri \in {NoValue, <<"h">>, <<"i">>} :
                    VerifyAuth([given EXCEPT !.method = method], Cred.username, password, uri)
                        <=> password = <<"p">> /\ method = <<"INVITE">> /\ uri # <<"i">>

\* A server that gives the numbers after its own, and resynchronises on an AUTS it can
\* check, is answered on the second attempt at the latest, with the number accepted
\* greater than the client's: what the answer says is all that the server has.
AkaChallenge(k, rand, sqn) ==
    [ok |-> TRUE, realm |-> <<"r">>, nonce |-> NonceText(AkaNonce(Keys(k, NoSqn, FALSE), rand, sqn)), opaque |-> NoValue,
     algorithm |-> "AKAv1-MD5", qopAuth |-> FALSE, stale |-> FALSE, proxy |-> FALSE]
AkaAnswer(ch, ms, force) == AuthorizationHeader(ch, [Cred EXCEPT !.aka = Keys("1", ms, force)])
Param(answer, key) == FirstParam(ParseParams(Tail(answer.value)), key)
Accepts(ch, answer, rand) == Param(answer, "response") = ResponseFor(ch, Cred, <<F("f2", Keys("1", NoSqn, FALSE), rand)>>)
Told(server, answer, rand) ==
    LET given == {ms \in 0..4 : Param(answer, "auts") = Auts(Keys("1", NoSqn, FALSE), rand, ms)}
    IN  IF given = {} THEN server ELSE CHOOSE ms \in given : TRUE
AkaConverges(sqn, ms) ==
    LET challenge == AkaChallenge("1", "r1", sqn)
        first == AkaAnswer(challenge, ms, FALSE)
        again == AkaChallenge("1", "r2", Told(sqn, first, "r1") + 1)
        second == AkaAnswer(again, ms, FALSE)
    IN  /\ first.ok /\ (Accepts(challenge, first, "r1") <=> (ms = NoSqn \/ sqn > ms))
        /\ Accepts(challenge, first, "r1") \/ Accepts(again, second, "r2")
        /\ ~AkaAnswer(AkaChallenge("3", "r1", sqn), ms, FALSE).ok
        /\ Param(AkaAnswer(challenge, ms, TRUE), "auts") # << >>
=============================================================================
