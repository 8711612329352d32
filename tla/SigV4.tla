-------------------------------- MODULE SigV4 ---------------------------------
(***************************************************************************)
(* SigV4Signer of pkg/provider/bedrock, and the service that checks its    *)
(* signatures.                                                             *)
(*                                                                         *)
(* SHA-256 and HMAC are free constructors: two of their values are equal   *)
(* only if they were made of the same things.  Headers are a function from *)
(* lower-case names to values, and a time is a record of a day and a       *)
(* second.  A path is the sequence of its segments, and a segment the      *)
(* sequence of its characters, where a run of characters that no encoding  *)
(* changes counts as one, and so does an encoded one.  The query is left   *)
(* out: the one caller of Sign has none.                                   *)
(***************************************************************************)
EXTENDS Naturals, Sequences, SequencesExt

Hash(x)      == <<"sha256", x>>
Hmac(key, x) == <<"hmac", key, x>>

AmzHeaders == {"x-amz-content-sha256", "x-amz-date", "x-amz-security-token"}

\* sort.Strings on the names of headers that may be signed.
Among(names, name) == IF name \in names THEN <<name>> ELSE <<>>

InByteOrder(names) ==
    Among(names, "content-type") \o Among(names, "host")
    \o Among(names, "x-amz-content-sha256") \o Among(names, "x-amz-date")
    \o Among(names, "x-amz-security-token")

\* Header.Set.
Set(headers, name, value) ==
    [n \in DOMAIN headers \cup {name} |-> IF n = name THEN value ELSE headers[n]]

\* The headers that Sign sets before it signs.
Stamped(headers, creds, host, payload, time) ==
    LET dated == Set(Set(headers, "host", host), "x-amz-date", time)
        keyed == IF creds.session = "" THEN dated
                 ELSE Set(dated, "x-amz-security-token", creds.session)
    IN  Set(keyed, "x-amz-content-sha256", Hash(payload))

\* The headers besides the host that canonicalizeHeaders finds in the map.
Signable(headers) == DOMAIN headers \cap ({"content-type"} \cup AmzHeaders)

\* Mutant: the names are signed in the order in which they were found.
CanonicalNamesUnsorted(found) == <<"host">> \o found

\* canonicalizeHeaders: the headers are found in any order, the one of a Go
\* map, and then sorted.
CanonicalNames(found) == InByteOrder({"host"} \cup ToSet(found))

\* canonicalURI takes the path as it is on the wire; an empty one is "/".
CanonicalURI(path) == IF path = <<>> THEN << <<>> >> ELSE path

CanonicalRequest(uri, headers, names, payload) ==
    [method  |-> "POST",
     uri     |-> uri,
     headers |-> [i \in DOMAIN names |-> <<names[i], headers[names[i]]>>],
     signed  |-> names,
     payload |-> Hash(payload)]

Scope(day, region) ==
    [day |-> day, region |-> region, service |-> "bedrock", end |-> "aws4_request"]

StringToSign(time, scope, canonical) ==
    [algorithm |-> "AWS4-HMAC-SHA256", time |-> time, scope |-> scope,
     request |-> Hash(canonical)]

\* deriveSigningKey.
SigningKey(secret, scope) ==
    Hmac(Hmac(Hmac(Hmac(<<"AWS4", secret>>, scope.day), scope.region),
              scope.service), scope.end)

\* Sign: what becomes of the headers, if those to be signed are found in some
\* order.
Signatures(headers, creds, host, region, path, payload, time) ==
    LET stamped == Stamped(headers, creds, host, payload, time)
        scope   == Scope(time.day, region)
        Authorization(names) ==
            LET canonical ==
                    CanonicalRequest(CanonicalURI(path), stamped, names, payload)
                text      == StringToSign(time, scope, canonical)
            IN  [id |-> creds.id, scope |-> scope, signed |-> names,
                 signature |-> Hmac(SigningKey(creds.secret, scope), text)]
    IN  {Set(stamped, "authorization", Authorization(CanonicalNames(found))) :
            found \in SetToSeqs(Signable(stamped))}
-----------------------------------------------------------------------------
(***************************************************************************)
(* The service knows the secret of each key id and sees nothing but the    *)
(* request.  It makes the canonical request anew from what it received,    *)
(* with the signed headers sorted, and insists that the host and all       *)
(* x-amz-* headers are among them, that the hash is the payload's and that *)
(* the day of the scope is the day of the request.  As every service of    *)
(* AWS but S3 does, it encodes each segment of the path that it received   *)
(* once more, with all that is not a letter, a digit or one of "-._~".     *)
(***************************************************************************)
EncodedAgain(path) ==
    [s \in DOMAIN path |->
        [i \in DOMAIN path[s] |->
            IF path[s][i] = ":" THEN "%3A"
            ELSE IF path[s][i] = "%2F" THEN "%252F"
            ELSE path[s][i]]]

Accepts(secretOf, host, region, path, headers, payload) ==
    LET auth  == headers["authorization"]
        names == InByteOrder(ToSet(auth.signed))
        time  == headers["x-amz-date"]
        scope == Scope(time.day, region)
        text  == StringToSign(time, scope,
                     CanonicalRequest(EncodedAgain(path), headers, names, payload))
    IN  /\ {"host"} \cup (AmzHeaders \cap DOMAIN headers) \subseteq ToSet(auth.signed)
        /\ headers["host"] = host
        /\ headers["x-amz-content-sha256"] = Hash(payload)
        /\ auth.scope = scope
        /\ auth.signature = Hmac(SigningKey(secretOf[auth.id], scope), text)
=============================================================================
